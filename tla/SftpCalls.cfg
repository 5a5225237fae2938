\* Calls of one SFTP session while other clients change the directory.
SPECIFICATION Spec
CONSTANTS
  dot = dot
  log = log
  text = text
  raw = raw
  Names <- MCNames
  Hidden = {dot}
  Undecodable = {raw}
  Rank <- MCRank
  NIL = NIL
  MaxOpens = 1
  MaxChanges = 1
INVARIANTS
  TypeOK
  ItemsWereThere
  ListsWhatStayed
  LeftOpenWereReplaced
  CompareOrders
PROPERTY ListingReturns
\* the session is gone
CHECK_DEADLOCK FALSE
