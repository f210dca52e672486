CONSTANTS
  Chars = {x, r}
  Return = r
  x = x
  r = r
  MaxLength = 3
SPECIFICATION Spec
INVARIANTS
  TypeOK
  Synced
CHECK_DEADLOCK TRUE
