SPECIFICATION PtrSpec
CONSTANTS
  Holders = {t1, t2}
  Ptrs = {p1, p2}
  Nobody = Nobody
  FirstHolder = t1
  FirstPtr = p1
INVARIANT LastReleaseOnce
CHECK_DEADLOCK FALSE
