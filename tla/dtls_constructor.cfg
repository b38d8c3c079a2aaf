CONSTANTS
  Transports = {t1, t2, t3}
  Fragments = {f1, f2}
  NoSession = NoSession
  Files <- MCFiles
SPECIFICATION ServerSpec
INVARIANT FreedOnce
CHECK_DEADLOCK FALSE
