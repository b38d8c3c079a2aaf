CONSTANTS
  Transports = {t1, t2, t3}
  Fragments = {f1, f2}
  NoSession = NoSession
  Files <- MCFiles
SPECIFICATION ServerSpec
INVARIANTS
  ErrorsRelease
  SessionsComplete
  FreedOnceElsewhere
  PacketsReleased
PROPERTIES
  MediaFlows
CHECK_DEADLOCK FALSE
