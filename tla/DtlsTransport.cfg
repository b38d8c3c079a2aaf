SPECIFICATION DtlsSpec
INVARIANT HandshakeCoherent
INVARIANT AbortsOnlyOnExport
INVARIANT KeysAgree
PROPERTY ConnectedOnce
PROPERTY NeverTimesOut
PROPERTY CloseNoticed
CHECK_DEADLOCK FALSE
