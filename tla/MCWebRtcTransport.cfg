SPECIFICATION TransportSpec
CONSTANT Ufrags <- MCUfrags
CONSTANT Passwords <- MCPasswords
CONSTANT Tuples <- MCTuples
INVARIANT DtlsFollowsIce
 
INVARIANT SessionIsOutbound
PROPERTY ImplementsSecureChannel
CHECK_DEADLOCK FALSE
