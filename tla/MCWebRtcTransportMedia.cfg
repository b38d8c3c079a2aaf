SPECIFICATION TransportSpec
CONSTANT Ufrags <- MCUfrags
CONSTANT Passwords <- MCPasswords
CONSTANT Tuples <- MCTuples
INVARIANT MediaIsEncrypted
CHECK_DEADLOCK FALSE
