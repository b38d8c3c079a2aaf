SPECIFICATION IceSpec
CONSTANT Ufrags <- MCUfrags
CONSTANT Passwords <- MCPasswords
CONSTANT Tuples <- MCTuples
INVARIANT IceConsistent
PROPERTY ImplementsIceLite
