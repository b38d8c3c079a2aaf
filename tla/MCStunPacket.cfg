SPECIFICATION Spec
CONSTANT Received <- MCReceived
CONSTANT Built <- MCBuilt
CONSTANT MaxDatagram <- MCMaxDatagram
INVARIANT AcceptsWellFormed
INVARIANT ScanInBounds
INVARIANT LastAttributeCounts
INVARIANT RoundTrip
