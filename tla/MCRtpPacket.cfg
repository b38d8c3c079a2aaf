SPECIFICATION Spec
CONSTANT Received <- MCReceived
CONSTANT Uninitialized <- MCUninitialized
INVARIANT RtpTypeOK
INVARIANT DemuxExclusive
INVARIANT ReadsInBounds
INVARIANT PacketPartitioned
INVARIANT AcceptsUnits
PROPERTY HandlerReturns
