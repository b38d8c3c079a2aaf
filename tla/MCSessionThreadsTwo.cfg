SPECIFICATION Spec
CONSTANT Sessions <- MCOneSession
CONSTANT Peers <- MCPeers
CONSTANT Contacts <- MCTwoAddresses
CONSTANT NumLoops = 2
CONSTANT MaxDatagrams = 3
CONSTANT MaxFrames = 1
CONSTANT NoPeer = NoPeer
CONSTANT NoSession = NoSession
INVARIANT SendsInLoopThread
CHECK_DEADLOCK FALSE
