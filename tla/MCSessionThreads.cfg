SPECIFICATION Spec
CONSTANT Sessions <- MCSessions
CONSTANT Peers <- MCPeers
CONSTANT Contacts <- MCSharedAddress
CONSTANT NumLoops = 2
CONSTANT MaxDatagrams = 3
CONSTANT MaxFrames = 1
CONSTANT NoPeer = NoPeer
CONSTANT NoSession = NoSession
INVARIANT LoopKnownWhenReady
INVARIANT SingleDriver
INVARIANT AssertsOnlyWhenMoved
INVARIANT AnswersGoToSender
INVARIANT FirstBindingDoesNotRace
PROPERTY ContactIsAnswered
PROPERTY SocketsDrain
CHECK_DEADLOCK FALSE
