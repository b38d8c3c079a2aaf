--------------------------- MODULE SessionThreads ----------------------------
(***************************************************************************)
(* The threads of the server around the WebRtcTransports: the main loop,   *)
(* which creates sessions and accepts the datagrams of unknown peers       *)
(* (session/webrtc_session.cc, net/udp_server.cc), the IO loops, one of    *)
(* which serves each connection (net/udp_connection.cc), and the media     *)
(* thread of example/rtp_src_example.cc.                                   *)
(*                                                                         *)
(* HandlePacket runs on the main loop and writes session fields that the   *)
(* other threads read without a lock, so that it is split at each such     *)
(* write.  A functor or a read event of an IO loop is one step.  What a    *)
(* WebRtcTransport does with a packet is modelled in WebRtcTransport; here *)
(* it matters which thread runs it and through which connection it sends.  *)
(***************************************************************************)
EXTENDS Integers, Sequences

CONSTANTS
  Sessions,      \* identified by their ICE username fragment
  Peers,         \* remote addresses, the keys of UdpServer::connections_
  Contacts,      \* <<p, s>>: peer p sends STUN with the username of s
  NumLoops,      \* num_threads of UdpServer
  MaxDatagrams,  \* bound on the datagrams the peers send
  MaxFrames,     \* bound on the packets of the media source
  NoPeer, NoSession

ASSUME ThreadsAssumption ==
  /\ Contacts \subseteq Peers \X Sessions
  /\ NumLoops \in Nat \ {0}
  /\ MaxDatagrams \in Nat /\ MaxFrames \in Nat
  /\ NoPeer \notin Peers /\ NoSession \notin Sessions

VARIABLES
  created,    \* sessions in WebRTCSessionFactory::rtc_sessions
  transport,  \* s -> the peer of the connection behind WebRtcTransport::transport_
  bound,      \* s -> the peers whose connections it has been given (history)
  loop,       \* s -> WebRTCSession::loop_, NoLoop while uninitialised
  ready,      \* sessions whose is_ready_ is true
  connLoop,   \* p -> the loop of connections_[p], NoLoop when there is none
  nextLoop,   \* round-robin position of EventLoopThreadPool
  callback,   \* p -> the session that the connection's callback_ belongs to
  reading,    \* connections whose channel has reading enabled
  listenQ,    \* datagrams queued on the listening socket
  sockQ,      \* p -> datagrams queued on the socket of connections_[p]
  strays,     \* peers whose socket was given another peer's datagram (history)
  queue,      \* l -> pending functors of IO loop l
  main,       \* where the main loop is in HandlePacket
  batch,      \* sessions the media thread still has to post to
  sentCount, frames,       \* counters for the bounds
  driven,     \* s -> the loops that have run s's WebRtcTransport (history)
  selected,   \* s -> the address that IceServer has selected
  astray,     \* sessions whose answer did not go to who asked (history)
  fault       \* "none", or what ended the process

sessionVars == <<created, transport, bound, loop, ready>>
netVars == <<connLoop, nextLoop, callback, reading>>
kernelVars == <<listenQ, sockQ, strays, sentCount>>
mediaVars == <<batch, frames>>
historyVars == <<driven, selected, astray, fault>>
vars == <<sessionVars, netVars, kernelVars, queue, main, mediaVars, historyVars>>

Loops == 1 .. NumLoops
NoLoop == 0

Functor(kind, peer, session) == [kind |-> kind, peer |-> peer, session |-> session]

IdleMain == [at |-> "idle", peer |-> NoPeer, session |-> NoSession]

Running == fault = "none"

Init ==
  /\ created = {} /\ ready = {}
  /\ transport = [s \in Sessions |-> NoPeer] /\ bound = [s \in Sessions |-> {}]
  /\ loop = [s \in Sessions |-> NoLoop]
  /\ connLoop = [p \in Peers |-> NoLoop]
  /\ nextLoop = 1
  /\ callback = [p \in Peers |-> NoSession]
  /\ reading = {}
  /\ listenQ = <<>> /\ sockQ = [p \in Peers |-> <<>>] /\ strays = {}
  /\ queue = [l \in Loops |-> <<>>]
  /\ main = IdleMain
  /\ batch = {} /\ sentCount = 0 /\ frames = 0
  /\ driven = [s \in Sessions |-> {}] /\ selected = [s \in Sessions |-> NoPeer]
  /\ astray = {} /\ fault = "none"

----------------------------------------------------------------------------
(* The kernel: a datagram goes to the connected socket of its sender.  If  *)
(* there is none it goes to a socket that is bound to the port and not     *)
(* connected: the listening socket, or, inside the constructor of          *)
(* UdpConnection, the new one.                                             *)
Arrive ==
  /\ Running /\ sentCount < MaxDatagrams
  /\ sentCount' = sentCount + 1
  /\ \E c \in Contacts :
       \/ /\ connLoop[c[1]] = NoLoop
          /\ listenQ' = Append(listenQ, c)
          /\ UNCHANGED <<sockQ, strays>>
       \/ \E p \in Peers :
            /\ IF connLoop[c[1]] = NoLoop THEN main.at = "connect" /\ main.peer = p
                                          ELSE c[1] = p
            /\ sockQ' = [sockQ EXCEPT ![p] = Append(@, c)]
            /\ strays' = strays \cup ({p} \ {c[1]})
            /\ UNCHANGED listenQ
  /\ UNCHANGED <<sessionVars, netVars, queue, main, mediaVars, historyVars>>

----------------------------------------------------------------------------
(* The main loop.                                                          *)

(* The HTTP callback: CreateWebRTCSession. *)
CreateSession(s) ==
  /\ Running /\ main.at = "idle"
  /\ s \notin created
  /\ created' = created \cup {s}
  /\ UNCHANGED <<transport, bound, loop, ready, netVars, kernelVars, queue, main,
                 mediaVars, historyVars>>

(* Mutant: is_ready_ is stored before loop_. *)
NextStep_ReadyFirst(at) ==
  CASE at = "connect" -> "transport"
    [] at = "transport" -> "callback"
    [] at = "callback" -> "start"
    [] at = "start" -> "ready"
    [] at = "ready" -> "loop"
    [] at = "loop" -> "post"

(* Mutant: the WebRtcTransport gets its transport_ last. *)
NextStep_TransportLast(at) ==
  CASE at = "connect" -> "callback"
    [] at = "callback" -> "start"
    [] at = "start" -> "loop"
    [] at = "loop" -> "ready"
    [] at = "ready" -> "transport"
    [] at = "transport" -> "post"

(* Mutant: the connection is started first. *)
NextStep_StartFirst(at) ==
  CASE at = "connect" -> "start"
    [] at = "start" -> "transport"
    [] at = "transport" -> "callback"
    [] at = "callback" -> "loop"
    [] at = "loop" -> "ready"
    [] at = "ready" -> "post"

(* The order of HandlePacket and of SetNetworkTransport inside it. *)
NextStep(at) ==
  CASE at = "connect" -> "transport"
    [] at = "transport" -> "callback"
    [] at = "callback" -> "start"
    [] at = "start" -> "loop"
    [] at = "loop" -> "ready"
    [] at = "ready" -> "post"

At(step) == Running /\ main.at = step

Advance == main' = [main EXCEPT !.at = NextStep(@)]

(* UdpServer::HandleRead and the first half of HandlePacket: a datagram    *)
(* for an unknown session is dropped.                                      *)
HandlePacket ==
  /\ At("idle") /\ listenQ # <<>>
  /\ listenQ' = Tail(listenQ)
  /\ LET p == Head(listenQ)[1]
         s == Head(listenQ)[2]
     IN main' = IF s \in created
                THEN [at |-> "connection", peer |-> p, session |-> s]
                ELSE IdleMain
  /\ UNCHANGED <<sessionVars, netVars, sockQ, strays, sentCount, queue, mediaVars, historyVars>>

(* GetOrCreatConnection finds the connection of the peer, or makes a       *)
(* socket and binds it.                                                    *)
GetOrCreatConnection ==
  /\ At("connection")
  /\ main' = [main EXCEPT !.at = IF connLoop[main.peer] # NoLoop THEN NextStep("connect")
                                                                ELSE "connect"]
  /\ UNCHANGED <<sessionVars, netVars, kernelVars, queue, mediaVars, historyVars>>

(* The socket is connected, on the next loop of the pool, and the          *)
(* connection stored.  What was queued on the socket stays there.          *)
Connect ==
  /\ At("connect")
  /\ connLoop' = [connLoop EXCEPT ![main.peer] = nextLoop]
  /\ nextLoop' = (nextLoop % NumLoops) + 1
  /\ Advance
  /\ UNCHANGED <<sessionVars, callback, reading, kernelVars, queue, mediaVars, historyVars>>

(* network_transport_ and WebRtcTransport::transport_ are replaced. *)
SetTransport ==
  /\ At("transport")
  /\ transport' = [transport EXCEPT ![main.session] = main.peer]
  /\ bound' = [bound EXCEPT ![main.session] = @ \cup {main.peer}]
  /\ Advance
  /\ UNCHANGED <<created, loop, ready, netVars, kernelVars, queue, mediaVars, historyVars>>

SetPacketCallback ==
  /\ At("callback")
  /\ callback' = [callback EXCEPT ![main.peer] = main.session]
  /\ Advance
  /\ UNCHANGED <<sessionVars, connLoop, nextLoop, reading, kernelVars, queue,
                 mediaVars, historyVars>>

(* Mutant: the channel is not enabled. *)
Start_NotEnabled ==
  /\ At("start")
  /\ Advance
  /\ UNCHANGED <<sessionVars, netVars, kernelVars, queue, mediaVars, historyVars>>

(* UdpConnection::Start: runInLoop(enableReading) on the connection's loop. *)
Start ==
  /\ At("start")
  /\ queue' = [queue EXCEPT ![connLoop[main.peer]] =
                 Append(@, Functor("enable", main.peer, main.session))]
  /\ Advance
  /\ UNCHANGED <<sessionVars, netVars, kernelVars, mediaVars, historyVars>>

SetLoop ==
  /\ At("loop")
  /\ loop' = [loop EXCEPT ![main.session] = connLoop[main.peer]]
  /\ Advance
  /\ UNCHANGED <<created, transport, bound, ready, netVars, kernelVars, queue,
                 mediaVars, historyVars>>

StoreReady ==
  /\ At("ready")
  /\ ready' = ready \cup {main.session}
  /\ Advance
  /\ UNCHANGED <<created, transport, bound, loop, netVars, kernelVars, queue,
                 mediaVars, historyVars>>

(* Mutant: the first packet is posted to the base loop's first worker. *)
PostFirstPacket_FixedLoop ==
  /\ At("post")
  /\ queue' = [queue EXCEPT ![1] = Append(@, Functor("input", main.peer, main.session))]
  /\ main' = IdleMain
  /\ UNCHANGED <<sessionVars, netVars, kernelVars, mediaVars, historyVars>>

(* Mutant: the datagram that made the connection is not passed on. *)
PostFirstPacket_Drops ==
  /\ At("post")
  /\ main' = IdleMain
  /\ UNCHANGED <<sessionVars, netVars, kernelVars, queue, mediaVars, historyVars>>

(* session->loop()->runInLoop(OnInputDataPacket). *)
PostFirstPacket ==
  /\ At("post")
  /\ queue' = [queue EXCEPT ![loop[main.session]] =
                 Append(@, Functor("input", main.peer, main.session))]
  /\ main' = IdleMain
  /\ UNCHANGED <<sessionVars, netVars, kernelVars, mediaVars, historyVars>>

MainStep ==
  \/ HandlePacket
  \/ GetOrCreatConnection
  \/ Connect
  \/ SetTransport
  \/ SetPacketCallback
  \/ Start
  \/ SetLoop
  \/ StoreReady
  \/ PostFirstPacket

----------------------------------------------------------------------------
(* The IO loops.                                                           *)

(* Replacing a std::shared_ptr or a std::function while another thread     *)
(* uses it is a data race; the process may survive it or not.              *)
ReplacesTransport(s) == main.at = "transport" /\ main.session = s

ReplacesCallback(p) == main.at = "callback" /\ main.peer = p

(* The WebRtcTransport of s runs on loop l and sends, through transport_,  *)
(* to UdpConnection::Send, which asserts that it runs on the connection's  *)
(* own loop.                                                               *)
Drive(s, l, racing) ==
  /\ driven' = [driven EXCEPT ![s] = @ \cup {l}]
  /\ fault' \in
       IF transport[s] # NoPeer /\ connLoop[transport[s]] # l THEN {"assert"}
       ELSE {fault} \cup (IF racing THEN {"race"} ELSE {})

(* OnInputDataPacket of a request from p with the username of t.  A        *)
(* request for another session is answered with 401; the first for this    *)
(* one selects its sender's address.  SendPacket ignores the address it is *)
(* given.                                                                  *)
OnInputDataPacket(s, l, p, t, racing) ==
  /\ Drive(s, l, racing)
  /\ selected' = IF t = s /\ selected[s] = NoPeer THEN [selected EXCEPT ![s] = p] ELSE selected
  /\ astray' = IF transport[s] # p THEN astray \cup {s} ELSE astray

(* EventLoop::doPendingFunctors, one functor. *)
RunFunctor(l) ==
  /\ Running /\ queue[l] # <<>>
  /\ queue' = [queue EXCEPT ![l] = Tail(@)]
  /\ LET f == Head(queue[l])
         s == f.session
     IN \/ /\ f.kind = "enable"
           /\ reading' = reading \cup {f.peer}
           /\ UNCHANGED historyVars
        \/ /\ f.kind = "input"
           /\ OnInputDataPacket(s, l, f.peer, s, ReplacesTransport(s))
           /\ UNCHANGED reading
        \/ /\ f.kind = "rtp"
           /\ Drive(s, l, ReplacesTransport(s))
           /\ UNCHANGED <<reading, selected, astray>>
  /\ UNCHANGED <<sessionVars, connLoop, nextLoop, callback, kernelVars, main, mediaVars>>

(* UdpConnection::HandleRead. *)
HandleRead(l, p) ==
  /\ Running /\ connLoop[p] = l /\ p \in reading /\ sockQ[p] # <<>>
  /\ sockQ' = [sockQ EXCEPT ![p] = Tail(@)]
  /\ LET c == Head(sockQ[p])
         s == callback[p]
     IN IF s = NoSession
        THEN /\ fault' \in IF ReplacesCallback(p) THEN {fault, "race"} ELSE {fault}
             /\ UNCHANGED <<driven, selected, astray>>
        ELSE OnInputDataPacket(s, l, c[1], c[2], ReplacesTransport(s) \/ ReplacesCallback(p))
  /\ UNCHANGED <<sessionVars, netVars, listenQ, strays, sentCount, queue, main, mediaVars>>

LoopStep(l) == RunFunctor(l) \/ \E p \in Peers : HandleRead(l, p)

----------------------------------------------------------------------------
(* The media thread: WriteRtpCallback.                                     *)

(* GetAllReadyWebRTCSession, under the factory's mutex. *)
CollectReady ==
  /\ Running /\ batch = {} /\ frames < MaxFrames
  /\ frames' = frames + 1
  /\ batch' = created \cap ready
  /\ UNCHANGED <<sessionVars, netVars, kernelVars, queue, main, historyVars>>

(* Mutant: the media thread calls EncryptAndSendRtpPacket itself. *)
PostRtp_Direct(s) ==
  /\ Running /\ s \in batch
  /\ batch' = batch \ {s}
  /\ fault' = IF transport[s] # NoPeer THEN "assert" ELSE fault
  /\ UNCHANGED <<sessionVars, netVars, kernelVars, queue, main, frames, driven, selected,
                 astray>>

(* session->loop()->runInLoop(EncryptAndSendRtpPacket). *)
PostRtp(s) ==
  /\ Running /\ s \in batch
  /\ batch' = batch \ {s}
  /\ IF loop[s] = NoLoop
     THEN fault' = "loop" /\ UNCHANGED queue
     ELSE /\ queue' = [queue EXCEPT ![loop[s]] = Append(@, Functor("rtp", NoPeer, s))]
          /\ UNCHANGED fault
  /\ UNCHANGED <<sessionVars, netVars, kernelVars, main, frames, driven, selected,
                 astray>>

MediaStep == CollectReady \/ \E s \in Sessions : PostRtp(s)

----------------------------------------------------------------------------
Next ==
  \/ Arrive
  \/ \E s \in Sessions : CreateSession(s)
  \/ MainStep
  \/ \E l \in Loops : LoopStep(l)
  \/ MediaStep

(* Every thread keeps running: the main loop and the IO loops return to    *)
(* poll for as long as a descriptor or a functor is ready, and a handler   *)
(* never waits.                                                            *)
Fairness ==
  /\ WF_vars(MainStep)
  /\ \A l \in Loops : WF_vars(RunFunctor(l))
  /\ \A l \in Loops, p \in Peers : WF_vars(HandleRead(l, p))

Spec == Init /\ [][Next]_vars /\ Fairness

----------------------------------------------------------------------------
(* Properties.                                                             *)

(* Type invariant. *)
TypeOK ==
  /\ created \subseteq Sessions /\ ready \subseteq Sessions /\ batch \subseteq Sessions
  /\ transport \in [Sessions -> Peers \cup {NoPeer}] /\ bound \in [Sessions -> SUBSET Peers]
  /\ loop \in [Sessions -> Loops \cup {NoLoop}]
  /\ connLoop \in [Peers -> Loops \cup {NoLoop}]
  /\ nextLoop \in Loops
  /\ callback \in [Peers -> Sessions \cup {NoSession}]
  /\ reading \subseteq Peers
  /\ listenQ \in Seq(Contacts) /\ sockQ \in [Peers -> Seq(Contacts)] /\ strays \subseteq Peers
  /\ queue \in [Loops -> Seq([kind : {"enable", "input", "rtp"},
                              peer : Peers \cup {NoPeer}, session : Sessions])]
  /\ main.at \in {"idle", "connection", "connect", "transport", "callback", "start",
                  "loop", "ready", "post"}
  /\ main.at # "idle" => <<main.peer, main.session>> \in Contacts
  /\ sentCount \in 0 .. MaxDatagrams /\ frames \in 0 .. MaxFrames
  /\ driven \in [Sessions -> SUBSET Loops] /\ astray \subseteq Sessions
  /\ selected \in [Sessions -> Peers \cup {NoPeer}]
  /\ fault \in {"none", "assert", "loop", "race"}

(* The media thread, which learns of a session through is_ready_ only,     *)
(* never reads an uninitialised loop_: SetNetworkTransport stores loop_    *)
(* before is_ready_.  (With the type invariant.)                           *)
LoopKnownWhenReady ==
  /\ TypeOK
  /\ \A s \in ready : loop[s] # NoLoop
  /\ fault # "loop"

(* The assertion of UdpConnection::Send, "loop_->assertInLoopThread()":    *)
(* whatever thread a session's packets and media are handled on, it is the *)
(* thread of the connection they are sent through.                         *)
SendsInLoopThread == fault # "assert"

(* Session s has been given connections of two IO loops, because its       *)
(* username came from two addresses.                                       *)
Moved(s) == \E p, q \in bound[s] : connLoop[p] # connLoop[q]

(* The assertion of UdpConnection::Send, "loop_->assertInLoopThread()",    *)
(* fails only after a session has moved to a connection of another loop:   *)
(* the datagrams, the first packet and the media of every other session    *)
(* are handled on the loop of its connection, whichever thread posts them, *)
(* also when sessions share a connection.                                  *)
AssertsOnlyWhenMoved == fault = "assert" => \E s \in Sessions : Moved(s)

(* A WebRtcTransport, which has no lock, is driven only by the loops of    *)
(* connections that its session has been given, and so is the loop_ that   *)
(* the media thread posts to: one thread, the same for both, as long as    *)
(* the session has not moved.                                              *)
SingleDriver ==
  \A s \in Sessions :
    driven[s] \cup ({loop[s]} \ {NoLoop}) \subseteq {connLoop[p] : p \in bound[s]}

(* NetworkTransport::SendPacket ignores the address that ICE answers to    *)
(* and sends through whatever connection the session was last given.  An   *)
(* answer, 401 included, all the same goes to the one who asked, unless    *)
(* the session has been given the connections of two addresses, or a       *)
(* datagram of another peer had been queued on the socket of one before    *)
(* the socket was connected.                                               *)
AnswersGoToSender ==
  \A s \in astray :
    \/ \E p, q \in bound[s] : p # q
    \/ bound[s] \cap strays # {}

(* SetNetworkTransport replaces transport_ and callback_ while the IO loop *)
(* may be using them, but not when a session is given its first            *)
(* connection, nor a connection its first session: nothing runs there yet. *)
FirstBindingDoesNotRace ==
  fault = "race" =>
    \/ main.at = "transport" /\ transport[main.session] # NoPeer
    \/ main.at = "callback" /\ callback[main.peer] # NoSession

(* A STUN packet that reaches the listening socket for a session that      *)
(* exists makes the session select an address, although it changes threads *)
(* on the way, unless a race or the assertion of Send ends the process.    *)
Waiting(s) == s \in created /\ \E i \in DOMAIN listenQ : listenQ[i][2] = s

ContactIsAnswered == \A s \in Sessions : Waiting(s) ~> selected[s] # NoPeer \/ ~Running

(* Datagrams never stay on the socket of a connection: its channel is      *)
(* eventually enabled on its loop.                                         *)
SocketsDrain == \A p \in Peers : sockQ[p] # <<>> ~> sockQ[p] = <<>> \/ ~Running
=============================================================================
