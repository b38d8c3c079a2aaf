# A TLA+ verification of easy_webrtc_server

This directory holds TLA+ models of the server in `src/`, the TLC
configurations that check them and proofs checked by TLAPS. File names below
are relative to `src/`.

## 1. The system

A browser asks the server over HTTP for a session and gets an SDP with a
username fragment, a password and a certificate fingerprint. It then sends STUN
Binding requests to the server's UDP port; the first one that authenticates
starts DTLS, whose handshake yields SRTP keys, and media flows: from a file to
the browser (`example/rtp_src_example.cc`), or from the browser to the server
(`example/publish.cc`).

| Part | State | Operations | Talks to |
|---|---|---|---|
| `rtc/dtls_transport` | state, role, `handshakeDone`, `handshakeDoneNow`, the SSL object and its BIOs | `Run`, `SetRemoteFingerprint`, `ProcessDtlsData`, `SendApplicationData`, `OnTimer`, `Reset`, destructor | OpenSSL below, its Listener above |
| `rtc/ice_server` | NEW/COMPLETED, current and old credentials | `ProcessStunPacket`, `HandleTuple`, the setters | StunPacket, its Listener |
| `rtc/stun_packet` | one message | `Parse`, `CheckAuthentication`, `Create*Response`, `Authenticate`, `Serialize` | Utils::Crypto |
| `rtc/srtp_session` | a libsrtp session for one direction | constructor, `EncryptRtp`, `DecryptSrtp` | libsrtp |
| `rtc/webrtc_transport` | the three above, `transport_`, `is_ready_`, remote address | `OnInputDataPacket`, `EncryptAndSendRtpPacket`, the listener callbacks | NetworkTransport, RTP channel |
| `session/webrtc_session` | the session map; per session `loop_`, `is_ready_`, transports | `CreateWebRTCSession`, `HandlePacket`, `SetNetworkTransport`, `GetAllReadyWebRTCSession` | main loop, IO loops, media thread |
| `net/udp_server`, `net/udp_connection` | connection per peer address, loop per connection | `HandleRead`, `GetOrCreatConnection`, `Start`, `Send` | kernel, muduo |
| `example/*` | threads | `main`, `H2642Rtp`, `WriteRtpCallback`, `RTPChannel::OnRTP` | everything, FFmpeg |
| `rtp/*` | one packet | RTP header parser, H.264 depacketizer, demultiplexing tests | RTP channel |
| `common/*` | logger, settings, a static HMAC context | helpers, `GetHmacShA1` | OpenSSL |

What makes it hard:

- three kinds of threads (the main loop, the IO loops, the media thread) share
  session objects of which only the session map has a lock;
- the first packet of a peer is read on one thread and handled on another;
- DTLS is driven by whatever the peer's records make OpenSSL do, with several
  events in one call; handlers reset the object they run in;
- credentials of two generations coexist in the ICE server;
- the HMAC context and the buffer for STUN responses are static and used by all
  IO loops without a lock;
- the server has no DTLS timer: recovery from a loss is the client's;
- dozens of library calls may fail, each with its own cleanup;
- `is_ready_` exists twice, with two meanings: a session is ready when it has
  a network transport, its WebRtcTransport when it has SRTP keys.

`PROJECT.json` lists every hazard with the line where it bites and the
properties that cover it.

The build is a debug build (`-O0`), for which the missing `return` of
`NetworkTransport::SendPacket` (`session/webrtc_session.h:19-21`) and that of
`RtpPacket::Parse` (`rtp/rtp_packet.cc:44-51`) give an arbitrary result that no
caller looks at; it is not modelled.

## 2. The modules

| Module | Models | Kind |
|---|---|---|
| `DtlsTransport` | `rtc/dtls_transport`, under its most general caller | component |
| `DtlsTransportProofs` | | theorems about `DtlsTransport` |
| `DtlsHandshake` | the server's half of a handshake, with a browser and a lossy network | composition over `DtlsTransport` |
| `DtlsHandshakeProofs` | | theorems about `DtlsHandshake` |
| `DtlsResources` | the OpenSSL and libsrtp objects of `rtc/dtls_transport`, `rtc/srtp_session` | component (ownership) |
| `MediaSource` | `H2642Rtp` of `example/rtp_src_example.cc` | component |
| `ServerMain`, `MCServerMain` | `main` of `example/rtp_src_example.cc`, the session table | composition of `DtlsResources` and `MediaSource` |
| `ServerMainProofs` | | theorems about `ServerMain`, `DtlsResources` and `MediaSource` |
| `StunStatics` | the statics of `common/crypto.cc` and `rtc/ice_server.cc`, used by several loops | threads |
| `StunStaticsProofs` | | theorems about `StunStatics` |
| `IceLite` | | abstract: what an ICE-Lite agent promises about credentials |
| `IceServer`, `MCIceServer` | `rtc/ice_server`, authentication in `rtc/stun_packet` | component, implements `IceLite` |
| `StunPacket`, `MCStunPacket` | `rtc/stun_packet`: Parse and Serialize | component (algorithm) |
| `StunPacketProofs` | | theorems about `StunPacket` |
| `RtpPacket`, `MCRtpPacket` | `rtp/*`, `OnRTP` of `example/publish.cc`, the protocol tests | component (algorithm) |
| `RtpPacketProofs` | | theorems about `RtpPacket` |
| `SecureChannel` | | abstract: the life of a secured media path |
| `WebRtcTransport`, `MCWebRtcTransport` | `rtc/webrtc_transport`, `rtc/srtp_session` | composition of `DtlsTransport` and `IceServer`, implements `SecureChannel` |
| `WebRtcTransportProofs` | | theorems about `IceServer` and `WebRtcTransport`, both refinements |
| `SessionThreads`, `MCSessionThreads` | `session/`, `net/`, `example/rtp_src_example.cc` | threads |
| `SessionThreadsProofs` | | theorems about `SessionThreads` |

### Objects as records

In `DtlsTransport`, `IceServer` and `WebRtcTransport` a C++ object is one
record and a method is an operator from the record before the call to the one
after it. A handler that calls several objects is then one action whose body
applies the operators in the code's order, and the same operators serve the
component alone and the composition. What a call reports to its listener is
kept in fields of the record that the next call clears (`calls`, `sent`, `keys`
of DtlsTransport; `reply` of IceServer; `media`, `delivered` of
WebRtcTransport), so that a property can speak of it. `aborted` records a
failed `MS_ASSERT`, after which no call follows; `crashed` a null dereference or a
read past the buffer.

### DtlsTransport

`state`, `localRole`, `handshakeDone` and `handshakeDoneNow` are the members of
the class. `ssl`, `shutdown`, `timerUs` and `bioOut` are the SSL object: whether
its handshake is established or it is broken, SSL_RECEIVED_SHUTDOWN, the
retransmission interval, and what waits in the outgoing BIO.

OpenSSL is external. One `SSL_read` has any outcome of `SslOutcomes` that
`SslMay` allows: the end of a handshake, a fatal error, a close_notify,
application data and output may all come out of one datagram. Of a handshake that
ends, the outcome also says which SRTP profile was selected, among those that
`CreateSslCtx` offers, and whether the keying material can be exported: if not,
the assertion of `ExtractSrtpKeys` ends the process. The most general
caller (`DtlsNext`) calls any public method at any time; the timer, whose calls
are commented out in the source, fires whenever it would have been started. The
server's own caller, WebRtcTransport, does much less.

The keys are modelled as offsets into the exported keying material, from the
key and salt lengths of the four suites.

### DtlsHandshake

The timer calls of `SetTimeout` are commented out in the source, so that the
server sends only while it handles a datagram. The module runs the operators of
`DtlsTransport` against a client and a network that loses, duplicates and
reorders. A message is a flight, because `SendPendingOutgoingDtlsData` hands the
whole BIO to the network as one datagram. What OpenSSL answers (`Outcome`) is
external and is shown, by `HandshakeTypeOK`, to be among the outcomes that
`DtlsTransport` allows: an answer to a new flight; the last flight again when a
repeated hello arrives after the retransmission interval, at most `TimeoutLimit`
times; nothing otherwise.

### DtlsResources, MediaSource and ServerMain

`DtlsResources` is a heap of counted references: an object is alive while the
program or another live object holds it. `pointers` are the program's non-null
pointers, so that "if (p) X_free(p)" is modelled by what it looks at, and
`misused` records a free or a use through a pointer that no longer stands for a
reference. Each function takes the place of the call that fails.

`MediaSource` has one step for the opening, with the nine calls that may fail,
and one per turn of the loop. A file is the kinds of its streams and the stream
index of each packet. The calls whose result the code does not look at may fail
as well: a bitstream filter that is unknown or cannot be allocated is dereferenced,
one that refuses a packet or returns none leaves `pkt` as it is, and the muxer
refuses a packet whose stream index, that of the input, it does not have: a file
whose video stream is not the first is not played. `pkt` is what the packet holds,
`lost` the streams whose packets were overwritten. `avio_closep`, called for a
context that `avio_alloc_context` made, may crash.

`ServerMain` runs them: `ClassInit`, then HTTP callbacks on the main loop, each
split into construction, insertion and return, while IO loops create the SRTP
sessions of earlier ones. An exception of `MS_THROW_ERROR` ends the process,
since nobody catches it. `GetRandomString` may return any fragment, a used one
included.

### IceServer and IceLite

A parsed packet is its class, the presence of its attributes, the username it
begins with and the password its MESSAGE-INTEGRITY was computed with. No code of
the repository calls the two setters; `RestartIce` calls both in one handler,
in either order (the result is the same), as their names and the old credentials
suggest. A caller of one setter alone is not modelled, and the class does not
provide for it: after either alone one half of the old pair is missing, so that
the old pair is refused at once, and an old fragment without an old password stays,
since `ProcessStunPacket` clears the two when it finds an old password.

`IceLite` says what this is for: a request is granted only under the current
credentials or under those the last restart replaced, until the peer first uses
the new ones; a granted request is answered under the password it used; 401
blames the credentials only when they are not in force; the first address
granted stays. The refinement mapping reads the pair in force and the previous
pair from the four strings of the class.

### StunPacket

A datagram is its size, its header and a sequence of attributes, each with its
type, its length field and its value; the size may cut the last attribute off.
Every byte that Parse looks at is thereby given (`IsDatagram`): a datagram has as
many attributes as there are places in it, one behind the other, with room for a
type and a length. Parse is one step for the header, one per iteration of its
loop and one for the checks after it; the position is computed in 16 bits, as in
the code. Serialize computes the size first and writes the attributes then. An
HMAC is represented by its key and the header length field it was computed with,
a CRC by that length field, because this field is changed and restored around
them. `HandleRead` does not look at the result of `recvfrom`; `ReceiveFails`
hands Parse an earlier datagram with the length that -1 becomes, which in the
model is only larger than all length fields.

### StunStatics

One handler per IO loop, from the check of a Binding request to the sending of the
response, in steps at each use of `hmacSha1Ctx`, `hmacSha1Buffer` and
`StunSerializeBuffer`. A request that is refused before the HMAC, 400 or 401, uses
only the last of them (`Refuse`). A digest is its key and what was hashed. A step that reads
while another handler is under way may read neither the one's data nor the other's
(`Torn`). `alone` is a history variable: no other loop has taken a step since the
handler began, nor raced with it. That a race inside OpenSSL may also crash, or
fail an `MS_ASSERT` of `GetHmacShA1`, is not modelled: the model goes on.

### RtpPacket

One incoming datagram, from the four protocol tests of `OnInputDataPacket`
through `OnRTP` and `RtpPacket::Parse` to the depacketizer, whose two loops (find
the units of a STAP-A packet, check them) are one step per iteration. Header and
padding are computed from the first byte, the extension's length field and the
last byte. The payload is two functions of the offset, the NAL type of a byte
and the 16-bit number that begins there, so that the model can read at any
offset the code computes; `reads` records which. The members of a new RtpPacket
hold anything in `Uninitialized`. The comparison `end - start < 1` of unsigned
numbers is modelled as equality, which is what it is when the difference wraps.
`DecryptedLengths` (external) is what libsrtp does to the length.

### WebRtcTransport and SecureChannel

One loop runs a WebRtcTransport, so that a datagram with all the callbacks it
causes is one step. `rtp_channel`, chosen initially, tells the two example
servers apart. `InputFailed` is a failed `recvfrom`: a STUN packet of the length
that -1 becomes is refused, OpenSSL is given nothing, and an RTP channel reads past
the buffer.
`SecureChannel` says that the phases idle, securing, secured, over come in this
order and never again, and that the key is written once.

### SessionThreads

`HandlePacket` on the main loop is split at each write that another thread may
see: the new socket (bound, then connected), `transport_`, the callback, `Start`, `loop_`, `is_ready_`,
the posting of the first packet. Functors and read events of an IO loop, and the
two halves of `WriteRtpCallback` (collecting under the mutex, posting one by
one), are one step each. The kernel gives a datagram to the connected socket of
its sender if there is one, otherwise to the listening socket or, inside the
constructor of `UdpConnection`, to the new socket that is bound and not yet
connected; what was queued there stays. muduo's `runInLoop` from another thread
appends to the loop's queue. What a transport does with a packet is abstracted to
whether it selects an address and through which connection it sends. Three history
variables say what happened to a session: `bound`, the peers whose connections it
has been given; `driven`, the loops that ran it; `astray`, whether an answer of it
went to another than who asked. `strays` are the sockets that took in a datagram of
another peer before they were connected. Replacing
`transport_` or `callback_` while the IO loop uses them is a data race: the
process survives it or not (`fault = "race"`).

## 3. Runs

| Run | States | Question |
|---|---|---|
| `dtls` | 726 | Do the flags, asserts, timer, keys and callbacks of DtlsTransport hold together under any order of calls? |
| `ice` | 2 880 | Does IceServer implement IceLite? |
| `handshake` | 1 821 | Do both ends establish the connection together, and does it come about without a timer in the server? |
| `stun` | 168 455 | Does Parse accept exactly the well-formed messages, stay in the datagram, and read back what Serialize writes? |
| `statics` | 205 752 | What do handlers that overlap in the unlocked statics do to each other, and to later ones? |
| `rtp` | 66 860 | Is media told apart, split exactly, and depacketized without reading outside the payload? |
| `transport` | 11 024 | Does DTLS follow ICE, is media ready when announced, are the keys the right half, does the whole implement SecureChannel? |
| `threads` | 78 456 | Two sessions behind one address, one of them also behind another: which threads drive a transport, what does a move break, do answers reach who asked, is every contact answered? |
| `server` | 72 183 | Does every failing call clean up, do sessions keep what they need, does media go on? |

Properties, by run:

(The type invariants are conjuncts of `IceConsistent`, `ScanInBounds`,
`DtlsFollowsIce`, `LoopKnownWhenReady`, `SessionsComplete` and
`EstablishedTogether`; `RtpTypeOK` is checked by itself, `StaticsTypeOK` is proved,
and `DtlsTypeOK` is proved and part of the composed runs.)

- `dtls`: `HandshakeCoherent` (between calls handshakeDone means CONNECTED, no
  handshake waits unprocessed, a role is set exactly while running),
  `AbortsOnlyOnExport` (of the assertions only the one on the exported key can fail),
  `NeverTimesOut` (the interval overshoots 4 s once and stays
  far below the 30 s at which SetTimeout would give up), `KeysAgree` (mine mirror the peer's and tile the
  keying material), `ConnectedOnce` (a renegotiation does not report keys
  again), `CloseNoticed` (a close that was coalesced with the end of the
  handshake is acted on with the next datagram).
- `handshake`: `EstablishedTogether` (an established client has a server that
  announced keys, unless there is no common SRTP suite: then the server has
  failed and the client does not know), `FailsForAReason`, and the liveness
  properties `HandshakeCompletes` (with fewer faults than OpenSSL retransmits)
  and `CloseNoticedOrLost` (a lost close alert leaves the session running: there
  is no second one and no timeout).
- `ice`: `ImplementsIceLite`, `IceConsistent`.
- `statics`: `AloneIsExact` (a handler that nobody overlapped answers exactly,
  whatever earlier overlaps left in the statics), `AcceptedWasSigned` (overlaps
  refuse good requests and send one session's response on another's socket, but
  accept nothing that no session's password signed).
- `stun`: `AcceptsWellFormed`, `ScanInBounds`, `LastAttributeCounts`,
  `RoundTrip` (with the assertion at the end of Serialize). Two kinds of message do
  not come back whole, and `RoundTrip` says which: one whose type field begins with
  the byte 3 is refused, among them the 400 that answers a request of a method of 128
  or more; and an error code of 25600 or more, which no caller writes, is cut.
- `rtp`: `DemuxExclusive` (the order of the tests does not matter),
  `PacketPartitioned` (header, payload and padding make up the packet; a refused
  one has no payload), `ReadsInBounds`, `AcceptsUnits` (against a definition of
  the split that does not scan), and the liveness property `HandlerReturns`.
- `transport`: `DtlsFollowsIce` (DTLS runs once, so that the close alert of Reset
  is never sent), `MediaReady` (the session exists exactly from the end of the DTLS
  handshake on, and three events end the process: keying material that cannot be
  exported and, with an RTP channel attached, a packet that comes before the session
  or a failed read), `SessionIsOutbound` (the one session serves what is sent; what
  arrives is never decrypted with it), `ImplementsSecureChannel`.
- `threads`: `LoopKnownWhenReady`, `AssertsOnlyWhenMoved` (the assertion of `Send`
  fails only after a session has been given connections of two loops),
  `SingleDriver` (only loops of connections that a session has been given drive it),
  `AnswersGoToSender` (although `NetworkTransport::SendPacket` ignores the address
  it is given, an answer misses who asked only if the session has been given two
  addresses, or a socket took in a stray datagram before it was connected; both
  happen in the run), `FirstBindingDoesNotRace` (only a second binding of a session or
  of a connection can race with the IO loop; that one does), and the liveness
  properties `ContactIsAnswered` and `SocketsDrain`.
- `server`: `ErrorsRelease` (no error path of the class or of the constructor
  leaks; a media thread that ends leaves at most its I/O context and its filter, and
  nothing if it had begun to play), `FreedOnceElsewhere`, `SessionsComplete` (what is
  kept is alive, and would survive `ClassDestroy`; what is not kept is gone),
  `PacketsReleased` (the comment behind `av_interleaved_write_frame`, that no
  unreferencing is necessary, is right for the stream that is played unless the
  filter refuses a packet; the packets of other streams are lost), and the liveness
  property `MediaFlows`.

### Where the code and its comments disagree

Three runs check a statement of the repository's comments, README or assertions
that the code does not keep; each is a finding in `PROJECT.json`:

- `threads_two_addresses`: a session contacted from a second address fails the
  `assertInLoopThread` of `UdpConnection::Send`.
- `transport_media`: media leaves unencrypted before DTLS has connected, and
  when encryption fails.
- `dtls_constructor`: when a BIO cannot be created, the error path of the
  constructor frees a second time what the code before the `goto` has freed.

Four smaller disagreements between the code and its comments have no run of
their own; the models behave as the code does:

- `OnDtlsTransportConnected` is called without a look at the remote fingerprint
  (`dtls_transport.cc:973`), although its comment speaks of a verified one.
- `OnDtlsTransportClosed` is also called after a fatal error while CONNECTED
  (`dtls_transport.cc:875`), although its comment names a close_notify only.
- The close alert that `Reset` means not to send (`dtls_transport.cc:792-795`)
  stays in the outgoing BIO, and would be sent if the transport were run again;
  `DtlsFollowsIce` shows that no caller does that.
- "Incoming media can flow through" while connecting (`dtls_transport.h:41-42`),
  but with an RTP channel attached a packet then meets a null `srtp_session_`;
  `MediaReady` names this as one of the ways in which the process ends.

### Bounds

- `dtls`, `transport*`: no bound; the state spaces are finite.
- `handshake`: `MaxFaults` = 4 is more than `TimeoutLimit` = 3, so that OpenSSL
  also gives up; OpenSSL's own limit is 12, and the model does not depend on it
  otherwise.
- `statics`: two sessions, on one loop or on two, each idle or at any stage; a
  password of the other session and one of nobody.
- `server`: three transports and two fragments, so that a fragment is drawn twice
  while another session exists; a file whose first stream is audio, and one
  without video.
- `ice`: three fragments and two passwords, so that credentials two generations
  old exist and passwords are reused; two addresses, so that a second one can
  compete for the selection.
- `stun`: two attributes of any type with right and wrong lengths and values,
  three with right lengths; the checks of the loop look at one attribute and at
  two flags, so that three attributes meet every combination. Lengths include
  0, unaligned ones and 65535, and the size of a failed read is larger than them all.
  Built packets combine all attributes, with methods and error codes on both sides of
  what comes back.
- `rtp`: boundary values of the first two bytes and of the length around each
  test; headers with every combination of CSRC, extension and padding, and
  lengths from too short to longer than needed; payloads of up to three units,
  empty, right, too long, nested, cut at every length up to 14 bytes.
- `threads*`: two loops are what a wrong choice of loop needs; two sessions
  share a connection, and the second address of one of them makes the pool use its
  other loop.
  `MaxDatagrams` = 3 allows a second datagram of a peer on the listening socket,
  queued before its connection exists, and one on the connected socket;
  `MaxFrames` = 1 lets the media thread collect the ready sessions at any one
  moment.

The runs of the DTLS transport, the handshake, the composed transport, the
threads and the server do not check deadlock: a destroyed object, a finished
connection, a server that crashed or threw, and loops without input stop.

### Fairness

`RtpPacket` has weak fairness of the handler's steps: it is sequential code that
waits for nothing; no datagram is obliged to come.

`SessionThreads` has weak fairness of the main loop's handler, of each
IO loop's functor queue and of each connection's read event. muduo's loops
return to `poll` after each handler, run all pending functors in each round, and
`poll` is level-triggered; no handler waits. The peers and the media source have
no fairness. A race may end the process, and the properties say so.

`DtlsHandshake` has weak fairness of delivery (what is not lost arrives; the
number of losses is bounded), of the client's retransmissions, and of ICE's
selection of an address; and strong fairness of a repeated hello arriving after
the server's interval, at most 4 s, which a client that repeats it at growing
intervals ensures. Nothing is assumed of the server itself but that it handles
what arrives.

`ServerMain` has weak fairness of the media thread, which only the scheduler can
delay, and strong fairness of reading each packet and of the seek, each of which
may fail any number of times but not for ever: a file that can never be read again
is outside of what `MediaFlows` promises.

## 4. Proofs

`DtlsTransportProofs` proves, for every sequence of calls:

| Theorem | Statement |
|---|---|
| `DtlsInvariance` | the inductive invariant |
| `DtlsTyped` | `DtlsTypeOK` |
| `DtlsCoherent` | `HandshakeCoherent` |
| `DtlsAbortsOnlyOnExport` | `AbortsOnlyOnExport` |
| `DtlsNeverTimesOut` | `NeverTimesOut` |
| `DtlsConnectedOnce` | `ConnectedOnce` |
| `DtlsKeysAgree` | `KeysAgree` |
| `DtlsCloseNoticed` | `CloseNoticed` |

The module has no constants, hence no assumptions. The invariant `DtlsSafe` is
`DtlsInv` while the process lives and `Ended` after it: the failed export, in
CONNECTING, with a finished handshake and nothing reported. `DtlsInv` is
typing, `Coherent`, absence of a failed assertion, and `timerUs <= 7999998`.
The last conjunct is the strengthening the timer needs: an interval just below
4 s is doubled once, and what is above 4 s goes back to 4 s. `Reported` says
which callbacks and keys a call leaves behind. Inside a call, between `SSL_read`
and the end of `CheckStatus`, `Coherent` does not hold; `MidCall` is what does,
and there is one lemma per method that says what it makes of `DtlsInv` or
`MidCall`. These lemmas speak of records and not of the variable, and the proofs
about `DtlsHandshake` and `WebRtcTransport` use them. `CloseNoticed` is an action
property: from `DtlsInv`, a step that processes a datagram on an SSL object that
is shut down or broken reaches the branch of `CheckStatus` that ends the
connection, because OpenSSL completes no handshake on such an object and
`handshakeDoneNow` is false between calls.

`RtpPacketProofs` proves, for every set of datagrams:

| Theorem | Statement |
|---|---|
| `RtpInvariance` | the inductive invariant |
| `RtpTyped` | `RtpTypeOK` |
| `RtpReadsInBounds` | `ReadsInBounds` |
| `RtpDemuxExclusive` | `DemuxExclusive` |
| `RtpPacketPartitioned` | `PacketPartitioned` |
| `RtpAcceptsUnits` | `AcceptsUnits` |

It assumes that bytes are bytes (`ReceivedAssumption`) and that uninitialized
members hold natural numbers (`UninitializedAssumption`). `ReadsInBounds` alone
is not inductive: the invariant `RtpInv` adds that the payload lies in the copied
bytes and these in the datagram; that in the first loop pointer, offset and
remaining length agree; and that successive offsets are at least a length field
apart and end at the end of the payload, which is why the unsigned difference in
the second loop cannot wrap.

`PacketPartitioned` is kept by the step that parses the header (`LayoutInv`); the
work is in the arithmetic of `Parse`. `AcceptsUnits` compares the two loops with
a definition that has no loop: the payload splits into units if some set of
places does it. `WalkInv` says how far the loops have got: in the first, the
offsets so far and the next one form a `Walk`, each reached from the one before
by the length field between them; in the second, the units before the counter
are units. When the loops accept, the set of the walk's places is the set asked
for; when they reject, a set that split the payload would have to contain every
place of the walk, hence also the one at which the walk leaves the payload.

`StunPacketProofs` proves, for every set of datagrams, with any number of
attributes in any order, and every set of packets that are built:

| Theorem | Statement |
|---|---|
| `StunInvariance` | the inductive invariant |
| `StunScanInBounds` | `ScanInBounds` |
| `StunAcceptsWellFormed` | `AcceptsWellFormed` |
| `StunLastAttributeCounts` | `LastAttributeCounts` |
| `StunRoundTrip` | `RoundTrip` |

It assumes (`DatagramAssumption`) that what is received is a datagram as described
in section 2 and that the buffer, 4096 bytes in the code, is at most 65532: up to
there the 16-bit position cannot wrap. Of a packet that is built it assumes
(`BuiltAssumption`) only that its fields have the widths of their types and that it
fits in a datagram, which the code does not check. For which of them Parse reads
everything back is part of the property.

`ScanInBounds` is not inductive: that the next position is exact needs that the
position is a multiple of four inside the datagram, and the lemmas `StartsAligned`,
`StartsApart` and `NextPositionFacts` say so of the places of the attributes.
`StunInv` says (`Scanned`) that the attributes before the position have passed the
checks of the loop (`Passed`: lengths, and nothing behind a MESSAGE-INTEGRITY but a
FINGERPRINT) and that each field of the packet shows the last one of its type
(`Reads`, `Shows`); and that what was refused is not well formed. The last is
decided at each early return: `HeaderRefuses`, `ScanRefuses` and `ScanEndRefuses`
show for one each why no well-formed message is refused there, `ScanAccepts` that
what passes all of them is well formed. That Parse reads back what Serialize wrote
then follows without following Parse a second time: `SerializedWellFormed` shows
that a serialized message is well formed, hence not refused, and `Shows` that the
packet has the value of the only attribute of each type, which `WrittenByType`
identifies. It is well formed if its type field is below 3 * 256, and nothing that
is accepted has another (`AcceptedWellFormed`). `ErrorCodeFacts` is the 8-bit
arithmetic of the error code, `ErrorCodeTyped` what is left of one that does not fit.

`Starts` is a recursive function. That it exists and satisfies its equation for
every sequence of attributes, and what holds of all its values, is shown without an
induction theorem: if it failed somewhere it would fail at a least place (`Least`,
from the well-foundedness of `<`), and it does not.

`StunStaticsProofs` proves, for every number of sessions and of loops:

| Theorem | Statement |
|---|---|
| `StaticsInvariant` | the inductive invariant |
| `StaticsTypes` | `StaticsTypeOK` |
| `AloneHandlersAreExact` | `AloneIsExact` |
| `AcceptedRequestsWereSigned` | `AcceptedWasSigned` |

It assumes that the stranger's password is no session's (`StrangerAssumption`).
The properties speak of the end of a handler; the invariant `StaticsInv` says what
holds at each of its stages. `Exact` gives, per stage, what an alone handler has
put into the statics that its next steps read: the key after `HMAC_Init_ex`, the
message after `HMAC_Update`, the digest until the comparison, the response while
it is signed. It survives the steps of other loops because these end `alone`, and
it is established without any assumption on what the statics held before (a request
refused before the HMAC reads none of them), because
`HMAC_Init_ex` and the header of the response overwrite it. `SharedLoopInv` says
that a handler runs on its session's loop, so that a second handler cannot be
under way when there is only one. `KeysAreSessions` says that between
`HMAC_Init_ex` and the comparison the keys in the statics are sessions', whoever
wrote them, which is all that `AcceptedWasSigned` needs.

`WebRtcTransportProofs` proves, for all sets of fragments, passwords and tuples,
every order of packets and every outcome of OpenSSL:

| Theorem | Statement |
|---|---|
| `IceStaysConsistent` | `IceConsistent` |
| `IceServerImplementsIceLite` | `ImplementsIceLite` |
| `TransportInvariance` | the inductive invariant of the composition |
| `TransportDtlsFollowsIce` | `DtlsFollowsIce` |
| `TransportMediaReady` | `MediaReady` |
| `TransportSessionIsOutbound` | `SessionIsOutbound` |
| `TransportImplementsSecureChannel` | `ImplementsSecureChannel` |

It assumes that no fragment and no password is the empty string and that the
fragment of a stranger is none of the server's (`CredentialsAssumption`).
`IceInv` is typing and consistency; for the refinement each packet is shown to
be `Granted` or `Refused`, which are the steps of `IceLite`. `TransportInv` joins
`IceInv` and `DtlsSafe` with what ties the objects together: DTLS is new exactly
while ICE is, its only role is the server's, there is no session before it is
connected and one from then on, the session is one of `ServerSessions`, and the
ways to crash are those of an RTP channel (`Lawful`). `AlertFree` is the
strengthening that `DtlsFollowsIce` needs: the alert that `Reset` leaves in the
outgoing BIO could only be sent by a transport that is started again, and ICE
starts it once. Each call of a listener is a lemma about records, so that a packet
which selects a tuple, starts DTLS and completes a handshake is the composition
of its parts. `ChannelStep` is the same step seen by `SecureChannel`.

`DtlsHandshakeProofs` proves, for any number of faults and of retransmissions:

| Theorem | Statement |
|---|---|
| `HandshakeInvariance` | the inductive invariant |
| `HandshakeEstablishedTogether` | `EstablishedTogether` |
| `HandshakeFailsForAReason` | `FailsForAReason` |

It assumes only that the two limits are natural numbers. `HandshakeInv` adds to
`DtlsInv` that while the transport runs nothing waits in its SSL object and its
timer is armed as long as a hello has no answer, that a finished handshake was
reported (`Completed`), and that what only a finished server sends is under way
only if the server has finished. `NextState` gives the state in which
`CheckStatus` leaves the transport.

`SessionThreadsProofs` proves, for any number of sessions, peers, loops,
datagrams and frames:

| Theorem | Statement |
|---|---|
| `ThreadsInvariance` | the inductive invariant |
| `ThreadsLoopKnownWhenReady` | `LoopKnownWhenReady` |
| `ThreadsFirstBindingDoesNotRace` | `FirstBindingDoesNotRace` |
| `ThreadsBound` | a second inductive invariant |
| `ThreadsAssertsOnlyWhenMoved` | `AssertsOnlyWhenMoved` |
| `ThreadsSingleDriver` | `SingleDriver` |
| `ThreadsAnswersGoToSender` | `AnswersGoToSender` |

It assumes that there is a loop, that contacts are between peers and sessions,
that the bounds are natural numbers and that the null values are neither peers
nor sessions (`ThreadsAssumption`). `ThreadsInv` is the order in which
`HandlePacket` publishes what the other threads read: connection before
transport, transport before callback, callback before the read event, loop
before `is_ready_`; and that whatever is queued or read finds what it needs
(`Runnable`). A first binding cannot race because nothing that would use the
session or the connection is queued before it.

The last three theorems hold whichever addresses the username of a session comes
from; a hypothesis that it comes from one would say nothing of the server, which
does not ensure it. `BoundInv` says that all that is stored, queued or has run for a
session belongs to connections that it has been given (`Attached`, `Allowed`), and
that a datagram on another's socket made that socket a stray one. What a session has
been given stays given, and a connection stays on its loop (`Grows`), so that a step
has to account only for what it adds. A send from a wrong thread, or to a wrong peer,
then needs two connections of the session, or a stray datagram.

`ServerMainProofs` proves, for any number of transports and fragments and any
media files:

| Theorem | Statement |
|---|---|
| `ServerInvariance` | the inductive invariant |
| `ServerErrorsRelease` | `ErrorsRelease` |
| `ServerSessionsComplete` | `SessionsComplete` |
| `ServerFreedOnceElsewhere` | `FreedOnceElsewhere` |
| `ServerPacketsReleased` | `PacketsReleased` |

It assumes that the owner called `"class"` is no transport
(`TransportsAssumption`), that the null session is none (`NoSessionAssumption`),
and that a file's packets belong to its streams and are not none
(`FilesAssumption`). The properties speak of `Alive`, a closure: an object is
alive if code or an object that is alive holds it. That is a poor invariant,
since freeing one object may end others. `ServerInv` says instead what the heap
holds at each stage of `main`: `KeysMade` after the key pair, `HeapMade` while
serving, `Dead` after a constructor that threw. `HeapMade` says of every
transport that the code owns its SSL exactly if it is kept, that the SSL alone
holds its BIOs, and that it holds a reference to the context; `AliveOwned` and
`Unowned` then give what is alive. The heap's operations are described by `Is`,
the pointers, the owned objects and the misused ones, so that a constructor is a
chain of such descriptions, one for each call that may fail. `MediaInv` says of
the media thread that it reads only after it found a video stream and wrote the
header, that the packet it is about to write is of that stream, and what may remain
when it ends. `in_stream_index` is the first video stream; that there is a first one
follows from the well-foundedness of `<` (`WellFoundedInduction`).

Each inductive invariant was first checked by TLC on the constants of the runs.

Only model-checked:

- the liveness properties `HandshakeCompletes`, `CloseNoticedOrLost`,
  `HandlerReturns`, `ContactIsAnswered`, `SocketsDrain` and `MediaFlows`:
  liveness under fairness is out of the prover's reach.

Every other property that a passing run checks is proved.

## 5. Not modelled

- `CheckRemoteFingerprint`, `EncryptRtcp`, `DecryptSrtcp`, `RemoveStream`, which
  have no caller, and `ReadCertificateAndPrivateKeyFromFiles`, whose body is
  commented out. In particular the remote certificate is not compared with any
  fingerprint, as the repository's README says and as the comment on
  `OnDtlsTransportConnected` does not.
- SDP texts, logging, settings (nothing calls their setters), byte access
  helpers, the table-driven CRC; the web pages.
- Of `rtp/*`: the parsed video header, sequence number, timestamp and SSRC, which
  nothing reads.
- Failures of `socket`, `bind` and `connect` in the constructors of `UdpServer`
  and `UdpConnection`, which the code does not look at.
- A caller of one of `SetUsernameFragment` and `SetPassword` without the other.
- What a data race does beyond a torn or mixed value: it may crash.
- The freeing of connections, sessions and parsed packets, which the code does
  not do.
- The SSL read buffer, which is static as well: nothing reads it, since
  `OnDtlsTransportApplicationDataReceived` is empty.

## 6. Plan

What could be added is the step from bytes to attributes: that the loop's reads of
a type, a length and a value are the ones that `IsDatagram` attributes to them.
The liveness properties stay with TLC.
