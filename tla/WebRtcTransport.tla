--------------------------- MODULE WebRtcTransport ---------------------------
(***************************************************************************)
(* WebRtcTransport (rtc/webrtc_transport.{h,cc}), composed of an IceServer *)
(* and a DtlsTransport whose listener it is, with the SrtpSession it       *)
(* creates (rtc/srtp_session.cc).  It runs on one event loop, so that a    *)
(* datagram, with every callback it causes, is one step; the threads       *)
(* around it are modelled in SessionThreads.                               *)
(***************************************************************************)
EXTENDS DtlsTransport, IceServer

VARIABLE webrtc

transportVars == <<ice, dtls, webrtc>>

(* media is what the last step sent of a media packet, delivered what it   *)
(* gave to the RTP channel: "srtp" is protected, "clear" is not.           *)
Payload == {"none", "srtp", "clear"}

(* What has ended the process: nothing, the use of a session that does not *)
(* exist, or a read past the end of the buffer.                            *)
Crash == {"no", "session", "buffer"}

(* rtp_channel: SetRTPChannel is called right after the construction, in   *)
(* the HTTP callback of example/publish.cc, and never in                   *)
(* example/rtp_src_example.cc.                                             *)
NewWebRtcTransport(rtp_channel) ==
  [rtp_channel |-> rtp_channel, transport |-> FALSE, srtp_session |-> NoKeys, is_ready |-> FALSE,
   remote_socket_address |-> {}, media |-> "none", delivered |-> "none",
   aborted |-> FALSE, crashed |-> "no"]

(* A step begins: forget what the previous one sent and delivered. *)
Quiet(w) == [w EXCEPT !.media = "none", !.delivered = "none"]

(* The key length of libsrtp's policy for a suite. *)
cipher_key_len(suite) ==
  CASE suite = "AEAD_AES_256_GCM" -> 44
    [] suite = "AEAD_AES_128_GCM" -> 28
    [] OTHER -> 30

(* Mutant: the session is created from the remote key. *)
NewSrtpSession_Remote(keys) ==
  [keys EXCEPT !.localKey = keys.remoteKey, !.localSalt = keys.remoteSalt,
               !.remoteKey = 0, !.remoteSalt = 0]

(* new SrtpSession(OUTBOUND, suite, local key) keeps the local half. *)
NewSrtpSession(keys) == [keys EXCEPT !.remoteKey = 0, !.remoteSalt = 0]

(* Mutant: readiness is announced without creating the session. *)
OnDtlsTransportConnected_NoSession(w, keys) == [w EXCEPT !.is_ready = TRUE]

OnDtlsTransportConnected(w, keys) ==
  [w EXCEPT
    !.aborted = @ \/ SrtpMasterLength(keys.suite) # cipher_key_len(keys.suite),
    !.srtp_session = NewSrtpSession(keys),
    !.is_ready = TRUE]

(* The listener's reaction to a call of the DTLS transport; the callbacks  *)
(* for Connecting, Failed, Closed and application data are empty.          *)
DtlsCallbacks(w, d) ==
  IF "Connected" \in d.calls THEN OnDtlsTransportConnected(w, d.keys) ELSE w

(* Mutant: the address of the selected tuple is not remembered. *)
OnIceServerSelectedTuple_Forgets(w, tuple) == w

OnIceServerSelectedTuple(w, tuple) == [w EXCEPT !.remote_socket_address = {tuple}]

(* Sending needs a network transport. *)
SendPacket(w, payload) == [w EXCEPT !.media = IF w.transport THEN payload ELSE "none"]

(* protected: srtp_protect succeeds and the packet fits encrypt_buffer_. *)
EncryptRtp(w, protected) == IF w.is_ready /\ protected THEN "srtp" ELSE "clear"

EncryptAndSendRtpPacket(w, protected) ==
  IF w.is_ready /\ w.srtp_session = NoKeys THEN [w EXCEPT !.crashed = "session"]
  ELSE SendPacket(w, EncryptRtp(w, protected))

(* The peer protects its media with the keys of the DTLS client. *)
DecryptSrtp(session) ==
  LET peer == SrtpKeys("CLIENT", session.suite)
  IN IF session.localKey = peer.localKey /\ session.localSalt = peer.localSalt
     THEN "clear" ELSE "srtp"

(* srtp_session_ is dereferenced whether or not it has been created. *)
OnRtpPacket(w) ==
  IF ~w.rtp_channel THEN w
  ELSE IF w.srtp_session = NoKeys THEN [w EXCEPT !.crashed = "session"]
  ELSE [w EXCEPT !.delivered = DecryptSrtp(w.srtp_session)]

----------------------------------------------------------------------------
(* The event handlers.                                                     *)

Alive == ~webrtc.aborted /\ webrtc.crashed = "no" /\ ~dtls.aborted

(* Packets reach the transport once it has a network transport. *)
Live == Alive /\ webrtc.transport

(* Steps that call neither object only forget their last reports. *)
OthersIdle ==
  /\ ice' = [ice EXCEPT !.reply = NoResponse]
  /\ dtls' = Enter(dtls)

SetNetworkTransport ==
  /\ Alive
  /\ webrtc' = [Quiet(webrtc) EXCEPT !.transport = TRUE]
  /\ OthersIdle

(* OnInputDataPacket with a STUN packet. *)
InputStun ==
  /\ Live
  /\ \E p \in StunPackets, tuple \in Tuples :
       LET i == ProcessStunPacket(ice, p, tuple)
           selected == ice.state # "COMPLETED" /\ i.state = "COMPLETED"
       IN /\ ice' = i
          /\ dtls' = IF selected THEN Run(Enter(dtls), "SERVER") ELSE Enter(dtls)
          /\ webrtc' = IF selected THEN OnIceServerSelectedTuple(Quiet(webrtc), tuple)
                                   ELSE Quiet(webrtc)

(* OnInputDataPacket with a DTLS packet. *)
InputDtls ==
  /\ Live
  /\ \E o \in SslOutcomes :
       /\ SslMay(dtls, o)
       /\ dtls' = ProcessDtlsData(Enter(dtls), o)
       /\ webrtc' = DtlsCallbacks(Quiet(webrtc), dtls')
  /\ ice' = [ice EXCEPT !.reply = NoResponse]

(* OnInputDataPacket with an RTP packet; an RTCP packet is dropped. *)
InputRtp ==
  /\ Live
  /\ webrtc' = OnRtpPacket(Quiet(webrtc))
  /\ OthersIdle

(* SSL_read when nothing was written to the BIO: at most the last flight   *)
(* is repeated, or given up.                                               *)
ReadsNothing(d, o) ==
  /\ ~o.done /\ ~o.app /\ ~o.shutdown
  /\ o.fatal => d.ssl = "broken" \/ d.timerUs > 0

(* HandleRead does not look at the result of recvfrom: the -1 of a failed  *)
(* one (a connected socket reports that the peer is unreachable) becomes   *)
(* the largest length, of what the buffer still holds.  A STUN packet is   *)
(* refused, BIO_write refuses a DTLS record, and an RTP channel reads past *)
(* the end of the buffer.                                                  *)
InputFailed ==
  /\ Live
  /\ \/ webrtc' = Quiet(webrtc) /\ OthersIdle
     \/ /\ \E o \in SslOutcomes :
             /\ ReadsNothing(dtls, o) /\ SslMay(dtls, o)
             /\ dtls' = ProcessDtlsData(Enter(dtls), o)
        /\ webrtc' = DtlsCallbacks(Quiet(webrtc), dtls')
        /\ ice' = [ice EXCEPT !.reply = NoResponse]
     \/ /\ webrtc.rtp_channel
        /\ \/ webrtc' = OnRtpPacket(Quiet(webrtc))
           \/ webrtc' = [Quiet(webrtc) EXCEPT !.crashed = "buffer"]
        /\ OthersIdle

(* EncryptAndSendRtpPacket, called for every packet of the media source. *)
SendMedia ==
  /\ Live
  /\ \E protected \in BOOLEAN :
       webrtc' = EncryptAndSendRtpPacket(Quiet(webrtc), protected)
  /\ OthersIdle

TransportInit ==
  /\ IceInit
  /\ DtlsInit
  /\ \E rtp_channel \in BOOLEAN : webrtc = NewWebRtcTransport(rtp_channel)

TransportNext ==
  \/ SetNetworkTransport
  \/ InputStun
  \/ InputDtls
  \/ InputRtp
  \/ InputFailed
  \/ SendMedia

TransportSpec == TransportInit /\ [][TransportNext]_transportVars

----------------------------------------------------------------------------
(* Properties.                                                             *)

WebRtcObject ==
  [rtp_channel : BOOLEAN, transport : BOOLEAN, srtp_session : KeySet, is_ready : BOOLEAN,
   remote_socket_address : SUBSET Tuples, media : Payload, delivered : Payload,
   aborted : BOOLEAN, crashed : Crash]

(* Type invariant of the composed transport. *)
TransportTypeOK == DtlsTypeOK /\ IceTypeOK /\ webrtc \in WebRtcObject

(* DTLS runs, as the server, from the moment ICE selects a tuple, and for  *)
(* that tuple only.  Nothing else ever starts or restarts it, so that the  *)
(* close alert that Reset leaves in the outgoing BIO never reaches the     *)
(* peer: only a running transport sends.  (With the type invariant.)       *)
DtlsFollowsIce ==
  /\ TransportTypeOK
  /\ dtls.state = "NEW" <=> ice.state = "NEW"
  /\ dtls.localRole \in {"NONE", "SERVER"}
  /\ webrtc.remote_socket_address = ice.selected
  /\ "closeAlert" \notin dtls.sent

(* is_ready_ announces a session, which exists from the moment DTLS is     *)
(* connected, never before, and for good.  The process ends in no other    *)
(* way than these: OpenSSL cannot export the keying material (the          *)
(* assertion of DtlsTransport; that of SrtpSession on the key length never *)
(* fires), or an RTP channel is attached and gets a packet while there is  *)
(* no session, or one whose length is that of a failed recvfrom.  The      *)
(* first of these two is at odds with the comment on                       *)
(* OnDtlsTransportConnecting, "Incoming media can flow through"; media     *)
(* that is sent never meets a missing session.                             *)
MediaReady ==
  /\ webrtc.is_ready <=> webrtc.srtp_session # NoKeys
  /\ dtls.state = "CONNECTED" => webrtc.is_ready
  /\ webrtc.is_ready => dtls.state \notin {"NEW", "CONNECTING"}
  /\ ~webrtc.aborted
  /\ dtls.aborted => ~dtls.exported
  /\ webrtc.crashed # "no" => webrtc.rtp_channel
  /\ webrtc.crashed = "session" => ~webrtc.is_ready

(* srtp_session_ serves one direction: it holds the key and the salt with  *)
(* which the peer, the DTLS client, unprotects what the server sends.      *)
(* OnInputDataPacket uses the same session for the peer's packets, so that *)
(* no packet it passes to an RTP channel (example/publish.cc) has been     *)
(* decrypted: srtp_unprotect fails and its result is ignored.              *)
SessionIsOutbound ==
  LET session == webrtc.srtp_session
      peer == SrtpKeys("CLIENT", session.suite)
  IN /\ webrtc.is_ready => /\ session.localKey = peer.remoteKey
                           /\ session.localSalt = peer.remoteSalt
     /\ webrtc.delivered # "clear"

Channel == INSTANCE SecureChannel WITH
  Keys <- {NewSrtpSession(SrtpKeys("SERVER", suite)) : suite \in srtpCryptoSuites},
  NoKey <- NoKeys,
  phase <- CASE dtls.state = "NEW" -> "idle"
             [] dtls.state = "CONNECTING" -> "securing"
             [] dtls.state = "CONNECTED" -> "secured"
             [] OTHER -> "over",
  key <- webrtc.srtp_session

(* The composed transport implements SecureChannel: it goes through its    *)
(* phases once, in order, and srtp_session_ is written once, with the      *)
(* server's half of the negotiated keys.  Media sent after the DTLS        *)
(* connection has ended therefore still uses these keys.                   *)
ImplementsSecureChannel == Channel!ChannelSpec

(* README: RTP is "encrypted by SrtpChannel, sent by UdpSocket"; and the   *)
(* comment on OnDtlsTransportConnected: "Outgoing media can now flow       *)
(* through."                                                               *)
MediaIsEncrypted == webrtc.media # "clear"
=============================================================================
