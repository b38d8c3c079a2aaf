----------------------------- MODULE ServerMain ------------------------------
(***************************************************************************)
(* The program of example/rtp_src_example.cc: main initialises the         *)
(* classes, starts the media thread and serves HTTP requests, each of      *)
(* which creates a session (WebRTCSessionFactory::CreateWebRTCSession),    *)
(* while the I/O loops complete the handshakes of earlier ones.  Nobody    *)
(* catches the exceptions of MS_THROW_ERROR: they end the process.         *)
(***************************************************************************)
EXTENDS DtlsResources, MediaSource

CONSTANTS
  Fragments,      \* what GetRandomString(4) may return
  NoSession

ASSUME NoSessionAssumption == NoSession \notin Transports

VARIABLES
  heap,           \* OpenSSL's and libsrtp's objects
  main,           \* where main stands
  failed,         \* the function whose exception or crash ended the process
  http,           \* the HTTP callback: its session and the session's fragment
  created,        \* transports constructed so far
  rtc_sessions    \* the factory's table

serverVars == <<heap, main, failed, http, created, rtc_sessions, file, media>>

NoCallback == [at |-> "idle", session |-> NoSession, id |-> NoSession]

ServerInit ==
  /\ heap = EmptyHeap /\ main = "generate" /\ failed = "none"
  /\ http = NoCallback /\ created = {}
  /\ rtc_sessions = [f \in Fragments |-> NoSession]
  /\ MediaInit

(* MS_THROW_ERROR, when function threw, or the next step of main. *)
Continue(ok, function, next) ==
  /\ main' = IF ok THEN next ELSE "terminated"
  /\ failed' = IF ok THEN failed ELSE function

NoSessionsYet == UNCHANGED <<http, created, rtc_sessions, file, media>>

----------------------------------------------------------------------------
(* DtlsTransport::ClassInit, DepLibSRTP::ClassInit, SrtpSession::ClassInit. *)

InitCertificate ==
  /\ main = "generate"
  /\ \E failing \in 1 .. GenerateCalls + 1 :
       /\ heap' = GenerateCertificateAndPrivateKey(heap, failing)
       /\ Continue(failing > GenerateCalls, "GenerateCertificateAndPrivateKey", "context")
  /\ NoSessionsYet

InitSslCtx ==
  /\ main = "context"
  /\ \E failing \in 1 .. CreateCalls + 1 :
       /\ heap' = CreateSslCtx(heap, failing)
       /\ Continue(failing > CreateCalls, "CreateSslCtx", "fingerprints")
  /\ NoSessionsYet

InitFingerprints ==
  /\ main = "fingerprints"
  /\ heap' = GenerateFingerprints(heap)
  /\ \E ok \in BOOLEAN : Continue(ok, "GenerateFingerprints", "srtp")
  /\ NoSessionsYet

(* srtp_init and srtp_install_event_handler. *)
InitSrtp ==
  /\ main = "srtp"
  /\ \E ok \in BOOLEAN : Continue(ok, "ClassInit", "serving")
  /\ UNCHANGED heap
  /\ NoSessionsYet

----------------------------------------------------------------------------
(* The HTTP callback, on the main loop.                                    *)

(* new WebRtcTransport, with a random fragment. *)
CreateWebRTCSession ==
  /\ main = "serving" /\ http.at = "idle"
  /\ \E t \in Transports \ created, id \in Fragments, failing \in 1 .. ConstructorCalls + 1 :
       /\ heap' = NewDtlsTransport(heap, t, failing)
       /\ Continue(failing > ConstructorCalls, "DtlsTransport", "serving")
       /\ http' = [at |-> "insert", session |-> t, id |-> id]
       /\ created' = created \cup {t}
  /\ UNCHANGED <<rtc_sessions, file, media>>

(* std::map::insert leaves a key that is present as it is. *)
Insert(table, id, t) == IF table[id] = NoSession THEN [table EXCEPT ![id] = t] ELSE table

InsertSession ==
  /\ main = "serving" /\ http.at = "insert"
  /\ rtc_sessions' = Insert(rtc_sessions, http.id, http.session)
  /\ http' = [http EXCEPT !.at = "reply"]
  /\ UNCHANGED <<heap, main, failed, created, file, media>>

(* Mutant: the session outlives the callback, whatever the table holds. *)
Release_Leaks(h, t) == h

(* The last reference to a session that is not in the table. *)
Release(h, t) ==
  IF \E f \in Fragments : rtc_sessions[f] = t THEN h ELSE DeleteDtlsTransport(h, t)

(* The callback sends the SDP and drops its own reference. *)
EndOfCallback ==
  /\ main = "serving" /\ http.at = "reply"
  /\ heap' = Release(heap, http.session)
  /\ http' = NoCallback
  /\ UNCHANGED <<main, failed, created, rtc_sessions, file, media>>

(* OnDtlsTransportConnected, on an I/O loop, of a session whose SDP a      *)
(* browser has; WebRtcTransport calls it once (ImplementsSecureChannel).   *)
Connected ==
  /\ main = "serving"
  /\ \E f \in Fragments, ok \in BOOLEAN :
       LET t == rtc_sessions[f]
       IN /\ t # NoSession /\ t # http.session
          /\ <<"encrypt_buffer", t>> \notin heap.pointers
          /\ heap' = NewSrtpSession(heap, t, ok)
          /\ Continue(ok, "SrtpSession", "serving")
  /\ UNCHANGED <<http, created, rtc_sessions, file, media>>

(* The media thread runs until the process ends, which it may bring about. *)
Play(A) ==
  /\ main = "serving" /\ A
  /\ Continue(media'.at # "crashed", "H2642Rtp", "serving")
  /\ UNCHANGED <<heap, http, created, rtc_sessions>>

MediaThread == Play(MediaNext)

ServerNext ==
  \/ InitCertificate \/ InitSslCtx \/ InitFingerprints \/ InitSrtp
  \/ CreateWebRTCSession \/ InsertSession \/ EndOfCallback
  \/ Connected
  \/ MediaThread

(* The thread is scheduled, and no packet fails to be read, nor a seek to  *)
(* succeed, for ever.                                                      *)
MediaFairness ==
  /\ WF_serverVars(MediaThread)
  /\ \A f \in Files : \A p \in DOMAIN f.packets :
       SF_serverVars(Play(file = f /\ media.next = p /\ ReadFrame))
  /\ SF_serverVars(Play(Rewind(TRUE)))

ServerSpec == ServerInit /\ [][ServerNext]_serverVars /\ MediaFairness

----------------------------------------------------------------------------
(* Properties.                                                             *)

(* Type invariant; the reader of the file never passes its end. *)
ServerTypeOK ==
  /\ heap \in HeapType
  /\ main \in {"generate", "context", "fingerprints", "srtp", "serving", "terminated"}
  /\ failed \in {"none", "GenerateCertificateAndPrivateKey", "CreateSslCtx",
                 "GenerateFingerprints", "ClassInit", "DtlsTransport", "SrtpSession",
                 "H2642Rtp"}
  /\ http.session \in Transports \cup {NoSession} /\ http.id \in Fragments \cup {NoSession}
  /\ created \subseteq Transports
  /\ rtc_sessions \in [Fragments -> Transports \cup {NoSession}]
  /\ media.next \in 1 .. Len(file.packets) + 1

(* The sessions that the table or the callback keeps. *)
Kept == {rtc_sessions[f] : f \in Fragments} \cup {http.session}

(* A function that throws leaves none of its objects behind: no error path *)
(* of the class or of the constructor leaks, however far it got, and a     *)
(* context that could not be made holds no reference to the key pair.      *)
(* (SrtpSession's constructor is not among them: encrypt_buffer_ leaks.)   *)
(* Of a media thread that ends before it played, only the I/O context and  *)
(* its buffer may be left, and the bitstream filter if no packet could be  *)
(* allocated; of one that played, nothing but the contents of packets it   *)
(* overwrote (PacketsReleased).                                            *)
ErrorsRelease ==
  /\ failed = "GenerateCertificateAndPrivateKey" => Alive(heap) = {}
  /\ failed = "CreateSslCtx" =>
       Alive(ClassDestroy(heap)) = {} /\ Class("sslCtx") \notin Alive(heap)
  /\ failed = "DtlsTransport" => TransportObjects(http.session) \cap Alive(heap) = {}
  /\ media.at = "done" =>
       /\ media.held \subseteq {"avio_ctx", "avio_ctx_buffer", "abs_ctx"}
       /\ media.header => media.held = {}

(* A session that is kept has its SSL, both BIOs, the context, the         *)
(* certificate and the key; and would keep them through ClassDestroy.  A   *)
(* session that is not kept, such as one that insert refused because its   *)
(* fragment was taken, has left nothing behind.  (With the type            *)
(* invariant.)                                                             *)
SessionsComplete ==
  /\ ServerTypeOK
  /\ main = "serving" =>
       LET needed == {Class("sslCtx"), Class("certificate"), Class("privateKey"), Class("ecKey")}
       IN /\ needed \subseteq Alive(heap)
          /\ \A t \in Kept \ {NoSession} :
               needed \cup TransportObjects(t) \subseteq Alive(ClassDestroy(heap))
          /\ \A t \in Transports \ Kept : TransportObjects(t) \cap Alive(heap) = {}

(* Only a constructor that could not get its BIOs frees what it does not   *)
(* own, and it ends the process; every other path, and ClassDestroy after  *)
(* it, frees each object once and uses none that is freed.                 *)
FreedOnceElsewhere ==
  IF failed = "DtlsTransport" THEN heap.misused \subseteq TransportObjects(http.session)
  ELSE heap.misused = {} /\ (main = "serving" => ClassDestroy(heap).misused = {})

(* The comment in the constructor's error path: "At this point             *)
(* SSL_set_bio() was not called so we must free BIOs as well."             *)
FreedOnce == heap.misused = {}

(* The comment behind the call of the muxer: "pkt is now blank [...], so   *)
(* that no unreferencing is necessary."  This is so for the stream that is *)
(* played: pkt holds nothing of it between two packets, and none of its    *)
(* contents are lost, past the end of the file and failed reads, as long   *)
(* as the bitstream filter, whose results are ignored, refuses no packet.  *)
(* The packets of the other streams, which are skipped, are lost.          *)
PacketsReleased ==
  HasVideo =>
    /\ media.at = "read" => media.pkt # in_stream_index
    /\ in_stream_index \in media.lost => media.refused

(* While the media thread lives it goes on giving frames to the muxer,     *)
(* past the end of the file and past failed reads.                         *)
MediaFlows ==
  \/ []<><<Play(WriteFrame)>>_serverVars
  \/ <>(media.at = "done")
  \/ <>[](main # "serving")

=============================================================================
