--------------------------- MODULE DtlsTransport ---------------------------
(***************************************************************************)
(* RTC::DtlsTransport (rtc/dtls_transport.{h,cc}): the DTLS endpoint of a  *)
(* WebRTC session, driving one OpenSSL SSL object over two memory BIOs.    *)
(*                                                                         *)
(* The object is one record.  Every method is an operator that maps the    *)
(* record before the call to the record after it, so that a caller's       *)
(* handler, here or in WebRtcTransport, is one step that contains          *)
(* everything the call does.  Listener callbacks made during the last call *)
(* are collected in "calls", what it handed to OnDtlsTransportSendData in  *)
(* "sent", and the arguments of OnDtlsTransportConnected in "keys".        *)
(*                                                                         *)
(* OpenSSL is external: SslRead says what a call may do to the SSL object. *)
(***************************************************************************)
EXTENDS Integers

VARIABLE dtls

DtlsState == {"NEW", "CONNECTING", "CONNECTED", "FAILED", "CLOSED"}
Role == {"NONE", "CLIENT", "SERVER"}
Callback == {"Connecting", "Connected", "Failed", "Closed", "SendData", "AppData"}

srtpCryptoSuites ==
  {"AEAD_AES_256_GCM", "AEAD_AES_128_GCM",
   "AES_CM_128_HMAC_SHA1_80", "AES_CM_128_HMAC_SHA1_32"}

(* The profiles that CreateSslCtx offers with the use_srtp extension. *)
use_srtp == srtpCryptoSuites

TimeoutLimitMs == 30000

----------------------------------------------------------------------------
(* The SRTP master keys, as offsets into the exported keying material.     *)

SrtpKeyLength(suite) == IF suite = "AEAD_AES_256_GCM" THEN 32 ELSE 16

SrtpSaltLength(suite) ==
  IF suite \in {"AEAD_AES_256_GCM", "AEAD_AES_128_GCM"} THEN 12 ELSE 14

SrtpMasterLength(suite) == SrtpKeyLength(suite) + SrtpSaltLength(suite)

NoKeys == [suite |-> "NONE", localKey |-> 0, localSalt |-> 0,
           remoteKey |-> 0, remoteSalt |-> 0]

KeySet == [suite : srtpCryptoSuites \cup {"NONE"}, localKey : Nat, localSalt : Nat,
           remoteKey : Nat, remoteSalt : Nat]

(* Mutant: the client branch takes the salts in the server's order. *)
SrtpKeys_SaltsSwapped(role, suite) ==
  LET k == SrtpKeyLength(suite)
      s == SrtpSaltLength(suite)
  IN [suite |-> suite,
      localKey  |-> IF role = "SERVER" THEN k ELSE 0,
      remoteKey |-> IF role = "SERVER" THEN 0 ELSE k,
      localSalt  |-> 2 * k + s,
      remoteSalt |-> 2 * k]

(* Where each side's key and salt lie: client key, server key, client salt, *)
(* server salt.                                                             *)
SrtpKeys(role, suite) ==
  LET k == SrtpKeyLength(suite)
      s == SrtpSaltLength(suite)
  IN [suite |-> suite,
      localKey  |-> IF role = "SERVER" THEN k ELSE 0,
      remoteKey |-> IF role = "SERVER" THEN 0 ELSE k,
      localSalt  |-> IF role = "SERVER" THEN 2 * k + s ELSE 2 * k,
      remoteSalt |-> IF role = "SERVER" THEN 2 * k ELSE 2 * k + s]

----------------------------------------------------------------------------
(* OpenSSL.                                                                *)

(* Mutant: no cap on the doubled interval. *)
onSslDtlsTimer_NoCap(timerUs) == IF timerUs = 0 THEN 100000 ELSE 2 * timerUs

(* The callback that chooses the next retransmission interval. *)
onSslDtlsTimer(timerUs) ==
  IF timerUs = 0 THEN 100000
  ELSE IF timerUs >= 4000000 THEN 4000000
  ELSE 2 * timerUs

(* What one SSL_read (or SSL_write) may do: complete a handshake, fail,    *)
(* meet a close_notify, return application data, write a flight or an      *)
(* alert to the outgoing BIO, and move the retransmission timer.  Of a     *)
(* completed handshake, suite is what SSL_get_selected_srtp_profile gives, *)
(* and exported whether SSL_export_keying_material succeeds.               *)
SslOutcomes ==
  [done : BOOLEAN, fatal : BOOLEAN, shutdown : BOOLEAN, app : BOOLEAN,
   output : BOOLEAN, timer : {"keep", "restart", "double"},
   suite : use_srtp \cup {"NONE"}, exported : BOOLEAN]

(* The outcomes OpenSSL can produce.  Application data needs a completed   *)
(* handshake; nothing is read after a close_notify; an SSL object that met *)
(* a fatal error keeps failing; completing a handshake stops the timer.    *)
SslMay(d, o) ==
  /\ o.app => /\ d.ssl = "established" \/ o.done
              /\ ~o.fatal /\ ~o.shutdown
  /\ d.shutdown => ~o.done /\ ~o.app
  /\ d.ssl = "broken" => o.fatal /\ ~o.done /\ ~o.output
  /\ o.done \/ d.ssl = "broken" => o.timer = "keep"
  /\ o.timer = "double" => d.timerUs > 0
  /\ ~o.done => o.suite = "NONE" /\ o.exported

(* The info callback: only the end of a handshake changes anything. *)
OnSslInfo(d, done) == [d EXCEPT !.handshakeDoneNow = @ \/ done]

SslRead(d, o) ==
  [OnSslInfo(d, o.done) EXCEPT
    !.ssl = IF o.fatal THEN "broken" ELSE IF o.done THEN "established" ELSE @,
    !.shutdown = @ \/ o.shutdown,
    !.exported = o.exported,
    !.bioOut = IF o.output THEN @ \cup {"record"} ELSE @,
    !.timerUs = CASE o.done -> 0
                  [] o.timer = "restart" -> onSslDtlsTimer(0)
                  [] o.timer = "double" -> onSslDtlsTimer(@)
                  [] OTHER -> @]

SslWrite(d, w) ==
  [d EXCEPT !.ssl = IF w = "fatal" THEN "broken" ELSE @,
            !.bioOut = IF w = "written" THEN @ \cup {"record"} ELSE @]

(* SSL_shutdown queues a close alert, except in the middle of a handshake  *)
(* or after a fatal error.                                                 *)
SSL_shutdown(d) ==
  [d EXCEPT !.bioOut = IF d.ssl = "established" THEN @ \cup {"closeAlert"} ELSE @]

(* SSL_clear, and SSL_set_accept_state / SSL_set_connect_state. *)
SSL_clear(d) == [d EXCEPT !.ssl = "init", !.shutdown = FALSE, !.timerUs = 0]

----------------------------------------------------------------------------
(* Private methods.                                                        *)

Notify(d, callback) == [d EXCEPT !.calls = @ \cup {callback}]

(* A failed assertion, or MS_ABORT, ends the process: no call follows. *)
MS_ASSERT(d, condition) == [d EXCEPT !.aborted = @ \/ ~condition]

IsRunning(d) == d.state \in {"CONNECTING", "CONNECTED"}

SendPendingOutgoingDtlsData(d) ==
  IF d.bioOut = {} THEN d
  ELSE Notify([d EXCEPT !.sent = @ \cup d.bioOut, !.bioOut = {}], "SendData")

(* Mutant: the handshakeDone flag survives a reset. *)
Reset_KeepsDone(d) ==
  IF ~IsRunning(d) THEN d
  ELSE [SSL_clear(SSL_shutdown(d)) EXCEPT
         !.localRole = "NONE", !.state = "NEW", !.handshakeDoneNow = FALSE]

Reset(d) ==
  IF ~IsRunning(d) THEN d
  ELSE [SSL_clear(SSL_shutdown(d)) EXCEPT
         !.localRole = "NONE", !.state = "NEW",
         !.handshakeDone = FALSE, !.handshakeDoneNow = FALSE]

(* Reset, then the terminal state and the callback that reports it. *)
Finish(d, state, callback) == Notify([Reset(d) EXCEPT !.state = state], callback)

(* Mutant: microseconds are compared with milliseconds. *)
SetTimeout_Microseconds(d) ==
  LET e == MS_ASSERT(d, IsRunning(d))
  IN IF d.timerUs < TimeoutLimitMs
     THEN [ok |-> TRUE, obj |-> e]
     ELSE [ok |-> FALSE, obj |-> Finish(e, "FAILED", "Failed")]

(* SetTimeout, ProcessHandshake and CheckStatus return the object and the  *)
(* C++ function's result.                                                  *)
SetTimeout(d) ==
  LET e == MS_ASSERT(d, IsRunning(d))
  IN IF d.timerUs \div 1000 < TimeoutLimitMs
     THEN [ok |-> TRUE, obj |-> e]
     ELSE [ok |-> FALSE, obj |-> Finish(e, "FAILED", "Failed")]

(* Mutant: the state is not moved to CONNECTED. *)
ExtractSrtpKeys_NoState(d, suite) ==
  IF ~d.exported THEN MS_ASSERT(d, FALSE)
  ELSE Notify([MS_ASSERT(d, d.localRole # "NONE") EXCEPT
                !.keys = SrtpKeys(d.localRole, suite)], "Connected")

(* The process ends where the keying material cannot be exported. *)
ExtractSrtpKeys(d, suite) ==
  IF ~d.exported THEN MS_ASSERT(d, FALSE)
  ELSE Notify([MS_ASSERT(d, d.localRole # "NONE") EXCEPT
                !.state = "CONNECTED",
                !.keys = SrtpKeys(d.localRole, suite)], "Connected")

(* The profile that OpenSSL has selected is one that the class knows. *)
GetNegotiatedSrtpCryptoSuite(d, suite) ==
  MS_ASSERT(d, suite \in srtpCryptoSuites \cup {"NONE"})

ProcessHandshake(d, suite) ==
  LET e == GetNegotiatedSrtpCryptoSuite(MS_ASSERT(d, d.handshakeDone), suite)
  IN IF suite # "NONE"
     THEN [ok |-> d.exported, obj |-> ExtractSrtpKeys(e, suite)]
     ELSE [ok |-> FALSE, obj |-> Finish(e, "FAILED", "Failed")]

(* Mutant: a renegotiation is processed like the first handshake. *)
CheckStatus_EveryHandshake(d, fatal, suite) ==
  IF d.handshakeDoneNow
  THEN ProcessHandshake(
         [d EXCEPT !.handshakeDoneNow = FALSE, !.handshakeDone = TRUE], suite)
  ELSE IF d.shutdown \/ fatal
  THEN [ok |-> FALSE,
        obj |-> IF d.state = "CONNECTED" THEN Finish(d, "CLOSED", "Closed")
                                         ELSE Finish(d, "FAILED", "Failed")]
  ELSE [ok |-> TRUE, obj |-> d]

(* Mutant: only the error code is examined, not the sticky shutdown flag. *)
CheckStatus_ErrorOnly(d, fatal, suite) ==
  IF d.handshakeDoneNow
  THEN LET e == [d EXCEPT !.handshakeDoneNow = FALSE, !.handshakeDone = TRUE]
       IN IF ~d.handshakeDone THEN ProcessHandshake(e, suite)
                              ELSE [ok |-> TRUE, obj |-> e]
  ELSE IF fatal
  THEN [ok |-> FALSE,
        obj |-> IF d.state = "CONNECTED" THEN Finish(d, "CLOSED", "Closed")
                                         ELSE Finish(d, "FAILED", "Failed")]
  ELSE [ok |-> TRUE, obj |-> d]

(* fatal: SSL_get_error gives SSL_ERROR_SSL or SSL_ERROR_SYSCALL. *)
CheckStatus(d, fatal, suite) ==
  IF d.handshakeDoneNow
  THEN LET e == [d EXCEPT !.handshakeDoneNow = FALSE, !.handshakeDone = TRUE]
       IN IF ~d.handshakeDone THEN ProcessHandshake(e, suite)
                              ELSE [ok |-> TRUE, obj |-> e]
  ELSE IF d.shutdown \/ fatal
  THEN [ok |-> FALSE,
        obj |-> IF d.state = "CONNECTED" THEN Finish(d, "CLOSED", "Closed")
                                         ELSE Finish(d, "FAILED", "Failed")]
  ELSE [ok |-> TRUE, obj |-> d]

----------------------------------------------------------------------------
(* Public methods.                                                         *)

NewDtlsTransport ==
  [state |-> "NEW", localRole |-> "NONE", handshakeDone |-> FALSE,
   handshakeDoneNow |-> FALSE, remoteFingerprint |-> FALSE,
   ssl |-> "init", shutdown |-> FALSE, timerUs |-> 0,
   bioOut |-> {}, calls |-> {}, sent |-> {}, keys |-> NoKeys,
   exported |-> TRUE, aborted |-> FALSE, destroyed |-> FALSE]

(* A call begins: forget what the previous call reported. *)
Enter(d) == [d EXCEPT !.calls = {}, !.sent = {}, !.keys = NoKeys, !.exported = TRUE]

Run(d, role) ==
  IF role = d.localRole THEN d
  ELSE LET r == IF d.localRole # "NONE" THEN Reset(d) ELSE d
           c == Notify([SSL_clear(r) EXCEPT
                         !.localRole = role, !.state = "CONNECTING"], "Connecting")
       IN IF role = "CLIENT"
          THEN SetTimeout(SendPendingOutgoingDtlsData(
                 [c EXCEPT !.bioOut = @ \cup {"record"},
                           !.timerUs = onSslDtlsTimer(0)])).obj
          ELSE c

SetRemoteFingerprint(d, suite) ==
  LET e == [d EXCEPT !.remoteFingerprint = TRUE]
  IN IF d.handshakeDone /\ d.state # "CONNECTED"
     THEN ProcessHandshake(e, suite).obj
     ELSE e

(* Mutant: what SSL_read wrote stays in the BIO. *)
ProcessDtlsData_NotSent(d, o) ==
  IF ~IsRunning(d) THEN d
  ELSE LET status == CheckStatus(SslRead(d, o), o.fatal, o.suite)
           timeout == SetTimeout(status.obj)
       IN IF ~status.ok THEN status.obj
          ELSE IF timeout.ok /\ o.app /\ timeout.obj.handshakeDone
               THEN Notify(timeout.obj, "AppData")
               ELSE timeout.obj

ProcessDtlsData(d, o) ==
  IF ~IsRunning(d) THEN d
  ELSE LET status == CheckStatus(SendPendingOutgoingDtlsData(SslRead(d, o)),
                                 o.fatal, o.suite)
           timeout == SetTimeout(status.obj)
       IN IF ~status.ok THEN status.obj
          ELSE IF timeout.ok /\ o.app /\ timeout.obj.handshakeDone
               THEN Notify(timeout.obj, "AppData")
               ELSE timeout.obj

(* w is what SSL_write does: it writes a record, would block, or fails. *)
SendApplicationData(d, w) ==
  IF d.state # "CONNECTED" THEN d
  ELSE LET e == SslWrite(d, w)
           status == CheckStatus(e, w = "fatal", "NONE")
       IN IF w = "written" THEN SendPendingOutgoingDtlsData(e)
          ELSE IF status.ok THEN SendPendingOutgoingDtlsData(status.obj)
          ELSE status.obj

(* DTLSv1_handle_timeout retransmits the last flight and doubles the timer. *)
OnTimer(d) ==
  IF d.handshakeDone THEN d
  ELSE SetTimeout(SendPendingOutgoingDtlsData(
         [d EXCEPT !.bioOut = @ \cup {"record"},
                   !.timerUs = onSslDtlsTimer(@)])).obj

Destroy(d) ==
  [IF IsRunning(d) THEN SendPendingOutgoingDtlsData(SSL_shutdown(d)) ELSE d
    EXCEPT !.destroyed = TRUE]

----------------------------------------------------------------------------
(* The class under its most general caller: any method in any order.  The  *)
(* repository's own caller, WebRtcTransport, uses Run(SERVER) once and     *)
(* ProcessDtlsData.  OnTimer stands for the Timer whose calls are          *)
(* commented out; it fires only while it would have been started.          *)

DtlsCall(after) ==
  /\ ~dtls.aborted /\ ~dtls.destroyed
  /\ dtls' = after

CallRun == \E role \in {"CLIENT", "SERVER"} : DtlsCall(Run(Enter(dtls), role))

CallSetRemoteFingerprint ==
  \E suite \in use_srtp \cup {"NONE"} :
    DtlsCall(SetRemoteFingerprint(Enter(dtls), suite))

CallProcessDtlsData ==
  \E o \in SslOutcomes :
    SslMay(dtls, o) /\ DtlsCall(ProcessDtlsData(Enter(dtls), o))

CallSendApplicationData ==
  \E w \in {"written", "again", "fatal"} :
    /\ dtls.ssl = "broken" => w = "fatal"
    /\ DtlsCall(SendApplicationData(Enter(dtls), w))

FireTimer ==
  /\ IsRunning(dtls) /\ dtls.timerUs > 0
  /\ DtlsCall(OnTimer(Enter(dtls)))

CallDestroy == DtlsCall(Destroy(Enter(dtls)))

DtlsInit == dtls = NewDtlsTransport

DtlsNext ==
  \/ CallRun
  \/ CallSetRemoteFingerprint
  \/ CallProcessDtlsData
  \/ CallSendApplicationData
  \/ FireTimer
  \/ CallDestroy

DtlsSpec == DtlsInit /\ [][DtlsNext]_dtls

----------------------------------------------------------------------------
(* Properties.                                                             *)

DtlsObject ==
  [state : DtlsState, localRole : Role, handshakeDone : BOOLEAN,
   handshakeDoneNow : BOOLEAN, remoteFingerprint : BOOLEAN,
   ssl : {"init", "established", "broken"}, shutdown : BOOLEAN,
   timerUs : Nat, bioOut : SUBSET {"record", "closeAlert"},
   calls : SUBSET Callback, sent : SUBSET {"record", "closeAlert"},
   keys : KeySet, exported : BOOLEAN, aborted : BOOLEAN, destroyed : BOOLEAN]

(* Type invariant of the DtlsTransport object. *)
DtlsTypeOK == dtls \in DtlsObject

(* Between two calls, handshakeDone holds exactly in state CONNECTED, no   *)
(* completed handshake is waiting to be processed, and a role is set       *)
(* exactly while running.  The branch of SetRemoteFingerprint for a        *)
(* handshake done but not processed is therefore dead, and Run never       *)
(* refuses to restart a transport that failed or was closed.               *)
Coherent(d) ==
  /\ d.handshakeDone <=> d.state = "CONNECTED"
  /\ ~d.handshakeDoneNow
  /\ d.localRole # "NONE" <=> IsRunning(d)

HandshakeCoherent == ~dtls.aborted => Coherent(dtls)

(* One assertion of the class can fail, the one on the result of           *)
(* SSL_export_keying_material, and then before Connected is reported.  No  *)
(* order of the calls and nothing else that OpenSSL reports reaches        *)
(* another: SetTimeout always finds a running transport, ProcessHandshake  *)
(* a completed handshake and a known suite, and ExtractSrtpKeys a role.    *)
AbortsOnlyOnExport ==
  dtls.aborted => /\ ~dtls.exported
                  /\ dtls.state = "CONNECTING" /\ dtls.localRole # "NONE"
                  /\ dtls.handshakeDone /\ "Connected" \notin dtls.calls

(* The local keys of one endpoint are the remote keys of the other, and    *)
(* the four slices tile the exported keying material.                      *)
KeysAgree ==
  "Connected" \in dtls.calls =>
    LET mine == dtls.keys
        peer == SrtpKeys(IF dtls.localRole = "SERVER" THEN "CLIENT" ELSE "SERVER",
                         mine.suite)
        Bytes(first, length) == first .. first + length - 1
        k == SrtpKeyLength(mine.suite)
        s == SrtpSaltLength(mine.suite)
    IN /\ mine.localKey = peer.remoteKey /\ mine.localSalt = peer.remoteSalt
       /\ mine.remoteKey = peer.localKey /\ mine.remoteSalt = peer.localSalt
       /\ Bytes(mine.localKey, k) \cup Bytes(mine.remoteKey, k)
          \cup Bytes(mine.localSalt, s) \cup Bytes(mine.remoteSalt, s)
          = 0 .. 2 * SrtpMasterLength(mine.suite) - 1

(* A renegotiation never reports Connected again: the SRTP keys of a       *)
(* connected transport are final (CheckStatus processes the handshake just *)
(* once).                                                                  *)
ConnectedOnce ==
  [][dtls.state = "CONNECTED" => "Connected" \notin dtls'.calls]_dtls

(* The branch of SetTimeout that gives the connection up when the interval *)
(* reaches 30 s is dead, because onSslDtlsTimer caps it, although doubling *)
(* overshoots the 4 s cap once: starting a transport leaves it running,    *)
(* and so does the timer, however often it fires.                          *)
NeverTimesOut == [][CallRun \/ FireTimer => IsRunning(dtls')]_dtls

(* A close_notify or fatal error that arrived together with the end of the *)
(* handshake, and was passed over then, ends the connection at the latest  *)
(* when the next datagram is processed.                                    *)
CloseNoticed ==
  [][(dtls.shutdown \/ dtls.ssl = "broken") /\ CallProcessDtlsData
       => ~IsRunning(dtls')]_dtls
=============================================================================
