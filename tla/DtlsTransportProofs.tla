------------------------ MODULE DtlsTransportProofs ------------------------
(***************************************************************************)
(* Theorems about DtlsTransport.  The inductive invariant is DtlsSafe: of  *)
(* an object whose assertions have held, DtlsInv, which is the type,       *)
(* Coherent and the bound on the timer; or else Ended, which says where    *)
(* the process stopped.  Both are stated of an object, and every method is *)
(* shown to preserve DtlsInv or to end there, so that the modules that     *)
(* compose DtlsTransport can cite the same lemmas.  Inside a call, between *)
(* SSL_read and CheckStatus, Coherent does not hold: MidCall is what does. *)
(***************************************************************************)
EXTENDS DtlsTransport, TLAPS

MaxTimerUs == 7999998

DtlsInv(d) ==
  /\ d \in DtlsObject
  /\ Coherent(d)
  /\ d.timerUs <= MaxTimerUs
  /\ ~d.aborted

(* The process has ended where the keying material could not be exported. *)
Ended(d) ==
  /\ d \in DtlsObject
  /\ d.aborted /\ ~d.exported
  /\ d.state = "CONNECTING" /\ d.localRole # "NONE"
  /\ d.handshakeDone /\ "Connected" \notin d.calls

DtlsSafe(d) == DtlsInv(d) \/ Ended(d)

MidCall(d) ==
  /\ d \in DtlsObject
  /\ IsRunning(d)
  /\ d.localRole # "NONE"
  /\ d.handshakeDone <=> d.state = "CONNECTED"
  /\ d.timerUs <= MaxTimerUs
  /\ ~d.aborted

(* What one call of ProcessDtlsData or of SendApplicationData may do to    *)
(* the connection: nothing, connect it and report its keys, or end it.     *)
Progress(d, e) ==
  \/ /\ e.state = d.state /\ e.localRole = d.localRole
     /\ "Connected" \notin e.calls
  \/ /\ d.state = "CONNECTING" /\ e.state = "CONNECTED"
     /\ e.localRole = d.localRole
     /\ "Connected" \in e.calls
     /\ \E suite \in srtpCryptoSuites : e.keys = SrtpKeys(e.localRole, suite)
  \/ /\ IsRunning(d) /\ e.state \in {"FAILED", "CLOSED"}
     /\ "Connected" \notin e.calls

(* onSslDtlsTimer keeps the interval below twice its 4 s cap. *)
LEMMA TimerStep ==
  ASSUME NEW t \in Nat, t <= MaxTimerUs
  PROVE  onSslDtlsTimer(t) \in Nat /\ onSslDtlsTimer(t) <= MaxTimerUs
BY DEF onSslDtlsTimer, MaxTimerUs

(* SrtpKeys gives well-typed offsets for each of the suites. *)
LEMMA SrtpKeysType ==
  ASSUME NEW suite \in srtpCryptoSuites, NEW role
  PROVE  SrtpKeys(role, suite) \in KeySet
<1>1. SrtpKeyLength(suite) \in Nat /\ SrtpSaltLength(suite) \in Nat
  BY DEF SrtpKeyLength, SrtpSaltLength
<1>2. QED
  BY <1>1 DEF SrtpKeys, KeySet

(* Notify only adds to calls. *)
LEMMA NotifyFacts ==
  ASSUME NEW d \in DtlsObject, NEW c \in Callback
  PROVE  /\ Notify(d, c) \in DtlsObject
         /\ Notify(d, c).state = d.state
         /\ Notify(d, c).localRole = d.localRole
         /\ Notify(d, c).handshakeDone = d.handshakeDone
         /\ Notify(d, c).handshakeDoneNow = d.handshakeDoneNow
         /\ Notify(d, c).timerUs = d.timerUs
         /\ Notify(d, c).aborted = d.aborted
         /\ Notify(d, c).calls = d.calls \cup {c}
         /\ Notify(d, c).keys = d.keys
         /\ Notify(d, c).exported = d.exported
BY DEF DtlsObject, Notify

(* An assertion that holds changes nothing. *)
LEMMA AssertHolds ==
  ASSUME NEW d \in DtlsObject, NEW c \in BOOLEAN, c
  PROVE  MS_ASSERT(d, c) = d
BY DEF DtlsObject, MS_ASSERT

(* SSL_shutdown only adds to the outgoing BIO. *)
LEMMA ShutdownFacts ==
  ASSUME NEW d \in DtlsObject
  PROVE  /\ SSL_shutdown(d) \in DtlsObject
         /\ SSL_shutdown(d).state = d.state
         /\ SSL_shutdown(d).localRole = d.localRole
         /\ SSL_shutdown(d).handshakeDone = d.handshakeDone
         /\ SSL_shutdown(d).handshakeDoneNow = d.handshakeDoneNow
         /\ SSL_shutdown(d).timerUs = d.timerUs
         /\ SSL_shutdown(d).calls = d.calls
         /\ SSL_shutdown(d).aborted = d.aborted
BY DEF DtlsObject, SSL_shutdown

(* SSL_clear touches only the SSL object. *)
LEMMA ClearFacts ==
  ASSUME NEW d \in DtlsObject
  PROVE  /\ SSL_clear(d) \in DtlsObject
         /\ SSL_clear(d).state = d.state
         /\ SSL_clear(d).localRole = d.localRole
         /\ SSL_clear(d).handshakeDone = d.handshakeDone
         /\ SSL_clear(d).handshakeDoneNow = d.handshakeDoneNow
         /\ SSL_clear(d).timerUs = 0
         /\ SSL_clear(d).calls = d.calls
         /\ SSL_clear(d).aborted = d.aborted
BY ZenonT(60) DEF DtlsObject, SSL_clear

(* Reset takes a running transport back to NEW, without a role. *)
LEMMA ResetFacts ==
  ASSUME NEW d \in DtlsObject, IsRunning(d)
  PROVE  /\ Reset(d) \in DtlsObject
         /\ Reset(d).state = "NEW"
         /\ Reset(d).localRole = "NONE"
         /\ Reset(d).handshakeDone = FALSE
         /\ Reset(d).handshakeDoneNow = FALSE
         /\ Reset(d).timerUs = 0
         /\ Reset(d).calls = d.calls
         /\ Reset(d).aborted = d.aborted
<1> DEFINE e == SSL_clear(SSL_shutdown(d))
<1>1. /\ e \in DtlsObject
      /\ e.timerUs = 0
      /\ e.calls = d.calls
      /\ e.aborted = d.aborted
  BY ShutdownFacts, ClearFacts
<1>2. Reset(d) = [e EXCEPT !.localRole = "NONE", !.state = "NEW",
                           !.handshakeDone = FALSE, !.handshakeDoneNow = FALSE]
  BY DEF Reset
<1> HIDE DEF e
<1> DEFINE f == [e EXCEPT !.localRole = "NONE", !.state = "NEW"]
<1>3. f \in DtlsObject
  BY <1>1, ZenonT(60) DEF DtlsObject, DtlsState, Role
<1>4. /\ f.state = "NEW" /\ f.localRole = "NONE" /\ f.timerUs = 0
      /\ f.calls = d.calls /\ f.aborted = d.aborted
  BY <1>1 DEF DtlsObject
<1>5. Reset(d) = [f EXCEPT !.handshakeDone = FALSE, !.handshakeDoneNow = FALSE]
  BY <1>2
<1> HIDE DEF f
<1>6. Reset(d) \in DtlsObject
  BY <1>3, <1>5, ZenonT(60) DEF DtlsObject
<1>7. /\ Reset(d).handshakeDone = FALSE /\ Reset(d).handshakeDoneNow = FALSE
      /\ Reset(d).state = f.state /\ Reset(d).localRole = f.localRole
      /\ Reset(d).timerUs = f.timerUs /\ Reset(d).calls = f.calls
      /\ Reset(d).aborted = f.aborted
  BY <1>3, <1>5 DEF DtlsObject
<1> QED
  BY <1>4, <1>6, <1>7

(* Finish ends a running transport in the given state. *)
LEMMA FinishFacts ==
  ASSUME NEW d \in DtlsObject, IsRunning(d), ~d.aborted,
         NEW st \in {"FAILED", "CLOSED"}, NEW c \in Callback
  PROVE  /\ DtlsInv(Finish(d, st, c))
         /\ Finish(d, st, c).state = st
         /\ Finish(d, st, c).calls = d.calls \cup {c}
<1> DEFINE r == Reset(d)
           e == [r EXCEPT !.state = st]
<1>0. /\ r \in DtlsObject /\ r.localRole = "NONE" /\ r.timerUs = 0
      /\ r.handshakeDone = FALSE /\ r.handshakeDoneNow = FALSE
      /\ r.calls = d.calls /\ r.aborted = d.aborted
  BY ResetFacts
<1> HIDE DEF r
<1>1. /\ e \in DtlsObject
      /\ e.state = st
      /\ e.localRole = "NONE"
      /\ e.handshakeDone = FALSE
      /\ e.handshakeDoneNow = FALSE
      /\ e.timerUs = 0
      /\ e.calls = d.calls
      /\ e.aborted = d.aborted
  BY <1>0, SMTT(60) DEF DtlsObject, DtlsState
<1>2. Finish(d, st, c) = Notify(e, c)
  BY DEF Finish, r
<1> HIDE DEF e
<1>3. QED
  BY <1>1, <1>2, NotifyFacts DEF DtlsInv, Coherent, IsRunning, MaxTimerUs

(* SendPendingOutgoingDtlsData does not touch the protocol state. *)
LEMMA SendPendingFacts ==
  ASSUME NEW d \in DtlsObject
  PROVE  LET e == SendPendingOutgoingDtlsData(d)
         IN /\ e \in DtlsObject
            /\ e.state = d.state
            /\ e.localRole = d.localRole
            /\ e.handshakeDone = d.handshakeDone
            /\ e.handshakeDoneNow = d.handshakeDoneNow
            /\ e.timerUs = d.timerUs
            /\ e.aborted = d.aborted
            /\ e.calls \subseteq d.calls \cup {"SendData"}
            /\ d.calls \subseteq e.calls
            /\ e.keys = d.keys
            /\ e.exported = d.exported
<1>1. CASE d.bioOut = {}
  BY <1>1, SMTT(60) DEF SendPendingOutgoingDtlsData
<1>2. CASE d.bioOut # {}
  <2> DEFINE e == [d EXCEPT !.sent = @ \cup d.bioOut, !.bioOut = {}]
  <2>1. /\ e \in DtlsObject
        /\ e.state = d.state
        /\ e.localRole = d.localRole
        /\ e.handshakeDone = d.handshakeDone
        /\ e.handshakeDoneNow = d.handshakeDoneNow
        /\ e.timerUs = d.timerUs
        /\ e.aborted = d.aborted
        /\ e.calls = d.calls
        /\ e.keys = d.keys
        /\ e.exported = d.exported
    BY ZenonT(60) DEF DtlsObject
  <2>2. SendPendingOutgoingDtlsData(d) = Notify(e, "SendData")
    BY <1>2 DEF SendPendingOutgoingDtlsData
  <2>3. "SendData" \in Callback
    BY DEF Callback
  <2> HIDE DEF e
  <2>4. QED
    BY <2>1, <2>2, <2>3, NotifyFacts
<1>3. QED
  BY <1>1, <1>2

(* On a running transport SetTimeout neither aborts nor gives up. *)
LEMMA SetTimeoutFacts ==
  ASSUME NEW d \in DtlsObject, IsRunning(d), d.timerUs <= MaxTimerUs
  PROVE  SetTimeout(d) = [ok |-> TRUE, obj |-> d]
<1>1. IsRunning(d) \in BOOLEAN
  BY DEF IsRunning
<1>2. MS_ASSERT(d, IsRunning(d)) = d
  BY <1>1, AssertHolds
<1>3. d.timerUs \div 1000 < TimeoutLimitMs
  BY DEF DtlsObject, TimeoutLimitMs, MaxTimerUs
<1>4. QED
  BY <1>2, <1>3, ZenonT(60) DEF SetTimeout

(* SSL_read may leave a completed handshake to be processed. *)
LEMMA SslReadFacts ==
  ASSUME NEW d \in DtlsObject, d.timerUs <= MaxTimerUs, NEW o \in SslOutcomes
  PROVE  LET e == SslRead(d, o)
         IN /\ e \in DtlsObject
            /\ e.state = d.state
            /\ e.localRole = d.localRole
            /\ e.handshakeDone = d.handshakeDone
            /\ e.timerUs <= MaxTimerUs
            /\ e.aborted = d.aborted
            /\ e.calls = d.calls
            /\ e.keys = d.keys
            /\ e.exported = o.exported
<1> DEFINE t == CASE o.done -> 0
                  [] o.timer = "restart" -> onSslDtlsTimer(0)
                  [] o.timer = "double" -> onSslDtlsTimer(d.timerUs)
                  [] OTHER -> d.timerUs
           b == IF o.output THEN d.bioOut \cup {"record"} ELSE d.bioOut
           l == IF o.fatal THEN "broken" ELSE IF o.done THEN "established" ELSE d.ssl
           n == d.handshakeDoneNow \/ o.done
           h == d.shutdown \/ o.shutdown
           x == o.exported
<1>1. t \in Nat /\ t <= MaxTimerUs
  <2>1. onSslDtlsTimer(0) \in Nat /\ onSslDtlsTimer(0) <= MaxTimerUs
    BY TimerStep DEF MaxTimerUs
  <2>2. d.timerUs \in Nat
    BY DEF DtlsObject
  <2>3. onSslDtlsTimer(d.timerUs) \in Nat /\ onSslDtlsTimer(d.timerUs) <= MaxTimerUs
    BY <2>2, TimerStep
  <2>4. QED
    BY <2>1, <2>2, <2>3 DEF MaxTimerUs
<1>2. b \in SUBSET {"record", "closeAlert"}
  BY DEF DtlsObject
<1>3. l \in {"init", "established", "broken"}
  BY DEF DtlsObject
<1>4. n \in BOOLEAN /\ h \in BOOLEAN /\ x \in BOOLEAN
  BY DEF SslOutcomes
<1> DEFINE m == [d EXCEPT !.handshakeDoneNow = n, !.ssl = l, !.shutdown = h,
                          !.exported = x]
<1> DEFINE e == [m EXCEPT !.bioOut = b, !.timerUs = t]
<1>5. SslRead(d, o) = e
  BY DEF SslRead, OnSslInfo, DtlsObject
<1> HIDE DEF t, b, l, n, h, x
<1>6. /\ m \in DtlsObject
      /\ m.state = d.state
      /\ m.localRole = d.localRole
      /\ m.handshakeDone = d.handshakeDone
      /\ m.aborted = d.aborted
      /\ m.calls = d.calls
      /\ m.keys = d.keys
      /\ m.exported = x
  BY <1>3, <1>4, ZenonT(60) DEF DtlsObject
<1> HIDE DEF m
<1>7. /\ e \in DtlsObject
      /\ e.state = m.state
      /\ e.localRole = m.localRole
      /\ e.handshakeDone = m.handshakeDone
      /\ e.timerUs = t
      /\ e.aborted = m.aborted
      /\ e.calls = m.calls
      /\ e.keys = m.keys
      /\ e.exported = m.exported
  BY <1>1, <1>2, <1>4, <1>6, ZenonT(60) DEF DtlsObject
<1> HIDE DEF e
<1>8. QED
  BY <1>1, <1>5, <1>6, <1>7 DEF x

(* Storing the keys of a running transport connects it. *)
LEMMA ExtractFacts ==
  ASSUME NEW d \in DtlsObject, d.localRole # "NONE", d.exported,
         NEW suite \in srtpCryptoSuites
  PROVE  LET e == ExtractSrtpKeys(d, suite)
         IN /\ e \in DtlsObject
            /\ e.state = "CONNECTED"
            /\ e.localRole = d.localRole
            /\ e.handshakeDone = d.handshakeDone
            /\ e.handshakeDoneNow = d.handshakeDoneNow
            /\ e.timerUs = d.timerUs
            /\ e.aborted = d.aborted
            /\ e.calls = d.calls \cup {"Connected"}
            /\ e.keys = SrtpKeys(d.localRole, suite)
<1> DEFINE k == SrtpKeys(d.localRole, suite)
           e == [d EXCEPT !.state = "CONNECTED", !.keys = k]
<1>1. MS_ASSERT(d, d.localRole # "NONE") = d
  BY AssertHolds
<1>2. k \in KeySet
  BY SrtpKeysType
<1>3. ExtractSrtpKeys(d, suite) = Notify(e, "Connected")
  BY <1>1 DEF ExtractSrtpKeys
<1> HIDE DEF k
<1>4. /\ e \in DtlsObject
      /\ e.state = "CONNECTED"
      /\ e.localRole = d.localRole
      /\ e.handshakeDone = d.handshakeDone
      /\ e.handshakeDoneNow = d.handshakeDoneNow
      /\ e.timerUs = d.timerUs
      /\ e.aborted = d.aborted
      /\ e.calls = d.calls
      /\ e.keys = k
  BY <1>2, ZenonT(60) DEF DtlsObject, DtlsState
<1>5. "Connected" \in Callback
  BY DEF Callback
<1> HIDE DEF e
<1>6. QED
  BY <1>3, <1>4, <1>5, NotifyFacts DEF k

(* Without keying material the assertion fails, and nothing is reported. *)
LEMMA NoMaterialFacts ==
  ASSUME NEW d \in DtlsObject, ~d.exported, NEW suite
  PROVE  LET e == ExtractSrtpKeys(d, suite)
         IN /\ e \in DtlsObject /\ e.aborted = TRUE
            /\ e.state = d.state
            /\ e.localRole = d.localRole
            /\ e.handshakeDone = d.handshakeDone
            /\ e.exported = d.exported
            /\ e.calls = d.calls
            /\ e.sent = d.sent
            /\ e.bioOut = d.bioOut
<1>1. ExtractSrtpKeys(d, suite) = [d EXCEPT !.aborted = TRUE]
  BY ZenonT(60) DEF ExtractSrtpKeys, MS_ASSERT, DtlsObject
<1>2. QED
  BY <1>1, ZenonT(60) DEF DtlsObject

(* The first completed handshake connects the transport or fails it, if it *)
(* does not end the process.                                               *)
LEMMA ProcessHandshakeFacts ==
  ASSUME NEW d \in DtlsObject, d.state = "CONNECTING", d.localRole # "NONE",
         d.handshakeDone, ~d.handshakeDoneNow, d.timerUs <= MaxTimerUs,
         ~d.aborted, "Connected" \notin d.calls,
         NEW suite \in srtpCryptoSuites \cup {"NONE"}
  PROVE  LET r == ProcessHandshake(d, suite)
         IN /\ DtlsInv(r.obj) \/ (~d.exported /\ Ended(r.obj))
            /\ r.ok \in BOOLEAN
            /\ r.ok => DtlsInv(r.obj) /\ IsRunning(r.obj)
            /\ Progress(d, r.obj)
<1>1. d.handshakeDone \in BOOLEAN /\ d.exported \in BOOLEAN
  BY DEF DtlsObject
<1>2. GetNegotiatedSrtpCryptoSuite(MS_ASSERT(d, d.handshakeDone), suite) = d
  BY <1>1, AssertHolds DEF GetNegotiatedSrtpCryptoSuite
<1>3. CASE suite = "NONE"
  <2> DEFINE f == Finish(d, "FAILED", "Failed")
  <2>1. DtlsInv(f) /\ f.state = "FAILED" /\ f.calls = d.calls \cup {"Failed"}
    BY FinishFacts DEF IsRunning, Callback
  <2>2. ProcessHandshake(d, suite) = [ok |-> FALSE, obj |-> f]
    BY <1>2, <1>3 DEF ProcessHandshake
  <2> HIDE DEF f
  <2>3. QED
    BY <2>1, <2>2 DEF Progress, IsRunning
<1>4. CASE suite # "NONE" /\ d.exported
  <2> DEFINE e == ExtractSrtpKeys(d, suite)
  <2>1. suite \in srtpCryptoSuites
    BY <1>4
  <2>2. /\ e \in DtlsObject
        /\ e.state = "CONNECTED"
        /\ e.localRole = d.localRole
        /\ e.handshakeDone = d.handshakeDone
        /\ e.handshakeDoneNow = d.handshakeDoneNow
        /\ e.timerUs = d.timerUs
        /\ e.aborted = d.aborted
        /\ e.calls = d.calls \cup {"Connected"}
        /\ e.keys = SrtpKeys(d.localRole, suite)
    BY <1>4, <2>1, ExtractFacts, ZenonT(60)
  <2>3. ProcessHandshake(d, suite) = [ok |-> TRUE, obj |-> e]
    BY <1>1, <1>2, <1>4, ZenonT(60) DEF ProcessHandshake
  <2> HIDE DEF e
  <2>4. DtlsInv(e) /\ IsRunning(e)
    BY <2>2 DEF DtlsInv, Coherent, IsRunning
  <2>5. Progress(d, e)
    BY <2>1, <2>2 DEF Progress
  <2>6. QED
    BY <2>3, <2>4, <2>5
<1>5. CASE suite # "NONE" /\ ~d.exported
  <2> DEFINE e == ExtractSrtpKeys(d, suite)
  <2>1. /\ e \in DtlsObject /\ e.aborted = TRUE
        /\ e.state = d.state
        /\ e.localRole = d.localRole
        /\ e.handshakeDone = d.handshakeDone
        /\ e.exported = d.exported
        /\ e.calls = d.calls
    BY <1>5, NoMaterialFacts, ZenonT(60)
  <2>2. ProcessHandshake(d, suite) = [ok |-> FALSE, obj |-> e]
    BY <1>1, <1>2, <1>5, ZenonT(60) DEF ProcessHandshake
  <2> HIDE DEF e
  <2>3. Ended(e) /\ Progress(d, e)
    BY <1>5, <2>1, ZenonT(60) DEF Ended, Progress
  <2>4. QED
    BY <1>5, <2>2, <2>3
<1>6. QED
  BY <1>1, <1>3, <1>4, <1>5

(* CheckStatus restores the invariant that holds between two calls, or     *)
(* ends the process.                                                       *)
LEMMA CheckStatusFacts ==
  ASSUME NEW d, MidCall(d), "Connected" \notin d.calls,
         NEW fatal \in BOOLEAN, NEW suite \in srtpCryptoSuites \cup {"NONE"}
  PROVE  LET r == CheckStatus(d, fatal, suite)
         IN /\ DtlsInv(r.obj) \/ (~d.exported /\ d.handshakeDoneNow /\ Ended(r.obj))
            /\ r.ok \in BOOLEAN
            /\ r.ok => DtlsInv(r.obj) /\ IsRunning(r.obj)
            /\ Progress(d, r.obj)
<1>0. d \in DtlsObject /\ IsRunning(d) /\ ~d.aborted
  BY DEF MidCall
<1>1. CASE d.handshakeDoneNow
  <2> DEFINE e == [d EXCEPT !.handshakeDoneNow = FALSE, !.handshakeDone = TRUE]
  <2>1. /\ e \in DtlsObject
        /\ e.state = d.state
        /\ e.localRole = d.localRole
        /\ e.handshakeDone = TRUE
        /\ e.handshakeDoneNow = FALSE
        /\ e.timerUs = d.timerUs
        /\ e.calls = d.calls
        /\ e.aborted = d.aborted
        /\ e.exported = d.exported
    BY <1>0, ZenonT(60) DEF DtlsObject
  <2>2. CheckStatus(d, fatal, suite) =
          IF ~d.handshakeDone THEN ProcessHandshake(e, suite)
                              ELSE [ok |-> TRUE, obj |-> e]
    BY <1>1 DEF CheckStatus
  <2> HIDE DEF e
  <2>3. CASE ~d.handshakeDone
    <3>1. d.state = "CONNECTING"
      BY <2>3 DEF MidCall, IsRunning
    <3>2. d.localRole # "NONE" /\ d.timerUs <= MaxTimerUs
      BY DEF MidCall
    <3> DEFINE r == ProcessHandshake(e, suite)
    <3>3. /\ DtlsInv(r.obj) \/ (~e.exported /\ Ended(r.obj))
          /\ r.ok \in BOOLEAN
          /\ r.ok => DtlsInv(r.obj) /\ IsRunning(r.obj)
          /\ Progress(e, r.obj)
      BY <1>0, <2>1, <3>1, <3>2, ProcessHandshakeFacts
    <3>4. CheckStatus(d, fatal, suite) = r
      BY <2>2, <2>3
    <3> HIDE DEF r
    <3>5. Progress(d, r.obj)
      BY <2>1, <3>3 DEF Progress, IsRunning
    <3>6. QED
      BY <1>1, <2>1, <3>3, <3>4, <3>5
  <2>4. CASE d.handshakeDone
    <3>1. CheckStatus(d, fatal, suite) = [ok |-> TRUE, obj |-> e]
      BY <2>2, <2>4
    <3>2. DtlsInv(e) /\ IsRunning(e)
      BY <2>1, <2>4 DEF DtlsInv, Coherent, MidCall, IsRunning
    <3>3. Progress(d, e)
      BY <2>1 DEF Progress
    <3>4. QED
      BY <3>1, <3>2, <3>3
  <2>5. QED
    BY <2>3, <2>4
<1>2. CASE ~d.handshakeDoneNow /\ (d.shutdown \/ fatal)
  <2> DEFINE f == IF d.state = "CONNECTED" THEN Finish(d, "CLOSED", "Closed")
                                           ELSE Finish(d, "FAILED", "Failed")
  <2>1. /\ DtlsInv(f)
        /\ f.state \in {"FAILED", "CLOSED"}
        /\ "Connected" \notin f.calls
    BY <1>0, FinishFacts, SMTT(60) DEF Callback
  <2>2. CheckStatus(d, fatal, suite) = [ok |-> FALSE, obj |-> f]
    BY <1>2 DEF CheckStatus
  <2> HIDE DEF f
  <2>3. QED
    BY <1>0, <2>1, <2>2 DEF Progress
<1>3. CASE ~d.handshakeDoneNow /\ ~(d.shutdown \/ fatal)
  <2>1. CheckStatus(d, fatal, suite) = [ok |-> TRUE, obj |-> d]
    BY <1>3, SMTT(60) DEF CheckStatus
  <2>2. DtlsInv(d)
    BY <1>3 DEF MidCall, DtlsInv, Coherent
  <2>3. QED
    BY <1>0, <2>1, <2>2 DEF Progress
<1>4. QED
  BY <1>1, <1>2, <1>3

----------------------------------------------------------------------------
(* The public methods.                                                     *)

(* Entering a call forgets the last call's reports and nothing else. *)
LEMMA EnterFacts ==
  ASSUME NEW d, DtlsInv(d)
  PROVE  /\ DtlsInv(Enter(d))
         /\ Enter(d).calls = {}
         /\ Enter(d).state = d.state
         /\ Enter(d).localRole = d.localRole
         /\ Enter(d).handshakeDoneNow = d.handshakeDoneNow
<1> DEFINE e == Enter(d)
<1>1. NoKeys \in KeySet
  BY DEF NoKeys, KeySet
<1>2. d \in DtlsObject
  BY DEF DtlsInv
<1>3. /\ e \in DtlsObject
      /\ e.calls = {}
      /\ e.state = d.state
      /\ e.localRole = d.localRole
      /\ e.handshakeDone = d.handshakeDone
      /\ e.handshakeDoneNow = d.handshakeDoneNow
      /\ e.timerUs = d.timerUs
      /\ e.aborted = d.aborted
  BY <1>1, <1>2, ZenonT(60) DEF Enter, DtlsObject
<1> HIDE DEF e
<1>4. DtlsInv(e)
  BY <1>3 DEF DtlsInv, Coherent, IsRunning
<1>5. QED
  BY <1>3, <1>4 DEF e

(* Run leaves a running transport with the role asked for. *)
LEMMA RunFacts ==
  ASSUME NEW d, DtlsInv(d), d.calls = {}, NEW role \in {"CLIENT", "SERVER"}
  PROVE  /\ DtlsInv(Run(d, role))
         /\ "Connected" \notin Run(d, role).calls
         /\ Run(d, role).localRole = role
         /\ role # d.localRole => Run(d, role).state = "CONNECTING"
<1>1. CASE role = d.localRole
  BY <1>1, SMTT(60) DEF Run
<1>2. CASE role # d.localRole
  <2> DEFINE r == IF d.localRole # "NONE" THEN Reset(d) ELSE d
             l == SSL_clear(r)
             m == [l EXCEPT !.localRole = role, !.state = "CONNECTING"]
             c == Notify(m, "Connecting")
             k == [c EXCEPT !.bioOut = @ \cup {"record"},
                            !.timerUs = onSslDtlsTimer(0)]
             p == SendPendingOutgoingDtlsData(k)
  <2>1. /\ r \in DtlsObject /\ ~r.aborted /\ r.calls = {}
        /\ ~r.handshakeDone /\ ~r.handshakeDoneNow
    <3>1. CASE d.localRole # "NONE"
      BY <3>1, ResetFacts, ZenonT(60) DEF DtlsInv, Coherent
    <3>2. CASE d.localRole = "NONE"
      BY <3>2 DEF DtlsInv, Coherent, IsRunning
    <3>3. QED
      BY <3>1, <3>2
  <2>2. Run(d, role) = IF role = "CLIENT" THEN SetTimeout(p).obj ELSE c
    BY <1>2 DEF Run
  <2> HIDE DEF r
  <2>3. /\ l \in DtlsObject /\ ~l.aborted /\ l.calls = {} /\ l.timerUs = 0
        /\ ~l.handshakeDone /\ ~l.handshakeDoneNow
    BY <2>1, ClearFacts
  <2> HIDE DEF l
  <2>4. /\ m \in DtlsObject /\ ~m.aborted /\ m.calls = {} /\ m.timerUs = 0
        /\ ~m.handshakeDone /\ ~m.handshakeDoneNow
        /\ m.state = "CONNECTING" /\ m.localRole = role
    BY <2>3, ZenonT(60) DEF DtlsObject, DtlsState, Role
  <2> HIDE DEF m
  <2>5. /\ c \in DtlsObject /\ ~c.aborted /\ c.calls = {"Connecting"}
        /\ c.timerUs = 0 /\ ~c.handshakeDone /\ ~c.handshakeDoneNow
        /\ c.state = "CONNECTING" /\ c.localRole = role
    BY <2>4, NotifyFacts DEF Callback
  <2> HIDE DEF c
  <2>6. onSslDtlsTimer(0) \in Nat /\ onSslDtlsTimer(0) <= MaxTimerUs
    BY DEF onSslDtlsTimer, MaxTimerUs
  <2>7. /\ k \in DtlsObject /\ ~k.aborted /\ k.calls = {"Connecting"}
        /\ k.timerUs <= MaxTimerUs /\ ~k.handshakeDone /\ ~k.handshakeDoneNow
        /\ k.state = "CONNECTING" /\ k.localRole = role
    BY <2>5, <2>6, ZenonT(60) DEF DtlsObject
  <2> HIDE DEF k
  <2>8. /\ p \in DtlsObject /\ ~p.aborted /\ "Connected" \notin p.calls
        /\ p.timerUs <= MaxTimerUs /\ ~p.handshakeDone /\ ~p.handshakeDoneNow
        /\ p.state = "CONNECTING" /\ p.localRole = role
    BY <2>7, SendPendingFacts
  <2> HIDE DEF p
  <2>9. SetTimeout(p) = [ok |-> TRUE, obj |-> p]
    BY <2>8, SetTimeoutFacts DEF IsRunning
  <2>10. DtlsInv(p)
    BY <2>8 DEF DtlsInv, Coherent, IsRunning
  <2>11. DtlsInv(c)
    BY <2>5, SMTT(60) DEF DtlsInv, Coherent, IsRunning, MaxTimerUs
  <2>12. QED
    BY <2>2, <2>5, <2>8, <2>9, <2>10, <2>11, SMTT(60)
<1>3. QED
  BY <1>1, <1>2

(* SetRemoteFingerprint only records the fingerprint: its other branch is  *)
(* dead under the invariant.                                               *)
LEMMA SetRemoteFingerprintFacts ==
  ASSUME NEW d, DtlsInv(d), d.calls = {}, NEW suite
  PROVE  /\ DtlsInv(SetRemoteFingerprint(d, suite))
         /\ SetRemoteFingerprint(d, suite).calls = {}
<1> DEFINE e == [d EXCEPT !.remoteFingerprint = TRUE]
<1>1. SetRemoteFingerprint(d, suite) = e
  BY DEF SetRemoteFingerprint, DtlsInv, Coherent
<1>2. d \in DtlsObject
  BY DEF DtlsInv
<1>3. /\ e \in DtlsObject
      /\ e.calls = {}
      /\ e.state = d.state
      /\ e.localRole = d.localRole
      /\ e.handshakeDone = d.handshakeDone
      /\ e.handshakeDoneNow = d.handshakeDoneNow
      /\ e.timerUs = d.timerUs
      /\ e.aborted = d.aborted
  BY <1>2, ZenonT(60) DEF DtlsObject
<1> HIDE DEF e
<1>4. QED
  BY <1>1, <1>3 DEF DtlsInv, Coherent, IsRunning

(* A datagram makes the connection progress and preserves the invariant,   *)
(* as long as keying material can be exported.                             *)
LEMMA ProcessDtlsDataFacts ==
  ASSUME NEW d, DtlsInv(d), d.calls = {}, NEW o \in SslOutcomes
  PROVE  LET e == ProcessDtlsData(d, o)
         IN /\ DtlsInv(e) \/ (~o.exported /\ Ended(e))
            /\ Progress(d, e)
<1>1. CASE ~IsRunning(d)
  BY <1>1, ZenonT(60) DEF ProcessDtlsData, Progress
<1>2. CASE IsRunning(d)
  <2> DEFINE e == SslRead(d, o)
             p == SendPendingOutgoingDtlsData(e)
             status == CheckStatus(p, o.fatal, o.suite)
             s == status.obj
             n == Notify(s, "AppData")
  <2>1. /\ e \in DtlsObject
        /\ e.state = d.state
        /\ e.localRole = d.localRole
        /\ e.handshakeDone = d.handshakeDone
        /\ e.timerUs <= MaxTimerUs
        /\ e.aborted = d.aborted
        /\ e.calls = d.calls
        /\ e.exported = o.exported
    BY SslReadFacts, SMTT(60) DEF DtlsInv
  <2>2. ProcessDtlsData(d, o) =
          IF ~status.ok THEN s
          ELSE IF SetTimeout(s).ok /\ o.app /\ SetTimeout(s).obj.handshakeDone
               THEN Notify(SetTimeout(s).obj, "AppData")
               ELSE SetTimeout(s).obj
    BY <1>2, SMTT(60) DEF ProcessDtlsData
  <2> HIDE DEF e
  <2>3. /\ p \in DtlsObject
        /\ p.state = d.state
        /\ p.localRole = d.localRole
        /\ p.handshakeDone = d.handshakeDone
        /\ p.timerUs <= MaxTimerUs
        /\ p.aborted = d.aborted
        /\ "Connected" \notin p.calls
        /\ p.exported = o.exported
    BY <2>1, SendPendingFacts, SMTT(60)
  <2> HIDE DEF p
  <2>4. MidCall(p)
    BY <1>2, <2>3, SMTT(60) DEF MidCall, DtlsInv, Coherent, IsRunning
  <2>5. o.fatal \in BOOLEAN /\ o.suite \in srtpCryptoSuites \cup {"NONE"}
    BY SMTT(60) DEF SslOutcomes, use_srtp
  <2>6. /\ DtlsInv(s) \/ (~p.exported /\ Ended(s))
        /\ status.ok \in BOOLEAN
        /\ status.ok => DtlsInv(s) /\ IsRunning(s)
        /\ Progress(p, s)
    BY <2>3, <2>4, <2>5, CheckStatusFacts, SMTT(60)
  <2> HIDE DEF status
  <2>7. Progress(d, s)
    BY <2>3, <2>6, SMTT(60) DEF Progress, IsRunning
  <2>8. CASE ~status.ok
    BY <2>2, <2>3, <2>6, <2>7, <2>8, SMTT(60)
  <2>9. CASE status.ok
    <3> HIDE DEF s
    <3>1. SetTimeout(s) = [ok |-> TRUE, obj |-> s]
      BY <2>6, <2>9, SetTimeoutFacts, SMTT(60) DEF DtlsInv
    <3>2. ProcessDtlsData(d, o) = s \/ ProcessDtlsData(d, o) = n
      BY <2>2, <2>9, <3>1, SMTT(60)
    <3>3. /\ n \in DtlsObject
          /\ n.state = s.state
          /\ n.localRole = s.localRole
          /\ n.handshakeDone = s.handshakeDone
          /\ n.handshakeDoneNow = s.handshakeDoneNow
          /\ n.timerUs = s.timerUs
          /\ n.aborted = s.aborted
          /\ n.calls = s.calls \cup {"AppData"}
          /\ n.keys = s.keys
      BY <2>6, <2>9, NotifyFacts, SMTT(60) DEF Callback, DtlsInv
    <3> HIDE DEF n
    <3>4. DtlsInv(n)
      BY <2>6, <2>9, <3>3, SMTT(60) DEF DtlsInv, Coherent, IsRunning
    <3>5. Progress(d, n)
      BY <2>7, <3>3, SMTT(60) DEF Progress
    <3>6. QED
      BY <2>6, <2>7, <2>9, <3>2, <3>4, <3>5, SMTT(60)
  <2>10. QED
    BY <2>6, <2>8, <2>9, SMTT(60)
<1>3. QED
  BY <1>1, <1>2

(* SSL_write leaves the connection as it is. *)
LEMMA SslWriteFacts ==
  ASSUME NEW d, DtlsInv(d), NEW w
  PROVE  /\ DtlsInv(SslWrite(d, w))
         /\ SslWrite(d, w).state = d.state
         /\ SslWrite(d, w).localRole = d.localRole
         /\ SslWrite(d, w).calls = d.calls
<1> DEFINE e == SslWrite(d, w)
<1>1. d \in DtlsObject
  BY DEF DtlsInv
<1>2. /\ e \in DtlsObject
      /\ e.state = d.state
      /\ e.localRole = d.localRole
      /\ e.handshakeDone = d.handshakeDone
      /\ e.handshakeDoneNow = d.handshakeDoneNow
      /\ e.timerUs = d.timerUs
      /\ e.aborted = d.aborted
      /\ e.calls = d.calls
  BY <1>1, ZenonT(60) DEF SslWrite, DtlsObject
<1> HIDE DEF e
<1>3. DtlsInv(e)
  BY <1>2 DEF DtlsInv, Coherent, IsRunning
<1>4. QED
  BY <1>2, <1>3 DEF e

(* Flushing the outgoing BIO preserves the invariant and what was reached. *)
LEMMA SendPendingInv ==
  ASSUME NEW d, NEW e, DtlsInv(e), Progress(d, e)
  PROVE  /\ DtlsInv(SendPendingOutgoingDtlsData(e))
         /\ Progress(d, SendPendingOutgoingDtlsData(e))
<1> DEFINE p == SendPendingOutgoingDtlsData(e)
<1>1. /\ p \in DtlsObject
      /\ p.state = e.state
      /\ p.localRole = e.localRole
      /\ p.handshakeDone = e.handshakeDone
      /\ p.handshakeDoneNow = e.handshakeDoneNow
      /\ p.timerUs = e.timerUs
      /\ p.aborted = e.aborted
      /\ p.calls \subseteq e.calls \cup {"SendData"}
      /\ e.calls \subseteq p.calls
      /\ p.keys = e.keys
  BY SendPendingFacts, SMTT(60) DEF DtlsInv
<1> HIDE DEF p
<1>2. DtlsInv(p)
  BY <1>1, SMTT(60) DEF DtlsInv, Coherent, IsRunning
<1>3. Progress(d, p)
  BY <1>1, SMTT(60) DEF Progress
<1>4. QED
  BY <1>2, <1>3 DEF p

(* Sending application data makes at most the progress a datagram makes. *)
LEMMA SendApplicationDataFacts ==
  ASSUME NEW d, DtlsInv(d), d.calls = {}, NEW w
  PROVE  /\ DtlsInv(SendApplicationData(d, w))
         /\ Progress(d, SendApplicationData(d, w))
<1>1. CASE d.state # "CONNECTED"
  BY <1>1, SMTT(60) DEF SendApplicationData, Progress
<1>2. CASE d.state = "CONNECTED"
  <2> DEFINE e == SslWrite(d, w)
             status == CheckStatus(e, w = "fatal", "NONE")
             s == status.obj
  <2>1. /\ DtlsInv(e) /\ e.state = d.state /\ e.localRole = d.localRole
        /\ e.calls = {}
    BY SslWriteFacts, SMTT(60)
  <2>2. SendApplicationData(d, w) =
          IF w = "written" THEN SendPendingOutgoingDtlsData(e)
          ELSE IF status.ok THEN SendPendingOutgoingDtlsData(s) ELSE s
    BY <1>2, SMTT(60) DEF SendApplicationData
  <2> HIDE DEF e
  <2>3. MidCall(e)
    BY <1>2, <2>1, SMTT(60) DEF MidCall, DtlsInv, Coherent, IsRunning
  <2>4. DtlsInv(s) /\ Progress(e, s) /\ status.ok \in BOOLEAN
    <3>1. ~e.handshakeDoneNow
      BY <2>1, ZenonT(60) DEF DtlsInv, Coherent
    <3>2. QED
      BY <2>1, <2>3, <3>1, CheckStatusFacts, ZenonT(60)
  <2> HIDE DEF status, s
  <2>5. Progress(d, s) /\ Progress(d, e)
    BY <2>1, <2>4, SMTT(60) DEF Progress, IsRunning
  <2>6. QED
    BY <2>1, <2>2, <2>4, <2>5, SendPendingInv, SMTT(60)
<1>3. QED
  BY <1>1, <1>2, SMTT(60)

(* The timer retransmits; it never gives the connection up. *)
LEMMA OnTimerFacts ==
  ASSUME NEW d, DtlsInv(d), IsRunning(d), d.calls = {}
  PROVE  /\ DtlsInv(OnTimer(d)) /\ Progress(d, OnTimer(d))
         /\ OnTimer(d).state = d.state
<1>1. CASE d.handshakeDone
  BY <1>1 DEF OnTimer, Progress
<1>2. CASE ~d.handshakeDone
  <2> DEFINE e == [d EXCEPT !.bioOut = @ \cup {"record"},
                            !.timerUs = onSslDtlsTimer(@)]
             p == SendPendingOutgoingDtlsData(e)
  <2>1. d \in DtlsObject /\ d.timerUs \in Nat
    BY DEF DtlsInv, DtlsObject
  <2>2. onSslDtlsTimer(d.timerUs) \in Nat /\ onSslDtlsTimer(d.timerUs) <= MaxTimerUs
    BY <2>1, TimerStep DEF DtlsInv
  <2>3. /\ e \in DtlsObject
        /\ e.state = d.state
        /\ e.localRole = d.localRole
        /\ e.handshakeDone = d.handshakeDone
        /\ e.handshakeDoneNow = d.handshakeDoneNow
        /\ e.timerUs <= MaxTimerUs
        /\ e.aborted = d.aborted
        /\ e.calls = {}
    BY <2>1, <2>2, ZenonT(60) DEF DtlsObject
  <2>4. OnTimer(d) = SetTimeout(p).obj
    BY <1>2 DEF OnTimer
  <2> HIDE DEF e
  <2>5. DtlsInv(e) /\ Progress(d, e)
    BY <2>3, SMTT(60) DEF DtlsInv, Coherent, IsRunning, Progress
  <2>6. DtlsInv(p) /\ Progress(d, p) /\ p.state = d.state
    BY <2>3, <2>5, SendPendingInv, SendPendingFacts, SMTT(60)
  <2> HIDE DEF p
  <2>7. SetTimeout(p) = [ok |-> TRUE, obj |-> p]
    BY <2>6, SetTimeoutFacts, SMTT(60) DEF DtlsInv, IsRunning
  <2>8. QED
    BY <2>4, <2>6, <2>7
<1>3. QED
  BY <1>1, <1>2

(* The destructor leaves the protocol state alone. *)
LEMMA DestroyFacts ==
  ASSUME NEW d, DtlsInv(d), d.calls = {}
  PROVE  DtlsInv(Destroy(d)) /\ "Connected" \notin Destroy(d).calls
<1> DEFINE h == SSL_shutdown(d)
           f == IF IsRunning(d) THEN SendPendingOutgoingDtlsData(h) ELSE d
           e == [f EXCEPT !.destroyed = TRUE]
<1>1. d \in DtlsObject
  BY DEF DtlsInv
<1>2. /\ f \in DtlsObject
      /\ f.state = d.state
      /\ f.localRole = d.localRole
      /\ f.handshakeDone = d.handshakeDone
      /\ f.handshakeDoneNow = d.handshakeDoneNow
      /\ f.timerUs = d.timerUs
      /\ f.aborted = d.aborted
      /\ "Connected" \notin f.calls
  <2> HIDE DEF h
  <2>1. /\ h \in DtlsObject
        /\ h.state = d.state
        /\ h.localRole = d.localRole
        /\ h.handshakeDone = d.handshakeDone
        /\ h.handshakeDoneNow = d.handshakeDoneNow
        /\ h.timerUs = d.timerUs
        /\ h.aborted = d.aborted
        /\ h.calls = {}
    BY <1>1, ShutdownFacts DEF h
  <2>2. QED
    BY <1>1, <2>1, SendPendingFacts, SMTT(60)
<1>3. Destroy(d) = e
  BY DEF Destroy
<1> HIDE DEF f
<1>4. /\ e \in DtlsObject
      /\ e.state = d.state
      /\ e.localRole = d.localRole
      /\ e.handshakeDone = d.handshakeDone
      /\ e.handshakeDoneNow = d.handshakeDoneNow
      /\ e.timerUs = d.timerUs
      /\ e.aborted = d.aborted
      /\ "Connected" \notin e.calls
  BY <1>2, ZenonT(60) DEF DtlsObject
<1> HIDE DEF e
<1>5. QED
  BY <1>3, <1>4, SMTT(60) DEF DtlsInv, Coherent, IsRunning

----------------------------------------------------------------------------
(* What leaves the transport, and how it ends.                             *)

(* No close alert is sent, or will be by a transport that runs: the one    *)
(* that Reset queues stays behind in the BIO.                              *)
AlertFree(d) ==
  /\ "closeAlert" \notin d.sent
  /\ d.state \notin {"FAILED", "CLOSED"} => "closeAlert" \notin d.bioOut

(* SSL_read writes records; it remembers a close_notify and the end of a   *)
(* handshake.                                                              *)
LEMMA SslReadOutput ==
  ASSUME NEW d \in DtlsObject, NEW o \in SslOutcomes
  PROVE  LET e == SslRead(d, o)
         IN /\ e.sent = d.sent /\ e.bioOut \subseteq d.bioOut \cup {"record"}
            /\ e.shutdown = (d.shutdown \/ o.shutdown)
            /\ e.handshakeDoneNow = (d.handshakeDoneNow \/ o.done)
<1> DEFINE m == OnSslInfo(d, o.done)
<1>1. /\ m.sent = d.sent /\ m.bioOut = d.bioOut /\ m.shutdown = d.shutdown
      /\ m.handshakeDoneNow = (d.handshakeDoneNow \/ o.done)
      /\ DOMAIN m = DOMAIN d
  BY DEF OnSslInfo, DtlsObject
<1>2. QED
  BY <1>1 DEF SslRead, DtlsObject

(* Flushing sends what the BIO held and leaves it empty. *)
LEMMA SendPendingOutput ==
  ASSUME NEW d \in DtlsObject
  PROVE  LET e == SendPendingOutgoingDtlsData(d)
         IN /\ e.sent \subseteq d.sent \cup d.bioOut /\ e.bioOut = {}
            /\ e.shutdown = d.shutdown
BY DEF SendPendingOutgoingDtlsData, Notify, DtlsObject

(* Ending the connection sends nothing. *)
LEMMA FinishOutput ==
  ASSUME NEW d \in DtlsObject, NEW st, NEW c
  PROVE  Finish(d, st, c).sent = d.sent
BY SMTT(60) DEF Finish, Notify, Reset, SSL_clear, SSL_shutdown, DtlsObject

(* CheckStatus sends nothing; it ends the connection when it is told of a  *)
(* close or of an error and no handshake has just been completed.          *)
LEMMA CheckStatusOutput ==
  ASSUME NEW d, MidCall(d), NEW fatal \in BOOLEAN,
         NEW suite \in srtpCryptoSuites \cup {"NONE"}
  PROVE  LET r == CheckStatus(d, fatal, suite)
         IN /\ r.obj.sent = d.sent
            /\ \/ r.obj.bioOut = d.bioOut
               \/ r.obj.state \in {"FAILED", "CLOSED"}
            /\ ~d.handshakeDoneNow /\ (d.shutdown \/ fatal)
                 => ~r.ok /\ r.obj.state \in {"FAILED", "CLOSED"}
<1> DEFINE r == CheckStatus(d, fatal, suite)
<1>0. d \in DtlsObject /\ IsRunning(d) /\ ~d.aborted /\ d.localRole # "NONE"
  BY SMTT(60) DEF MidCall
<1>1. CASE d.handshakeDoneNow
  <2> DEFINE e == [d EXCEPT !.handshakeDoneNow = FALSE, !.handshakeDone = TRUE]
             x == ExtractSrtpKeys(e, suite)
             f == Finish(e, "FAILED", "Failed")
  <2>1. /\ e \in DtlsObject
        /\ e.handshakeDone = TRUE /\ e.sent = d.sent /\ e.bioOut = d.bioOut
        /\ e.state = d.state /\ e.aborted = d.aborted
    BY <1>0, ZenonT(60) DEF DtlsObject
  <2>2. r = IF ~d.handshakeDone THEN ProcessHandshake(e, suite)
                                ELSE [ok |-> TRUE, obj |-> e]
    BY <1>1 DEF CheckStatus
  <2> HIDE DEF e
  <2>3. GetNegotiatedSrtpCryptoSuite(MS_ASSERT(e, e.handshakeDone), suite) = e
    BY <2>1, AssertHolds DEF GetNegotiatedSrtpCryptoSuite
  <2>4. ProcessHandshake(e, suite).obj \in {x, f}
    BY <2>3 DEF ProcessHandshake
  <2>5. x.sent = d.sent /\ x.bioOut = d.bioOut
    BY <2>1 DEF ExtractSrtpKeys, MS_ASSERT, Notify, DtlsObject
  <2>6. f.sent = d.sent /\ f.state = "FAILED"
    BY <1>0, <2>1, FinishOutput, FinishFacts, SMTT(60) DEF IsRunning, Callback
  <2> HIDE DEF x, f
  <2>7. QED
    BY <1>1, <2>1, <2>2, <2>4, <2>5, <2>6
<1>2. CASE ~d.handshakeDoneNow /\ (d.shutdown \/ fatal)
  <2> DEFINE f == IF d.state = "CONNECTED" THEN Finish(d, "CLOSED", "Closed")
                                           ELSE Finish(d, "FAILED", "Failed")
  <2>1. f.state \in {"FAILED", "CLOSED"} /\ f.sent = d.sent
    BY <1>0, FinishFacts, FinishOutput, SMTT(60) DEF Callback
  <2>2. r = [ok |-> FALSE, obj |-> f]
    BY <1>2 DEF CheckStatus
  <2> HIDE DEF f
  <2>3. QED
    BY <2>1, <2>2
<1>3. CASE ~d.handshakeDoneNow /\ ~(d.shutdown \/ fatal)
  BY <1>3, SMTT(60) DEF CheckStatus
<1>4. QED
  BY <1>1, <1>2, <1>3

(* A datagram makes a transport send records only, and ends the connection *)
(* if SSL_read reports or remembers a close or an error without completing *)
(* a handshake.                                                            *)
LEMMA ProcessDtlsDataOutput ==
  ASSUME NEW d, DtlsInv(d), d.calls = {}, NEW o \in SslOutcomes
  PROVE  LET e == ProcessDtlsData(d, o)
         IN /\ AlertFree(d) => AlertFree(e)
            /\ ~o.done /\ (d.shutdown \/ o.fatal) => ~IsRunning(e)
<1>1. CASE ~IsRunning(d)
  BY <1>1, ZenonT(60) DEF ProcessDtlsData
<1>2. CASE IsRunning(d)
  <2> DEFINE e == SslRead(d, o)
             p == SendPendingOutgoingDtlsData(e)
             status == CheckStatus(p, o.fatal, o.suite)
             s == status.obj
             n == Notify(s, "AppData")
  <2>0. d \in DtlsObject /\ d.timerUs <= MaxTimerUs /\ ~d.handshakeDoneNow
    BY SMTT(60) DEF DtlsInv, Coherent
  <2>1. /\ e \in DtlsObject
        /\ e.state = d.state
        /\ e.localRole = d.localRole
        /\ e.handshakeDone = d.handshakeDone
        /\ e.timerUs <= MaxTimerUs
        /\ e.aborted = d.aborted
        /\ e.calls = d.calls
    BY <2>0, SslReadFacts, SMTT(60)
  <2>2. /\ e.sent = d.sent /\ e.bioOut \subseteq d.bioOut \cup {"record"}
        /\ e.shutdown = (d.shutdown \/ o.shutdown)
        /\ e.handshakeDoneNow = o.done
    BY <2>0, SslReadOutput, SMTT(60) DEF SslOutcomes
  <2>3. ProcessDtlsData(d, o) =
          IF ~status.ok THEN s
          ELSE IF SetTimeout(s).ok /\ o.app /\ SetTimeout(s).obj.handshakeDone
               THEN Notify(SetTimeout(s).obj, "AppData")
               ELSE SetTimeout(s).obj
    BY <1>2, SMTT(60) DEF ProcessDtlsData
  <2> HIDE DEF e
  <2>4. /\ p \in DtlsObject
        /\ p.state = d.state
        /\ p.localRole = d.localRole
        /\ p.handshakeDone = d.handshakeDone
        /\ p.handshakeDoneNow = o.done
        /\ p.timerUs <= MaxTimerUs
        /\ p.aborted = d.aborted
        /\ "Connected" \notin p.calls
    BY <2>1, <2>2, SendPendingFacts, SMTT(60)
  <2>5. /\ p.sent \subseteq d.sent \cup d.bioOut \cup {"record"} /\ p.bioOut = {}
        /\ p.shutdown = (d.shutdown \/ o.shutdown)
    BY <2>1, <2>2, SendPendingOutput, SMTT(60)
  <2> HIDE DEF p
  <2>6. MidCall(p) /\ o.fatal \in BOOLEAN /\ o.suite \in srtpCryptoSuites \cup {"NONE"}
    BY <1>2, <2>4, SMTT(60) DEF MidCall, DtlsInv, Coherent, IsRunning, SslOutcomes, use_srtp
  <2>7. /\ s.sent = p.sent
        /\ s.bioOut = p.bioOut \/ s.state \in {"FAILED", "CLOSED"}
        /\ ~p.handshakeDoneNow /\ (p.shutdown \/ o.fatal)
             => ~status.ok /\ s.state \in {"FAILED", "CLOSED"}
    BY <2>6, CheckStatusOutput, SMTT(60)
  <2>8. status.ok => DtlsInv(s) /\ IsRunning(s)
    BY <2>4, <2>6, CheckStatusFacts, SMTT(60)
  <2> HIDE DEF status
  <2>9. AlertFree(d) => AlertFree(s)
    BY <1>2, <2>5, <2>7, SMTT(60) DEF AlertFree, IsRunning
  <2>10. ~o.done /\ (d.shutdown \/ o.fatal) => ~status.ok /\ ~IsRunning(s)
    BY <2>4, <2>5, <2>7 DEF IsRunning
  <2> HIDE DEF s
  <2>11. CASE ~status.ok
    BY <2>3, <2>9, <2>10, <2>11
  <2>12. CASE status.ok
    <3>1. SetTimeout(s) = [ok |-> TRUE, obj |-> s]
      BY <2>8, <2>12, SetTimeoutFacts, SMTT(60) DEF DtlsInv
    <3>2. ProcessDtlsData(d, o) \in {s, n}
      BY <2>3, <2>12, <3>1
    <3>3. n.sent = s.sent /\ n.bioOut = s.bioOut /\ n.state = s.state
      BY <2>8, <2>12 DEF Notify, DtlsInv, DtlsObject
    <3> HIDE DEF n
    <3>4. AlertFree(d) => AlertFree(n)
      BY <2>9, <3>3 DEF AlertFree
    <3>5. QED
      BY <2>9, <2>10, <2>12, <3>2, <3>4
  <2>13. QED
    BY <2>11, <2>12
<1>3. QED
  BY <1>1, <1>2

(* Entering a call forgets what was sent, not what is queued. *)
LEMMA EnterOutput ==
  ASSUME NEW d, DtlsInv(d), AlertFree(d)
  PROVE  AlertFree(Enter(d))
BY DEF AlertFree, Enter, DtlsInv, DtlsObject

(* Starting a new transport as the server sends nothing. *)
LEMMA RunOutput ==
  ASSUME NEW d, DtlsInv(d), d.state = "NEW", AlertFree(d)
  PROVE  AlertFree(Run(d, "SERVER"))
<1> DEFINE e == Run(d, "SERVER")
<1>1. d \in DtlsObject /\ d.localRole = "NONE"
  BY DEF DtlsInv, Coherent, IsRunning
<1>2. e = Notify([SSL_clear(d) EXCEPT !.localRole = "SERVER", !.state = "CONNECTING"],
                 "Connecting")
  BY <1>1 DEF Run
<1>3. e.sent = d.sent /\ e.bioOut = d.bioOut
  BY <1>1, <1>2, ZenonT(60) DEF Notify, SSL_clear, DtlsObject
<1>4. QED
  BY <1>3 DEF AlertFree

----------------------------------------------------------------------------
(* The theorems.                                                           *)

(* When Connected is reported, the keys are the ones of the role. *)
Reported(d) ==
  "Connected" \in d.calls =>
    /\ d.localRole \in {"CLIENT", "SERVER"}
    /\ \E suite \in srtpCryptoSuites : d.keys = SrtpKeys(d.localRole, suite)

(* Every call preserves the invariant, and reports Connected only when it  *)
(* connects a transport that was connecting.                               *)
LEMMA DtlsStep ==
  ASSUME DtlsInv(dtls), DtlsNext
  PROVE  /\ DtlsSafe(dtls')
         /\ Reported(dtls')
         /\ "Connected" \in dtls'.calls => dtls.state = "CONNECTING"
<1> DEFINE d == Enter(dtls)
<1>1. /\ DtlsInv(d) /\ d.calls = {}
      /\ d.state = dtls.state /\ d.localRole = dtls.localRole
  BY EnterFacts
<1> HIDE DEF d
<1>2. ASSUME DtlsSafe(dtls'), Progress(d, dtls')
      PROVE  /\ Reported(dtls')
             /\ "Connected" \in dtls'.calls => dtls.state = "CONNECTING"
  <2>1. dtls'.localRole \in Role
    BY <1>2, SMTT(60) DEF DtlsSafe, DtlsInv, Ended, DtlsObject
  <2>2. "Connected" \in dtls'.calls =>
          /\ d.state = "CONNECTING" /\ dtls'.localRole = d.localRole
          /\ \E suite \in srtpCryptoSuites :
               dtls'.keys = SrtpKeys(dtls'.localRole, suite)
    BY <1>2, SMTT(60) DEF Progress
  <2>3. d.state = "CONNECTING" => d.localRole # "NONE"
    BY <1>1, SMTT(60) DEF DtlsInv, Coherent, IsRunning
  <2>4. QED
    BY <1>1, <2>1, <2>2, <2>3 DEF Reported, Role
<1>3. CASE CallRun
  <2>1. PICK role \in {"CLIENT", "SERVER"} : dtls' = Run(d, role)
    BY <1>3, SMTT(60) DEF CallRun, DtlsCall, d
  <2>2. QED
    BY <1>1, <2>1, RunFacts, SMTT(60) DEF Reported, DtlsSafe
<1>4. CASE CallSetRemoteFingerprint
  <2>1. PICK suite : dtls' = SetRemoteFingerprint(d, suite)
    BY <1>4, SMTT(60) DEF CallSetRemoteFingerprint, DtlsCall, d
  <2>2. QED
    BY <1>1, <2>1, SetRemoteFingerprintFacts, SMTT(60) DEF Reported, DtlsSafe
<1>5. CASE CallProcessDtlsData
  <2>1. PICK o \in SslOutcomes : dtls' = ProcessDtlsData(d, o)
    BY <1>5, SMTT(60) DEF CallProcessDtlsData, DtlsCall, d
  <2>2. QED
    BY <1>1, <1>2, <2>1, ProcessDtlsDataFacts, SMTT(60) DEF DtlsSafe
<1>6. CASE CallSendApplicationData
  <2>1. PICK w : dtls' = SendApplicationData(d, w)
    BY <1>6, SMTT(60) DEF CallSendApplicationData, DtlsCall, d
  <2>2. QED
    BY <1>1, <1>2, <2>1, SendApplicationDataFacts, SMTT(60) DEF DtlsSafe
<1>7. CASE FireTimer
  <2>1. IsRunning(d) /\ dtls' = OnTimer(d)
    BY <1>1, <1>7, SMTT(60) DEF FireTimer, DtlsCall, IsRunning, d
  <2>2. QED
    BY <1>1, <1>2, <2>1, OnTimerFacts, SMTT(60) DEF DtlsSafe
<1>8. CASE CallDestroy
  <2>1. dtls' = Destroy(d)
    BY <1>8, SMTT(60) DEF CallDestroy, DtlsCall, d
  <2>2. QED
    BY <1>1, <2>1, DestroyFacts, SMTT(60) DEF Reported, DtlsSafe
<1>9. QED
  BY <1>3, <1>4, <1>5, <1>6, <1>7, <1>8 DEF DtlsNext

(* A new transport satisfies the invariant. *)
LEMMA DtlsStart ==
  ASSUME DtlsInit
  PROVE  DtlsInv(dtls) /\ Reported(dtls)
<1>1. NoKeys \in KeySet
  BY SMTT(60) DEF NoKeys, KeySet
<1>2. dtls \in DtlsObject
  BY <1>1 DEF DtlsInit, NewDtlsTransport, DtlsObject, DtlsState, Role
<1>3. QED
  BY <1>2, SMTT(60) DEF DtlsInit, NewDtlsTransport, DtlsInv, Coherent, IsRunning,
              MaxTimerUs, Reported

(* A call is made only while no assertion has failed. *)
LEMMA CallsAlive ==
  ASSUME DtlsSafe(dtls), DtlsNext
  PROVE  DtlsInv(dtls)
<1>1. ~dtls.aborted
  BY SMTT(60) DEF DtlsNext, CallRun, CallSetRemoteFingerprint, CallProcessDtlsData,
     CallSendApplicationData, FireTimer, CallDestroy, DtlsCall
<1>2. QED
  BY <1>1, SMTT(60) DEF DtlsSafe, Ended

(* The inductive invariant holds of every DtlsTransport, whatever the      *)
(* order of its calls and whatever OpenSSL reports.                        *)
THEOREM DtlsInvariance == DtlsSpec => [](DtlsSafe(dtls) /\ Reported(dtls))
<1>1. DtlsInit => DtlsSafe(dtls) /\ Reported(dtls)
  BY DtlsStart, SMTT(60) DEF DtlsSafe
<1>2. (DtlsSafe(dtls) /\ Reported(dtls)) /\ [DtlsNext]_dtls
        => (DtlsSafe(dtls) /\ Reported(dtls))'
  <2> SUFFICES ASSUME DtlsSafe(dtls), Reported(dtls), [DtlsNext]_dtls
               PROVE  (DtlsSafe(dtls) /\ Reported(dtls))'
    OBVIOUS
  <2>1. CASE DtlsNext
    BY <2>1, CallsAlive, DtlsStep, SMTT(60)
       DEF DtlsSafe, Ended, DtlsInv, Reported, Coherent, IsRunning
  <2>2. CASE UNCHANGED dtls
    BY <2>2, SMTT(60) DEF DtlsSafe, Ended, DtlsInv, Reported, Coherent, IsRunning
  <2>3. QED
    BY <2>1, <2>2
<1>3. QED
  BY <1>1, <1>2, PTL DEF DtlsSpec

(* The object keeps its type. *)
THEOREM DtlsTyped == DtlsSpec => []DtlsTypeOK
<1>1. DtlsSafe(dtls) => DtlsTypeOK
  BY DEF DtlsSafe, DtlsInv, Ended, DtlsTypeOK
<1>2. QED
  BY <1>1, DtlsInvariance, PTL

(* As long as the process lives, handshakeDone holds exactly in CONNECTED, *)
(* nothing is left unprocessed, and a role is set exactly while the        *)
(* transport runs.                                                         *)
THEOREM DtlsCoherent == DtlsSpec => []HandshakeCoherent
<1>1. DtlsSafe(dtls) => HandshakeCoherent
  BY DEF DtlsSafe, DtlsInv, Ended, HandshakeCoherent
<1>2. QED
  BY <1>1, DtlsInvariance, PTL

(* The only assertion of the class that can fail is the one on the result  *)
(* of SSL_export_keying_material, before anything is reported.             *)
THEOREM DtlsAbortsOnlyOnExport == DtlsSpec => []AbortsOnlyOnExport
<1>1. DtlsSafe(dtls) => AbortsOnlyOnExport
  BY DEF DtlsSafe, DtlsInv, Ended, AbortsOnlyOnExport
<1>2. QED
  BY <1>1, DtlsInvariance, PTL

(* Run and the timer leave a running transport. *)
LEMMA KeepsRunning ==
  ASSUME DtlsInv(dtls), CallRun \/ FireTimer
  PROVE  IsRunning(dtls')
<1> DEFINE d == Enter(dtls)
<1>1. DtlsInv(d) /\ d.calls = {} /\ d.state = dtls.state
  BY EnterFacts, SMTT(60)
<1>2. CASE CallRun
  <2>1. PICK role \in {"CLIENT", "SERVER"} : dtls' = Run(d, role)
    BY <1>2, SMTT(60) DEF CallRun, DtlsCall
  <2> HIDE DEF d
  <2>2. DtlsInv(dtls') /\ dtls'.localRole = role
    BY <1>1, <2>1, RunFacts, SMTT(60)
  <2>3. QED
    BY <2>2, SMTT(60) DEF DtlsInv, Coherent, IsRunning
<1>3. CASE FireTimer
  <2>1. IsRunning(d) /\ dtls' = OnTimer(d)
    BY <1>1, <1>3, SMTT(60) DEF FireTimer, DtlsCall, IsRunning
  <2> HIDE DEF d
  <2>2. dtls'.state = d.state
    BY <1>1, <2>1, OnTimerFacts
  <2>3. QED
    BY <2>1, <2>2, SMTT(60) DEF IsRunning
<1>4. QED
  BY <1>2, <1>3, SMTT(60)

(* The retransmission timer never gives the connection up, however often   *)
(* the interval is doubled.                                                *)
THEOREM DtlsNeverTimesOut == DtlsSpec => NeverTimesOut
<1>1. DtlsSafe(dtls) /\ [DtlsNext]_dtls
        => [CallRun \/ FireTimer => IsRunning(dtls')]_dtls
  <2>1. DtlsSafe(dtls) /\ (CallRun \/ FireTimer) => DtlsInv(dtls)
    BY CallsAlive DEF DtlsNext
  <2>2. QED
    BY <2>1, KeepsRunning
<1>2. QED
  BY <1>1, DtlsInvariance, PTL DEF DtlsSpec, NeverTimesOut

(* A connected transport never reports Connected again: its keys are final. *)
THEOREM DtlsConnectedOnce == DtlsSpec => ConnectedOnce
<1>1. DtlsSafe(dtls) /\ [DtlsNext]_dtls
        => [dtls.state = "CONNECTED" => "Connected" \notin dtls'.calls]_dtls
  BY CallsAlive, DtlsStep, SMTT(60)
<1>2. QED
  BY <1>1, DtlsInvariance, PTL DEF DtlsSpec, ConnectedOnce

(* For each suite the two roles' offsets mirror each other and tile the    *)
(* exported keying material.                                               *)
LEMMA KeysMirror ==
  ASSUME NEW suite \in srtpCryptoSuites, NEW role \in {"CLIENT", "SERVER"}
  PROVE  LET mine == SrtpKeys(role, suite)
             peer == SrtpKeys(IF role = "SERVER" THEN "CLIENT" ELSE "SERVER", suite)
             k == SrtpKeyLength(suite)
             s == SrtpSaltLength(suite)
         IN /\ mine.suite = suite
            /\ mine.localKey = peer.remoteKey /\ mine.localSalt = peer.remoteSalt
            /\ mine.remoteKey = peer.localKey /\ mine.remoteSalt = peer.localSalt
            /\ (mine.localKey .. mine.localKey + k - 1)
               \cup (mine.remoteKey .. mine.remoteKey + k - 1)
               \cup (mine.localSalt .. mine.localSalt + s - 1)
               \cup (mine.remoteSalt .. mine.remoteSalt + s - 1)
               = 0 .. 2 * SrtpMasterLength(suite) - 1
<1>1. SrtpKeyLength(suite) \in Nat \ {0} /\ SrtpSaltLength(suite) \in Nat \ {0}
  BY SMTT(60) DEF SrtpKeyLength, SrtpSaltLength
<1>2. CASE role = "SERVER"
  BY <1>1, <1>2, SMTT(60) DEF SrtpKeys, SrtpMasterLength
<1>3. CASE role = "CLIENT"
  BY <1>1, <1>3 DEF SrtpKeys, SrtpMasterLength
<1>4. QED
  BY <1>2, <1>3

(* The keys reported with Connected fit the other endpoint's. *)
THEOREM DtlsKeysAgree == DtlsSpec => []KeysAgree
<1>1. Reported(dtls) => KeysAgree
  <2> SUFFICES ASSUME Reported(dtls), "Connected" \in dtls.calls
               PROVE  KeysAgree
    BY SMTT(60) DEF KeysAgree
  <2>1. dtls.localRole \in {"CLIENT", "SERVER"}
    BY DEF Reported
  <2>2. PICK suite \in srtpCryptoSuites : dtls.keys = SrtpKeys(dtls.localRole, suite)
    BY DEF Reported
  <2>3. QED
    BY <2>1, <2>2, KeysMirror, SMTT(60) DEF KeysAgree
<1>2. QED
  BY <1>1, DtlsInvariance, PTL

(* A close or an error that was passed over when the handshake ended is    *)
(* noticed at the next datagram.                                           *)
THEOREM DtlsCloseNoticed == DtlsSpec => CloseNoticed
<1>1. DtlsSafe(dtls) /\ [DtlsNext]_dtls
        => [(dtls.shutdown \/ dtls.ssl = "broken") /\ CallProcessDtlsData
              => ~IsRunning(dtls')]_dtls
  <2> SUFFICES ASSUME DtlsSafe(dtls), dtls.shutdown \/ dtls.ssl = "broken",
                      CallProcessDtlsData
               PROVE  ~IsRunning(dtls')
    OBVIOUS
  <2> DEFINE d == Enter(dtls)
  <2>0. DtlsInv(dtls)
    BY CallsAlive DEF DtlsNext
  <2>1. PICK o \in SslOutcomes : SslMay(dtls, o) /\ dtls' = ProcessDtlsData(d, o)
    BY DEF CallProcessDtlsData, DtlsCall
  <2>2. DtlsInv(d) /\ d.calls = {}
    BY <2>0, EnterFacts
  <2>3. d.shutdown = dtls.shutdown
    BY <2>0, SMTT(60) DEF Enter, DtlsInv, DtlsObject
  <2>4. ~o.done /\ (d.shutdown \/ o.fatal)
    BY <2>1, <2>3 DEF SslMay
  <2> HIDE DEF d
  <2>5. QED
    BY <2>1, <2>2, <2>4, ProcessDtlsDataOutput, SMTT(60)
<1>2. QED
  BY <1>1, DtlsInvariance, PTL DEF DtlsSpec, CloseNoticed
=============================================================================
