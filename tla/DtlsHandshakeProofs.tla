------------------------- MODULE DtlsHandshakeProofs -------------------------
(***************************************************************************)
(* Theorems about the handshake of a DtlsTransport with a browser over a   *)
(* network that loses, duplicates and reorders.  The inductive invariant   *)
(* HandshakeInv relates three views of one handshake: the state of the     *)
(* transport, what its SSL has received, and what the client has received  *)
(* or may still receive.                                                   *)
(***************************************************************************)
EXTENDS DtlsHandshake, DtlsTransportProofs

Suites == srtpCryptoSuites \cup {"NONE"}
Received == {"none", "hello", "finished"}
Flights == {"none", "ClientHello", "ClientFinished", "established"}
Closes == {"no", "sent", "received", "lost"}

(* The state of a transport whose SSL has completed the handshake. *)
Completed(d) == IF suite = "NONE" THEN d.state = "FAILED"
                                  ELSE d.state \in {"CONNECTED", "CLOSED"}

(* The types, and that only a finished server lets the client finish. *)
PeerInv ==
  /\ handshake \in Received /\ timeouts \in 0 .. TimeoutLimit /\ suite \in Suites
  /\ client \in [last : Flights, close : Closes]
  /\ net \subseteq ToServer \cup ToClient
  /\ Established \/ net \cap {"ServerFinished", "closeNotify"} # {}
       => handshake = "finished"

(* The transport: nothing is waiting in the SSL object while it runs, and  *)
(* each state has its reason.                                              *)
ServerInv(d) ==
  /\ DtlsInv(d)
  /\ IsRunning(d) => d.ssl # "broken" /\ ~d.shutdown /\ d.bioOut = {}
  /\ IsRunning(d) /\ handshake = "hello" => d.timerUs > 0
  /\ d.state = "NEW" => handshake = "none" /\ d.bioOut = {}
  /\ d.state \in {"CONNECTED", "CLOSED"} => handshake = "finished"
  /\ handshake = "finished" => Completed(d)
  /\ d.state = "FAILED" => handshake = "finished" \/ timeouts = TimeoutLimit

HandshakeInv == PeerInv /\ ServerInv(dtls)

----------------------------------------------------------------------------
(* What a datagram does to a running transport, exactly.                   *)

(* The state in which CheckStatus leaves a transport. *)
NextState(d, done, broken, su) ==
  IF done THEN IF su = "NONE" THEN "FAILED" ELSE "CONNECTED"
  ELSE IF broken THEN IF d.state = "CONNECTED" THEN "CLOSED" ELSE "FAILED"
  ELSE d.state

(* The part of the SSL object that the next datagram depends on. *)
SameSsl(d, e) ==
  /\ e.ssl = d.ssl /\ e.shutdown = d.shutdown
  /\ e.timerUs = d.timerUs /\ e.bioOut = d.bioOut

(* CheckStatus leaves the SSL object of a running transport alone. *)
LEMMA CheckStatusOutcome ==
  ASSUME NEW d, MidCall(d), d.handshakeDoneNow => d.state = "CONNECTING", d.exported,
         NEW fatal \in BOOLEAN, NEW su \in Suites
  PROVE  LET r == CheckStatus(d, fatal, su)
         IN /\ r.obj.state = NextState(d, d.handshakeDoneNow, d.shutdown \/ fatal, su)
            /\ r.ok \in BOOLEAN /\ (r.ok <=> IsRunning(r.obj))
            /\ r.ok => SameSsl(d, r.obj)
            /\ r.obj.sent = d.sent
<1> DEFINE r == CheckStatus(d, fatal, su)
<1>0. /\ d \in DtlsObject /\ IsRunning(d) /\ ~d.aborted /\ d.localRole # "NONE"
      /\ d.handshakeDone <=> d.state = "CONNECTED"
  BY ZenonT(60) DEF MidCall
<1>1. CASE d.handshakeDoneNow
  <2> DEFINE e == [d EXCEPT !.handshakeDoneNow = FALSE, !.handshakeDone = TRUE]
             x == ExtractSrtpKeys(e, su)
             f == Finish(e, "FAILED", "Failed")
  <2>1. /\ e \in DtlsObject
        /\ e.handshakeDone = TRUE /\ e.sent = d.sent /\ e.localRole = d.localRole
        /\ e.state = d.state /\ e.aborted = d.aborted /\ SameSsl(d, e)
        /\ e.exported = TRUE
    BY <1>0, ZenonT(60) DEF DtlsObject, SameSsl
  <2>2. r = ProcessHandshake(e, su)
    BY <1>0, <1>1, ZenonT(60) DEF CheckStatus
  <2> HIDE DEF e
  <2>3. GetNegotiatedSrtpCryptoSuite(MS_ASSERT(e, e.handshakeDone), su) = e
    BY <2>1, AssertHolds, ZenonT(60) DEF GetNegotiatedSrtpCryptoSuite, Suites
  <2>4. r = IF su # "NONE" THEN [ok |-> TRUE, obj |-> x] ELSE [ok |-> FALSE, obj |-> f]
    BY <2>1, <2>2, <2>3, ZenonT(60) DEF ProcessHandshake
  <2>5. x.sent = e.sent /\ x.state = "CONNECTED" /\ SameSsl(e, x)
    BY <2>1, ZenonT(60) DEF ExtractSrtpKeys, MS_ASSERT, Notify, DtlsObject, SameSsl
  <2>6. f.sent = e.sent /\ f.state = "FAILED"
    BY <1>0, <2>1, FinishOutput, FinishFacts, SMTT(60) DEF IsRunning, Callback
  <2> HIDE DEF x, f, r
  <2>7. QED
    BY <1>1, <2>1, <2>4, <2>5, <2>6, SMTT(60) DEF NextState, IsRunning, SameSsl, r
<1>2. CASE ~d.handshakeDoneNow /\ (d.shutdown \/ fatal)
  <2> DEFINE f == IF d.state = "CONNECTED" THEN Finish(d, "CLOSED", "Closed")
                                           ELSE Finish(d, "FAILED", "Failed")
  <2>1. /\ f.state = IF d.state = "CONNECTED" THEN "CLOSED" ELSE "FAILED"
        /\ f.sent = d.sent
    BY <1>0, FinishFacts, FinishOutput, SMTT(60) DEF Callback
  <2>2. r = [ok |-> FALSE, obj |-> f]
    BY <1>2, ZenonT(60) DEF CheckStatus
  <2> HIDE DEF f, r
  <2>3. QED
    BY <1>2, <2>1, <2>2, SMTT(60) DEF NextState, IsRunning, r
<1>3. CASE ~d.handshakeDoneNow /\ ~(d.shutdown \/ fatal)
  <2>1. r = [ok |-> TRUE, obj |-> d]
    BY <1>3, ZenonT(60) DEF CheckStatus
  <2> HIDE DEF r
  <2>2. QED
    BY <1>0, <1>3, <2>1 DEF NextState, SameSsl, r
<1>4. QED
  BY <1>1, <1>2, <1>3, ZenonT(60)

(* SSL_read and the flush, on the fields that SameSsl compares. *)
LEMMA ReadAndFlush ==
  ASSUME NEW d \in DtlsObject, d.bioOut = {}, d.sent = {}, ~d.shutdown, NEW o \in SslOutcomes
  PROVE  LET p == SendPendingOutgoingDtlsData(SslRead(d, o))
         IN /\ p.bioOut = {}
            /\ p.sent = IF o.output THEN {"record"} ELSE {}
            /\ p.ssl = IF o.fatal THEN "broken" ELSE IF o.done THEN "established" ELSE d.ssl
            /\ p.shutdown = o.shutdown
            /\ p.timerUs = CASE o.done -> 0
                             [] o.timer = "restart" -> onSslDtlsTimer(0)
                             [] o.timer = "double" -> onSslDtlsTimer(d.timerUs)
                             [] OTHER -> d.timerUs
<1> DEFINE e == SslRead(d, o)
           p == SendPendingOutgoingDtlsData(e)
           m == OnSslInfo(d, o.done)
<1>0. o.shutdown \in BOOLEAN
  BY ZenonT(60) DEF SslOutcomes
<1>1. /\ m.sent = {} /\ m.bioOut = {} /\ m.shutdown = d.shutdown /\ m.ssl = d.ssl
      /\ m.timerUs = d.timerUs /\ DOMAIN m = DOMAIN d
  BY ZenonT(60) DEF OnSslInfo, DtlsObject
<1>2. /\ e.bioOut = IF o.output THEN {"record"} ELSE {}
      /\ e.sent = {}
      /\ e.ssl = IF o.fatal THEN "broken" ELSE IF o.done THEN "established" ELSE d.ssl
      /\ e.shutdown = o.shutdown
      /\ e.timerUs = CASE o.done -> 0
                       [] o.timer = "restart" -> onSslDtlsTimer(0)
                       [] o.timer = "double" -> onSslDtlsTimer(d.timerUs)
                       [] OTHER -> d.timerUs
      /\ DOMAIN e = DOMAIN d
  BY <1>0, <1>1, SMTT(60) DEF SslRead, DtlsObject
<1> HIDE DEF e
<1>3. /\ p.ssl = e.ssl /\ p.shutdown = e.shutdown /\ p.timerUs = e.timerUs
      /\ p.bioOut = {} /\ p.sent = e.bioOut
  BY <1>2, SMTT(60) DEF SendPendingOutgoingDtlsData, Notify, DtlsObject
<1> HIDE DEF p
<1>4. QED
  BY <1>2, <1>3, ZenonT(60) DEF e, p

(* The interval after SSL_read. *)
NextTimer(d, o) ==
  CASE o.done -> 0
    [] o.timer = "restart" -> onSslDtlsTimer(0)
    [] o.timer = "double" -> onSslDtlsTimer(d.timerUs)
    [] OTHER -> d.timerUs

(* A datagram, on a running transport whose SSL object is in order. *)
LEMMA DatagramOutcome ==
  ASSUME NEW d, DtlsInv(d), IsRunning(d), d.calls = {}, d.sent = {}, d.bioOut = {},
         ~d.shutdown, NEW o \in SslOutcomes, o.done => d.state = "CONNECTING",
         o.exported
  PROVE  LET e == ProcessDtlsData(d, o)
         IN /\ DtlsInv(e)
            /\ e.state = NextState(d, o.done, o.shutdown \/ o.fatal, o.suite)
            /\ e.sent = IF o.output THEN {"record"} ELSE {}
            /\ IsRunning(e) =>
                 /\ e.bioOut = {} /\ e.shutdown = o.shutdown
                 /\ e.ssl = IF o.fatal THEN "broken"
                            ELSE IF o.done THEN "established" ELSE d.ssl
                 /\ e.timerUs = NextTimer(d, o)
<1> DEFINE e == SslRead(d, o)
           p == SendPendingOutgoingDtlsData(e)
           status == CheckStatus(p, o.fatal, o.suite)
           s == status.obj
           n == Notify(s, "AppData")
           f == ProcessDtlsData(d, o)
<1>0. d \in DtlsObject /\ d.timerUs <= MaxTimerUs /\ ~d.handshakeDoneNow
  BY ZenonT(60) DEF DtlsInv, Coherent
<1>1. /\ e \in DtlsObject
      /\ e.state = d.state
      /\ e.localRole = d.localRole
      /\ e.handshakeDone = d.handshakeDone
      /\ e.timerUs <= MaxTimerUs
      /\ e.aborted = d.aborted
      /\ e.calls = d.calls
      /\ e.exported = o.exported
  BY <1>0, SslReadFacts, ZenonT(60)
<1>2. e.handshakeDoneNow = o.done
  BY <1>0, SslReadOutput, ZenonT(60) DEF SslOutcomes
<1>3. f = IF ~status.ok THEN s
          ELSE IF SetTimeout(s).ok /\ o.app /\ SetTimeout(s).obj.handshakeDone
               THEN Notify(SetTimeout(s).obj, "AppData")
               ELSE SetTimeout(s).obj
  BY ZenonT(60) DEF ProcessDtlsData
<1>4. /\ p.bioOut = {} /\ p.sent = IF o.output THEN {"record"} ELSE {}
      /\ p.ssl = IF o.fatal THEN "broken" ELSE IF o.done THEN "established" ELSE d.ssl
      /\ p.shutdown = o.shutdown /\ p.timerUs = NextTimer(d, o)
  BY <1>0, ReadAndFlush, ZenonT(60) DEF NextTimer
<1> HIDE DEF e
<1>5. /\ p \in DtlsObject
      /\ p.state = d.state
      /\ p.localRole = d.localRole
      /\ p.handshakeDone = d.handshakeDone
      /\ p.handshakeDoneNow = o.done
      /\ p.timerUs <= MaxTimerUs
      /\ p.aborted = d.aborted
      /\ "Connected" \notin p.calls
      /\ p.exported
  <2>1. /\ p \in DtlsObject /\ p.state = d.state /\ p.localRole = d.localRole
        /\ p.handshakeDone = d.handshakeDone /\ p.aborted = d.aborted
        /\ p.handshakeDoneNow = o.done /\ p.timerUs = e.timerUs /\ p.exported
        /\ p.calls \subseteq d.calls \cup {"SendData"}
    BY <1>1, <1>2, SendPendingFacts, ZenonT(60)
  <2> HIDE DEF p
  <2>2. QED
    BY <1>1, <2>1, ZenonT(60)
<1> HIDE DEF p
<1>6. /\ MidCall(p) /\ o.fatal \in BOOLEAN /\ o.suite \in Suites
      /\ p.handshakeDoneNow => p.state = "CONNECTING"
  BY <1>5, ZenonT(60) DEF MidCall, DtlsInv, Coherent, IsRunning, SslOutcomes,
     use_srtp, Suites
<1>7. /\ s.state = NextState(p, o.done, o.shutdown \/ o.fatal, o.suite)
      /\ status.ok \in BOOLEAN /\ (status.ok <=> IsRunning(s))
      /\ status.ok => SameSsl(p, s)
      /\ s.sent = p.sent
  <2>0. p.exported
    BY <1>5, ZenonT(60)
  <2>1. /\ s.state = NextState(p, p.handshakeDoneNow, p.shutdown \/ o.fatal, o.suite)
        /\ status.ok \in BOOLEAN /\ (status.ok <=> IsRunning(s))
        /\ status.ok => SameSsl(p, s)
        /\ s.sent = p.sent
    BY <1>6, <2>0, CheckStatusOutcome, ZenonT(60)
  <2> HIDE DEF status, s
  <2>2. QED
    BY <1>4, <1>5, <2>1, ZenonT(60)
<1>8. DtlsInv(s)
  BY <1>5, <1>6, CheckStatusFacts, ZenonT(60) DEF Suites
<1>9. NextState(p, o.done, o.shutdown \/ o.fatal, o.suite)
        = NextState(d, o.done, o.shutdown \/ o.fatal, o.suite)
  BY <1>5, ZenonT(60) DEF NextState
<1> HIDE DEF status, s, f
<1>10. CASE ~status.ok
  BY <1>3, <1>4, <1>7, <1>8, <1>9, <1>10, ZenonT(60) DEF f
<1>11. CASE status.ok
  <2>1. SetTimeout(s) = [ok |-> TRUE, obj |-> s]
    BY <1>7, <1>8, <1>11, SetTimeoutFacts, ZenonT(60) DEF DtlsInv
  <2>2. f = s \/ f = n
    BY <1>3, <1>11, <2>1, SMTT(60)
  <2>3. /\ n \in DtlsObject
        /\ n.state = s.state /\ n.localRole = s.localRole
        /\ n.handshakeDone = s.handshakeDone /\ n.handshakeDoneNow = s.handshakeDoneNow
        /\ n.timerUs = s.timerUs /\ n.aborted = s.aborted
    BY <1>8, NotifyFacts, ZenonT(60) DEF DtlsInv, Callback
  <2>4. n.sent = s.sent /\ SameSsl(s, n)
    BY <1>8, ZenonT(60) DEF Notify, DtlsInv, DtlsObject, SameSsl
  <2> HIDE DEF n
  <2>5. DtlsInv(n)
    BY <1>8, <2>3, ZenonT(60) DEF DtlsInv, Coherent, IsRunning
  <2>6. DtlsInv(f) /\ f.state = s.state /\ f.sent = s.sent /\ SameSsl(s, f)
    BY <1>8, <2>2, <2>3, <2>4, <2>5, ZenonT(60) DEF SameSsl
  <2>7. QED
    BY <1>4, <1>7, <1>9, <1>11, <2>6, ZenonT(60) DEF SameSsl, f
<1>12. QED
  BY <1>7, <1>10, <1>11, ZenonT(60)

(* What SSL_read does is among the outcomes of DtlsTransport. *)
LEMMA OutcomeFacts ==
  ASSUME PeerInv, NEW m \in ToServer, NEW expired \in BOOLEAN
  PROVE  LET o == Outcome(m, expired)
         IN /\ o \in SslOutcomes
            /\ o.done = Completes(m) /\ o.fatal = GivesUp(m, expired)
            /\ o.shutdown = (m = "closeNotify") /\ o.app = FALSE
            /\ o.output = (Reply(m, expired) # "nothing" /\ ~GivesUp(m, expired))
            /\ o.timer = CASE m = "ClientHello" /\ handshake = "none" -> "restart"
                          [] m = "ClientHello" /\ Repeated(m, expired) /\ ~GivesUp(m, expired)
                               -> "double"
                          [] OTHER -> "keep"
            /\ o.suite = IF Completes(m) THEN suite ELSE "NONE"
            /\ o.exported
<1>1. Completes(m) \in BOOLEAN /\ GivesUp(m, expired) \in BOOLEAN
  BY ZenonT(60) DEF Completes, GivesUp, Repeated
<1>2. suite \in srtpCryptoSuites \cup {"NONE"}
  BY ZenonT(60) DEF PeerInv, Suites
<1>3. QED
  BY <1>1, <1>2, ZenonT(60) DEF Outcome, SslOutcomes, use_srtp

----------------------------------------------------------------------------
(* The actions.                                                            *)

(* What the peer sees of a datagram that the server handles. *)
LEMMA ReceivesPeerInv ==
  ASSUME HandshakeInv, NEW m \in ToServer, NEW expired \in BOOLEAN,
         ServerReceives(m, expired),
         IsRunning(dtls) => dtls'.sent \subseteq
                              IF Reply(m, expired) # "nothing" THEN {"record"} ELSE {},
         ~IsRunning(dtls) => dtls'.sent = {}
  PROVE  PeerInv'
<1>0. TimeoutLimit \in Nat
  BY LimitAssumption, ZenonT(60)
<1>1. PeerInv /\ UNCHANGED suite
  BY ZenonT(60) DEF HandshakeInv, ServerReceives
<1>2. handshake' \in Received /\ (handshake = "finished" => handshake' = "finished")
  BY <1>1, ZenonT(60) DEF ServerReceives, PeerInv, Received, Completes
<1>3. timeouts' \in 0 .. TimeoutLimit
  BY <1>0, <1>1, SMTT(60) DEF ServerReceives, PeerInv, GivesUp
<1>4. client' \in [last : Flights, close : Closes] /\ client'.last = client.last
  <2>1. CASE m = "closeNotify"
    <3>1. client' = [client EXCEPT !.close = "received"] /\ "received" \in Closes
      BY <2>1, ZenonT(60) DEF ServerReceives, Closes
    <3>2. QED
      BY <1>1, <3>1, Zenon DEF PeerInv
  <2>2. CASE m # "closeNotify"
    BY <1>1, <2>2, ZenonT(60) DEF ServerReceives, PeerInv
  <2>3. QED
    BY <2>1, <2>2, ZenonT(60)
<1>5. CASE "record" \notin dtls'.sent
  <2>1. net' = net \ {m}
    BY <1>5, ZenonT(60) DEF ServerReceives
  <2>2. QED
    BY <1>1, <1>2, <1>3, <1>4, <2>1, ZenonT(60) DEF PeerInv, Established
<1>6. CASE "record" \in dtls'.sent
  <2>1. IsRunning(dtls) /\ Reply(m, expired) # "nothing"
    BY <1>6, ZenonT(60)
  <2>2. net' = (net \ {m}) \cup {Reply(m, expired)}
    BY <1>6, ZenonT(60) DEF ServerReceives
  <2>3. /\ Reply(m, expired) \in ToClient
        /\ Reply(m, expired) = "ServerFinished" => handshake' = "finished"
    BY <1>1, <2>1, ZenonT(60) DEF Reply, ToClient, ServerReceives, Completes, PeerInv, Received
  <2>4. Reply(m, expired) # "closeNotify"
    BY <2>3, ZenonT(60) DEF ToClient
  <2>5. QED
    BY <1>1, <1>2, <1>3, <1>4, <2>2, <2>3, <2>4, ZenonT(60) DEF PeerInv, Established
<1>7. QED
  BY <1>5, <1>6, ZenonT(60)

(* A new call: the SSL object is as the last one left it. *)
LEMMA EnterSsl ==
  ASSUME NEW d, DtlsInv(d)
  PROVE  /\ DtlsInv(Enter(d)) /\ Enter(d).calls = {} /\ Enter(d).sent = {}
         /\ Enter(d).state = d.state /\ SameSsl(d, Enter(d))
<1>1. DtlsInv(Enter(d)) /\ Enter(d).calls = {} /\ Enter(d).state = d.state
  BY EnterFacts, ZenonT(60)
<1>2. Enter(d).sent = {} /\ SameSsl(d, Enter(d))
  BY ZenonT(60) DEF Enter, DtlsInv, DtlsObject, SameSsl
<1>3. QED
  BY <1>1, <1>2, ZenonT(60)

(* A datagram at the server, whichever it is and however late it comes. *)
LEMMA ServerReceivesInv ==
  ASSUME HandshakeInv, NEW m \in ToServer, NEW expired \in BOOLEAN,
         ServerReceives(m, expired)
  PROVE  HandshakeInv'
<1> DEFINE d == Enter(dtls)
           o == Outcome(m, expired)
           e == dtls'
<1>0. PeerInv /\ ServerInv(dtls) /\ DtlsInv(dtls) /\ suite' = suite /\ m \in net
  BY ZenonT(60) DEF HandshakeInv, ServerInv, ServerReceives
<1>1. /\ DtlsInv(d) /\ d.calls = {} /\ d.sent = {} /\ d.state = dtls.state
      /\ SameSsl(dtls, d) /\ (IsRunning(d) <=> IsRunning(dtls))
  BY <1>0, EnterSsl, ZenonT(60) DEF IsRunning
<1>2. e = ProcessDtlsData(d, o)
  BY ZenonT(60) DEF ServerReceives
<1> HIDE DEF d
<1>3. CASE ~IsRunning(dtls)
  <2>1. e = d
    BY <1>1, <1>2, <1>3, ZenonT(60) DEF ProcessDtlsData
  <2>2. UNCHANGED <<handshake, timeouts>>
    BY <1>3, ZenonT(60) DEF ServerReceives
  <2>3. PeerInv'
    BY <1>1, <1>3, <2>1, ReceivesPeerInv, ZenonT(60)
  <2>4. ServerInv(dtls)'
    BY <1>0, <1>1, <1>3, <2>1, <2>2, ZenonT(60) DEF ServerInv, Completed, SameSsl, IsRunning
  <2>5. QED
    BY <2>3, <2>4, ZenonT(60) DEF HandshakeInv
<1>4. CASE IsRunning(dtls)
  <2>1. /\ o \in SslOutcomes
        /\ o.done = Completes(m) /\ o.fatal = GivesUp(m, expired)
        /\ o.shutdown = (m = "closeNotify")
        /\ o.output = (Reply(m, expired) # "nothing" /\ ~GivesUp(m, expired))
        /\ o.timer = CASE m = "ClientHello" /\ handshake = "none" -> "restart"
                      [] m = "ClientHello" /\ Repeated(m, expired) /\ ~GivesUp(m, expired)
                           -> "double"
                      [] OTHER -> "keep"
        /\ o.suite = IF Completes(m) THEN suite ELSE "NONE"
        /\ o.exported
    BY <1>0, OutcomeFacts, ZenonT(60)
  <2> HIDE DEF o
  <2>2. /\ dtls.ssl # "broken" /\ ~dtls.shutdown /\ dtls.bioOut = {}
        /\ handshake = "hello" => dtls.timerUs > 0
    BY <1>0, <1>4, ZenonT(60) DEF ServerInv
  <2>3. /\ dtls.state = "CONNECTING" => handshake # "finished"
        /\ dtls.state = "CONNECTED" => handshake = "finished" /\ suite # "NONE"
    BY <1>0, ZenonT(60) DEF ServerInv, Completed
  <2>4. o.done => dtls.state = "CONNECTING"
    BY <1>4, <2>1, <2>3, ZenonT(60) DEF Completes, IsRunning
  <2>5. /\ DtlsInv(e)
        /\ e.state = NextState(d, o.done, o.shutdown \/ o.fatal, o.suite)
        /\ e.sent = IF o.output THEN {"record"} ELSE {}
        /\ IsRunning(e) =>
             /\ e.bioOut = {} /\ e.shutdown = o.shutdown
             /\ e.ssl = IF o.fatal THEN "broken"
                        ELSE IF o.done THEN "established" ELSE d.ssl
             /\ e.timerUs = NextTimer(d, o)
    BY <1>1, <1>2, <1>4, <2>1, <2>2, <2>4, DatagramOutcome, SMTT(60) DEF SameSsl
  <2> HIDE DEF e
  <2>6. PeerInv'
    BY <1>4, <2>1, <2>5, ReceivesPeerInv, ZenonT(60) DEF e
  <2>7. m = "closeNotify" => handshake = "finished"
    BY <1>0, ZenonT(60) DEF PeerInv
  <2>8. /\ handshake' = CASE handshake = "none" /\ m = "ClientHello" -> "hello"
                          [] Completes(m) -> "finished"
                          [] OTHER -> handshake
        /\ GivesUp(m, expired) => timeouts = TimeoutLimit /\ timeouts' = timeouts
    BY <1>4, ZenonT(60) DEF ServerReceives, GivesUp
  <2>9. GivesUp(m, expired) => ~Completes(m)
    BY ZenonT(60) DEF GivesUp, Repeated, Completes
  <2> DEFINE next == NextState(dtls, Completes(m), m = "closeNotify" \/ GivesUp(m, expired), suite)
  <2>10. e.state = next
    BY <1>1, <2>1, <2>5, ZenonT(60) DEF NextState
  <2>11. dtls.state \in {"CONNECTING", "CONNECTED"}
    BY <1>4, ZenonT(60) DEF IsRunning
  <2>12. /\ Completes(m) =>
             /\ e.state = (IF suite = "NONE" THEN "FAILED" ELSE "CONNECTED")
             /\ handshake' = "finished"
         /\ ~Completes(m) =>
             /\ e.state \in {dtls.state, IF dtls.state = "CONNECTED" THEN "CLOSED" ELSE "FAILED"}
             /\ handshake' = "finished" => handshake = "finished"
             /\ handshake = "finished" => handshake' = "finished"
    BY <2>8, <2>10, ZenonT(60) DEF NextState, Completes
  <2>13. IsRunning(e) => e.ssl # "broken" /\ ~e.shutdown /\ e.bioOut = {}
    <3>1. IsRunning(e) => ~o.shutdown /\ ~o.fatal
      BY <2>1, <2>7, <2>9, <2>10, ZenonT(60) DEF NextState, IsRunning, Completes
    <3>2. QED
      BY <1>1, <2>2, <2>5, <3>1, ZenonT(60) DEF SameSsl
  <2>14. IsRunning(e) /\ handshake' = "hello" => e.timerUs > 0
    <3> SUFFICES ASSUME IsRunning(e), handshake' = "hello" PROVE e.timerUs > 0
      OBVIOUS
    <3>1. ~Completes(m)
      BY <2>8, ZenonT(60) DEF Completes
    <3>2. d.timerUs = dtls.timerUs /\ d.timerUs \in Nat
      BY <1>0, <1>1, ZenonT(60) DEF SameSsl, DtlsInv, DtlsObject
    <3>3. CASE handshake = "none"
      <4>1. m = "ClientHello"
        BY <2>8, <3>1, <3>3, ZenonT(60)
      <4>2. QED
        <5>1. o.timer = "restart"
          BY <2>1, <3>3, <4>1, ZenonT(60) DEF Repeated
        <5>2. ~o.done
          BY <2>1, <3>1, ZenonT(60)
        <5>3. e.timerUs = NextTimer(d, o)
          BY <2>5, ZenonT(60)
        <5>4. QED
          BY <5>1, <5>2, <5>3, SMTT(60) DEF NextTimer, onSslDtlsTimer
    <3>4. CASE handshake = "hello"
      <4>1. o.timer # "restart"
        BY <2>1, <3>4, ZenonT(60)
      <4>2. QED
        <5>1. ~o.done /\ e.timerUs = NextTimer(d, o) /\ dtls.timerUs > 0
          BY <2>1, <2>2, <2>5, <3>1, <3>4, ZenonT(60)
        <5>2. QED
          BY <3>2, <4>1, <5>1, SMTT(60) DEF NextTimer, onSslDtlsTimer
    <3>5. QED
      BY <2>8, <3>3, <3>4, ZenonT(60)
  <2>15. e.state # "NEW"
    BY <2>11, <2>12, ZenonT(60)
  <2>16. e.state \in {"CONNECTED", "CLOSED"} => handshake' = "finished"
    BY <2>3, <2>11, <2>12, ZenonT(60)
  <2>17. handshake' = "finished" =>
           IF suite = "NONE" THEN e.state = "FAILED" ELSE e.state \in {"CONNECTED", "CLOSED"}
    BY <2>3, <2>11, <2>12, ZenonT(60)
  <2>18. e.state = "FAILED" => handshake' = "finished" \/ timeouts' = TimeoutLimit
    BY <1>4, <2>3, <2>7, <2>8, <2>10, ZenonT(60) DEF NextState, IsRunning, Completes
  <2>19. ServerInv(dtls)'
    BY <1>0, <2>5, <2>13, <2>14, <2>15, <2>16, <2>17, <2>18, ZenonT(60) DEF ServerInv,
       Completed, e
  <2>20. QED
    BY <2>6, <2>19, ZenonT(60) DEF HandshakeInv, e
<1>5. QED
  BY <1>3, <1>4, ZenonT(60)

(* Run, from NEW: SSL_clear, and an SSL object that waits for the client. *)
LEMMA StartInv ==
  ASSUME HandshakeInv, Start
  PROVE  HandshakeInv'
<1> DEFINE d == Enter(dtls)
<1>0. /\ PeerInv /\ ServerInv(dtls) /\ DtlsInv(dtls) /\ dtls.state = "NEW"
      /\ UNCHANGED <<handshake, timeouts, client, suite, net>>
  BY ZenonT(60) DEF HandshakeInv, ServerInv, Start
<1>1. DtlsInv(d) /\ d.calls = {} /\ d.state = "NEW" /\ d.bioOut = {}
  BY <1>0, EnterSsl, ZenonT(60) DEF SameSsl, ServerInv
<1>2. dtls' = Run(d, "SERVER")
  BY ZenonT(60) DEF Start
<1> HIDE DEF d
<1>3. d \in DtlsObject /\ d.localRole = "NONE"
  BY <1>1, ZenonT(60) DEF DtlsInv, Coherent, IsRunning
<1>4. DtlsInv(dtls') /\ dtls'.state = "CONNECTING"
  BY <1>1, <1>2, <1>3, RunFacts, ZenonT(60)
<1>5. dtls'.ssl = "init" /\ dtls'.shutdown = FALSE /\ dtls'.bioOut = {}
  <2> DEFINE l == SSL_clear(d)
             c == [l EXCEPT !.localRole = "SERVER", !.state = "CONNECTING"]
  <2>1. dtls' = Notify(c, "Connecting")
    BY <1>2, <1>3, ZenonT(60) DEF Run
  <2>2. c.ssl = "init" /\ c.shutdown = FALSE /\ c.bioOut = {}
    BY <1>1, <1>3, ZenonT(60) DEF SSL_clear, DtlsObject
  <2> HIDE DEF c
  <2>3. QED
    BY <2>1, <2>2, SMTT(60) DEF Notify
<1>6. handshake = "none"
  BY <1>0, ZenonT(60) DEF ServerInv
<1>7. ServerInv(dtls)'
  BY <1>0, <1>4, <1>5, <1>6, ZenonT(60) DEF ServerInv, Completed
<1>8. PeerInv'
  BY <1>0, ZenonT(60) DEF PeerInv, Established
<1>9. QED
  BY <1>7, <1>8, ZenonT(60) DEF HandshakeInv

(* The client and the network: the server's state stays. *)
LEMMA PeerStepInv ==
  ASSUME HandshakeInv,
         \/ ClientStarts \/ (\E m \in ToClient : ClientReceives(m))
         \/ ClientRetransmits \/ ClientCloses \/ Lose \/ Duplicate
  PROVE  HandshakeInv'
<1>0. PeerInv /\ ServerInv(dtls) /\ UNCHANGED <<dtls, handshake, timeouts, suite>>
  BY ZenonT(60) DEF HandshakeInv, ClientStarts, ClientReceives, ClientRetransmits,
     ClientCloses, Lose,
         Duplicate, Fault
<1>1. ServerInv(dtls)'
  BY <1>0, ZenonT(60) DEF ServerInv, Completed, DtlsInv, IsRunning
<1>2. PeerInv'
  <2>0. \A l \in Flights, c \in Closes :
          /\ [client EXCEPT !.last = l] \in [last : Flights, close : Closes]
          /\ [client EXCEPT !.close = c] \in [last : Flights, close : Closes]
          /\ [client EXCEPT !.last = l].last = l
          /\ [client EXCEPT !.close = c].last = client.last
    BY <1>0, ZenonT(60) DEF PeerInv
  <2>1. CASE ClientStarts
    BY <1>0, <2>0, <2>1, ZenonT(60) DEF ClientStarts, PeerInv, Established, Flights, ToServer
  <2>2. ASSUME NEW m \in ToClient, ClientReceives(m) PROVE PeerInv'
    BY <1>0, <2>0, <2>2, ZenonT(60) DEF ClientReceives, PeerInv, Established, Flights,
       ToServer, ToClient
  <2>3. CASE ClientRetransmits
    BY <1>0, <2>3, ZenonT(60) DEF ClientRetransmits, PeerInv, Established, ToServer
  <2>4. CASE ClientCloses
    BY <1>0, <2>0, <2>4, ZenonT(60) DEF ClientCloses, PeerInv, Established, Closes, ToServer
  <2>5. CASE Lose
    BY <1>0, <2>0, <2>5, ZenonT(60) DEF Lose, PeerInv, Established, Closes
  <2>6. CASE Duplicate
    BY <1>0, <2>6, ZenonT(60) DEF Duplicate, PeerInv, Established, ToServer
  <2>7. QED
    BY <2>1, <2>2, <2>3, <2>4, <2>5, <2>6, ZenonT(60)
<1>3. QED
  BY <1>1, <1>2, ZenonT(60) DEF HandshakeInv

(* Both ends begin in a state of the invariant. *)
LEMMA HandshakeInitInv ==
  ASSUME HandshakeInit
  PROVE  HandshakeInv
<1>1. DtlsInv(dtls) /\ dtls.state = "NEW" /\ dtls.bioOut = {}
  BY DtlsStart, ZenonT(60) DEF HandshakeInit, DtlsInit, NewDtlsTransport
<1>2. PeerInv
  BY LimitAssumption DEF HandshakeInit, PeerInv, Received, Suites, Flights, Closes, Established,
                         srtpCryptoSuites
<1>3. QED
  BY <1>1, <1>2, ZenonT(60) DEF HandshakeInit, HandshakeInv, ServerInv, IsRunning

----------------------------------------------------------------------------
(* What follows for the two ends.                                          *)

(* What the peer can send is what SSL_read may meet. *)
LEMMA PeerIsOrderly ==
  ASSUME HandshakeInv, IsRunning(dtls), NEW m \in net \cap ToServer, NEW expired \in BOOLEAN
  PROVE  Outcome(m, expired) \in SslOutcomes /\ SslMay(dtls, Outcome(m, expired))
<1> DEFINE o == Outcome(m, expired)
<1>0. PeerInv /\ ServerInv(dtls) /\ m \in ToServer
  BY ZenonT(60) DEF HandshakeInv
<1>1. /\ o \in SslOutcomes /\ o.done = Completes(m) /\ o.app = FALSE
      /\ o.timer = CASE m = "ClientHello" /\ handshake = "none" -> "restart"
                    [] m = "ClientHello" /\ Repeated(m, expired) /\ ~GivesUp(m, expired)
                         -> "double"
                    [] OTHER -> "keep"
      /\ o.suite = IF Completes(m) THEN suite ELSE "NONE"
      /\ o.exported
  BY <1>0, OutcomeFacts, ZenonT(60)
<1> HIDE DEF o
<1>2. /\ dtls.ssl # "broken" /\ ~dtls.shutdown
      /\ handshake = "hello" => dtls.timerUs > 0
  BY <1>0, ZenonT(60) DEF ServerInv
<1>3. o.done => o.timer = "keep"
  BY <1>1, ZenonT(60) DEF Completes
<1>4. o.timer = "double" => dtls.timerUs > 0
  BY <1>1, <1>2, ZenonT(60) DEF Repeated
<1>5. QED
  BY <1>1, <1>2, <1>3, <1>4, ZenonT(60) DEF SslMay, o

(* EstablishedTogether and FailsForAReason are two readings of the         *)
(* invariant.                                                              *)
LEMMA HandshakeInvImplies ==
  ASSUME HandshakeInv
  PROVE  EstablishedTogether /\ FailsForAReason
<1>0. PeerInv /\ ServerInv(dtls)
  BY ZenonT(60) DEF HandshakeInv
<1>1. HandshakeTypeOK
  <2>1. \A m \in net \cap ToServer, expired \in BOOLEAN :
          IsRunning(dtls) => /\ Outcome(m, expired) \in SslOutcomes
                             /\ SslMay(dtls, Outcome(m, expired))
    BY PeerIsOrderly, ZenonT(60)
  <2>2. QED
    BY <1>0, <2>1, ZenonT(60) DEF HandshakeTypeOK, PeerInv, ServerInv, DtlsInv, DtlsTypeOK,
       Received, Flights
<1>2. EstablishedTogether
  BY <1>0, <1>1, ZenonT(60) DEF EstablishedTogether, PeerInv, ServerInv, Completed
<1>3. FailsForAReason
  BY <1>0, ZenonT(60) DEF FailsForAReason, ServerInv, Completed
<1>4. QED
  BY <1>2, <1>3, ZenonT(60)

(* The invariant holds in every state that losses, duplicates, reordering  *)
(* and premature retransmissions lead to, whatever their number and        *)
(* whatever the number of retransmissions OpenSSL attempts.                *)
THEOREM HandshakeInvariance == HandshakeSpec => []HandshakeInv
<1>1. HandshakeInit => HandshakeInv
  BY HandshakeInitInv, ZenonT(60)
<1>2. HandshakeInv /\ [HandshakeNext]_handshakeVars => HandshakeInv'
  <2> SUFFICES ASSUME HandshakeInv, [HandshakeNext]_handshakeVars
               PROVE  HandshakeInv'
    OBVIOUS
  <2>1. CASE Start
    BY <2>1, StartInv, ZenonT(60)
  <2>2. CASE ServerStep
    BY <2>2, ServerReceivesInv, ZenonT(60) DEF ServerStep
  <2>3. CASE \/ ClientStarts \/ (\E m \in ToClient : ClientReceives(m))
             \/ ClientRetransmits \/ ClientCloses \/ Lose \/ Duplicate
    BY <2>3, PeerStepInv, ZenonT(60)
  <2>4. CASE UNCHANGED handshakeVars
    BY <2>4, ZenonT(60) DEF handshakeVars, HandshakeInv, PeerInv, ServerInv, Completed,
       DtlsInv, IsRunning,
                Established
  <2>5. QED
    BY <2>1, <2>2, <2>3, <2>4, ZenonT(60) DEF HandshakeNext
<1>3. QED
  BY <1>1, <1>2, PTL DEF HandshakeSpec

(* An established client has a server that announced its SRTP keys, unless *)
(* the two agreed on no suite (OnSslInfo, ProcessHandshake); and no        *)
(* reordering makes SSL_read do what DtlsTransport's theorems exclude.     *)
THEOREM HandshakeEstablishedTogether == HandshakeSpec => []EstablishedTogether
<1>1. HandshakeInv => EstablishedTogether
  BY HandshakeInvImplies, ZenonT(60)
<1>2. QED
  BY <1>1, HandshakeInvariance, PTL

(* The transport fails only for want of a suite or of retransmissions:     *)
(* losses, duplicates and late datagrams do not fail it (CheckStatus).     *)
THEOREM HandshakeFailsForAReason == HandshakeSpec => []FailsForAReason
<1>1. HandshakeInv => FailsForAReason
  BY HandshakeInvImplies, ZenonT(60)
<1>2. QED
  BY <1>1, HandshakeInvariance, PTL

=============================================================================
