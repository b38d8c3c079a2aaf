---------------------------- MODULE DtlsHandshake ----------------------------
(***************************************************************************)
(* A DtlsTransport, run as the server, and a browser that is the DTLS      *)
(* client, over a network that loses, duplicates and reorders datagrams.   *)
(* The timer of DtlsTransport is commented out (rtc/dtls_transport.cc,     *)
(* SetTimeout): the server sends only while it handles a datagram, so that *)
(* recovery from a loss rests on the client's retransmissions.             *)
(*                                                                         *)
(* SendPendingOutgoingDtlsData hands a whole flight to the network as one  *)
(* datagram: a message is a flight.  ClientHello, ServerHello (up to       *)
(* ServerHelloDone), ClientFinished (from Certificate), ServerFinished.    *)
(* The client and the two SSL state machines are external.                 *)
(***************************************************************************)
EXTENDS DtlsTransport

CONSTANTS
  MaxFaults,       \* losses, duplications and premature retransmissions
  TimeoutLimit     \* retransmissions after which OpenSSL gives up

ASSUME LimitAssumption == MaxFaults \in Nat /\ TimeoutLimit \in Nat

VARIABLES
  handshake,    \* what the server's SSL has received: none, hello, finished
  timeouts,     \* retransmissions by the server's SSL
  client,       \* the browser: its last flight, and whether it has closed
  suite,        \* the SRTP suite on which the two agree
  net,          \* the datagrams under way
  faults        \* faults so far

handshakeVars == <<dtls, handshake, timeouts, client, suite, net, faults>>

ToServer == {"ClientHello", "ClientFinished", "closeNotify"}
ToClient == {"ServerHello", "ServerFinished"}

Established == client.last = "established"

----------------------------------------------------------------------------
(* OpenSSL in the server.                                                  *)

(* The flight that a datagram makes the SSL write: an answer, or, once the *)
(* retransmission timer has expired, its last flight again.  A finished    *)
(* server answers every repeated Finished.                                 *)
Reply(m, expired) ==
  CASE handshake = "none" /\ m = "ClientHello" -> "ServerHello"
    [] handshake = "hello" /\ m = "ClientHello" /\ expired -> "ServerHello"
    [] handshake # "none" /\ m = "ClientFinished" -> "ServerFinished"
    [] OTHER -> "nothing"

Repeated(m, expired) ==
  \/ handshake = "hello" /\ m = "ClientHello" /\ expired
  \/ handshake = "finished" /\ m = "ClientFinished"

GivesUp(m, expired) == Repeated(m, expired) /\ timeouts = TimeoutLimit

Completes(m) == handshake = "hello" /\ m = "ClientFinished"

(* What SSL_read does with a datagram; the keying material that a complete *)
(* handshake leaves can be exported.                                       *)
Outcome(m, expired) ==
  LET fatal == GivesUp(m, expired)
  IN [done |-> Completes(m), fatal |-> fatal, shutdown |-> m = "closeNotify", app |-> FALSE,
      output |-> Reply(m, expired) # "nothing" /\ ~fatal,
      timer |-> CASE m = "ClientHello" /\ handshake = "none" -> "restart"
                  [] m = "ClientHello" /\ Repeated(m, expired) /\ ~fatal -> "double"
                  [] OTHER -> "keep",
      suite |-> IF Completes(m) THEN suite ELSE "NONE", exported |-> TRUE]

----------------------------------------------------------------------------
(* The server.                                                             *)

(* OnIceServerSelectedTuple. *)
Start ==
  /\ dtls.state = "NEW"
  /\ dtls' = Run(Enter(dtls), "SERVER")
  /\ UNCHANGED <<handshake, timeouts, client, suite, net, faults>>

(* ProcessDtlsData drops what arrives while the transport is not running. *)
ServerReceives(m, expired) ==
  /\ m \in net \cap ToServer
  /\ dtls' = ProcessDtlsData(Enter(dtls), Outcome(m, expired))
  /\ net' = (net \ {m}) \cup (IF "record" \in dtls'.sent THEN {Reply(m, expired)} ELSE {})
  /\ IF IsRunning(dtls)
     THEN /\ handshake' = CASE handshake = "none" /\ m = "ClientHello" -> "hello"
                            [] Completes(m) -> "finished"
                            [] OTHER -> handshake
          /\ timeouts' = IF Repeated(m, expired) /\ ~GivesUp(m, expired) THEN timeouts + 1
                                                                          ELSE timeouts
     ELSE UNCHANGED <<handshake, timeouts>>
  /\ client' = IF m = "closeNotify" THEN [client EXCEPT !.close = "received"] ELSE client
  /\ UNCHANGED <<suite, faults>>

----------------------------------------------------------------------------
(* The client.                                                             *)

ClientStarts ==
  /\ client.last = "none"
  /\ client' = [client EXCEPT !.last = "ClientHello"]
  /\ net' = net \cup {"ClientHello"}
  /\ UNCHANGED <<dtls, handshake, timeouts, suite, faults>>

ClientReceives(m) ==
  /\ m \in net \cap ToClient
  /\ \/ /\ m = "ServerHello" /\ client.last = "ClientHello"
        /\ client' = [client EXCEPT !.last = "ClientFinished"]
        /\ net' = (net \ {m}) \cup {"ClientFinished"}
     \/ /\ m = "ServerFinished" /\ client.last = "ClientFinished"
        /\ client' = [client EXCEPT !.last = "established"]
        /\ net' = net \ {m}
     \/ /\ <<m, client.last>> \notin {<<"ServerHello", "ClientHello">>,
                                      <<"ServerFinished", "ClientFinished">>}
        /\ net' = net \ {m}
        /\ UNCHANGED client
  /\ UNCHANGED <<dtls, handshake, timeouts, suite, faults>>

(* The client's timer: nothing that it waits for is under way. *)
ClientRetransmits ==
  /\ client.last \in {"ClientHello", "ClientFinished"}
  /\ net = {}
  /\ net' = {client.last}
  /\ UNCHANGED <<dtls, handshake, timeouts, client, suite, faults>>

(* A close alert is sent once and not retransmitted. *)
ClientCloses ==
  /\ Established /\ client.close = "no"
  /\ client' = [client EXCEPT !.close = "sent"]
  /\ net' = net \cup {"closeNotify"}
  /\ UNCHANGED <<dtls, handshake, timeouts, suite, faults>>

----------------------------------------------------------------------------
(* The network, and a client timer that is too early for it.               *)

Fault ==
  /\ faults < MaxFaults
  /\ faults' = faults + 1
  /\ UNCHANGED <<handshake, timeouts, suite>>

Lose ==
  /\ Fault
  /\ \E m \in net :
       /\ net' = net \ {m}
       /\ client' = IF m = "closeNotify" THEN [client EXCEPT !.close = "lost"] ELSE client
  /\ UNCHANGED dtls

(* A second copy of a datagram that has been delivered, or a flight that   *)
(* the client repeats before the answer to it arrives.                     *)
Duplicate ==
  /\ Fault
  /\ \E m \in {"ClientHello", "ClientFinished"} \ net :
       /\ client.last # "none"
       /\ m = "ClientFinished" => client.last # "ClientHello"
       /\ net' = net \cup {m}
  /\ UNCHANGED <<dtls, client>>

----------------------------------------------------------------------------
HandshakeInit ==
  /\ DtlsInit
  /\ handshake = "none" /\ timeouts = 0
  /\ client = [last |-> "none", close |-> "no"]
  /\ suite \in {"AES_CM_128_HMAC_SHA1_80", "NONE"}
  /\ net = {} /\ faults = 0

ServerStep == \E m \in ToServer, expired \in BOOLEAN : ServerReceives(m, expired)

HandshakeNext ==
  \/ Start
  \/ ServerStep
  \/ ClientStarts
  \/ \E m \in ToClient : ClientReceives(m)
  \/ ClientRetransmits
  \/ ClientCloses
  \/ Lose
  \/ Duplicate

(* ICE selects an address; the client retransmits; what is not lost        *)
(* arrives; and a client that goes on repeating its hello, at growing      *)
(* intervals, does so after the server's timer (at most 4 s) has expired.  *)
HandshakeFairness ==
  /\ WF_handshakeVars(Start)
  /\ WF_handshakeVars(ClientStarts)
  /\ WF_handshakeVars(ClientRetransmits)
  /\ \A m \in ToServer : WF_handshakeVars(\E expired \in BOOLEAN : ServerReceives(m, expired))
  /\ \A m \in ToClient : WF_handshakeVars(ClientReceives(m))
  /\ SF_handshakeVars(ServerReceives("ClientHello", TRUE))

HandshakeSpec == HandshakeInit /\ [][HandshakeNext]_handshakeVars /\ HandshakeFairness

----------------------------------------------------------------------------
(* Properties.                                                             *)

(* Type invariant; OpenSSL's outcomes are among those of DtlsTransport. *)
HandshakeTypeOK ==
  /\ DtlsTypeOK
  /\ handshake \in {"none", "hello", "finished"}
  /\ timeouts \in 0 .. TimeoutLimit
  /\ client.last \in {"none", "ClientHello", "ClientFinished", "established"}
  /\ net \subseteq ToServer \cup ToClient
  /\ \A m \in net \cap ToServer, expired \in BOOLEAN :
       IsRunning(dtls) => /\ Outcome(m, expired) \in SslOutcomes
                          /\ SslMay(dtls, Outcome(m, expired))

(* A client that is established has a server that announced its SRTP keys, *)
(* unless the two agreed on no SRTP suite: ProcessHandshake then fails the *)
(* transport although both handshakes are complete, and the client is not  *)
(* told.  (With the types, and what SSL_read may do, of HandshakeTypeOK.)   *)
EstablishedTogether ==
  /\ HandshakeTypeOK
  /\ Established => IF suite = "NONE" THEN dtls.state = "FAILED"
                                      ELSE dtls.state \in {"CONNECTED", "CLOSED"}

(* The transport fails for two reasons only: no suite, or a peer that was  *)
(* not reached within OpenSSL's retransmissions.                           *)
FailsForAReason ==
  dtls.state = "FAILED" =>
    (suite = "NONE" /\ handshake = "finished") \/ timeouts = TimeoutLimit

(* Without a timer of its own the server completes the handshake all the   *)
(* same, and the client with it, as long as there are fewer faults than    *)
(* retransmissions.                                                        *)
HandshakeCompletes ==
  suite # "NONE" /\ [](faults < TimeoutLimit) => <>(Established /\ handshake = "finished")

(* A close alert, in whatever order it arrives among repeated flights, ends *)
(* the connection, unless it is lost: there is no second one, and no timer  *)
(* that would notice a client that has left.                                *)
CloseNoticedOrLost ==
  (client.close = "sent") ~> (~IsRunning(dtls) \/ client.close = "lost")
=============================================================================
