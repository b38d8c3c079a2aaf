------------------------------ MODULE IceServer ------------------------------
(***************************************************************************)
(* RTC::IceServer (rtc/ice_server.{h,cc}) with the part of RTC::StunPacket *)
(* it relies on: authentication of Binding requests under the current or   *)
(* the previous credentials, the STUN replies, and the selection of the    *)
(* peer's address.  As in DtlsTransport, the object is a record and its    *)
(* methods are operators on it.                                            *)
(***************************************************************************)
EXTENDS Integers

CONSTANTS
  Ufrags,     \* username fragments
  Passwords,  \* ICE passwords
  Tuples      \* transport addresses of peers

(* A std::string that is empty. *)
Empty == ""

ASSUME CredentialsAssumption ==
  /\ Empty \notin Ufrags /\ "other" \notin Ufrags
  /\ Empty \notin Passwords

VARIABLE ice

Class == {"REQUEST", "INDICATION", "SUCCESS_RESPONSE", "ERROR_RESPONSE"}
Authentication == {"OK", "UNAUTHORIZED", "BAD_REQUEST"}

(* A parsed packet, as far as IceServer looks at it.  username is u for a  *)
(* USERNAME that begins with u and ":", "other" for one of another form,   *)
(* and Empty for none; integrity is the password under which               *)
(* MESSAGE-INTEGRITY was computed, Empty when the attribute is missing.    *)
StunPackets ==
  [klass : Class, binding : BOOLEAN, fingerprint : BOOLEAN, priority : BOOLEAN,
   username : Ufrags \cup {Empty, "other"}, integrity : Passwords \cup {Empty}]

(* Mutant: only the MESSAGE-INTEGRITY is compared. *)
CheckAuthentication_NoUsername(p, localUsername, localPassword) ==
  IF p.klass \notin {"REQUEST", "INDICATION"} THEN "BAD_REQUEST"
  ELSE IF p.integrity = Empty \/ p.username = Empty THEN "BAD_REQUEST"
  ELSE IF p.integrity = localPassword THEN "OK" ELSE "UNAUTHORIZED"

CheckAuthentication(p, localUsername, localPassword) ==
  IF p.klass \notin {"REQUEST", "INDICATION"} THEN "BAD_REQUEST"
  ELSE IF p.integrity = Empty \/ p.username = Empty THEN "BAD_REQUEST"
  ELSE IF p.username # localUsername THEN "UNAUTHORIZED"
  ELSE IF p.integrity = localPassword THEN "OK" ELSE "UNAUTHORIZED"

----------------------------------------------------------------------------
(* reply is the response sent during the last call, with the credentials   *)
(* of the request it answers; code 0 means that nothing was sent.          *)
(* selected collects the tuples given to OnIceServerSelectedTuple.         *)
NoResponse == [code |-> 0, pair |-> <<Empty, Empty>>, signedBy |-> Empty]

NewIceServer(usernameFragment, password) ==
  [state |-> "NEW", usernameFragment |-> usernameFragment, password |-> password,
   oldUsernameFragment |-> Empty, oldPassword |-> Empty,
   reply |-> NoResponse, selected |-> {}]

SetUsernameFragment(i, usernameFragment) ==
  [i EXCEPT !.oldUsernameFragment = i.usernameFragment,
            !.usernameFragment = usernameFragment]

SetPassword(i, password) ==
  [i EXCEPT !.oldPassword = i.password, !.password = password]

Respond(i, p, code, signedBy) ==
  [i EXCEPT !.reply = [code |-> code, pair |-> <<p.username, p.integrity>>,
                       signedBy |-> signedBy]]

HandleTuple(i, tuple) ==
  IF i.state # "COMPLETED"
  THEN [i EXCEPT !.state = "COMPLETED", !.selected = @ \cup {tuple}]
  ELSE i

(* Mutant: only the old password is cleared. *)
ApplyCredentials_Half(i) == [i EXCEPT !.oldPassword = Empty]

(* The peer has used the new credentials: drop the old ones. *)
ApplyCredentials(i) ==
  IF i.oldPassword # Empty
  THEN [i EXCEPT !.oldUsernameFragment = Empty, !.oldPassword = Empty]
  ELSE i

(* The success response and the tuple it selects. *)
Accept(i, p, tuple) ==
  HandleTuple(
    Respond(i, p, 200, IF i.oldPassword = Empty THEN i.password ELSE i.oldPassword),
    tuple)

ProcessStunPacket(i, p, tuple) ==
  LET isRequest == p.klass = "REQUEST"
      badRequest == IF isRequest THEN Respond(i, p, 400, Empty)
                                 ELSE [i EXCEPT !.reply = NoResponse]
      auth == CheckAuthentication(p, i.usernameFragment, i.password)
      authOld == /\ i.oldUsernameFragment # Empty /\ i.oldPassword # Empty
                 /\ CheckAuthentication(p, i.oldUsernameFragment, i.oldPassword) = "OK"
  IN IF ~p.binding \/ (~p.fingerprint /\ p.klass # "INDICATION") THEN badRequest
     ELSE IF ~isRequest THEN [i EXCEPT !.reply = NoResponse]
     ELSE IF p.integrity = Empty \/ ~p.priority \/ p.username = Empty THEN badRequest
     ELSE IF auth = "OK" THEN Accept(ApplyCredentials(i), p, tuple)
     ELSE IF auth = "UNAUTHORIZED" /\ authOld THEN Accept(i, p, tuple)
     ELSE IF auth = "UNAUTHORIZED" THEN Respond(i, p, 401, Empty)
     ELSE badRequest

----------------------------------------------------------------------------
(* The class with a caller that receives packets and restarts ICE.  No     *)
(* code of the repository calls the two setters.  A restart is taken to    *)
(* call both, in either order, before the next packet; a caller of one of  *)
(* them alone, which would leave half of an old pair behind, is not        *)
(* modelled.                                                               *)

ReceiveStun ==
  \E p \in StunPackets, tuple \in Tuples : ice' = ProcessStunPacket(ice, p, tuple)

RestartIce ==
  \E u \in Ufrags, password \in Passwords :
    ice' = [SetPassword(SetUsernameFragment(ice, u), password)
              EXCEPT !.reply = NoResponse]

IceInit ==
  \E u \in Ufrags, password \in Passwords : ice = NewIceServer(u, password)

IceNext == ReceiveStun \/ RestartIce

IceSpec == IceInit /\ [][IceNext]_ice

----------------------------------------------------------------------------
(* Properties.                                                             *)

IceObject ==
  [state : {"NEW", "COMPLETED"}, usernameFragment : Ufrags, password : Passwords,
   oldUsernameFragment : Ufrags \cup {Empty}, oldPassword : Passwords \cup {Empty},
   reply : [code : {0, 200, 400, 401},
            pair : (Ufrags \cup {Empty, "other"}) \X (Passwords \cup {Empty}),
            signedBy : Passwords \cup {Empty}],
   selected : SUBSET Tuples]

(* Type invariant of the IceServer object. *)
IceTypeOK == ice \in IceObject

(* The two halves of the old credentials are kept or dropped together, and *)
(* the server is COMPLETED exactly when it has selected a tuple.           *)
IceCoherent(i) ==
  /\ i.oldUsernameFragment = Empty <=> i.oldPassword = Empty
  /\ i.state = "COMPLETED" <=> i.selected # {}

(* Type correctness and that coherence, through every order of restarts,   *)
(* each of which calls SetUsernameFragment and SetPassword, and of         *)
(* requests: the code clears both halves when it finds that one is set.    *)
IceConsistent == IceTypeOK /\ IceCoherent(ice)

(* The credentials as a pair in force and at most one previous pair. *)
Lite == INSTANCE IceLite WITH
  Pairs <- Ufrags \X Passwords,
  Addresses <- Tuples,
  current <- <<ice.usernameFragment, ice.password>>,
  previous <- IF ice.oldPassword = Empty THEN {}
              ELSE {<<ice.oldUsernameFragment, ice.oldPassword>>},
  nominated <- ice.selected,
  answer <- ice.reply

(* IceServer implements IceLite: it grants requests only under the current *)
(* or the not yet retired previous credentials, signs the reply with the   *)
(* password the request used (ice_server.cc chooses it by looking at       *)
(* oldPassword only), retires the previous pair at the first use of the    *)
(* new one, and selects one tuple for good.                                *)
ImplementsIceLite == Lite!AbstractSpec
=============================================================================
