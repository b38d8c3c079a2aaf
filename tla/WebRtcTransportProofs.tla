------------------------ MODULE WebRtcTransportProofs ------------------------
(***************************************************************************)
(* Theorems about IceServer and about WebRtcTransport, which composes it   *)
(* with DtlsTransport: both keep their invariants, IceServer implements    *)
(* IceLite and WebRtcTransport implements SecureChannel.  The lemmas on    *)
(* the methods of DtlsTransport come from DtlsTransportProofs.             *)
(***************************************************************************)
EXTENDS WebRtcTransport, DtlsTransportProofs

----------------------------------------------------------------------------
(* IceServer.                                                              *)

(* The credentials as IceLite sees them. *)
CurrentPair(i) == <<i.usernameFragment, i.password>>

PreviousPairs(i) ==
  IF i.oldPassword = Empty THEN {} ELSE {<<i.oldUsernameFragment, i.oldPassword>>}

(* The fields of IceObject, with a name for the range of each. *)
IceStates == {"NEW", "COMPLETED"}
MaybeUfrags == Ufrags \cup {Empty}
MaybePasswords == Passwords \cup {Empty}
Selections == SUBSET Tuples
Codes == {0, 200, 400, 401}
RequestPairs == (Ufrags \cup {Empty, "other"}) \X (Passwords \cup {Empty})

Replies == [code : Codes, pair : RequestPairs, signedBy : MaybePasswords]

IceFields ==
  [state : IceStates, usernameFragment : Ufrags, password : Passwords,
   oldUsernameFragment : MaybeUfrags, oldPassword : MaybePasswords,
   reply : Replies, selected : Selections]

IceInv(i) == i \in IceFields /\ IceCoherent(i)

(* What a packet may do to the server: grant a request, or change nothing  *)
(* but the reply.                                                          *)
Granted(i, j) ==
  /\ j.reply.code = 200
  /\ j.reply.pair \in {CurrentPair(i)} \cup PreviousPairs(i)
  /\ j.reply.signedBy = j.reply.pair[2]
  /\ PreviousPairs(j) = IF j.reply.pair = CurrentPair(i) THEN {} ELSE PreviousPairs(i)

Refused(i, j) ==
  /\ j.reply.code \in {0, 400, 401}
  /\ j.reply.code = 401 => j.reply.pair \notin {CurrentPair(i)} \cup PreviousPairs(i)
  /\ PreviousPairs(j) = PreviousPairs(i)
  /\ j.state = i.state /\ j.selected = i.selected

(* The type of a reply. *)
LEMMA ResponseType ==
  ASSUME NEW p \in StunPackets, NEW code \in Codes,
         NEW signedBy \in MaybePasswords
  PROVE  [code |-> code, pair |-> <<p.username, p.integrity>>, signedBy |-> signedBy]
           \in Replies
<1>1. <<p.username, p.integrity>> \in RequestPairs
  BY ZenonT(60) DEF StunPackets, RequestPairs
<1>2. QED
  BY <1>1, Zenon DEF Replies

(* Only the reply changes when it is replaced. *)
LEMMA ReplyFacts ==
  ASSUME NEW i, IceInv(i), NEW r \in Replies
  PROVE  LET j == [i EXCEPT !.reply = r]
         IN /\ IceInv(j) /\ j.reply = r
            /\ CurrentPair(j) = CurrentPair(i) /\ PreviousPairs(j) = PreviousPairs(i)
            /\ j.oldPassword = i.oldPassword /\ j.password = i.password
            /\ j.state = i.state /\ j.selected = i.selected
<1> DEFINE j == [i EXCEPT !.reply = r]
<1>1. i \in IceFields
  BY ZenonT(60) DEF IceInv
<1>2. j \in IceFields
  BY <1>1, Zenon DEF IceFields
<1>3. /\ j.reply = r
      /\ j.oldPassword = i.oldPassword /\ j.oldUsernameFragment = i.oldUsernameFragment
      /\ j.password = i.password /\ j.usernameFragment = i.usernameFragment
      /\ j.state = i.state /\ j.selected = i.selected
  BY <1>1, Zenon DEF IceFields
<1> HIDE DEF j
<1>4. QED
  BY <1>2, <1>3, ZenonT(60) DEF IceInv, IceCoherent, CurrentPair, PreviousPairs, j

(* Dropping the old credentials keeps the two halves together. *)
LEMMA ApplyFacts ==
  ASSUME NEW i, IceInv(i)
  PROVE  LET j == ApplyCredentials(i)
         IN /\ IceInv(j) /\ j.oldPassword = Empty
            /\ CurrentPair(j) = CurrentPair(i) /\ j.password = i.password
            /\ j.state = i.state /\ j.selected = i.selected
<1> DEFINE j == ApplyCredentials(i)
<1>1. i \in IceFields
  BY ZenonT(60) DEF IceInv
<1>0. Empty \in MaybeUfrags /\ Empty \in MaybePasswords
  BY ZenonT(60) DEF MaybeUfrags, MaybePasswords
<1>2. CASE i.oldPassword = Empty
  BY <1>1, <1>2, ZenonT(60) DEF ApplyCredentials
<1>3. CASE i.oldPassword # Empty
  <2>1. j = [i EXCEPT !.oldUsernameFragment = Empty, !.oldPassword = Empty]
    BY <1>3, ZenonT(60) DEF ApplyCredentials
  <2>2. j \in IceFields
    BY <1>1, <2>1, <1>0, Zenon DEF IceFields
  <2>3. /\ j.oldPassword = Empty /\ j.oldUsernameFragment = Empty
        /\ j.password = i.password /\ j.usernameFragment = i.usernameFragment
        /\ j.state = i.state /\ j.selected = i.selected
    BY <1>1, <2>1, Zenon DEF IceFields
  <2> HIDE DEF j
  <2>4. QED
    BY <2>2, <2>3, ZenonT(60) DEF IceInv, IceCoherent, CurrentPair, j
<1>4. QED
  BY <1>2, <1>3, ZenonT(60)

(* The first tuple completes the server; later ones change nothing. *)
LEMMA HandleTupleFacts ==
  ASSUME NEW i, IceInv(i), NEW tuple \in Tuples
  PROVE  LET j == HandleTuple(i, tuple)
         IN /\ IceInv(j) /\ j.reply = i.reply /\ j.state = "COMPLETED"
            /\ CurrentPair(j) = CurrentPair(i) /\ PreviousPairs(j) = PreviousPairs(i)
            /\ j.selected = IF i.selected = {} THEN {tuple} ELSE i.selected
<1> DEFINE j == HandleTuple(i, tuple)
<1>1. i \in IceFields /\ (i.state = "COMPLETED" <=> i.selected # {})
  BY ZenonT(60) DEF IceInv, IceCoherent
<1>2. CASE i.state = "COMPLETED"
  BY <1>1, <1>2, ZenonT(60) DEF HandleTuple
<1>3. CASE i.state # "COMPLETED"
  <2>1. j = [i EXCEPT !.state = "COMPLETED", !.selected = i.selected \cup {tuple}]
    BY <1>1, <1>3, ZenonT(60) DEF HandleTuple, IceFields
  <2>2. i.selected \cup {tuple} \in Selections /\ "COMPLETED" \in IceStates
    BY <1>1, ZenonT(60) DEF IceFields, Selections, IceStates
  <2>3. j \in IceFields
    BY <1>1, <2>1, <2>2, Zenon DEF IceFields
  <2>4. /\ j.reply = i.reply /\ j.state = "COMPLETED"
        /\ j.oldPassword = i.oldPassword /\ j.oldUsernameFragment = i.oldUsernameFragment
        /\ j.password = i.password /\ j.usernameFragment = i.usernameFragment
        /\ j.selected = i.selected \cup {tuple}
    BY <1>1, <2>1, Zenon DEF IceFields
  <2> HIDE DEF j
  <2>5. i.selected = {}
    BY <1>1, <1>3, ZenonT(60)
  <2>6. QED
    BY <2>3, <2>4, <2>5, ZenonT(60) DEF IceInv, IceCoherent, CurrentPair, PreviousPairs, j
<1>4. QED
  BY <1>2, <1>3, ZenonT(60)

(* A response other than a success changes nothing but the reply. *)
LEMMA RespondFacts ==
  ASSUME NEW i, IceInv(i), NEW p \in StunPackets, NEW code \in Codes,
         NEW signedBy \in MaybePasswords
  PROVE  LET j == Respond(i, p, code, signedBy)
         IN /\ IceInv(j) /\ j.reply.code = code
            /\ j.reply.pair = <<p.username, p.integrity>> /\ j.reply.signedBy = signedBy
            /\ CurrentPair(j) = CurrentPair(i) /\ PreviousPairs(j) = PreviousPairs(i)
            /\ j.state = i.state /\ j.selected = i.selected
<1> DEFINE r == [code |-> code, pair |-> <<p.username, p.integrity>>, signedBy |-> signedBy]
<1>1. r \in Replies
  BY ResponseType, ZenonT(60)
<1>2. /\ r.code = code /\ r.pair = <<p.username, p.integrity>> /\ r.signedBy = signedBy
  OBVIOUS
<1>3. Respond(i, p, code, signedBy) = [i EXCEPT !.reply = r]
  BY ZenonT(60) DEF Respond
<1> HIDE DEF r
<1>4. QED
  BY <1>1, <1>2, <1>3, ReplyFacts, SMTT(60)

(* Sending nothing changes nothing but the reply. *)
LEMMA NoResponseFacts ==
  ASSUME NEW i, IceInv(i)
  PROVE  LET j == [i EXCEPT !.reply = NoResponse]
         IN /\ IceInv(j) /\ j.reply.code = 0
            /\ CurrentPair(j) = CurrentPair(i) /\ PreviousPairs(j) = PreviousPairs(i)
            /\ j.state = i.state /\ j.selected = i.selected
<1>1. NoResponse \in Replies /\ NoResponse.code = 0
  BY ZenonT(60) DEF NoResponse, Replies, Codes, RequestPairs, MaybePasswords
<1>2. QED
  BY <1>1, ReplyFacts, ZenonT(60)

(* A success response is signed with the old password if there is one, and *)
(* selects the tuple if none has been.                                     *)
Accepted(i, p, tuple, j) ==
  /\ IceInv(j) /\ j.reply.code = 200
  /\ j.reply.pair = <<p.username, p.integrity>>
  /\ j.reply.signedBy = IF i.oldPassword = Empty THEN i.password ELSE i.oldPassword
  /\ CurrentPair(j) = CurrentPair(i) /\ PreviousPairs(j) = PreviousPairs(i)
  /\ j.state = "COMPLETED"
  /\ j.selected = IF i.selected = {} THEN {tuple} ELSE i.selected

(* Accept keeps the invariant and does just that. *)
LEMMA AcceptFacts ==
  ASSUME NEW i, IceInv(i), NEW p \in StunPackets, NEW tuple \in Tuples
  PROVE  Accepted(i, p, tuple, Accept(i, p, tuple))
<1> DEFINE signedBy == IF i.oldPassword = Empty THEN i.password ELSE i.oldPassword
           j == Respond(i, p, 200, signedBy)
<1>1. signedBy \in MaybePasswords /\ 200 \in Codes
  BY DEF IceInv, IceFields, MaybePasswords, Codes
<1> HIDE DEF signedBy
<1>2. /\ IceInv(j) /\ j.reply.code = 200
      /\ j.reply.pair = <<p.username, p.integrity>> /\ j.reply.signedBy = signedBy
      /\ CurrentPair(j) = CurrentPair(i) /\ PreviousPairs(j) = PreviousPairs(i)
      /\ j.state = i.state /\ j.selected = i.selected
  BY <1>1, RespondFacts
<1>3. Accept(i, p, tuple) = HandleTuple(j, tuple)
  BY ZenonT(60) DEF Accept, signedBy
<1> HIDE DEF j
<1> DEFINE k == HandleTuple(j, tuple)
<1>4. /\ IceInv(k) /\ k.reply = j.reply /\ k.state = "COMPLETED"
      /\ CurrentPair(k) = CurrentPair(j) /\ PreviousPairs(k) = PreviousPairs(j)
      /\ k.selected = IF j.selected = {} THEN {tuple} ELSE j.selected
  BY <1>2, HandleTupleFacts, ZenonT(60)
<1> HIDE DEF k
<1>5. Accept(i, p, tuple) = k
  BY <1>3, ZenonT(60) DEF k
<1>6. QED
  BY <1>2, <1>4, <1>5 DEF signedBy, Accepted

(* Authentication compares the credentials of the request with a pair. *)
LEMMA AuthenticationFacts ==
  ASSUME NEW p, p.klass = "REQUEST", p.integrity # Empty, p.username # Empty, NEW u, NEW w
  PROVE  /\ CheckAuthentication(p, u, w) \in {"OK", "UNAUTHORIZED"}
         /\ CheckAuthentication(p, u, w) = "OK" <=> <<p.username, p.integrity>> = <<u, w>>
BY ZenonT(60) DEF CheckAuthentication

(* A packet is granted or refused, and keeps the invariant; it selects its *)
(* tuple when the server becomes COMPLETED, and only then.                 *)
LEMMA ProcessStunPacketFacts ==
  ASSUME NEW i, IceInv(i), NEW p \in StunPackets, NEW tuple \in Tuples
  PROVE  LET j == ProcessStunPacket(i, p, tuple)
         IN /\ IceInv(j)
            /\ CurrentPair(j) = CurrentPair(i)
            /\ \/ /\ Granted(i, j) /\ j.state = "COMPLETED"
                  /\ j.selected = IF i.selected = {} THEN {tuple} ELSE i.selected
               \/ Refused(i, j)
<1> DEFINE j == ProcessStunPacket(i, p, tuple)
           none == [i EXCEPT !.reply = NoResponse]
           bad == Respond(i, p, 400, Empty)
           unauthorized == Respond(i, p, 401, Empty)
           granted == Accept(ApplyCredentials(i), p, tuple)
           grantedOld == Accept(i, p, tuple)
           auth == CheckAuthentication(p, i.usernameFragment, i.password)
           authOld == CheckAuthentication(p, i.oldUsernameFragment, i.oldPassword)
           pair == <<p.username, p.integrity>>
<1>0. /\ Empty \in MaybePasswords
      /\ 400 \in Codes /\ 401 \in Codes
  BY DEF MaybePasswords, Codes
<1>1. IceInv(none) /\ CurrentPair(none) = CurrentPair(i) /\ Refused(i, none)
  BY NoResponseFacts DEF Refused
<1>2. IceInv(bad) /\ CurrentPair(bad) = CurrentPair(i) /\ Refused(i, bad)
  <2>1. /\ IceInv(bad) /\ bad.reply.code = 400
        /\ CurrentPair(bad) = CurrentPair(i) /\ PreviousPairs(bad) = PreviousPairs(i)
        /\ bad.state = i.state /\ bad.selected = i.selected
    BY <1>0, RespondFacts, SMTT(60)
  <2> HIDE DEF bad
  <2>2. QED
    BY <2>1, SMTT(60) DEF Refused
<1>3. CASE j \in {none, bad}
  BY <1>1, <1>2, <1>3
<1>4. CASE j \notin {none, bad}
  <2>1. /\ p.klass = "REQUEST" /\ p.integrity # Empty /\ p.username # Empty
        /\ j = IF auth = "OK" THEN granted
               ELSE IF auth = "UNAUTHORIZED"
                       /\ i.oldUsernameFragment # Empty /\ i.oldPassword # Empty /\ authOld = "OK"
                    THEN grantedOld ELSE unauthorized
    BY <1>4, SMTT(60) DEF ProcessStunPacket
  <2>2. /\ auth = "OK" \/ auth = "UNAUTHORIZED"
        /\ auth = "OK" <=> pair = CurrentPair(i)
        /\ authOld = "OK" <=> pair = <<i.oldUsernameFragment, i.oldPassword>>
    BY <2>1, AuthenticationFacts, ZenonT(60) DEF CurrentPair
  <2> HIDE DEF auth, authOld, none, bad
  <2>3. CASE auth = "OK"
    <3> DEFINE k == ApplyCredentials(i)
    <3>1. /\ IceInv(k) /\ k.oldPassword = Empty
          /\ CurrentPair(k) = CurrentPair(i) /\ k.password = i.password
          /\ k.state = i.state /\ k.selected = i.selected
      BY ApplyFacts, ZenonT(60)
    <3>2. j = Accept(k, p, tuple)
      BY <2>1, <2>3, ZenonT(60)
    <3> HIDE DEF k, j
    <3>3. /\ IceInv(j) /\ j.reply.code = 200 /\ j.reply.pair = pair
          /\ j.reply.signedBy = i.password
          /\ CurrentPair(j) = CurrentPair(i) /\ PreviousPairs(j) = PreviousPairs(k)
          /\ j.state = "COMPLETED"
          /\ j.selected = IF i.selected = {} THEN {tuple} ELSE i.selected
      <4>0. IceInv(k)
        BY <3>1, ZenonT(60)
      <4>1. Accepted(k, p, tuple, j)
        BY <4>0, <3>2, AcceptFacts, ZenonT(60)
      <4>2. QED
        BY <3>1, <4>1, ZenonT(60) DEF Accepted
    <3>4. PreviousPairs(k) = {}
      BY <3>1, ZenonT(60) DEF PreviousPairs
    <3>5. p.integrity = i.password
      BY <2>2, <2>3, ZenonT(60) DEF CurrentPair
    <3>6. Granted(i, j)
      BY <2>2, <2>3, <3>3, <3>4, <3>5, SMTT(60) DEF Granted
    <3>7. QED
      BY <3>3, <3>6, ZenonT(60) DEF j
  <2>4. CASE auth # "OK" /\ i.oldPassword # Empty /\ authOld = "OK"
    <3>1. i.oldUsernameFragment # Empty
      BY <2>4, ZenonT(60) DEF IceInv, IceCoherent
    <3>2. j = grantedOld
      BY <2>1, <2>2, <2>4, <3>1, ZenonT(60)
    <3> HIDE DEF j
    <3>3. /\ IceInv(j) /\ j.reply.code = 200 /\ j.reply.pair = pair
          /\ j.reply.signedBy = i.oldPassword
          /\ CurrentPair(j) = CurrentPair(i) /\ PreviousPairs(j) = PreviousPairs(i)
          /\ j.state = "COMPLETED"
          /\ j.selected = IF i.selected = {} THEN {tuple} ELSE i.selected
      BY <2>4, <3>2, AcceptFacts, SMTT(60) DEF Accepted
    <3>4. Granted(i, j)
      BY <2>2, <2>4, <3>3, SMTT(60) DEF Granted, PreviousPairs
    <3>5. QED
      BY <3>3, <3>4, ZenonT(60) DEF j
  <2>5. CASE auth # "OK" /\ ~(i.oldPassword # Empty /\ authOld = "OK")
    <3>1. j = unauthorized
      BY <2>1, <2>2, <2>5, ZenonT(60)
    <3> HIDE DEF j
    <3>2. /\ IceInv(j) /\ j.reply.code = 401 /\ j.reply.pair = pair
          /\ CurrentPair(j) = CurrentPair(i) /\ PreviousPairs(j) = PreviousPairs(i)
          /\ j.state = i.state /\ j.selected = i.selected
      BY <1>0, <3>1, RespondFacts, SMTT(60)
    <3>3. pair \notin {CurrentPair(i)} \cup PreviousPairs(i)
      BY <2>2, <2>5, ZenonT(60) DEF PreviousPairs
    <3>4. QED
      BY <3>2, <3>3 DEF Refused, j
  <2>6. QED
    BY <2>3, <2>4, <2>5, ZenonT(60)
<1>5. QED
  BY <1>3, <1>4, ZenonT(60)

(* A restart puts a new pair in force and keeps the one it replaces. *)
LEMMA RestartFacts ==
  ASSUME NEW i, IceInv(i), NEW u \in Ufrags, NEW password \in Passwords
  PROVE  LET j == [SetPassword(SetUsernameFragment(i, u), password)
                     EXCEPT !.reply = NoResponse]
         IN /\ IceInv(j) /\ j.reply.code = 0
            /\ CurrentPair(j) = <<u, password>> /\ PreviousPairs(j) = {CurrentPair(i)}
            /\ j.state = i.state /\ j.selected = i.selected
<1> DEFINE k == SetUsernameFragment(i, u)
           l == SetPassword(k, password)
<1>0. Ufrags \subseteq MaybeUfrags /\ Passwords \subseteq MaybePasswords
  BY ZenonT(60) DEF MaybeUfrags, MaybePasswords
<1>1. /\ i \in IceFields
      /\ i.state = "COMPLETED" <=> i.selected # {}
      /\ i.password \in Passwords /\ i.usernameFragment \in Ufrags
  BY ZenonT(60) DEF IceInv, IceCoherent, IceFields
<1>2. i.usernameFragment \in MaybeUfrags /\ i.password \in MaybePasswords
  BY <1>0, <1>1, ZenonT(60)
<1>3. k \in IceFields
  BY <1>1, <1>2, Zenon DEF IceFields, SetUsernameFragment
<1>4. /\ k.usernameFragment = u /\ k.oldUsernameFragment = i.usernameFragment
      /\ k.password = i.password /\ k.state = i.state /\ k.selected = i.selected
  BY <1>1, Zenon DEF IceFields, SetUsernameFragment
<1> HIDE DEF k
<1>5. l \in IceFields
  BY <1>2, <1>3, <1>4, Zenon DEF IceFields, SetPassword
<1>6. /\ l.usernameFragment = u /\ l.oldUsernameFragment = i.usernameFragment
      /\ l.password = password /\ l.oldPassword = i.password
      /\ l.state = i.state /\ l.selected = i.selected
  BY <1>3, <1>4, Zenon DEF IceFields, SetPassword
<1> HIDE DEF l
<1>7. l.oldUsernameFragment # Empty /\ l.oldPassword # Empty
  BY <1>1, <1>6, CredentialsAssumption, ZenonT(60)
<1>8. /\ IceInv(l) /\ CurrentPair(l) = <<u, password>>
      /\ PreviousPairs(l) = {CurrentPair(i)}
  BY <1>1, <1>5, <1>6, <1>7, ZenonT(60) DEF IceInv, IceCoherent, CurrentPair, PreviousPairs
<1>9. QED
  BY <1>6, <1>8, NoResponseFacts, ZenonT(60) DEF k, l

(* A new server satisfies the invariant. *)
LEMMA NewIceServerFacts ==
  ASSUME NEW u \in Ufrags, NEW password \in Passwords
  PROVE  LET j == NewIceServer(u, password)
         IN /\ IceInv(j) /\ j.reply.code = 0 /\ j.state = "NEW" /\ j.selected = {}
            /\ CurrentPair(j) = <<u, password>> /\ PreviousPairs(j) = {}
<1> DEFINE j == NewIceServer(u, password)
<1>1. NoResponse \in Replies /\ NoResponse.code = 0
  BY ZenonT(60) DEF NoResponse, Replies, Codes, RequestPairs, MaybePasswords
<1>2. /\ Empty \in MaybeUfrags /\ Empty \in MaybePasswords
      /\ {} \in Selections /\ "NEW" \in IceStates
  BY ZenonT(60) DEF MaybeUfrags, MaybePasswords, Selections, IceStates
<1>3. j \in IceFields
  BY <1>1, <1>2, Zenon DEF NewIceServer, IceFields
<1>4. /\ j.state = "NEW" /\ j.selected = {} /\ j.reply = NoResponse
      /\ j.usernameFragment = u /\ j.password = password
      /\ j.oldUsernameFragment = Empty /\ j.oldPassword = Empty
  BY Zenon DEF NewIceServer
<1> HIDE DEF j
<1>5. QED
  BY <1>1, <1>3, <1>4, ZenonT(60) DEF IceInv, IceCoherent, CurrentPair, PreviousPairs, j

(* The named ranges are those of IceObject. *)
LEMMA IceFieldsObject == IceFields = IceObject
BY Zenon DEF IceFields, IceObject, IceStates, MaybeUfrags, MaybePasswords, Replies, Codes,
             RequestPairs, Selections

(* IceServer keeps the halves of the old credentials together and is       *)
(* COMPLETED exactly when it has selected a tuple, whatever the packets    *)
(* and however often the credentials change.                               *)
THEOREM IceStaysConsistent == IceSpec => []IceConsistent
<1>1. IceInit => IceInv(ice)
  BY NewIceServerFacts, ZenonT(60) DEF IceInit
<1>2. IceInv(ice) /\ [IceNext]_ice => IceInv(ice)'
  <2> SUFFICES ASSUME IceInv(ice), [IceNext]_ice
               PROVE  IceInv(ice')
    BY ZenonT(60) DEF IceInv, IceCoherent
  <2>1. CASE ReceiveStun
    BY <2>1, ProcessStunPacketFacts, ZenonT(60) DEF ReceiveStun
  <2>2. CASE RestartIce
    BY <2>2, RestartFacts, ZenonT(60) DEF RestartIce
  <2>3. CASE UNCHANGED ice
    BY <2>3, ZenonT(60)
  <2>4. QED
    BY <2>1, <2>2, <2>3, ZenonT(60) DEF IceNext
<1>3. IceInv(ice) => IceConsistent
  BY IceFieldsObject, ZenonT(60) DEF IceInv, IceConsistent, IceTypeOK
<1>4. QED
  BY <1>1, <1>2, <1>3, PTL DEF IceSpec

(* IceServer implements IceLite: every packet is a Grant or a Refuse of    *)
(* the abstract agent and every change of credentials a Restart.           *)
THEOREM IceServerImplementsIceLite == IceSpec => ImplementsIceLite
<1>1. IceInit => IceInv(ice) /\ Lite!AbstractInit
  <2> SUFFICES ASSUME NEW u \in Ufrags, NEW password \in Passwords,
                      ice = NewIceServer(u, password)
               PROVE  IceInv(ice) /\ Lite!AbstractInit
    BY ZenonT(60) DEF IceInit
  <2>1. /\ IceInv(ice) /\ ice.reply.code = 0 /\ ice.selected = {}
        /\ CurrentPair(ice) = <<u, password>> /\ PreviousPairs(ice) = {}
    BY NewIceServerFacts, ZenonT(60)
  <2>2. QED
    BY <2>1, ZenonT(60) DEF Lite!AbstractInit, Lite!NoReply, CurrentPair, PreviousPairs
<1>2. IceInv(ice) /\ [IceNext]_ice => IceInv(ice)' /\ [Lite!AbstractNext]_Lite!abstractVars
  <2> SUFFICES ASSUME IceInv(ice), [IceNext]_ice
               PROVE  IceInv(ice)' /\ [Lite!AbstractNext]_Lite!abstractVars
    OBVIOUS
  <2>1. CASE ReceiveStun
    <3>1. PICK p \in StunPackets, tuple \in Tuples : ice' = ProcessStunPacket(ice, p, tuple)
      BY <2>1, ZenonT(60) DEF ReceiveStun
    <3>2. /\ IceInv(ice') /\ CurrentPair(ice') = CurrentPair(ice)
          /\ \/ /\ Granted(ice, ice')
                /\ ice'.selected = IF ice.selected = {} THEN {tuple} ELSE ice.selected
             \/ Refused(ice, ice')
      BY <3>1, ProcessStunPacketFacts, ZenonT(60)
    <3>3. CASE Granted(ice, ice')
               /\ ice'.selected = IF ice.selected = {} THEN {tuple} ELSE ice.selected
      <4>1. Lite!Grant
        BY <3>2, <3>3, ZenonT(60) DEF Lite!Grant, Lite!Success, Granted, CurrentPair,
           PreviousPairs
      <4>2. QED
        BY <3>2, <4>1, ZenonT(60) DEF Lite!AbstractNext, IceInv, IceCoherent
    <3>4. CASE Refused(ice, ice')
      <4>1. Lite!Refuse
        BY <3>2, <3>4, ZenonT(60) DEF Lite!Refuse, Lite!NoReply, Lite!BadRequest,
           Lite!Unauthorized,
                          Refused, CurrentPair, PreviousPairs
      <4>2. QED
        BY <3>2, <4>1, ZenonT(60) DEF Lite!AbstractNext, IceInv, IceCoherent
    <3>5. QED
      BY <3>2, <3>3, <3>4, ZenonT(60)
  <2>2. CASE RestartIce
    <3>1. PICK u \in Ufrags, password \in Passwords :
            ice' = [SetPassword(SetUsernameFragment(ice, u), password)
                      EXCEPT !.reply = NoResponse]
      BY <2>2, ZenonT(60) DEF RestartIce
    <3>2. /\ IceInv(ice') /\ ice'.reply.code = 0
          /\ CurrentPair(ice') = <<u, password>> /\ PreviousPairs(ice') = {CurrentPair(ice)}
          /\ ice'.selected = ice.selected
      BY <3>1, RestartFacts, ZenonT(60)
    <3>3. Lite!Restart
      BY <3>2, ZenonT(60) DEF Lite!Restart, Lite!NoReply, CurrentPair, PreviousPairs
    <3>4. QED
      BY <3>2, <3>3, ZenonT(60) DEF Lite!AbstractNext, IceInv, IceCoherent
  <2>3. CASE UNCHANGED ice
    BY <2>3, ZenonT(60) DEF Lite!abstractVars, IceInv, IceCoherent
  <2>4. QED
    BY <2>1, <2>2, <2>3, ZenonT(60) DEF IceNext
<1>3. QED
  BY <1>1, <1>2, PTL DEF IceSpec, ImplementsIceLite, Lite!AbstractSpec

----------------------------------------------------------------------------
(* WebRtcTransport.                                                        *)

(* The sessions a server can create. *)
ServerSession(suite) == NewSrtpSession(SrtpKeys("SERVER", suite))

ServerSessions == {ServerSession(suite) : suite \in srtpCryptoSuites}

(* What may end the process in this object. *)
Lawful(w) ==
  /\ w.crashed # "no" => w.rtp_channel
  /\ w.crashed = "session" => ~w.is_ready

(* srtp_session_ against the DTLS connection that provides its keys: it is *)
(* created when DTLS connects, is_ready_ says so, and it stays.            *)
SessionInv(d, w) ==
  /\ w \in WebRtcObject
  /\ w.is_ready <=> w.srtp_session # NoKeys
  /\ d.state \in {"NEW", "CONNECTING"} => w.srtp_session = NoKeys
  /\ d.state = "CONNECTED" => w.srtp_session # NoKeys
  /\ w.srtp_session \in {NoKeys} \cup ServerSessions
  /\ w.delivered # "clear"
  /\ ~w.aborted
  /\ Lawful(w)

(* DTLS starts, as the server, with the selection of a tuple. *)
SelectionInv(i, d, w) ==
  /\ d.state = "NEW" <=> i.state = "NEW"
  /\ d.localRole \in {"NONE", "SERVER"}
  /\ w.remote_socket_address = i.selected

TransportInv(i, d, w) ==
  /\ IceInv(i) /\ DtlsSafe(d) /\ AlertFree(d)
  /\ SelectionInv(i, d, w) /\ SessionInv(d, w)

(* What a step may do to the phase of the connection and to the session. *)
ChannelStep(d, w, e, x) ==
  \/ e.state = d.state /\ x.srtp_session = w.srtp_session
  \/ d.state = "NEW" /\ e.state = "CONNECTING" /\ x.srtp_session = w.srtp_session
  \/ /\ d.state = "CONNECTING" /\ e.state = "CONNECTED"
     /\ x.srtp_session \in ServerSessions
  \/ /\ IsRunning(d) /\ e.state \in {"FAILED", "CLOSED"}
     /\ x.srtp_session = w.srtp_session

(* The session keeps the local half of the keys, which are the remote half *)
(* of the peer's; libsrtp finds the key length it expects.                 *)
LEMMA ServerSessionFacts ==
  ASSUME NEW suite \in srtpCryptoSuites
  PROVE  LET keys == SrtpKeys("SERVER", suite)
             peer == SrtpKeys("CLIENT", suite)
             session == ServerSession(suite)
         IN /\ session \in KeySet /\ session # NoKeys /\ session.suite = suite
            /\ session.localKey = peer.remoteKey /\ session.localSalt = peer.remoteSalt
            /\ DecryptSrtp(session) = "srtp"
            /\ keys.suite = suite
            /\ SrtpMasterLength(suite) = cipher_key_len(suite)
<1> DEFINE keys == SrtpKeys("SERVER", suite)
           peer == SrtpKeys("CLIENT", suite)
           session == ServerSession(suite)
<1>1. keys \in KeySet
  BY SrtpKeysType, ZenonT(60)
<1>2. /\ SrtpKeyLength(suite) \in Nat \ {0}
      /\ SrtpSaltLength(suite) \in Nat
      /\ SrtpMasterLength(suite) = cipher_key_len(suite)
  BY DEF srtpCryptoSuites, SrtpKeyLength, SrtpSaltLength, SrtpMasterLength, cipher_key_len
<1>3. /\ keys.suite = suite
      /\ keys.localKey = SrtpKeyLength(suite) /\ peer.localKey = 0
      /\ keys.localKey = peer.remoteKey /\ keys.localSalt = peer.remoteSalt
  BY ZenonT(60) DEF SrtpKeys
<1> HIDE DEF keys, peer
<1>4. /\ session \in KeySet /\ session.suite = keys.suite
      /\ session.localKey = keys.localKey /\ session.localSalt = keys.localSalt
  BY <1>1, ZenonT(60) DEF ServerSession, NewSrtpSession, KeySet, keys
<1> HIDE DEF session
<1>5. session # NoKeys
  BY <1>3, <1>4 DEF NoKeys, srtpCryptoSuites
<1>6. DecryptSrtp(session) = "srtp"
  BY <1>2, <1>3, <1>4, ZenonT(60) DEF DecryptSrtp, peer
<1>7. QED
  BY <1>2, <1>3, <1>4, <1>5, <1>6, ZenonT(60) DEF keys, peer, session

(* Two transports that differ only in the reports of their last step. *)
SameTransport(w, x) ==
  /\ x \in WebRtcObject
  /\ x.rtp_channel = w.rtp_channel /\ x.srtp_session = w.srtp_session
  /\ x.is_ready = w.is_ready /\ x.remote_socket_address = w.remote_socket_address
  /\ x.aborted = w.aborted

(* A step that begins forgets the reports. *)
LEMMA QuietFacts ==
  ASSUME NEW w \in WebRtcObject
  PROVE  /\ SameTransport(w, Quiet(w))
         /\ Quiet(w).delivered = "none" /\ Quiet(w).crashed = w.crashed
<1>1. "none" \in Payload
  BY ZenonT(60) DEF Payload
<1>2. QED
  BY <1>1, Zenon DEF SameTransport, Quiet, WebRtcObject

(* Attaching the network transport. *)
LEMMA AttachFacts ==
  ASSUME NEW w \in WebRtcObject
  PROVE  LET x == [w EXCEPT !.transport = TRUE]
         IN SameTransport(w, x) /\ x.delivered = w.delivered /\ x.crashed = w.crashed
BY Zenon DEF SameTransport, WebRtcObject

(* Remembering the address of the selected tuple. *)
LEMMA SelectFacts ==
  ASSUME NEW w \in WebRtcObject, NEW tuple \in Tuples
  PROVE  LET x == OnIceServerSelectedTuple(w, tuple)
         IN /\ x \in WebRtcObject /\ x.remote_socket_address = {tuple}
            /\ x.rtp_channel = w.rtp_channel /\ x.srtp_session = w.srtp_session
            /\ x.is_ready = w.is_ready /\ x.aborted = w.aborted
            /\ x.delivered = w.delivered /\ x.crashed = w.crashed
<1>1. {tuple} \in SUBSET Tuples
  OBVIOUS
<1>2. QED
  BY <1>1, Zenon DEF OnIceServerSelectedTuple, WebRtcObject

(* A transport with a session that differs from w in nothing else. *)
Secured(w, suite, x) ==
  /\ x \in WebRtcObject /\ x.remote_socket_address = w.remote_socket_address
  /\ x.rtp_channel = w.rtp_channel /\ x.srtp_session = ServerSession(suite)
  /\ x.is_ready = TRUE /\ x.aborted = w.aborted
  /\ x.delivered = w.delivered /\ x.crashed = w.crashed

(* Creating the session. *)
LEMMA ConnectedFacts ==
  ASSUME NEW w \in WebRtcObject, NEW suite \in srtpCryptoSuites
  PROVE  Secured(w, suite, OnDtlsTransportConnected(w, SrtpKeys("SERVER", suite)))
<1> DEFINE k == ServerSession(suite)
           keys == SrtpKeys("SERVER", suite)
           x == OnDtlsTransportConnected(w, keys)
<1>1. /\ k \in KeySet /\ keys.suite = suite
      /\ SrtpMasterLength(suite) = cipher_key_len(suite)
  BY ServerSessionFacts, ZenonT(60)
<1>2. NewSrtpSession(keys) = k
  BY ZenonT(60) DEF ServerSession
<1> HIDE DEF keys, k
<1>3. x = [w EXCEPT !.aborted = w.aborted, !.srtp_session = k, !.is_ready = TRUE]
  BY <1>1, <1>2, ZenonT(60) DEF OnDtlsTransportConnected, WebRtcObject
<1> HIDE DEF x
<1>4. QED
  BY <1>1, <1>3, Zenon DEF Secured, WebRtcObject, x, keys, k

(* An RTP packet is dropped, or passed on undecrypted, or, before there is *)
(* a session and where a channel is attached, it crashes the program.      *)
LEMMA RtpFacts ==
  ASSUME NEW w \in WebRtcObject, w.delivered = "none", Lawful(w),
         w.is_ready <=> w.srtp_session # NoKeys,
         w.srtp_session \in {NoKeys} \cup ServerSessions
  PROVE  LET x == OnRtpPacket(w)
         IN /\ SameTransport(w, x) /\ x.delivered # "clear"
            /\ Lawful(x)
<1> DEFINE x == OnRtpPacket(w)
<1>1. CASE ~w.rtp_channel
  BY <1>1, ZenonT(60) DEF OnRtpPacket, SameTransport
<1>2. CASE w.rtp_channel /\ w.srtp_session = NoKeys
  <2>1. x = [w EXCEPT !.crashed = "session"] /\ "session" \in Crash
    BY <1>2, ZenonT(60) DEF OnRtpPacket, Crash
  <2>2. SameTransport(w, x) /\ x.delivered = w.delivered
    BY <2>1, Zenon DEF SameTransport, WebRtcObject
  <2>3. QED
    BY <1>2, <2>2, ZenonT(60) DEF Lawful, SameTransport
<1>3. CASE w.rtp_channel /\ w.srtp_session # NoKeys
  <2>1. DecryptSrtp(w.srtp_session) = "srtp"
    BY <1>3, ServerSessionFacts DEF ServerSessions
  <2>2. x = [w EXCEPT !.delivered = "srtp"]
    BY <1>3, <2>1, ZenonT(60) DEF OnRtpPacket
  <2>3. "srtp" \in Payload
    BY ZenonT(60) DEF Payload
  <2>4. SameTransport(w, x) /\ x.delivered = "srtp" /\ x.crashed = w.crashed
    BY <2>2, <2>3, Zenon DEF SameTransport, WebRtcObject
  <2>5. QED
    BY <2>4, ZenonT(60) DEF Lawful, SameTransport
<1>4. QED
  BY <1>1, <1>2, <1>3, ZenonT(60)

(* Sending media uses the session only if there is one. *)
LEMMA SendFacts ==
  ASSUME NEW w \in WebRtcObject, w.is_ready <=> w.srtp_session # NoKeys,
         NEW protected \in BOOLEAN
  PROVE  LET x == EncryptAndSendRtpPacket(w, protected)
         IN SameTransport(w, x) /\ x.delivered = w.delivered /\ x.crashed = w.crashed
<1> DEFINE m == IF w.transport THEN EncryptRtp(w, protected) ELSE "none"
           x == EncryptAndSendRtpPacket(w, protected)
<1>1. m \in Payload
  BY ZenonT(60) DEF EncryptRtp, Payload
<1>2. x = [w EXCEPT !.media = m]
  BY ZenonT(60) DEF EncryptAndSendRtpPacket, SendPacket
<1> HIDE DEF m
<1>3. QED
  BY <1>1, <1>2, Zenon DEF SameTransport, WebRtcObject

(* A step that leaves the session alone keeps its invariant. *)
LEMMA SessionKept ==
  ASSUME NEW d, NEW w, SessionInv(d, w), NEW e, NEW x \in WebRtcObject,
         x.srtp_session = w.srtp_session, x.is_ready = w.is_ready, x.aborted = w.aborted,
         x.delivered # "clear", Lawful(x),
         \/ e.state = d.state \/ e.state \in {"FAILED", "CLOSED"}
         \/ d.state = "NEW" /\ e.state = "CONNECTING"
  PROVE  SessionInv(e, x)
<1>1. /\ x.is_ready <=> x.srtp_session # NoKeys
      /\ x.srtp_session \in {NoKeys} \cup ServerSessions
      /\ ~x.aborted
  BY ZenonT(60) DEF SessionInv
<1>2. /\ e.state \in {"NEW", "CONNECTING"} => x.srtp_session = NoKeys
      /\ e.state = "CONNECTED" => x.srtp_session # NoKeys
  BY ZenonT(60) DEF SessionInv
<1>3. QED
  BY <1>1, <1>2, ZenonT(60) DEF SessionInv

(* A step that leaves it running does not end the process. *)
LEMMA LawfulKept ==
  ASSUME NEW w, Lawful(w), NEW x, x.rtp_channel = w.rtp_channel, x.is_ready = w.is_ready,
         x.crashed = w.crashed
  PROVE  Lawful(x)
BY ZenonT(60) DEF Lawful

(* A step that calls neither object keeps the invariant and the phase. *)
LEMMA IdleStep ==
  ASSUME NEW i, NEW d, NEW w, TransportInv(i, d, w), DtlsInv(d),
         NEW x, SameTransport(w, x), x.delivered # "clear", Lawful(x)
  PROVE  /\ TransportInv([i EXCEPT !.reply = NoResponse], Enter(d), x)
         /\ ChannelStep(d, w, Enter(d), x)
<1> DEFINE j == [i EXCEPT !.reply = NoResponse]
           e == Enter(d)
<1>1. IceInv(j) /\ j.state = i.state /\ j.selected = i.selected
  BY NoResponseFacts, ZenonT(60) DEF TransportInv
<1>2. DtlsInv(e) /\ e.state = d.state /\ e.localRole = d.localRole
  BY EnterFacts, ZenonT(60) DEF TransportInv
<1>3. AlertFree(e)
  BY EnterOutput, ZenonT(60) DEF TransportInv
<1> HIDE DEF j, e
<1>4. SelectionInv(j, e, x)
  BY <1>1, <1>2, ZenonT(60) DEF TransportInv, SelectionInv, SameTransport
<1>5. SessionInv(e, x)
  <2>1. /\ SessionInv(d, w) /\ x \in WebRtcObject /\ x.srtp_session = w.srtp_session
        /\ x.is_ready = w.is_ready /\ x.aborted = w.aborted
    BY ZenonT(60) DEF TransportInv, SameTransport
  <2>2. QED
    BY <1>2, <2>1, SessionKept, ZenonT(60)
<1>6. ChannelStep(d, w, e, x)
  BY <1>2, ZenonT(60) DEF ChannelStep, SameTransport
<1>7. QED
  BY <1>1, <1>2, <1>3, <1>4, <1>5, <1>6, ZenonT(60) DEF TransportInv, DtlsSafe, j, e

(* The reports of the last step play no part in the invariant. *)
LEMMA QuietInv ==
  ASSUME NEW i, NEW d, NEW w, TransportInv(i, d, w)
  PROVE  /\ SameTransport(w, Quiet(w)) /\ Quiet(w).delivered = "none"
         /\ Quiet(w).crashed = w.crashed /\ Quiet(w) \in WebRtcObject
BY QuietFacts, ZenonT(60) DEF TransportInv, SessionInv, SameTransport

(* A STUN packet starts DTLS when it selects the tuple. *)
LEMMA StunStep ==
  ASSUME NEW i, NEW d, NEW w, TransportInv(i, d, w), DtlsInv(d),
         NEW p \in StunPackets, NEW tuple \in Tuples
  PROVE  LET j == ProcessStunPacket(i, p, tuple)
             selected == i.state # "COMPLETED" /\ j.state = "COMPLETED"
             e == IF selected THEN Run(Enter(d), "SERVER") ELSE Enter(d)
             x == IF selected THEN OnIceServerSelectedTuple(Quiet(w), tuple) ELSE Quiet(w)
         IN TransportInv(j, e, x) /\ ChannelStep(d, w, e, x)
<1> DEFINE j == ProcessStunPacket(i, p, tuple)
           selected == i.state # "COMPLETED" /\ j.state = "COMPLETED"
           n == Enter(d)
           e == IF selected THEN Run(n, "SERVER") ELSE n
           q == Quiet(w)
           x == IF selected THEN OnIceServerSelectedTuple(q, tuple) ELSE q
<1>1. /\ IceInv(i) /\ IceInv(j)
      /\ \/ /\ j.state = "COMPLETED"
            /\ j.selected = IF i.selected = {} THEN {tuple} ELSE i.selected
         \/ j.state = i.state /\ j.selected = i.selected
  BY ProcessStunPacketFacts, SMTT(60) DEF TransportInv, Refused
<1>2. /\ DtlsInv(n) /\ AlertFree(n) /\ n.calls = {}
      /\ n.state = d.state /\ n.localRole = d.localRole
  BY EnterFacts, EnterOutput, ZenonT(60) DEF TransportInv
<1>3. /\ SameTransport(w, q) /\ q.delivered = "none" /\ q.crashed = w.crashed
      /\ q \in WebRtcObject
  BY QuietInv, ZenonT(60)
<1>4. SelectionInv(i, d, w) /\ SessionInv(d, w)
  BY ZenonT(60) DEF TransportInv
<1>5. /\ i.state \in IceStates /\ j.state \in IceStates
      /\ i.state = "COMPLETED" <=> i.selected # {}
  BY <1>1, ZenonT(60) DEF IceInv, IceFields, IceCoherent
<1> HIDE DEF j, n, q
<1>6. CASE selected
  <2>1. i.state = "NEW" /\ i.selected = {} /\ d.state = "NEW"
    BY <1>4, <1>5, <1>6, ZenonT(60) DEF IceStates, SelectionInv
  <2>2. e = Run(n, "SERVER") /\ x = OnIceServerSelectedTuple(q, tuple)
    BY <1>6, ZenonT(60)
  <2>3. n.localRole # "SERVER"
    BY <1>2, <2>1, ZenonT(60) DEF DtlsInv, Coherent, IsRunning
  <2>4. DtlsInv(e) /\ e.localRole = "SERVER" /\ e.state = "CONNECTING"
    BY <1>2, <2>2, <2>3, RunFacts, ZenonT(60)
  <2>5. AlertFree(e)
    BY <1>2, <2>1, <2>2, RunOutput, ZenonT(60)
  <2>6. /\ x \in WebRtcObject /\ x.remote_socket_address = {tuple}
        /\ x.rtp_channel = w.rtp_channel /\ x.srtp_session = w.srtp_session
        /\ x.is_ready = w.is_ready /\ x.aborted = w.aborted
        /\ x.delivered = "none" /\ x.crashed = w.crashed
    BY <1>3, <2>2, SelectFacts, SMTT(60) DEF SameTransport
  <2> HIDE DEF e, x, selected
  <2>7. SelectionInv(j, e, x)
    BY <1>1, <1>6, <2>1, <2>4, <2>6, ZenonT(60) DEF SelectionInv, selected
  <2>8. SessionInv(e, x)
    <3>1. Lawful(x) /\ x.delivered # "clear"
      BY <1>4, <2>6, LawfulKept, ZenonT(60) DEF SessionInv
    <3>2. QED
      BY <1>4, <2>1, <2>4, <2>6, <3>1, SessionKept, ZenonT(60)
  <2>9. ChannelStep(d, w, e, x)
    BY <2>1, <2>4, <2>6, ZenonT(60) DEF ChannelStep
  <2>10. TransportInv(j, e, x)
    BY <1>1, <2>4, <2>5, <2>7, <2>8, ZenonT(60) DEF TransportInv, DtlsSafe
  <2>11. QED
    BY <2>9, <2>10, ZenonT(60) DEF j, e, x, n, q, selected
<1>7. CASE ~selected
  <2>1. e = n /\ x = q
    BY <1>7, ZenonT(60)
  <2>2. j.state = i.state /\ j.selected = i.selected
    BY <1>1, <1>5, <1>7, ZenonT(60)
  <2> HIDE DEF e, x, selected
  <2>3. SelectionInv(j, e, x)
    BY <1>2, <1>3, <1>4, <2>1, <2>2, ZenonT(60) DEF SelectionInv, SameTransport
  <2>4. SessionInv(e, x)
    <3>1. /\ x \in WebRtcObject /\ x.rtp_channel = w.rtp_channel
          /\ x.srtp_session = w.srtp_session /\ x.is_ready = w.is_ready
          /\ x.aborted = w.aborted /\ x.crashed = w.crashed /\ x.delivered # "clear"
      BY <1>3, <2>1, ZenonT(60) DEF SameTransport
    <3>2. Lawful(x)
      BY <1>4, <3>1, LawfulKept, ZenonT(60) DEF SessionInv
    <3>3. QED
      BY <1>2, <1>4, <2>1, <3>1, <3>2, SessionKept, ZenonT(60)
  <2>5. ChannelStep(d, w, e, x)
    BY <1>2, <1>3, <2>1, ZenonT(60) DEF ChannelStep, SameTransport
  <2>6. TransportInv(j, e, x)
    BY <1>1, <1>2, <2>1, <2>3, <2>4, ZenonT(60) DEF TransportInv, DtlsSafe
  <2>7. QED
    BY <2>5, <2>6, ZenonT(60) DEF j, e, x, n, q, selected
<1>8. QED
  BY <1>6, <1>7, ZenonT(60)

(* A DTLS datagram creates the session when it connects the transport. *)
LEMMA DatagramStep ==
  ASSUME NEW i, NEW d, NEW w, TransportInv(i, d, w), DtlsInv(d),
         w.crashed = "no", NEW o \in SslOutcomes
  PROVE  LET j == [i EXCEPT !.reply = NoResponse]
             e == ProcessDtlsData(Enter(d), o)
             x == DtlsCallbacks(Quiet(w), e)
         IN TransportInv(j, e, x) /\ ChannelStep(d, w, e, x)
<1> DEFINE j == [i EXCEPT !.reply = NoResponse]
           n == Enter(d)
           e == ProcessDtlsData(n, o)
           q == Quiet(w)
           x == DtlsCallbacks(q, e)
<1>1. IceInv(j) /\ j.state = i.state /\ j.selected = i.selected
  BY NoResponseFacts, ZenonT(60) DEF TransportInv
<1>2. /\ DtlsInv(n) /\ AlertFree(n) /\ n.calls = {}
      /\ n.state = d.state /\ n.localRole = d.localRole
  BY EnterFacts, EnterOutput, ZenonT(60) DEF TransportInv
<1>3. DtlsSafe(e) /\ Progress(n, e) /\ AlertFree(e)
  BY <1>2, ProcessDtlsDataFacts, ProcessDtlsDataOutput, ZenonT(60) DEF DtlsSafe
<1>4. /\ SameTransport(w, q) /\ q.delivered = "none" /\ q.crashed = w.crashed
      /\ q \in WebRtcObject
  BY QuietInv, ZenonT(60)
<1>5. SelectionInv(i, d, w) /\ SessionInv(d, w)
  BY ZenonT(60) DEF TransportInv
<1>6. x = IF "Connected" \in e.calls THEN OnDtlsTransportConnected(q, e.keys) ELSE q
  BY ZenonT(60) DEF DtlsCallbacks
<1> HIDE DEF j, n, e, q, x
<1>7. d.state = "CONNECTING" => d.localRole = "SERVER"
  BY <1>2, <1>5, ZenonT(60) DEF DtlsInv, Coherent, IsRunning, SelectionInv
<1>8. e.localRole \in {"NONE", "SERVER"} /\ (e.state = "NEW" <=> d.state = "NEW")
  BY <1>2, <1>3, <1>5, ZenonT(60) DEF Progress, SelectionInv, DtlsSafe, DtlsInv, Ended,
     Coherent, IsRunning
<1>9. CASE "Connected" \in e.calls
  <2>1. /\ d.state = "CONNECTING" /\ e.state = "CONNECTED" /\ e.localRole = "SERVER"
        /\ \E suite \in srtpCryptoSuites : e.keys = SrtpKeys("SERVER", suite)
    BY <1>2, <1>3, <1>7, <1>9, ZenonT(60) DEF Progress
  <2>2. PICK suite \in srtpCryptoSuites : e.keys = SrtpKeys("SERVER", suite)
    BY <2>1, ZenonT(60)
  <2>3. /\ x \in WebRtcObject /\ x.remote_socket_address = w.remote_socket_address
        /\ x.rtp_channel = w.rtp_channel /\ x.srtp_session = ServerSession(suite)
        /\ x.is_ready = TRUE /\ x.aborted = w.aborted
        /\ x.delivered = "none" /\ x.crashed = w.crashed
    <3>1. x = OnDtlsTransportConnected(q, SrtpKeys("SERVER", suite))
      BY <1>6, <1>9, <2>2, ZenonT(60)
    <3>2. Secured(q, suite, x)
      BY <1>4, <3>1, ConnectedFacts, ZenonT(60)
    <3>3. QED
      BY <1>4, <3>2, ZenonT(60) DEF SameTransport, Secured
  <2>4. x.srtp_session \in ServerSessions /\ x.srtp_session # NoKeys
    BY <2>3, ServerSessionFacts, ZenonT(60) DEF ServerSessions
  <2>5. SelectionInv(j, e, x)
    BY <1>1, <1>5, <1>8, <2>3, ZenonT(60) DEF SelectionInv
  <2>6. SessionInv(e, x)
    <3>1. Lawful(x) /\ ~x.aborted
      BY <1>5, <2>3, ZenonT(60) DEF SessionInv, Lawful
    <3>2. QED
      BY <2>1, <2>3, <2>4, <3>1, ZenonT(60) DEF SessionInv
  <2>7. ChannelStep(d, w, e, x)
    BY <2>1, <2>4, ZenonT(60) DEF ChannelStep
  <2>8. TransportInv(j, e, x)
    BY <1>1, <1>3, <2>5, <2>6, ZenonT(60) DEF TransportInv
  <2>9. QED
    BY <2>7, <2>8, ZenonT(60) DEF j, n, e, q, x
<1>10. CASE "Connected" \notin e.calls
  <2>1. x = q
    BY <1>6, <1>10, ZenonT(60)
  <2>2. e.state = d.state \/ (IsRunning(d) /\ e.state \in {"FAILED", "CLOSED"})
    BY <1>2, <1>3, <1>10, ZenonT(60) DEF Progress, IsRunning
  <2>3. SelectionInv(j, e, x)
    BY <1>1, <1>4, <1>5, <1>8, <2>1, ZenonT(60) DEF SelectionInv, SameTransport
  <2>4. SessionInv(e, x)
    <3>1. /\ x \in WebRtcObject /\ x.rtp_channel = w.rtp_channel
          /\ x.srtp_session = w.srtp_session /\ x.is_ready = w.is_ready
          /\ x.aborted = w.aborted /\ x.crashed = w.crashed /\ x.delivered # "clear"
      BY <1>4, <2>1, ZenonT(60) DEF SameTransport
    <3>2. Lawful(x)
      BY <1>5, <3>1, LawfulKept, ZenonT(60) DEF SessionInv
    <3>3. QED
      BY <1>5, <2>2, <3>1, <3>2, SessionKept, ZenonT(60)
  <2>5. ChannelStep(d, w, e, x)
    BY <1>4, <2>1, <2>2, ZenonT(60) DEF ChannelStep, SameTransport
  <2>6. TransportInv(j, e, x)
    BY <1>1, <1>3, <2>3, <2>4, ZenonT(60) DEF TransportInv
  <2>7. QED
    BY <2>5, <2>6, ZenonT(60) DEF j, n, e, q, x
<1>11. QED
  BY <1>9, <1>10, ZenonT(60)

(* The inductive invariant of the composition and, step by step, the life  *)
(* of the channel.                                                         *)
LEMMA TransportStep ==
  ASSUME TransportInv(ice, dtls, webrtc), TransportNext
  PROVE  /\ TransportInv(ice', dtls', webrtc')
         /\ ChannelStep(dtls, webrtc, dtls', webrtc')
<1> DEFINE q == Quiet(webrtc)
<1>1. /\ SameTransport(webrtc, q) /\ q.delivered = "none" /\ q.crashed = webrtc.crashed
      /\ q \in WebRtcObject
  BY QuietInv, ZenonT(60)
<1>2. SessionInv(dtls, webrtc)
  BY ZenonT(60) DEF TransportInv
<1>3. q.srtp_session \in {NoKeys} \cup ServerSessions
  BY <1>1, <1>2, ZenonT(60) DEF SameTransport, SessionInv
<1>4. q.is_ready <=> q.srtp_session # NoKeys
  BY <1>1, <1>2, ZenonT(60) DEF SameTransport, SessionInv
<1>0. Lawful(q) /\ DtlsInv(dtls) /\ webrtc.crashed = "no"
  <2>1. Lawful(q)
    BY <1>1, <1>2, ZenonT(60) DEF SameTransport, SessionInv, Lawful
  <2>2. Alive
    BY ZenonT(60) DEF TransportNext, SetNetworkTransport, InputStun, InputDtls, InputRtp,
       InputFailed, SendMedia, Live
  <2>3. QED
    BY <2>1, <2>2, ZenonT(60) DEF TransportInv, DtlsSafe, Ended, Alive
<1> HIDE DEF q
<1>5. ASSUME NEW x, SameTransport(q, x), x.delivered # "clear", Lawful(x),
             webrtc' = x, OthersIdle
      PROVE  /\ TransportInv(ice', dtls', webrtc')
             /\ ChannelStep(dtls, webrtc, dtls', webrtc')
  <2>1. SameTransport(webrtc, x)
    BY <1>1, <1>5, ZenonT(60) DEF SameTransport
  <2>2. QED
    BY <1>0, <1>5, <2>1, IdleStep, ZenonT(60) DEF OthersIdle
<1>6. CASE SetNetworkTransport
  <2>1. webrtc' = [q EXCEPT !.transport = TRUE] /\ OthersIdle
    BY <1>6, ZenonT(60) DEF SetNetworkTransport, q
  <2>2. SameTransport(q, webrtc') /\ webrtc'.delivered = "none"
        /\ webrtc'.crashed = q.crashed
    BY <1>1, <2>1, AttachFacts, ZenonT(60)
  <2>3. QED
    BY <1>0, <1>5, <2>1, <2>2, ZenonT(60) DEF Lawful, SameTransport
<1>7. CASE InputStun
  BY <1>0, <1>7, StunStep, ZenonT(60) DEF InputStun
<1>8. CASE InputDtls
  BY <1>0, <1>8, DatagramStep, ZenonT(60) DEF InputDtls
<1>9. CASE InputRtp
  <2>1. webrtc' = OnRtpPacket(q) /\ OthersIdle
    BY <1>9, ZenonT(60) DEF InputRtp, q
  <2>2. QED
    BY <1>0, <1>1, <1>3, <1>4, <1>5, <2>1, RtpFacts, ZenonT(60)
<1>10. CASE InputFailed
  <2>1. CASE webrtc' = q /\ OthersIdle
    BY <1>0, <1>1, <1>5, <2>1, ZenonT(60) DEF SameTransport
  <2>2. CASE /\ \E o \in SslOutcomes :
                  /\ ReadsNothing(dtls, o) /\ SslMay(dtls, o)
                  /\ dtls' = ProcessDtlsData(Enter(dtls), o)
             /\ webrtc' = DtlsCallbacks(Quiet(webrtc), dtls')
             /\ ice' = [ice EXCEPT !.reply = NoResponse]
    BY <1>0, <2>2, DatagramStep, ZenonT(60)
  <2>3. CASE webrtc' = OnRtpPacket(q) /\ OthersIdle
    BY <1>0, <1>1, <1>3, <1>4, <1>5, <2>3, RtpFacts, ZenonT(60)
  <2>4. CASE /\ webrtc.rtp_channel
             /\ webrtc' = [q EXCEPT !.crashed = "buffer"]
             /\ OthersIdle
    <3>1. "buffer" \in Crash
      BY ZenonT(60) DEF Crash
    <3>2. SameTransport(q, webrtc') /\ webrtc'.delivered = "none"
          /\ webrtc'.crashed = "buffer"
      BY <1>1, <2>4, <3>1, Zenon DEF SameTransport, WebRtcObject
    <3>3. Lawful(webrtc')
      BY <1>1, <2>4, <3>2, ZenonT(60) DEF Lawful, SameTransport
    <3>4. QED
      BY <1>5, <2>4, <3>2, <3>3, ZenonT(60)
  <2>5. QED
    BY <1>10, <2>1, <2>2, <2>3, <2>4, ZenonT(60) DEF InputFailed, q
<1>11. CASE SendMedia
  <2>1. PICK protected \in BOOLEAN : webrtc' = EncryptAndSendRtpPacket(q, protected)
    BY <1>11, ZenonT(60) DEF SendMedia, q
  <2>2. SameTransport(q, webrtc') /\ webrtc'.delivered = "none"
        /\ webrtc'.crashed = q.crashed
    BY <1>1, <1>4, <2>1, SendFacts, ZenonT(60)
  <2>3. QED
    BY <1>0, <1>5, <1>11, <2>2, ZenonT(60) DEF SendMedia, Lawful, SameTransport
<1>12. QED
  BY <1>6, <1>7, <1>8, <1>9, <1>10, <1>11, ZenonT(60) DEF TransportNext

(* A new transport satisfies the invariant. *)
LEMMA TransportStart ==
  ASSUME TransportInit
  PROVE  TransportInv(ice, dtls, webrtc) /\ dtls.state = "NEW"
<1>1. IceInv(ice) /\ ice.state = "NEW" /\ ice.selected = {}
  BY NewIceServerFacts, ZenonT(60) DEF TransportInit, IceInit
<1>2. DtlsInv(dtls) /\ dtls.state = "NEW" /\ dtls.localRole = "NONE" /\ AlertFree(dtls)
  BY DtlsStart, ZenonT(60) DEF TransportInit, DtlsInit, NewDtlsTransport, AlertFree
<1>3. PICK rtp_channel \in BOOLEAN : webrtc = NewWebRtcTransport(rtp_channel)
  BY ZenonT(60) DEF TransportInit
<1>4. NoKeys \in KeySet /\ "none" \in Payload /\ {} \in SUBSET Tuples /\ "no" \in Crash
  BY ZenonT(60) DEF NoKeys, KeySet, Payload, Crash
<1>5. /\ webrtc \in WebRtcObject /\ webrtc.is_ready = FALSE /\ webrtc.srtp_session = NoKeys
      /\ webrtc.remote_socket_address = {} /\ webrtc.delivered = "none"
      /\ webrtc.aborted = FALSE /\ webrtc.crashed = "no"
  BY <1>3, <1>4, Zenon DEF NewWebRtcTransport, WebRtcObject
<1>6. QED
  BY <1>1, <1>2, <1>5, ZenonT(60) DEF TransportInv, SelectionInv, SessionInv, DtlsSafe,
     Lawful

(* The invariant of the composition holds in every behaviour, whatever the *)
(* packets, their order and what OpenSSL makes of them.                    *)
THEOREM TransportInvariance == TransportSpec => []TransportInv(ice, dtls, webrtc)
<1>1. TransportInit => TransportInv(ice, dtls, webrtc)
  BY TransportStart, ZenonT(60)
<1>2. TransportInv(ice, dtls, webrtc) /\ [TransportNext]_transportVars
        => TransportInv(ice, dtls, webrtc)'
  <2> SUFFICES ASSUME TransportInv(ice, dtls, webrtc), [TransportNext]_transportVars
               PROVE  TransportInv(ice', dtls', webrtc')
    OBVIOUS
  <2>1. CASE TransportNext
    BY <2>1, TransportStep, ZenonT(60)
  <2>2. CASE UNCHANGED transportVars
    BY <2>2, ZenonT(60) DEF transportVars
  <2>3. QED
    BY <2>1, <2>2, ZenonT(60)
<1>3. QED
  BY <1>1, <1>2, PTL DEF TransportSpec

(* DTLS runs, as the server, exactly from the selection of a tuple on, and *)
(* its close alert is never sent.                                          *)
THEOREM TransportDtlsFollowsIce == TransportSpec => []DtlsFollowsIce
<1>1. TransportInv(ice, dtls, webrtc) => DtlsFollowsIce
  BY IceFieldsObject, ZenonT(60) DEF TransportInv, SelectionInv, SessionInv, DtlsFollowsIce,
     TransportTypeOK, DtlsTypeOK, IceTypeOK, DtlsSafe, DtlsInv, Ended, IceInv, AlertFree
<1>2. QED
  BY <1>1, TransportInvariance, PTL

(* is_ready_ announces the session of a DTLS connection that has been      *)
(* made, and the process ends only where keying material cannot be         *)
(* exported or, with an RTP channel, on a packet that comes while there is *)
(* no session or on a failed read.                                         *)
THEOREM TransportMediaReady == TransportSpec => []MediaReady
<1>1. TransportInv(ice, dtls, webrtc) => MediaReady
  BY ZenonT(60) DEF TransportInv, SessionInv, DtlsSafe, DtlsInv, Ended, Lawful, MediaReady
<1>2. QED
  BY <1>1, TransportInvariance, PTL

(* The session is the outbound one, and so never decrypts what arrives. *)
THEOREM TransportSessionIsOutbound == TransportSpec => []SessionIsOutbound
<1>1. TransportInv(ice, dtls, webrtc) => SessionIsOutbound
  <2> SUFFICES ASSUME TransportInv(ice, dtls, webrtc) PROVE SessionIsOutbound
    OBVIOUS
  <2>1. webrtc.is_ready => webrtc.srtp_session \in ServerSessions
    BY ZenonT(60) DEF TransportInv, SessionInv
  <2>2. ASSUME NEW suite \in srtpCryptoSuites, webrtc.srtp_session = ServerSession(suite)
        PROVE  LET peer == SrtpKeys("CLIENT", webrtc.srtp_session.suite)
               IN /\ webrtc.srtp_session.localKey = peer.remoteKey
                  /\ webrtc.srtp_session.localSalt = peer.remoteSalt
    BY <2>2, ServerSessionFacts, SMTT(60)
  <2>3. webrtc.delivered # "clear"
    BY ZenonT(60) DEF TransportInv, SessionInv
  <2>4. QED
    BY <2>1, <2>2, <2>3, ZenonT(60) DEF SessionIsOutbound, ServerSessions
<1>2. QED
  BY <1>1, TransportInvariance, PTL

(* The composed transport implements SecureChannel: every step is a step   *)
(* of the channel or leaves its phase and its key alone.                   *)
THEOREM TransportImplementsSecureChannel == TransportSpec => ImplementsSecureChannel
<1>1. TransportInit => Channel!ChannelInit
  <2> SUFFICES ASSUME TransportInit PROVE Channel!ChannelInit
    OBVIOUS
  <2>1. dtls.state = "NEW" /\ webrtc.srtp_session = NoKeys
    BY TransportStart, ZenonT(60) DEF TransportInv, SessionInv
  <2>2. QED
    BY <2>1, ZenonT(60) DEF Channel!ChannelInit
<1>2. TransportInv(ice, dtls, webrtc) /\ [TransportNext]_transportVars
        => [Channel!ChannelNext]_Channel!channelVars
  <2> SUFFICES ASSUME TransportInv(ice, dtls, webrtc), [TransportNext]_transportVars
               PROVE  [Channel!ChannelNext]_Channel!channelVars
    OBVIOUS
  <2>1. CASE TransportNext
    <3>1. ChannelStep(dtls, webrtc, dtls', webrtc')
      BY <2>1, TransportStep, ZenonT(60)
    <3>2. QED
      BY <3>1, ZenonT(60) DEF ChannelStep, IsRunning, ServerSessions, ServerSession,
         Channel!ChannelNext,
         Channel!Select, Channel!Secure, Channel!End, Channel!channelVars
  <2>2. CASE UNCHANGED transportVars
    BY <2>2, ZenonT(60) DEF transportVars, Channel!channelVars
  <2>3. QED
    BY <2>1, <2>2, ZenonT(60)
<1>3. QED
  BY <1>1, <1>2, TransportInvariance, PTL
     DEF TransportSpec, ImplementsSecureChannel, Channel!ChannelSpec
=============================================================================
