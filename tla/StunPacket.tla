----------------------------- MODULE StunPacket ------------------------------
(***************************************************************************)
(* RTC::StunPacket (rtc/stun_packet.{h,cc}): Parse, one attribute at a     *)
(* time, Serialize, and the MESSAGE-INTEGRITY check.                       *)
(*                                                                         *)
(* A datagram is its size, what IsStun looks at, the two header fields and *)
(* its attributes in order; the last one may be cut off by the size.  An   *)
(* attribute is its type, its length field and its value as a number:      *)
(*   USERNAME           its length stands for the name itself              *)
(*   ERROR_CODE         bytes 2 and 3, as 256 * class + number             *)
(*   MESSAGE_INTEGRITY  the header length field its HMAC was computed      *)
(*                      with; "key" is the password                        *)
(*   FINGERPRINT        the header length field its CRC was computed with. *)
(* HMAC and CRC also depend on the bytes before the attribute; a value     *)
(* that fits no header length stands for one computed over other bytes.    *)
(***************************************************************************)
EXTENDS Integers, Sequences

CONSTANTS
  Received,     \* datagrams that may arrive
  Built,        \* packets that may be built and serialized
  MaxDatagram   \* BUF_SIZE of UdpServer and UdpConnection

VARIABLES
  stage,     \* "idle", "filled" (a datagram is in the buffer), "scanning",
             \* "accepted" or "rejected"
  datagram,  \* what the buffer holds
  origin,    \* the packet it was serialized from, in a set of at most one
  pos, next, \* Parse's position, and the attribute that begins there
  packet     \* the StunPacket under construction

vars == <<stage, datagram, origin, pos, next, packet>>

Attribute ==
  {"USERNAME", "PRIORITY", "ICE_CONTROLLING", "ICE_CONTROLLED", "USE_CANDIDATE",
   "MESSAGE_INTEGRITY", "FINGERPRINT", "ERROR_CODE", "XOR_MAPPED_ADDRESS", "SOFTWARE"}

(* The string that a std::string is before it is set, and any other. *)
Empty == ""
Strings == {Empty} \cup STRING

Attr(type, length, value, key) ==
  [type |-> type, length |-> length, value |-> value, key |-> key]

(* uint16_t. *)
Wrap == 256 * 256
Word == 0 .. Wrap - 1

Attributes == [type : Attribute, length : Word, value : Nat, key : Strings]

(* On uint16_t. *)
PadTo4Bytes(size) == IF size % 4 = 0 THEN size ELSE (((size \div 4) * 4) + 4) % Wrap

HeaderSize == 20

(* The -1 of a failed recvfrom in a size_t: larger than any length field. *)
FailedRecv == 256 * Wrap - 1

(* The bytes of an attribute; where the attributes of a message begin, and *)
(* where the last one ends, in unbounded arithmetic.                       *)
Span(a) == 4 + ((a.length + 3) \div 4) * 4

Starts(attrs) ==
  LET start[i \in 1 .. Len(attrs) + 1] ==
        IF i = 1 THEN HeaderSize ELSE start[i - 1] + Span(attrs[i - 1])
  IN start

End(attrs) == Starts(attrs)[Len(attrs) + 1]

(* A datagram has the attributes whose type and length it holds.  The code *)
(* of an ERROR_CODE is two bytes.                                          *)
IsDatagram(d) ==
  /\ d \in [size : 0 .. MaxDatagram, cookie : BOOLEAN, type : Word, length : Word,
            attrs : Seq(Attributes)]
  /\ \A i \in DOMAIN d.attrs : d.attrs[i].type = "ERROR_CODE" => d.attrs[i].value \in Word
  /\ d.attrs # <<>> => Starts(d.attrs)[Len(d.attrs)] + 4 <= d.size
  /\ d.size < End(d.attrs) + 4

ASSUME DatagramAssumption ==
  /\ MaxDatagram \in HeaderSize .. Wrap - 4
  /\ \A d \in Received : IsDatagram(d)

----------------------------------------------------------------------------
(* The type field: 12 bits of method around the 2 bits of the class.       *)

TypeField(klass, method) ==
  ((method \div 128) % 32) * 512 + ((method \div 16) % 8) * 32 + (method % 16)
    + (klass \div 2) * 256 + (klass % 2) * 16

MethodOf(type) ==
  (type % 16) + ((type \div 32) % 8) * 16 + ((type \div 512) % 32) * 128

ClassOf(type) == ((type \div 256) % 2) * 2 + ((type \div 16) % 2)

REQUEST == 0
SUCCESS_RESPONSE == 2
ERROR_RESPONSE == 3
BINDING == 1
Methods == 0 .. 16 * 256 - 1

----------------------------------------------------------------------------
(* Parse.                                                                  *)

IsStun(d) == d.size >= HeaderSize /\ d.type \div 256 < 3 /\ d.cookie

NewStunPacket(klass, method) ==
  [klass |-> klass, method |-> method, username |-> 0, priority |-> 0,
   iceControlling |-> 0, iceControlled |-> 0, hasUseCandidate |-> FALSE,
   messageIntegrity |-> Attr("MESSAGE_INTEGRITY", 0, 0, Empty),
   hasFingerprint |-> FALSE, errorCode |-> 0,
   xorMappedAddress |-> "none", password |-> Empty]

HasMessageIntegrity(p) == p.messageIntegrity.length # 0

HeaderOk(d) ==
  /\ IsStun(d)
  /\ d.length = d.size - HeaderSize
  /\ d.length % 4 = 0

(* Mutant: anything may follow MESSAGE-INTEGRITY. *)
OrderOk_NoIntegrity(p, a) == ~p.hasFingerprint

(* What the attributes already read allow. *)
OrderOk(p, a) ==
  /\ ~p.hasFingerprint
  /\ HasMessageIntegrity(p) => a.type = "FINGERPRINT"

(* The length a type demands. *)
LengthOk(a) ==
  CASE a.type \in {"PRIORITY", "FINGERPRINT"} -> a.length = 4
    [] a.type \in {"ICE_CONTROLLING", "ICE_CONTROLLED"} -> a.length = 8
    [] a.type = "USE_CANDIDATE" -> a.length = 0
    [] a.type = "MESSAGE_INTEGRITY" -> a.length = 20
    [] a.type = "ERROR_CODE" -> a.length >= 4
    [] OTHER -> TRUE

(* Mutant: a second USERNAME is ignored. *)
Store_KeepsFirst(p, a) ==
  CASE a.type = "USERNAME" -> [p EXCEPT !.username = IF @ = 0 THEN a.length ELSE @]
    [] a.type = "PRIORITY" -> [p EXCEPT !.priority = a.value]
    [] a.type = "ICE_CONTROLLING" -> [p EXCEPT !.iceControlling = a.value]
    [] a.type = "ICE_CONTROLLED" -> [p EXCEPT !.iceControlled = a.value]
    [] a.type = "USE_CANDIDATE" -> [p EXCEPT !.hasUseCandidate = TRUE]
    [] a.type = "MESSAGE_INTEGRITY" -> [p EXCEPT !.messageIntegrity = a]
    [] a.type = "FINGERPRINT" -> [p EXCEPT !.hasFingerprint = TRUE]
    [] a.type = "ERROR_CODE" ->
         [p EXCEPT !.errorCode = (a.value \div 256) * 100 + (a.value % 256)]
    [] OTHER -> p

Store(p, a) ==
  CASE a.type = "USERNAME" -> [p EXCEPT !.username = a.length]
    [] a.type = "PRIORITY" -> [p EXCEPT !.priority = a.value]
    [] a.type = "ICE_CONTROLLING" -> [p EXCEPT !.iceControlling = a.value]
    [] a.type = "ICE_CONTROLLED" -> [p EXCEPT !.iceControlled = a.value]
    [] a.type = "USE_CANDIDATE" -> [p EXCEPT !.hasUseCandidate = TRUE]
    [] a.type = "MESSAGE_INTEGRITY" -> [p EXCEPT !.messageIntegrity = a]
    [] a.type = "FINGERPRINT" -> [p EXCEPT !.hasFingerprint = TRUE]
    [] a.type = "ERROR_CODE" ->
         [p EXCEPT !.errorCode = (a.value \div 256) * 100 + (a.value % 256)]
    [] OTHER -> p

(* Mutant: the padding of the value is not skipped. *)
NextPosition_NoPadding(p, a) == (p + 4 + a.length) % Wrap

NextPosition(p, a) == PadTo4Bytes((p + 4 + a.length) % Wrap)

(* The comparison with the CRC of the bytes before the last attribute. *)
FingerprintOk(d, p) ==
  p.hasFingerprint => d.attrs[Len(d.attrs)].value = d.length

----------------------------------------------------------------------------
(* Serialize.                                                              *)

Optional(condition, a) == IF condition THEN <<a>> ELSE <<>>

AddXorMappedAddress(p) ==
  /\ p.xorMappedAddress \in {"AF_INET", "AF_INET6"}
  /\ p.method = BINDING /\ p.klass = SUCCESS_RESPONSE

xorMappedAddressPaddedLen(p) == IF p.xorMappedAddress = "AF_INET" THEN 8 ELSE 20

AddErrorCode(p) == p.errorCode # 0 /\ p.klass = ERROR_RESPONSE

AddMessageIntegrity(p) == p.klass # ERROR_RESPONSE /\ p.password # Empty

(* The first pass: the size of the message, which always ends in a         *)
(* FINGERPRINT.                                                            *)
SerializedSize(p) ==
  HeaderSize
    + (IF p.username # 0 THEN 4 + PadTo4Bytes(p.username) ELSE 0)
    + (IF p.priority # 0 THEN 8 ELSE 0)
    + (IF p.iceControlling # 0 THEN 12 ELSE 0)
    + (IF p.iceControlled # 0 THEN 12 ELSE 0)
    + (IF p.hasUseCandidate THEN 4 ELSE 0)
    + (IF AddXorMappedAddress(p) THEN 4 + xorMappedAddressPaddedLen(p) ELSE 0)
    + (IF AddErrorCode(p) THEN 8 ELSE 0)
    + (IF AddMessageIntegrity(p) THEN 24 ELSE 0)
    + 8

(* codeClass and codeNumber, both uint8_t. *)
ErrorCodeValue(code) ==
  LET codeClass == (code \div 100) % 256
      codeNumber == ((code % 256) - codeClass * 100) % 256
  IN codeClass * 256 + codeNumber

(* Mutant: the length field still counts FINGERPRINT when the HMAC is      *)
(* computed.                                                               *)
IntegrityLength_Whole(size) == size - HeaderSize

(* The length field while the HMAC is computed: without FINGERPRINT. *)
IntegrityLength(size) == size - HeaderSize - 8

(* The second pass. *)
SerializedAttrs(p) ==
  LET size == SerializedSize(p)
  IN Optional(p.username # 0, Attr("USERNAME", p.username, 0, Empty))
     \o Optional(p.priority # 0, Attr("PRIORITY", 4, p.priority, Empty))
     \o Optional(p.iceControlling # 0,
                 Attr("ICE_CONTROLLING", 8, p.iceControlling, Empty))
     \o Optional(p.iceControlled # 0,
                 Attr("ICE_CONTROLLED", 8, p.iceControlled, Empty))
     \o Optional(p.hasUseCandidate, Attr("USE_CANDIDATE", 0, 0, Empty))
     \o Optional(AddXorMappedAddress(p),
                 Attr("XOR_MAPPED_ADDRESS", xorMappedAddressPaddedLen(p), 0, Empty))
     \o Optional(AddErrorCode(p),
                 Attr("ERROR_CODE", 4, ErrorCodeValue(p.errorCode), Empty))
     \o Optional(AddMessageIntegrity(p),
                 Attr("MESSAGE_INTEGRITY", 20, IntegrityLength(size), p.password))
     \o <<Attr("FINGERPRINT", 4, size - HeaderSize, Empty)>>

SerializedDatagram(p) ==
  [size |-> SerializedSize(p), cookie |-> TRUE,
   type |-> TypeField(p.klass, p.method),
   length |-> SerializedSize(p) - HeaderSize, attrs |-> SerializedAttrs(p)]

(* A packet that may be built: its fields have the width of their types    *)
(* and it fits in a datagram.                                              *)
IsBuilt(p) ==
  /\ p.klass \in 0 .. 3 /\ p.method \in Methods
  /\ p.username \in 0 .. MaxDatagram /\ SerializedSize(p) <= MaxDatagram
  /\ p.priority \in Nat /\ p.iceControlling \in Nat /\ p.iceControlled \in Nat
  /\ p.errorCode \in Word
  /\ p.hasUseCandidate \in BOOLEAN /\ p.password \in Strings

ASSUME BuiltAssumption == \A p \in Built : IsBuilt(p)

(* The part of CheckAuthentication that checks the HMAC: the length field  *)
(* is lowered for it when there is a FINGERPRINT, and restored.            *)
IntegrityHolds(d, p, localPassword) ==
  /\ p.messageIntegrity.key = localPassword
  /\ p.messageIntegrity.value =
       IF p.hasFingerprint THEN d.size - HeaderSize - 8 ELSE d.length

----------------------------------------------------------------------------
Blank == [size |-> 0, cookie |-> FALSE, type |-> 0, length |-> 0, attrs |-> <<>>]

Init ==
  /\ stage = "idle" /\ datagram = Blank /\ origin = {}
  /\ pos = HeaderSize /\ next = 1 /\ packet = NewStunPacket(REQUEST, BINDING)

Fill(d, from) ==
  /\ stage' = "filled" /\ datagram' = d /\ origin' = from
  /\ UNCHANGED <<pos, next, packet>>

Receive == stage = "idle" /\ \E d \in Received : Fill(d, {})

(* HandleRead hands on the buffer of a failed recvfrom as well: it still   *)
(* holds an earlier datagram.                                              *)
ReceiveFails == stage = "idle" /\ \E d \in Received : Fill([d EXCEPT !.size = FailedRecv], {})

Serialize == stage = "idle" /\ \E p \in Built : Fill(SerializedDatagram(p), {p})

ParseHeader ==
  /\ stage = "filled"
  /\ IF HeaderOk(datagram)
     THEN /\ stage' = "scanning"
          /\ packet' = NewStunPacket(ClassOf(datagram.type), MethodOf(datagram.type))
     ELSE stage' = "rejected" /\ UNCHANGED packet
  /\ UNCHANGED <<datagram, origin, pos, next>>

(* One iteration of the loop. *)
ParseAttribute ==
  /\ stage = "scanning" /\ pos + 4 <= datagram.size
  /\ LET a == datagram.attrs[next]
     IN IF /\ pos + 4 + a.length <= datagram.size
           /\ OrderOk(packet, a)
           /\ LengthOk(a)
        THEN /\ packet' = Store(packet, a)
             /\ pos' = NextPosition(pos, a)
             /\ next' = next + 1
             /\ UNCHANGED stage
        ELSE stage' = "rejected" /\ UNCHANGED <<packet, pos, next>>
  /\ UNCHANGED <<datagram, origin>>

(* After the loop. *)
ParseEnd ==
  /\ stage = "scanning" /\ pos + 4 > datagram.size
  /\ stage' = IF pos = datagram.size /\ FingerprintOk(datagram, packet)
              THEN "accepted" ELSE "rejected"
  /\ UNCHANGED <<datagram, origin, pos, next, packet>>

(* The caller is done with the packet, or has got none. *)
Discard ==
  /\ stage \in {"accepted", "rejected"}
  /\ stage' = "idle" /\ datagram' = Blank /\ origin' = {}
  /\ pos' = HeaderSize /\ next' = 1 /\ packet' = NewStunPacket(REQUEST, BINDING)

Next ==
  \/ Receive
  \/ ReceiveFails
  \/ Serialize
  \/ ParseHeader
  \/ ParseAttribute
  \/ ParseEnd
  \/ Discard

Spec == Init /\ [][Next]_vars

----------------------------------------------------------------------------
(* Properties.                                                             *)

Packets ==
  [klass : 0 .. 3, method : Methods, username : Nat, priority : Nat,
   iceControlling : Nat, iceControlled : Nat, hasUseCandidate : BOOLEAN,
   messageIntegrity : [type : {"MESSAGE_INTEGRITY"}, length : {0, 20},
                       value : Nat,
                       key : {Empty} \cup {datagram.attrs[i].key :
                                        i \in DOMAIN datagram.attrs}],
   hasFingerprint : BOOLEAN, errorCode : Word,
   xorMappedAddress : {"none"}, password : {Empty}]

(* Type invariant of Parse. *)
StunTypeOK ==
  /\ stage \in {"idle", "filled", "scanning", "accepted", "rejected"}
  /\ pos \in 0 .. MaxDatagram /\ next \in Nat \ {0}
  /\ packet \in Packets

FixedLength ==
  [PRIORITY |-> 4, FINGERPRINT |-> 4, ICE_CONTROLLING |-> 8, ICE_CONTROLLED |-> 8,
   USE_CANDIDATE |-> 0, MESSAGE_INTEGRITY |-> 20]

(* The messages of RFC 5389 as far as Parse distinguishes them. *)
WellFormed(d) ==
  LET n == Len(d.attrs)
  IN /\ d.cookie /\ d.type < 3 * 256
     /\ d.length + HeaderSize = d.size /\ End(d.attrs) = d.size
     /\ \A i \in 1 .. n :
          LET a == d.attrs[i]
          IN /\ a.type \in DOMAIN FixedLength => a.length = FixedLength[a.type]
             /\ a.type = "ERROR_CODE" => a.length >= 4
             /\ a.type = "FINGERPRINT" => i = n /\ a.value = d.length
             /\ a.type = "MESSAGE_INTEGRITY" =>
                  i = n \/ (i = n - 1 /\ d.attrs[n].type = "FINGERPRINT")

(* Parse, which decides attribute by attribute, returns a packet exactly   *)
(* for the well-formed messages: the loop's early returns, its order of    *)
(* checks and the two checks after it leave no gap.                        *)
AcceptsWellFormed ==
  /\ stage = "accepted" => WellFormed(datagram)
  /\ stage = "rejected" => ~WellFormed(datagram)

(* The 16-bit computation of the next position is exact and stays in the   *)
(* datagram: Parse always stands at the start of an attribute or at the    *)
(* end, whatever lengths the attributes claim.  Only what recvfrom has     *)
(* returned is scanned, not what an earlier one left in the buffer; and the *)
(* packet being built has its types.                                       *)
ScanInBounds ==
  /\ StunTypeOK
  /\ stage = "scanning" =>
       /\ next \in DOMAIN Starts(datagram.attrs) /\ pos = Starts(datagram.attrs)[next]
       /\ pos <= datagram.size /\ datagram.size <= MaxDatagram
       /\ pos + 4 <= datagram.size => next <= Len(datagram.attrs)

(* The value of the last attribute of a type; 0 when there is none. *)
LastValue(d, type, Value(_)) ==
  LET at == {i \in DOMAIN d.attrs : d.attrs[i].type = type}
  IN IF at = {} THEN 0
     ELSE Value(d.attrs[CHOOSE i \in at : \A j \in at : j <= i])

(* Of repeated attributes the last one counts, so that what IceServer sees *)
(* (USERNAME, PRIORITY, the ICE roles) is what stands nearest to the       *)
(* MESSAGE-INTEGRITY.                                                      *)
LastAttributeCounts ==
  stage = "accepted" =>
    LET Value(a) == a.value
        Length(a) == a.length
    IN /\ packet.username = LastValue(datagram, "USERNAME", Length)
       /\ packet.priority = LastValue(datagram, "PRIORITY", Value)
       /\ packet.iceControlling = LastValue(datagram, "ICE_CONTROLLING", Value)
       /\ packet.iceControlled = LastValue(datagram, "ICE_CONTROLLED", Value)

Passwords == {b.password : b \in Built}

(* What Serialize writes ends where the size computed before says (its     *)
(* assertion "pos != this->size").  Parse accepts it exactly when its type *)
(* field is one that IsStun takes: the reply 400 to a request whose method *)
(* is 128 or more is written with one that it does not.  What Parse        *)
(* accepts has the class, the method and every attribute that were         *)
(* written, the error code too as long as its hundreds fit in a byte,      *)
(* although it goes through two bytes in 8-bit arithmetic; and a signed    *)
(* message authenticates under its password and under no other, although   *)
(* the length field is lowered while either side computes the HMAC.        *)
RoundTrip ==
  \A p \in origin :
    /\ stage = "filled" => End(datagram.attrs) = datagram.size
    /\ stage = "rejected" => TypeField(p.klass, p.method) >= 3 * 256
    /\ stage = "accepted" => TypeField(p.klass, p.method) < 3 * 256
    /\ stage = "accepted" =>
         /\ packet.klass = p.klass /\ packet.method = p.method
         /\ packet.username = p.username /\ packet.priority = p.priority
         /\ packet.iceControlling = p.iceControlling
         /\ packet.iceControlled = p.iceControlled
         /\ packet.hasUseCandidate = p.hasUseCandidate
         /\ p.klass = ERROR_RESPONSE /\ p.errorCode < 256 * 100 =>
              packet.errorCode = p.errorCode
         /\ packet.hasFingerprint
         /\ HasMessageIntegrity(packet) <=> AddMessageIntegrity(p)
         /\ HasMessageIntegrity(packet) =>
              \A q \in Passwords :
                IntegrityHolds(datagram, packet, q) <=> q = p.password
=============================================================================
