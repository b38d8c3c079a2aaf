------------------------------ MODULE RtpPacket ------------------------------
(***************************************************************************)
(* What happens to an incoming datagram that is media: the tests by which  *)
(* WebRtcTransport::OnInputDataPacket tells the protocols apart,           *)
(* RTPChannel::OnRTP (example/publish.cc), webrtc::RtpPacket               *)
(* (rtp/rtp_packet.cc) and VideoRtpDepacketizerH264, one step per          *)
(* iteration of its two loops.                                             *)
(*                                                                         *)
(* A datagram is its length, its first two bytes, whether bytes 4 to 7 are *)
(* the STUN cookie, the length field of its header extension, its last     *)
(* byte, and its payload as the depacketizer reads it: type[o] is the NAL  *)
(* type in the byte at offset o, word[o] the 16-bit number at o and o + 1. *)
(* The other header fields and the parsed video header are left out.       *)
(***************************************************************************)
EXTENDS Integers, Sequences

CONSTANTS
  Received,       \* datagrams that may arrive
  Uninitialized   \* what the members of a new RtpPacket may hold

Byte == 0 .. 255
Word == 0 .. 65535

(* type and word are known as far as a payload may go. *)
IsDatagram(d) ==
  /\ d.len \in Nat /\ d.b0 \in Byte /\ d.b1 \in Byte
  /\ d.cookie \in BOOLEAN /\ d.extWords \in Word /\ d.last \in Byte
  /\ \A o \in 0 .. d.len - 12 : d.type[o] \in 0 .. 31 /\ d.word[o] \in Word

ASSUME ReceivedAssumption == \A d \in Received : IsDatagram(d)

ASSUME UninitializedAssumption == Uninitialized \subseteq Nat

VARIABLES
  stage,             \* where the handler stands
  datagram,          \* the datagram being handled
  size,              \* its length after DecryptSrtp
  rtp,               \* the RtpPacket of OnRTP
  nalu_ptr,          \* payload offset that nalu_ptr points to
  length_remaining, offset,
  offsets,           \* nalu_start_offsets
  i,                 \* index of the second loop, from 1
  reads,             \* payload offsets the last step has read
  result             \* what VideoRtpDepacketizerH264::Parse returned

stap == <<nalu_ptr, length_remaining, offset>>
vars == <<stage, datagram, size, rtp, stap, offsets, i, reads, result>>

----------------------------------------------------------------------------
(* Which protocol a datagram belongs to.                                   *)

IsStun(d) == d.len >= 20 /\ d.b0 < 3 /\ d.cookie

IsDtls(d) == d.len >= 13 /\ d.b0 > 19 /\ d.b0 < 64

HasCorrectRtpVersion(d) == d.b0 \div 64 = 2

PayloadTypeIsReservedForRtcp(pt) == 64 <= pt /\ pt < 96

IsRtcpPacket(d) ==
  /\ d.len >= 4 /\ HasCorrectRtpVersion(d)
  /\ PayloadTypeIsReservedForRtcp(d.b1 % 128)

(* Mutant: the payload types reserved for RTCP are not excluded. *)
IsRtpPacket_AnyType(d) == d.len >= 12 /\ HasCorrectRtpVersion(d)

IsRtpPacket(d) ==
  /\ d.len >= 12 /\ HasCorrectRtpVersion(d)
  /\ ~PayloadTypeIsReservedForRtcp(d.b1 % 128)

----------------------------------------------------------------------------
(* RtpPacket::Parse.                                                       *)

kFixedHeaderSize == 12

HasPadding(d) == (d.b0 \div 32) % 2 = 1
HasExtension(d) == (d.b0 \div 16) % 2 = 1

CsrcEnd(d) == kFixedHeaderSize + (d.b0 % 16) * 4

PayloadOffset(d) ==
  IF HasExtension(d) THEN CsrcEnd(d) + 4 + d.extWords * 4 ELSE CsrcEnd(d)

PaddingSize(d, n) == IF HasPadding(d) /\ PayloadOffset(d) < n THEN d.last ELSE 0

(* The early returns of ParseBuffer. *)
ParseBufferOk(d, n) ==
  /\ n >= kFixedHeaderSize /\ d.b0 \div 64 = 2
  /\ n >= CsrcEnd(d)
  /\ HasExtension(d) => CsrcEnd(d) + 4 <= n /\ PayloadOffset(d) <= n
  /\ HasPadding(d) /\ PayloadOffset(d) < n => PaddingSize(d, n) # 0
  /\ PayloadOffset(d) + PaddingSize(d, n) <= n

(* Mutant: payload_size_ keeps what it held. *)
Clear_KeepsSize(r) == [r EXCEPT !.payload_offset = kFixedHeaderSize, !.padding_size = 0]

Clear(r) ==
  [r EXCEPT !.payload_offset = kFixedHeaderSize, !.payload_size = 0, !.padding_size = 0]

(* What ParseBuffer has assigned when it fails, Clear overwrites.  Parse   *)
(* has no return statement after its memcpy; its caller ignores the value. *)
Parse(d, n, r) ==
  IF ParseBufferOk(d, n)
  THEN [payload_offset |-> PayloadOffset(d), padding_size |-> PaddingSize(d, n),
        payload_size |-> n - PayloadOffset(d) - PaddingSize(d, n), buffer |-> n]
  ELSE Clear(r)

NewRtpPacket(offs, pad, pay) ==
  [payload_offset |-> offs, padding_size |-> pad, payload_size |-> pay, buffer |-> 0]

----------------------------------------------------------------------------
kStapA == 24
kFuA == 28
kStapAHeaderSize == 3
kLengthFieldSize == 2
kFuAHeaderSize == 2

(* srtp_unprotect takes the authentication tag off, or fails and leaves    *)
(* the length alone; it never cuts into the fixed header.                  *)
DecryptedLengths(len) ==
  {len} \cup {len - tag : tag \in {t \in {4, 10, 16} : len - t >= kFixedHeaderSize}}

Blank ==
  [len |-> 0, b0 |-> 0, b1 |-> 0, cookie |-> FALSE, extWords |-> 0, last |-> 0,
   type |-> [o \in {0} |-> 0], word |-> [o \in {0} |-> 0]]

Init ==
  /\ stage = "idle" /\ datagram = Blank /\ size = 0
  /\ rtp = NewRtpPacket(0, 0, 0)
  /\ nalu_ptr = 0 /\ length_remaining = 0 /\ offset = 0
  /\ offsets = <<>> /\ i = 1 /\ reads = {} /\ result = "none"

(* OnInputDataPacket, for a transport with an RTP channel, as far as       *)
(* DecryptSrtp; STUN, DTLS and RTCP are handled elsewhere or dropped.      *)
OnInputDataPacket ==
  /\ stage = "idle"
  /\ \E d \in Received :
       /\ datagram' = d
       /\ IF ~IsStun(d) /\ ~IsDtls(d) /\ ~IsRtcpPacket(d) /\ IsRtpPacket(d)
          THEN stage' = "media" /\ size' \in DecryptedLengths(d.len)
          ELSE stage' = "other" /\ UNCHANGED size
  /\ UNCHANGED <<rtp, stap, offsets, i, reads, result>>

(* OnRTP, as far as RtpPacket::Parse. *)
OnRTP ==
  /\ stage = "media" /\ stage' = "depacketize"
  /\ \E offs \in Uninitialized, pad \in Uninitialized, pay \in Uninitialized :
       rtp' = Parse(datagram, size, NewRtpPacket(offs, pad, pay))
  /\ UNCHANGED <<datagram, size, stap, offsets, i, reads, result>>

Return(r) == stage' = "done" /\ result' = r

(* VideoRtpDepacketizerH264::Parse, ParseFuaNalu, and                      *)
(* ProcessStapAOrSingleNalu as far as its loops.                           *)
Depacketize ==
  /\ stage = "depacketize"
  /\ LET n == rtp.payload_size
     IN \/ /\ n = 0
           /\ Return("nullopt") /\ reads' = {}
           /\ UNCHANGED <<stap, offsets, i>>
        \/ /\ n # 0 /\ datagram.type[0] = kFuA
           /\ IF n < kFuAHeaderSize
              THEN Return("nullopt") /\ reads' = {0}
              ELSE Return("parsed") /\ reads' = {0, 1}
           /\ UNCHANGED <<stap, offsets, i>>
        \/ /\ n # 0 /\ datagram.type[0] = kStapA /\ reads' = {0}
           /\ IF n <= kStapAHeaderSize
              THEN Return("nullopt") /\ UNCHANGED <<stap, offsets, i>>
              ELSE /\ stage' = "stapA" /\ UNCHANGED <<i, result>>
                   /\ nalu_ptr' = 1 /\ length_remaining' = n - 1
                   /\ offset' = 0 /\ offsets' = <<>>
        \/ /\ n # 0 /\ datagram.type[0] \notin {kStapA, kFuA} /\ reads' = {0}
           /\ stage' = "units" /\ UNCHANGED <<result, stap>>
           /\ offsets' = <<0, n + kLengthFieldSize>> /\ i' = 1
  /\ UNCHANGED <<datagram, size, rtp>>

(* Mutant: a unit may claim more than is left. *)
UnitFits_Any(nalu_size) == TRUE

(* On the length that is left after the length field. *)
UnitFits(nalu_size) == nalu_size <= length_remaining - 2

(* Mutant: offsets are not past the length field. *)
UnitStart_AtField == offset + 1

UnitStart == offset + kStapAHeaderSize

(* Mutant: an empty unit is skipped before anything is consumed. *)
TakeUnit_SkipsEmpty(nalu_size) ==
  IF nalu_size = 0
  THEN UNCHANGED <<stap, offsets>>
  ELSE /\ nalu_ptr' = nalu_ptr + 2 + nalu_size
       /\ length_remaining' = length_remaining - 2 - nalu_size
       /\ offsets' = Append(offsets, UnitStart)
       /\ offset' = offset + kLengthFieldSize + nalu_size

(* Past the length field and the unit. *)
TakeUnit(nalu_size) ==
  /\ nalu_ptr' = nalu_ptr + 2 + nalu_size
  /\ length_remaining' = length_remaining - 2 - nalu_size
  /\ offsets' = Append(offsets, UnitStart)
  /\ offset' = offset + kLengthFieldSize + nalu_size

(* One iteration of ParseStapAStartOffsets. *)
ParseStapAStartOffsets ==
  /\ stage = "stapA" /\ length_remaining > 0
  /\ IF length_remaining < 2
     THEN Return("nullopt") /\ reads' = {} /\ UNCHANGED <<stap, offsets>>
     ELSE LET nalu_size == datagram.word[nalu_ptr]
          IN /\ reads' = {nalu_ptr, nalu_ptr + 1}
             /\ IF UnitFits(nalu_size)
                THEN TakeUnit(nalu_size) /\ UNCHANGED <<stage, result>>
                ELSE Return("nullopt") /\ UNCHANGED <<stap, offsets>>
  /\ UNCHANGED <<datagram, size, rtp, i>>

(* Its return, the type of the first unit, and the end offset. *)
StapAEnd ==
  /\ stage = "stapA" /\ length_remaining = 0
  /\ stage' = "units" /\ i' = 1 /\ reads' = {kStapAHeaderSize}
  /\ offsets' = Append(offsets, rtp.payload_size + kLengthFieldSize)
  /\ UNCHANGED <<datagram, size, rtp, stap, result>>

(* Mutant: the check for an empty unit is missing. *)
IsEmptyUnit_Never(start, end) == FALSE

(* end_offset - start_offset < 1 on size_t: true for a difference of zero, *)
(* false for a negative one.                                               *)
IsEmptyUnit(start, end) == end = start

(* One iteration over the units. *)
ProcessUnit ==
  /\ stage = "units" /\ i < Len(offsets)
  /\ LET start_offset == offsets[i]
         end_offset == offsets[i + 1] - kLengthFieldSize
     IN IF IsEmptyUnit(start_offset, end_offset)
        THEN Return("nullopt") /\ reads' = {} /\ UNCHANGED i
        ELSE /\ reads' = {start_offset}
             /\ IF datagram.type[start_offset] \in {kStapA, kFuA}
                THEN Return("nullopt") /\ UNCHANGED i
                ELSE i' = i + 1 /\ UNCHANGED <<stage, result>>
  /\ UNCHANGED <<datagram, size, rtp, stap, offsets>>

UnitsEnd ==
  /\ stage = "units" /\ i >= Len(offsets)
  /\ Return("parsed") /\ reads' = {}
  /\ UNCHANGED <<datagram, size, rtp, stap, offsets, i>>

(* OnInputDataPacket returns. *)
Discard ==
  /\ stage \in {"other", "done"}
  /\ stage' = "idle" /\ datagram' = Blank /\ size' = 0
  /\ rtp' = NewRtpPacket(0, 0, 0)
  /\ nalu_ptr' = 0 /\ length_remaining' = 0 /\ offset' = 0
  /\ offsets' = <<>> /\ i' = 1 /\ reads' = {} /\ result' = "none"

Step ==
  \/ OnRTP
  \/ Depacketize
  \/ ParseStapAStartOffsets
  \/ StapAEnd
  \/ ProcessUnit
  \/ UnitsEnd
  \/ Discard

Next == OnInputDataPacket \/ Step

(* The handler runs on in its IO loop; nothing obliges a datagram to come. *)
Spec == Init /\ [][Next]_vars /\ WF_vars(Step)
----------------------------------------------------------------------------
(* Properties.                                                             *)

(* Type invariant of the media path. *)
RtpTypeOK ==
  /\ stage \in {"idle", "media", "other", "depacketize", "stapA", "units", "done"}
  /\ IsDatagram(datagram) /\ size \in Nat
  /\ rtp \in [payload_offset : Nat, padding_size : Nat, payload_size : Nat, buffer : Nat]
  /\ nalu_ptr \in Nat /\ length_remaining \in Nat /\ offset \in Nat
  /\ offsets \in Seq(Nat) /\ i \in Nat \ {0}
  /\ reads \subseteq Nat /\ result \in {"none", "parsed", "nullopt"}

(* No datagram is claimed by two of the four tests of OnInputDataPacket,   *)
(* so their order does not matter, and none of version 2 that is long      *)
(* enough for RTP falls through them.                                      *)
DemuxExclusive ==
  /\ ~(IsStun(datagram) /\ (IsDtls(datagram) \/ IsRtcpPacket(datagram) \/ IsRtpPacket(datagram)))
  /\ ~(IsDtls(datagram) /\ (IsRtcpPacket(datagram) \/ IsRtpPacket(datagram)))
  /\ ~(IsRtcpPacket(datagram) /\ IsRtpPacket(datagram))
  /\ datagram.len >= 12 /\ HasCorrectRtpVersion(datagram) =>
       IsRtcpPacket(datagram) \/ IsRtpPacket(datagram)

(* The depacketizer reads only bytes of the payload, and the payload lies  *)
(* in the bytes the packet has copied: whatever lengths the header         *)
(* extension, the padding and the aggregated units claim, and whatever a   *)
(* new RtpPacket holds.                                                    *)
ReadsInBounds ==
  \A o \in reads : o < rtp.payload_size /\ rtp.payload_offset + o < rtp.buffer

(* Header, payload and padding make up a packet that Parse accepts, by     *)
(* RFC 3550's layout: the fixed header, 4 bytes for every CSRC and, with   *)
(* an extension, 4 bytes and 4 for each of its words.  Parse refuses only  *)
(* media that does not fit this layout, and leaves it without payload, as  *)
(* OnRTP, which ignores what Parse returns, goes on with the packet.       *)
PacketPartitioned ==
  stage \in {"depacketize", "stapA", "units", "done"} =>
    LET header == 12 + 4 * (datagram.b0 % 16)
                  + (IF HasExtension(datagram) THEN 4 * (datagram.extWords + 1) ELSE 0)
        last == datagram.last
    IN \/ /\ rtp.buffer = 0 /\ rtp.payload_size = 0
          /\ \/ header > size
             \/ HasPadding(datagram) /\ header < size /\ (last = 0 \/ header + last > size)
       \/ /\ rtp.buffer = size /\ rtp.payload_offset = header
          /\ rtp.payload_offset + rtp.payload_size + rtp.padding_size = size
          /\ HasPadding(datagram) /\ header < size => rtp.padding_size > 0

(* A payload of n bytes splits into units, at the set S of the positions   *)
(* of their length fields: each begins where the one before it ends, is    *)
(* not empty and is no aggregate or fragment itself.                       *)
Splits(d, n, S) ==
  /\ 1 \in S
  /\ \A o \in S :
       /\ o + 2 < n /\ d.word[o] > 0
       /\ d.type[o + 2] \notin {kStapA, kFuA}
       /\ o + 2 + d.word[o] \in S \cup {n}

WellFormedPayload(d, n) ==
  /\ n > 0
  /\ d.type[0] = kFuA => n >= 2
  /\ d.type[0] = kStapA => \E S \in SUBSET (1 .. n - 1) : Splits(d, n, S)

(* The depacketizer, which finds the offsets in one loop and checks them   *)
(* in another, accepts exactly the payloads that split into units.         *)
AcceptsUnits ==
  stage = "done" =>
    (result = "parsed" <=> WellFormedPayload(datagram, rtp.payload_size))

(* Every datagram is dealt with: the loop over the aggregated units ends   *)
(* even if they claim to be empty, and the IO loop gets its thread back.   *)
HandlerReturns == stage # "idle" ~> stage = "idle"
=============================================================================
