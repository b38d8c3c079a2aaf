--------------------------- MODULE RtpPacketProofs ---------------------------
(***************************************************************************)
(* For every datagram: its protocol is decided by one test only, and the   *)
(* depacketizer reads nothing outside its payload.                         *)
(***************************************************************************)
EXTENDS RtpPacket, TLAPS

(* A payload lies in the copied bytes, and those in the datagram. *)
PayloadInBuffer ==
  rtp.payload_size > 0 =>
    /\ rtp.payload_offset >= kFixedHeaderSize
    /\ rtp.payload_offset + rtp.payload_size <= rtp.buffer
    /\ rtp.buffer <= datagram.len

(* Before the depacketizer runs nothing has been read. *)
NothingReadYet ==
  /\ stage \in {"idle", "media", "other", "depacketize"} => reads = {}
  /\ stage = "media" => size <= datagram.len

(* Two successive offsets are a length field apart, at least. *)
Apart(s) == \A k \in 1 .. Len(s) - 1 : s[k] + kLengthFieldSize <= s[k + 1]

(* The first loop: its pointer, its offset and its remaining length agree. *)
StapInv ==
  stage = "stapA" =>
    /\ rtp.payload_size > kStapAHeaderSize
    /\ nalu_ptr = offset + 1
    /\ nalu_ptr + length_remaining = rtp.payload_size
    /\ Apart(offsets)
    /\ \A k \in 1 .. Len(offsets) : offsets[k] <= offset + 1

(* The second loop: the last offset is the end offset. *)
UnitsInv ==
  stage = "units" =>
    /\ rtp.payload_size > 0
    /\ Apart(offsets)
    /\ \A k \in 1 .. Len(offsets) : offsets[k] <= rtp.payload_size + kLengthFieldSize

(* Between two datagrams there is no payload. *)
IdleInv == stage \in {"idle", "media", "other"} => rtp.payload_size = 0

RtpInv ==
  /\ RtpTypeOK
  /\ PayloadInBuffer
  /\ NothingReadYet
  /\ IdleInv
  /\ StapInv
  /\ UnitsInv
  /\ ReadsInBounds
----------------------------------------------------------------------------
(* Bytes and 16-bit words are numbers. *)
LEMMA ByteLemma == Byte \subseteq Nat /\ Word \subseteq Nat
BY SMTT(60) DEF Byte, Word

(* The header of a datagram. *)
LEMMA HeaderLemma ==
  ASSUME NEW d, IsDatagram(d)
  PROVE /\ d.len \in Nat /\ d.b0 \in Nat /\ d.b1 \in Nat
        /\ d.extWords \in Nat /\ d.last \in Nat
BY ByteLemma, ZenonT(60) DEF IsDatagram

(* A length field in its payload. *)
LEMMA WordLemma ==
  ASSUME NEW d, IsDatagram(d), NEW o \in 0 .. d.len - 12
  PROVE d.word[o] \in Nat
BY ByteLemma, ZenonT(60) DEF IsDatagram

(* The empty buffer counts as a datagram. *)
LEMMA BlankLemma == IsDatagram(Blank)
<1>1. 0 \in Byte /\ 0 \in Word /\ 0 \in Nat
  BY SMTT(60) DEF Byte, Word
<1>2. Blank.len = 0 /\ Blank.b0 = 0 /\ Blank.b1 = 0 /\ Blank.cookie = FALSE
  BY ZenonT(60) DEF Blank
<1>3. Blank.extWords = 0 /\ Blank.last = 0
  BY ZenonT(60) DEF Blank
<1>4. \A o \in 0 .. Blank.len - 12 : FALSE
  BY <1>2, SMTT(60)
<1> QED
  BY <1>1, <1>2, <1>3, <1>4, ZenonT(60) DEF IsDatagram

(* The four tests of OnInputDataPacket exclude each other, and RTP and     *)
(* RTCP share all of version 2, for every length and every pair of bytes.  *)
LEMMA DemuxLemma ==
  ASSUME IsDatagram(datagram)
  PROVE DemuxExclusive
<1>1. datagram.len \in Nat /\ datagram.b0 \in Nat /\ datagram.b1 \in Nat
  BY HeaderLemma, ZenonT(60)
<1> QED
  BY <1>1 DEF DemuxExclusive, IsStun, IsDtls, IsRtcpPacket, IsRtpPacket,
              HasCorrectRtpVersion, PayloadTypeIsReservedForRtcp

(* What DecryptSrtp leaves of a datagram is no longer than it was. *)
LEMMA DecryptedLengthsLemma ==
  ASSUME NEW len \in Nat, NEW n \in DecryptedLengths(len)
  PROVE n \in Nat /\ n <= len
BY SMTT(60) DEF DecryptedLengths, kFixedHeaderSize

(* RtpPacket::Parse leaves numbers, and a payload inside the n bytes it    *)
(* was given or none.                                                      *)
LEMMA ParseLemma ==
  ASSUME NEW d, IsDatagram(d), NEW n \in Nat,
         NEW offs \in Nat, NEW pad \in Nat, NEW pay \in Nat
  PROVE LET r == Parse(d, n, NewRtpPacket(offs, pad, pay))
        IN /\ r \in [payload_offset : Nat, padding_size : Nat,
                     payload_size : Nat, buffer : Nat]
           /\ r.payload_size > 0 =>
                /\ r.payload_offset >= kFixedHeaderSize
                /\ r.payload_offset + r.payload_size <= r.buffer
                /\ r.buffer <= n
<1>0. d.b0 \in Nat /\ d.extWords \in Nat /\ d.last \in Nat
  BY HeaderLemma, ZenonT(60)
<1>1. CsrcEnd(d) \in Nat /\ CsrcEnd(d) >= kFixedHeaderSize
  BY <1>0 DEF CsrcEnd, kFixedHeaderSize
<1>2. PayloadOffset(d) \in Nat /\ PayloadOffset(d) >= kFixedHeaderSize
  BY <1>0, <1>1 DEF PayloadOffset, kFixedHeaderSize
<1>3. PaddingSize(d, n) \in Nat
  BY <1>0, ZenonT(60) DEF PaddingSize
<1>4. CASE ParseBufferOk(d, n)
  <2>1. PayloadOffset(d) + PaddingSize(d, n) <= n
    BY <1>4, ZenonT(60) DEF ParseBufferOk
  <2> QED
    BY <1>2, <1>3, <1>4, <2>1, SMTT(60) DEF Parse
<1>5. CASE ~ParseBufferOk(d, n)
  <2>1. Parse(d, n, NewRtpPacket(offs, pad, pay)) =
          [payload_offset |-> 12, padding_size |-> 0, payload_size |-> 0, buffer |-> 0]
    BY <1>5, ZenonT(60) DEF Parse, Clear, NewRtpPacket, kFixedHeaderSize
  <2> QED
    BY <2>1
<1> QED
  BY <1>4, <1>5, ZenonT(60)

(* An offset past the last one by a length field keeps offsets apart. *)
LEMMA ApartLemma ==
  ASSUME NEW s \in Seq(Nat), Apart(s), NEW e \in Nat,
         \A k \in 1 .. Len(s) : s[k] + kLengthFieldSize <= e
  PROVE /\ Append(s, e) \in Seq(Nat)
        /\ Apart(Append(s, e))
        /\ \A k \in 1 .. Len(Append(s, e)) : Append(s, e)[k] <= e
<1> DEFINE t == Append(s, e)
<1>1. t \in Seq(Nat) /\ Len(t) = Len(s) + 1 /\ Len(s) \in Nat
  OBVIOUS
<1>2. \A k \in 1 .. Len(s) : t[k] = s[k] /\ s[k] \in Nat
  OBVIOUS
<1>3. t[Len(s) + 1] = e
  OBVIOUS
<1> HIDE DEF t
<1>4. \A k \in 1 .. Len(t) : k \in 1 .. Len(s) \/ k = Len(s) + 1
  BY <1>1
<1>5. \A k \in 1 .. Len(t) : t[k] <= e
  BY <1>2, <1>3, <1>4, SMTT(60) DEF kLengthFieldSize
<1>6. Apart(t)
  <2> SUFFICES ASSUME NEW k \in 1 .. Len(t) - 1
               PROVE t[k] + kLengthFieldSize <= t[k + 1]
    BY ZenonT(60) DEF Apart
  <2>1. k \in 1 .. Len(s) /\ (k \in 1 .. Len(s) - 1 \/ k = Len(s))
    BY <1>1
  <2>2. CASE k \in 1 .. Len(s) - 1
    <3>1. k + 1 \in 1 .. Len(s)
      BY <1>1, <2>2
    <3> QED
      BY <1>2, <2>1, <2>2, <3>1, ZenonT(60) DEF Apart
  <2>3. CASE k = Len(s)
    BY <1>2, <1>3, <2>1, <2>3, ZenonT(60)
  <2> QED
    BY <2>1, <2>2, <2>3, ZenonT(60)
<1> QED
  BY <1>1, <1>5, <1>6, ZenonT(60) DEF t

(* A unit that is not empty begins in the payload of n bytes. *)
LEMMA UnitLemma ==
  ASSUME NEW start \in Nat, NEW next \in Nat, NEW n \in Nat,
         start + kLengthFieldSize <= next, next <= n + kLengthFieldSize,
         next - kLengthFieldSize # start
  PROVE start \in 0 .. n - 1
BY DEF kLengthFieldSize

(* The offsets of a single NAL unit. *)
LEMMA SingleLemma ==
  ASSUME NEW n \in Nat, NEW s, s = <<0, n + 2>>
  PROVE /\ s \in Seq(Nat)
        /\ Apart(s)
        /\ \A k \in 1 .. Len(s) : s[k] <= n + kLengthFieldSize
<1>1. n + 2 \in Nat
  OBVIOUS
<1>2. s \in Seq(Nat)
  BY <1>1
<1>3. Len(s) = 2 /\ s[1] = 0 /\ s[2] = n + 2
  OBVIOUS
<1>4. Apart(s)
  <2>1. \A k \in 1 .. Len(s) - 1 : k = 1
    BY <1>3, SMTT(60)
  <2> QED
    BY <1>3, <2>1 DEF Apart, kLengthFieldSize
<1>5. \A k \in 1 .. Len(s) : s[k] <= n + kLengthFieldSize
  <2>1. \A k \in 1 .. Len(s) : k = 1 \/ k = 2
    BY <1>3, SMTT(60)
  <2> QED
    BY <1>3, <2>1, SMTT(60) DEF kLengthFieldSize
<1> QED
  BY <1>2, <1>4, <1>5, ZenonT(60)

----------------------------------------------------------------------------
(* The invariant holds of the depacketizer before the first datagram. *)
LEMMA RtpInit == Init => RtpInv
BY BlankLemma, SMTT(60)
DEF Init, RtpInv, RtpTypeOK, PayloadInBuffer, NothingReadYet, IdleInv, StapInv, UnitsInv,
    ReadsInBounds, NewRtpPacket

(* Every step of the depacketizer preserves it. *)
LEMMA RtpStep == RtpInv /\ [Next]_vars => RtpInv'
<1> SUFFICES ASSUME RtpInv, [Next]_vars PROVE RtpInv'
  OBVIOUS
<1> USE DEF RtpInv
<1>1. CASE OnInputDataPacket
  <2>1. PICK d \in Received :
          /\ datagram' = d
          /\ \/ stage' = "media" /\ size' \in DecryptedLengths(d.len)
             \/ stage' = "other" /\ size' = size
    BY <1>1, ZenonT(60) DEF OnInputDataPacket
  <2>2. IsDatagram(d)
    BY ReceivedAssumption, ZenonT(60)
  <2>3. size' \in Nat /\ (stage' = "media" => size' <= d.len)
    BY <2>1, <2>2, HeaderLemma, DecryptedLengthsLemma, ZenonT(60) DEF RtpTypeOK
  <2>4. reads = {} /\ reads' = {}
    BY <1>1, ZenonT(60) DEF OnInputDataPacket, NothingReadYet
  <2>5. rtp' = rtp /\ rtp.payload_size = 0
    BY <1>1, ZenonT(60) DEF OnInputDataPacket, IdleInv
  <2> QED
    BY <1>1, <2>1, <2>2, <2>3, <2>4, <2>5, SMTT(60)
    DEF OnInputDataPacket, stap, RtpTypeOK, PayloadInBuffer, NothingReadYet, IdleInv,
        StapInv, UnitsInv, ReadsInBounds
<1>2. CASE OnRTP
  <2>1. PICK offs \in Nat, pad \in Nat, pay \in Nat :
          rtp' = Parse(datagram, size, NewRtpPacket(offs, pad, pay))
    BY <1>2, UninitializedAssumption, ZenonT(60) DEF OnRTP
  <2>2. /\ rtp' \in [payload_offset : Nat, padding_size : Nat,
                     payload_size : Nat, buffer : Nat]
        /\ rtp'.payload_size > 0 =>
             /\ rtp'.payload_offset >= kFixedHeaderSize
             /\ rtp'.payload_offset + rtp'.payload_size <= rtp'.buffer
             /\ rtp'.buffer <= size
    BY <2>1, ParseLemma, ZenonT(60) DEF RtpTypeOK
  <2>3. size <= datagram.len /\ reads = {}
    BY <1>2, ZenonT(60) DEF OnRTP, NothingReadYet
  <2>4. /\ UNCHANGED <<datagram, size, stap, offsets, i, reads, result>>
        /\ stage' = "depacketize"
    BY <1>2, ZenonT(60) DEF OnRTP
  <2>5. RtpTypeOK'
    BY <2>2, <2>4, ZenonT(60) DEF RtpTypeOK, stap
  <2>6. PayloadInBuffer'
    <3>1. datagram.len \in Nat /\ size \in Nat
      BY HeaderLemma, ZenonT(60) DEF RtpTypeOK
    <3> QED
      BY <2>2, <2>3, <2>4, <3>1, SMTT(60) DEF PayloadInBuffer
  <2> QED
    BY <2>3, <2>4, <2>5, <2>6, ZenonT(60)
    DEF NothingReadYet, IdleInv, StapInv, UnitsInv, ReadsInBounds
<1>3. CASE Depacketize
  <2> DEFINE n == rtp.payload_size
  <2>1. n \in Nat /\ UNCHANGED <<datagram, size, rtp>>
    BY <1>3, ZenonT(60) DEF Depacketize, RtpTypeOK
  <2>2. RtpTypeOK'
    <3>1. offsets' \in Seq(Nat)
      <4>1. offsets' \in {offsets, <<>>, <<0, n + 2>>}
        BY <1>3, ZenonT(60) DEF Depacketize, kLengthFieldSize
      <4> QED
        <5> HIDE DEF n
        <5>1. CASE offsets' = offsets
          BY <5>1, ZenonT(60) DEF RtpTypeOK
        <5>3. CASE offsets' = <<>>
          BY <5>3
        <5>2. CASE offsets' = <<0, n + 2>>
          BY <2>1, <5>2, SingleLemma, ZenonT(60)
        <5> QED
          BY <4>1, <5>1, <5>2, <5>3, ZenonT(60)
    <3>2. nalu_ptr' \in Nat /\ length_remaining' \in Nat /\ offset' \in Nat
      <4>1. \/ UNCHANGED stap
            \/ /\ ~(n <= kStapAHeaderSize)
               /\ nalu_ptr' = 1 /\ length_remaining' = n - 1
               /\ offset' = 0
        BY <1>3, ZenonT(60) DEF Depacketize
      <4>2. CASE UNCHANGED stap
        BY <4>2, ZenonT(60) DEF stap, RtpTypeOK
      <4>3. CASE ~UNCHANGED stap
        <5> HIDE DEF n
        <5> QED
          BY <2>1, <4>1, <4>3, SMTT(60) DEF kStapAHeaderSize
      <4> QED
        BY <4>2, <4>3, ZenonT(60)
    <3>3. /\ i' \in Nat \ {0} /\ reads' \subseteq Nat
          /\ stage' \in {"done", "stapA", "units"}
          /\ result' \in {"none", "parsed", "nullopt"}
      BY <1>3, SMTT(60) DEF Depacketize, Return, RtpTypeOK
    <3> QED
      BY <2>1, <3>1, <3>2, <3>3, ZenonT(60) DEF RtpTypeOK
  <2>3. PayloadInBuffer' /\ NothingReadYet' /\ IdleInv'
    BY <1>3, <2>1, ZenonT(60) DEF Depacketize, Return, PayloadInBuffer, NothingReadYet, IdleInv
  <2>4. StapInv'
    BY <1>3, <2>1, SMTT(60) DEF Depacketize, Return, StapInv, Apart, kStapAHeaderSize
  <2>5. UnitsInv'
    <3>1. stage' = "units" => n # 0 /\ offsets' = <<0, n + 2>>
      BY <1>3, ZenonT(60) DEF Depacketize, Return, kLengthFieldSize
    <3> QED
      <4>1. CASE stage' = "units"
        <5>1. n > 0
          BY <2>1, <3>1, <4>1, SMTT(60)
        <5>2. /\ Apart(offsets')
              /\ \A k \in 1 .. Len(offsets') : offsets'[k] <= n + kLengthFieldSize
          <6> HIDE DEF n
          <6> QED
            BY <2>1, <3>1, <4>1, SingleLemma, ZenonT(60)
        <5> QED
          BY <2>1, <5>1, <5>2, ZenonT(60) DEF UnitsInv, Apart
      <4>2. CASE stage' # "units"
        BY <4>2, ZenonT(60) DEF UnitsInv
      <4> QED
        BY <4>1, <4>2, ZenonT(60)
  <2>6. reads' \subseteq 0 .. n - 1
    BY <1>3, <2>1 DEF Depacketize, kFuAHeaderSize
  <2>7. ReadsInBounds'
    BY <2>1, <2>6, SMTT(60) DEF ReadsInBounds, PayloadInBuffer, RtpTypeOK
  <2> QED
    BY <2>2, <2>3, <2>4, <2>5, <2>7, ZenonT(60)
<1>4. CASE ParseStapAStartOffsets
  <2> DEFINE z == datagram.word[nalu_ptr]
  <2>1. UNCHANGED <<datagram, size, rtp, i>> /\ stage = "stapA" /\ length_remaining > 0
    BY <1>4, ZenonT(60) DEF ParseStapAStartOffsets, TakeUnit
  <2>2. /\ rtp.payload_size \in Nat /\ rtp.payload_size > kStapAHeaderSize
        /\ nalu_ptr = offset + 1 /\ nalu_ptr + length_remaining = rtp.payload_size
    BY <2>1, ZenonT(60) DEF StapInv, RtpTypeOK
  <2>3. z \in Nat
    <3>1. datagram.len \in Nat
      BY HeaderLemma, ZenonT(60) DEF RtpTypeOK
    <3>2. nalu_ptr \in 0 .. datagram.len - 12
      BY <2>1, <2>2, <3>1, SMTT(60)
      DEF RtpTypeOK, PayloadInBuffer, kFixedHeaderSize, kStapAHeaderSize
    <3> QED
      BY <3>2, WordLemma, ZenonT(60) DEF RtpTypeOK
  <2>4. CASE Return("nullopt") /\ reads' = {} /\ UNCHANGED <<stap, offsets>>
    BY <2>1, <2>4, ZenonT(60) DEF Return, stap, RtpTypeOK, PayloadInBuffer, NothingReadYet,
       IdleInv,
                      StapInv, UnitsInv, ReadsInBounds
  <2>5. reads' = {nalu_ptr, nalu_ptr + 1} /\ length_remaining >= 2 => ReadsInBounds'
    BY <2>1, <2>2, SMTT(60) DEF ReadsInBounds, PayloadInBuffer, RtpTypeOK, kStapAHeaderSize
  <2>6. CASE /\ Return("nullopt") /\ UNCHANGED <<stap, offsets>>
             /\ reads' = {nalu_ptr, nalu_ptr + 1} /\ length_remaining >= 2
    BY <2>1, <2>5, <2>6, SMTT(60) DEF Return, stap, RtpTypeOK, PayloadInBuffer, NothingReadYet,
                            IdleInv, StapInv, UnitsInv
  <2>7. CASE /\ reads' = {nalu_ptr, nalu_ptr + 1} /\ length_remaining >= 2
             /\ UnitFits(z)
             /\ nalu_ptr' = nalu_ptr + 2 + z
             /\ length_remaining' = length_remaining - 2 - z
             /\ offsets' = Append(offsets, UnitStart)
             /\ offset' = offset + kLengthFieldSize + z
             /\ UNCHANGED <<stage, result>>
    <3> HIDE DEF z
    <3>1. UnitStart = offset + 3 /\ UnitStart \in Nat /\ offset' = offset + 2 + z
      BY <2>7, SMTT(60) DEF UnitStart, kStapAHeaderSize, kLengthFieldSize, RtpTypeOK
    <3>2. /\ offsets \in Seq(Nat) /\ Apart(offsets)
          /\ \A k \in 1 .. Len(offsets) : offsets[k] <= offset + 1
      BY <2>1, ZenonT(60) DEF StapInv, RtpTypeOK
    <3>3. \A k \in 1 .. Len(offsets) : offsets[k] + kLengthFieldSize <= UnitStart
      <4>1. offset \in Nat /\ \A k \in 1 .. Len(offsets) : offsets[k] \in Nat
        BY <3>2, SMTT(60) DEF RtpTypeOK
      <4> QED
        BY <3>1, <3>2, <4>1, SMTT(60) DEF kLengthFieldSize
    <3>4. /\ offsets' \in Seq(Nat) /\ Apart(offsets')
          /\ \A k \in 1 .. Len(offsets') : offsets'[k] <= UnitStart
      BY <2>7, <3>1, <3>2, <3>3, ApartLemma, ZenonT(60)
    <3>5. \A k \in 1 .. Len(offsets') : offsets'[k] <= offset' + 1
      <4>1. offset' + 1 \in Nat /\ UnitStart <= offset' + 1
        BY <2>3, <3>1, SMTT(60) DEF RtpTypeOK
      <4>2. \A k \in 1 .. Len(offsets') : offsets'[k] \in Nat
        BY <3>4, SMTT(60)
      <4> QED
        BY <3>1, <3>4, <4>1, <4>2, SMTT(60)
    <3>6. nalu_ptr' \in Nat /\ length_remaining' \in Nat /\ offset' \in Nat
      BY <2>3, <2>7, <3>1, SMTT(60) DEF UnitFits, RtpTypeOK
    <3>7. nalu_ptr' = offset' + 1 /\ nalu_ptr' + length_remaining' = rtp.payload_size
      <4>1. nalu_ptr \in Nat /\ length_remaining \in Nat /\ offset \in Nat
        BY ZenonT(60) DEF RtpTypeOK
      <4> QED
        BY <2>2, <2>3, <2>7, <3>1, <4>1, SMTT(60)
    <3>8. RtpTypeOK'
      BY <2>1, <2>7, <3>4, <3>6 DEF RtpTypeOK
    <3>9. StapInv'
      BY <2>1, <2>2, <2>7, <3>4, <3>5, <3>7, ZenonT(60) DEF StapInv, Apart
    <3> QED
      BY <2>1, <2>5, <2>7, <3>8, <3>9, ZenonT(60) DEF PayloadInBuffer, NothingReadYet, IdleInv,
         UnitsInv
  <2> QED
    BY <1>4, <2>1, <2>4, <2>6, <2>7, SMTT(60) DEF ParseStapAStartOffsets, TakeUnit, RtpTypeOK
<1>5. CASE StapAEnd
  <2> DEFINE e == rtp.payload_size + kLengthFieldSize
  <2>1. /\ UNCHANGED <<datagram, size, rtp, stap, result>> /\ stage' = "units"
        /\ stage = "stapA" /\ length_remaining = 0 /\ i' = 1
        /\ reads' = {kStapAHeaderSize} /\ offsets' = Append(offsets, e)
    BY <1>5, ZenonT(60) DEF StapAEnd
  <2>2. /\ rtp.payload_size \in Nat /\ rtp.payload_size > kStapAHeaderSize
        /\ offset + 1 = rtp.payload_size
        /\ offsets \in Seq(Nat) /\ Apart(offsets)
        /\ \A k \in 1 .. Len(offsets) : offsets[k] <= rtp.payload_size
    BY <2>1, SMTT(60) DEF StapInv, RtpTypeOK
  <2>3. e \in Nat /\ \A k \in 1 .. Len(offsets) : offsets[k] + kLengthFieldSize <= e
    BY <2>2, SMTT(60) DEF kLengthFieldSize
  <2>4. /\ offsets' \in Seq(Nat) /\ Apart(offsets')
        /\ \A k \in 1 .. Len(offsets') : offsets'[k] <= e
    <3> HIDE DEF e
    <3> QED
      BY <2>1, <2>2, <2>3, ApartLemma, ZenonT(60)
  <2>6. UnitsInv'
    BY <2>1, <2>2, <2>4, SMTT(60) DEF UnitsInv, Apart, kStapAHeaderSize
  <2>7. ReadsInBounds'
    BY <2>1, <2>2, SMTT(60) DEF ReadsInBounds, PayloadInBuffer, RtpTypeOK, kStapAHeaderSize
  <2>8. RtpTypeOK'
    BY <2>1, <2>4, SMTT(60) DEF RtpTypeOK, stap, kStapAHeaderSize
  <2> QED
    BY <2>1, <2>6, <2>7, <2>8, ZenonT(60) DEF PayloadInBuffer, NothingReadYet, IdleInv, StapInv
<1>6. CASE ProcessUnit
  <2>1. /\ UNCHANGED <<datagram, size, rtp, stap, offsets>>
        /\ stage = "units" /\ i < Len(offsets) /\ i \in Nat \ {0}
        /\ offsets \in Seq(Nat) /\ rtp.payload_size \in Nat
    BY <1>6, ZenonT(60) DEF ProcessUnit, RtpTypeOK
  <2>2. /\ offsets[i] \in Nat /\ offsets[i + 1] \in Nat
        /\ offsets[i] + kLengthFieldSize <= offsets[i + 1]
        /\ offsets[i + 1] <= rtp.payload_size + kLengthFieldSize
    BY <2>1, SMTT(60) DEF UnitsInv, Apart
  <2>3. \/ reads' = {}
        \/ reads' = {offsets[i]} /\ offsets[i + 1] - kLengthFieldSize # offsets[i]
    BY <1>6, ZenonT(60) DEF ProcessUnit, IsEmptyUnit
  <2>4. reads' \subseteq 0 .. rtp.payload_size - 1
    <3>1. CASE reads' = {}
      BY <3>1, ZenonT(60)
    <3>2. CASE reads' = {offsets[i]} /\ offsets[i + 1] - kLengthFieldSize # offsets[i]
      <4>1. offsets[i] \in 0 .. rtp.payload_size - 1
        BY <2>1, <2>2, <3>2, UnitLemma, ZenonT(60)
      <4> QED
        BY <3>2, <4>1, ZenonT(60)
    <3> QED
      BY <2>3, <3>1, <3>2, ZenonT(60)
  <2>5. ReadsInBounds'
    BY <2>1, <2>4, SMTT(60) DEF ReadsInBounds, PayloadInBuffer, RtpTypeOK
  <2>6. /\ \/ stage' = "done" /\ result' = "nullopt" /\ i' = i
           \/ stage' = stage /\ result' = result /\ i' = i + 1
    BY <1>6, ZenonT(60) DEF ProcessUnit, Return
  <2>7. RtpTypeOK'
    BY <2>1, <2>4, <2>6, SMTT(60) DEF RtpTypeOK, stap
  <2> QED
    BY <2>1, <2>5, <2>6, <2>7, ZenonT(60)
    DEF PayloadInBuffer, NothingReadYet, IdleInv, StapInv, UnitsInv, Apart
<1>7. CASE UnitsEnd
  BY <1>7, ZenonT(60) DEF UnitsEnd, Return, stap, RtpTypeOK, PayloadInBuffer, NothingReadYet,
     IdleInv,
              StapInv, UnitsInv, ReadsInBounds
<1>8. CASE Discard
  BY <1>8, BlankLemma, SMTT(60)
  DEF Discard, RtpTypeOK, PayloadInBuffer, NothingReadYet, IdleInv, StapInv, UnitsInv,
      ReadsInBounds, NewRtpPacket
<1>9. CASE UNCHANGED vars
  BY <1>9, ZenonT(60) DEF vars, stap, RtpTypeOK, PayloadInBuffer, NothingReadYet, IdleInv,
     StapInv,
              UnitsInv, ReadsInBounds, Apart
<1> QED
  BY <1>1, <1>2, <1>3, <1>4, <1>5, <1>6, <1>7, <1>8, <1>9, ZenonT(60) DEF Next, Step

----------------------------------------------------------------------------
(* The inductive invariant holds of the media path. *)
THEOREM RtpInvariance == Spec => []RtpInv
BY RtpInit, RtpStep, PTL DEF Spec

(* The media path is type correct: in particular the remaining length of   *)
(* ParseStapAStartOffsets, unsigned in the code, never falls below zero.   *)
THEOREM RtpTyped == Spec => []RtpTypeOK
<1>1. RtpInv => RtpTypeOK
  BY ZenonT(60) DEF RtpInv
<1> QED
  BY <1>1, RtpInvariance, PTL

(* Whatever a datagram claims about its extension, its padding and its     *)
(* units, the depacketizer reads bytes of the copied payload only.         *)
THEOREM RtpReadsInBounds == Spec => []ReadsInBounds
<1>1. RtpInv => ReadsInBounds
  BY ZenonT(60) DEF RtpInv
<1> QED
  BY <1>1, RtpInvariance, PTL

(* Every datagram belongs to at most one of STUN, DTLS, RTCP and RTP.      *)
THEOREM RtpDemuxExclusive == Spec => []DemuxExclusive
<1>1. RtpInv => DemuxExclusive
  BY DemuxLemma, ZenonT(60) DEF RtpInv, RtpTypeOK
<1> QED
  BY <1>1, RtpInvariance, PTL

----------------------------------------------------------------------------
(* How a packet is laid out.                                               *)

(* Media is of version 2, and DecryptSrtp leaves its fixed header. *)
MediaInv == stage = "media" => datagram.b0 \div 64 = 2 /\ size >= kFixedHeaderSize

LayoutInv == MediaInv /\ PacketPartitioned

(* PacketPartitioned, of a packet r that was parsed from n bytes. *)
Partitioned(d, n, r) ==
  LET header == 12 + 4 * (d.b0 % 16) + (IF HasExtension(d) THEN 4 * (d.extWords + 1) ELSE 0)
  IN \/ /\ r.buffer = 0 /\ r.payload_size = 0
        /\ \/ header > n
           \/ HasPadding(d) /\ header < n /\ (d.last = 0 \/ header + d.last > n)
     \/ /\ r.buffer = n /\ r.payload_offset = header
        /\ r.payload_offset + r.payload_size + r.padding_size = n
        /\ HasPadding(d) /\ header < n => r.padding_size > 0

(* Parse accepts the layout, and nothing else. *)
LEMMA ParsePartitions ==
  ASSUME NEW d, IsDatagram(d), NEW n \in Nat, n >= kFixedHeaderSize, d.b0 \div 64 = 2,
         NEW offs \in Nat, NEW pad \in Nat, NEW pay \in Nat
  PROVE  Partitioned(d, n, Parse(d, n, NewRtpPacket(offs, pad, pay)))
<1> DEFINE header == 12 + 4 * (d.b0 % 16)
                     + (IF HasExtension(d) THEN 4 * (d.extWords + 1) ELSE 0)
<1>1. d.b0 \in Nat /\ d.extWords \in Nat /\ d.last \in Nat
  BY HeaderLemma, ZenonT(60)
<1>2. /\ CsrcEnd(d) \in Nat /\ header \in Nat /\ PayloadOffset(d) = header
      /\ CsrcEnd(d) <= header /\ (HasExtension(d) => CsrcEnd(d) + 4 <= header)
  BY <1>1 DEF CsrcEnd, PayloadOffset, kFixedHeaderSize
<1>3. PaddingSize(d, n) = IF HasPadding(d) /\ header < n THEN d.last ELSE 0
  BY <1>2, ZenonT(60) DEF PaddingSize
<1> HIDE DEF header
<1>4. CASE ParseBufferOk(d, n)
  <2>1. /\ HasPadding(d) /\ header < n => PaddingSize(d, n) # 0
        /\ header + PaddingSize(d, n) <= n
    BY <1>2, <1>4, ZenonT(60) DEF ParseBufferOk
  <2>2. Parse(d, n, NewRtpPacket(offs, pad, pay)) =
          [payload_offset |-> header, padding_size |-> PaddingSize(d, n),
           payload_size |-> n - header - PaddingSize(d, n), buffer |-> n]
    BY <1>2, <1>4, ZenonT(60) DEF Parse
  <2>3. PaddingSize(d, n) \in Nat
    BY <1>1, <1>3, SMTT(60)
  <2>4. QED
    BY <1>2, <2>1, <2>2, <2>3 DEF Partitioned, header
<1>5. CASE ~ParseBufferOk(d, n)
  <2>1. Parse(d, n, NewRtpPacket(offs, pad, pay)) =
          [payload_offset |-> 12, padding_size |-> 0, payload_size |-> 0, buffer |-> 0]
    BY <1>5, ZenonT(60) DEF Parse, Clear, NewRtpPacket, kFixedHeaderSize
  <2>2. header > n \/ (HasPadding(d) /\ header < n /\ (d.last = 0 \/ header + d.last > n))
    <3>1. SUFFICES ASSUME header <= n,
                          HasPadding(d) /\ header < n => d.last # 0 /\ header + d.last <= n
                   PROVE  ParseBufferOk(d, n)
      BY <1>1, <1>2, <1>5
    <3>2. /\ HasPadding(d) /\ header < n => PaddingSize(d, n) # 0
          /\ header + PaddingSize(d, n) <= n
      BY <1>2, <1>3, <3>1
    <3>3. n >= CsrcEnd(d) /\ (HasExtension(d) => CsrcEnd(d) + 4 <= n)
      BY <1>2, <3>1
    <3>4. QED
      BY <1>2, <3>1, <3>2, <3>3, ZenonT(60) DEF ParseBufferOk
  <2>3. QED
    BY <2>1, <2>2 DEF Partitioned, header
<1>6. QED
  BY <1>4, <1>5, ZenonT(60)

(* DecryptSrtp leaves the fixed header of RTP. *)
LEMMA MediaLemma ==
  ASSUME NEW d, IsDatagram(d), IsRtpPacket(d), NEW n \in DecryptedLengths(d.len)
  PROVE  d.b0 \div 64 = 2 /\ n >= kFixedHeaderSize
<1>1. d.len \in Nat /\ d.len >= 12 /\ d.b0 \div 64 = 2
  BY HeaderLemma, ZenonT(60) DEF IsRtpPacket, HasCorrectRtpVersion
<1>2. QED
  BY <1>1, ZenonT(60) DEF DecryptedLengths, kFixedHeaderSize

(* What Parse left in the packet stays its layout until the next one. *)
LEMMA LayoutStep == RtpInv /\ LayoutInv /\ [Next]_vars => LayoutInv'
<1> SUFFICES ASSUME RtpInv, LayoutInv, [Next]_vars PROVE LayoutInv'
  OBVIOUS
<1>1. CASE OnInputDataPacket
  <2>1. PICK d \in Received :
          /\ datagram' = d
          /\ \/ stage' = "media" /\ IsRtpPacket(d) /\ size' \in DecryptedLengths(d.len)
             \/ stage' = "other"
    BY <1>1, ZenonT(60) DEF OnInputDataPacket
  <2>2. IsDatagram(d)
    BY ReceivedAssumption, ZenonT(60)
  <2>3. stage' = "media" => d.b0 \div 64 = 2 /\ size' >= kFixedHeaderSize
    BY <2>1, <2>2, MediaLemma, ZenonT(60)
  <2>4. QED
    BY <2>1, <2>3, ZenonT(60) DEF LayoutInv, MediaInv, PacketPartitioned
<1>2. CASE OnRTP
  <2>1. /\ UNCHANGED <<datagram, size>> /\ stage = "media" /\ stage' = "depacketize"
        /\ IsDatagram(datagram) /\ size \in Nat
    BY <1>2, ZenonT(60) DEF OnRTP, RtpInv, RtpTypeOK
  <2>2. PICK offs \in Nat, pad \in Nat, pay \in Nat :
          rtp' = Parse(datagram, size, NewRtpPacket(offs, pad, pay))
    BY <1>2, UninitializedAssumption, ZenonT(60) DEF OnRTP
  <2>3. Partitioned(datagram, size, rtp')
    BY <2>1, <2>2, ParsePartitions, ZenonT(60) DEF LayoutInv, MediaInv
  <2>4. PacketPartitioned'
    BY <2>1, <2>3, ZenonT(60) DEF PacketPartitioned, Partitioned, HasExtension, HasPadding
  <2>5. QED
    BY <2>1, <2>4, ZenonT(60) DEF LayoutInv, MediaInv
<1>3. CASE /\ UNCHANGED <<datagram, size, rtp>>
           /\ stage' = "media" => stage = "media"
           /\ stage' \in {"depacketize", "stapA", "units", "done"} =>
                stage \in {"depacketize", "stapA", "units", "done"}
  BY <1>3, ZenonT(60) DEF LayoutInv, MediaInv, PacketPartitioned, HasExtension, HasPadding
<1>4. CASE Discard
  BY <1>4, ZenonT(60) DEF Discard, LayoutInv, MediaInv, PacketPartitioned
<1>5. CASE Depacketize \/ ParseStapAStartOffsets \/ StapAEnd \/ ProcessUnit \/ UnitsEnd
  <2>1. UNCHANGED <<datagram, size, rtp>> /\ stage \in {"depacketize", "stapA", "units"}
    BY <1>5, ZenonT(60) DEF Depacketize, ParseStapAStartOffsets, TakeUnit, StapAEnd, ProcessUnit,
                            UnitsEnd
  <2>2. stage' \in {stage, "stapA", "units", "done"}
    BY <1>5, ZenonT(60) DEF Depacketize, ParseStapAStartOffsets, TakeUnit, StapAEnd, ProcessUnit,
       UnitsEnd, Return
  <2>3. QED
    BY <1>3, <2>1, <2>2, ZenonT(60)
<1>6. CASE UNCHANGED vars
  BY <1>3, <1>6, ZenonT(60) DEF vars
<1>7. QED
  BY <1>1, <1>2, <1>4, <1>5, <1>6, ZenonT(60) DEF Next, Step

(* RtpPacket::Parse accepts exactly RFC 3550's layout of what DecryptSrtp  *)
(* left of a datagram, whatever its extension and padding claim and        *)
(* whatever the members of a new RtpPacket hold; what it refuses has no    *)
(* payload.                                                                *)
THEOREM RtpPacketPartitioned == Spec => []PacketPartitioned
<1>1. Init => LayoutInv
  BY ZenonT(60) DEF Init, LayoutInv, MediaInv, PacketPartitioned
<1>2. LayoutInv => PacketPartitioned
  BY ZenonT(60) DEF LayoutInv
<1>3. QED
  BY <1>1, <1>2, LayoutStep, RtpInvariance, PTL DEF Spec

----------------------------------------------------------------------------
(* Which payloads are accepted.                                            *)

(* Each offset is where the unit before it ends, past a length field. *)
Chained(d, s) == \A k \in 1 .. Len(s) - 1 : s[k + 1] = s[k] + d.word[s[k] - 2] + 2

(* The length fields lie in every set of positions that splits the         *)
(* payload: there is at most one way to split it.                          *)
OnEverySplit(d, n, s) ==
  \A S \in SUBSET (1 .. n - 1) :
    Splits(d, n, S) => \A k \in 1 .. Len(s) : s[k] - 2 \in S \cup {n}

(* Offsets the first loop may have found. *)
Walk(d, n, s) ==
  /\ s \in Seq(Nat) /\ s # <<>> /\ s[1] = 3
  /\ \A k \in 1 .. Len(s) : s[k] >= 3
  /\ Chained(d, s) /\ OnEverySplit(d, n, s)

(* A unit that the second loop lets pass. *)
IsUnit(d, s, k) == s[k + 1] - 2 # s[k] /\ d.type[s[k]] \notin {kStapA, kFuA}

(* The offsets of an aggregate whose last unit ends with the payload. *)
Walked ==
  /\ Walk(datagram, rtp.payload_size, offsets)
  /\ offsets[Len(offsets)] = rtp.payload_size + 2 /\ rtp.payload_size > 3

(* The first loop has the offsets of the units before nalu_ptr; the second *)
(* those of all units, and has let the first i - 1 pass.                   *)
WalkInv ==
  /\ stage = "stapA" =>
       /\ datagram.type[0] = kStapA
       /\ Walk(datagram, rtp.payload_size, Append(offsets, nalu_ptr + 2))
  /\ stage = "units" =>
       \/ datagram.type[0] \notin {kStapA, kFuA} /\ offsets = <<0, rtp.payload_size + 2>>
       \/ /\ datagram.type[0] = kStapA /\ Walked
          /\ i <= Len(offsets) /\ \A k \in 1 .. i - 1 : IsUnit(datagram, offsets, k)
  /\ AcceptsUnits

(* The first length field. *)
LEMMA WalkStarts ==
  ASSUME NEW d, NEW n \in Nat
  PROVE  Walk(d, n, Append(<<>>, 3))
<1>1. /\ Append(<<>>, 3) \in Seq(Nat) /\ Append(<<>>, 3) # <<>>
      /\ Len(Append(<<>>, 3)) = 1 /\ Append(<<>>, 3)[1] = 3
  OBVIOUS
<1>2. \A k \in 1 .. Len(Append(<<>>, 3)) : k = 1
  BY <1>1
<1>3. Chained(d, Append(<<>>, 3))
  BY <1>1 DEF Chained
<1>4. OnEverySplit(d, n, Append(<<>>, 3))
  BY <1>1, <1>2 DEF OnEverySplit, Splits
<1>5. QED
  BY <1>1, <1>2, <1>3, <1>4 DEF Walk

(* One more unit, at length field p. *)
LEMMA WalkGoesOn ==
  ASSUME NEW d, NEW n \in Nat, NEW s, NEW p \in Nat, s \in Seq(Nat),
         Walk(d, n, Append(s, p + 2)), p < n, d.word[p] \in Nat
  PROVE  Walk(d, n, Append(Append(s, p + 2), p + 2 + d.word[p] + 2))
<1> DEFINE t == Append(s, p + 2)
           e == p + 2 + d.word[p] + 2
           u == Append(t, e)
<1>1. t \in Seq(Nat) /\ Len(t) = Len(s) + 1 /\ Len(s) \in Nat /\ t[Len(t)] = p + 2
  OBVIOUS
<1>2. e \in Nat /\ e >= 3
  BY SMTT(60)
<1>3. Walk(d, n, t)
  OBVIOUS
<1>4. e = t[Len(t)] + d.word[t[Len(t)] - 2] + 2 /\ e - 2 = p + 2 + d.word[p]
  <2>1. t[Len(t)] - 2 = p
    BY <1>1
  <2>2. QED
    BY <1>1, <2>1
<1> HIDE DEF t, e
<1>5. /\ u \in Seq(Nat) /\ Len(u) = Len(t) + 1 /\ u[Len(t) + 1] = e
      /\ \A k \in 1 .. Len(t) : u[k] = t[k]
  BY <1>1, <1>2, SMTT(60)
<1> HIDE DEF u
<1>6. \A k \in 1 .. Len(u) : k \in 1 .. Len(t) \/ k = Len(t) + 1
  BY <1>1, <1>5, SMTT(60)
<1>7. u # <<>> /\ u[1] = 3 /\ \A k \in 1 .. Len(u) : u[k] >= 3
  <2>1. 1 \in 1 .. Len(t) /\ t[1] = 3 /\ \A k \in 1 .. Len(t) : t[k] >= 3
    BY <1>1, <1>3 DEF Walk
  <2>2. u # <<>>
    BY <1>1, <1>5
  <2>3. u[1] = 3
    BY <1>5, <2>1, ZenonT(60)
  <2>4. \A k \in 1 .. Len(u) : u[k] >= 3
    BY <1>2, <1>5, <1>6, <2>1, ZenonT(60)
  <2>5. QED
    BY <2>2, <2>3, <2>4, ZenonT(60)
<1>8. Chained(d, u)
  <2> SUFFICES ASSUME NEW k \in 1 .. Len(u) - 1
               PROVE  u[k + 1] = u[k] + d.word[u[k] - 2] + 2
    BY ZenonT(60) DEF Chained
  <2>1. CASE k \in 1 .. Len(t) - 1
    <3>1. k \in 1 .. Len(t) /\ k + 1 \in 1 .. Len(t)
      BY <1>1, <2>1, SMTT(60)
    <3>2. t[k + 1] = t[k] + d.word[t[k] - 2] + 2
      BY <1>3, <2>1, ZenonT(60) DEF Walk, Chained
    <3>3. QED
      BY <1>5, <3>1, <3>2, ZenonT(60)
  <2>2. CASE k = Len(t)
    <3>1. u[k] = t[Len(t)] /\ u[k + 1] = e
      <4>1. Len(t) \in 1 .. Len(t)
        BY <1>1
      <4>2. QED
        BY <1>5, <2>2, <4>1, ZenonT(60)
    <3>2. QED
      BY <1>4, <3>1, ZenonT(60)
  <2>3. QED
    BY <1>1, <1>5, <2>1, <2>2, SMTT(60)
<1>9. OnEverySplit(d, n, u)
  <2> SUFFICES ASSUME NEW S \in SUBSET (1 .. n - 1), Splits(d, n, S), NEW k \in 1 .. Len(u)
               PROVE  u[k] - 2 \in S \cup {n}
    BY ZenonT(60) DEF OnEverySplit
  <2>1. \A j \in 1 .. Len(t) : t[j] - 2 \in S \cup {n}
    BY <1>3, ZenonT(60) DEF Walk, OnEverySplit
  <2>2. p \in S
    <3>1. t[Len(t)] - 2 = p
      BY <1>1
    <3>2. Len(t) \in 1 .. Len(t)
      BY <1>1
    <3>3. p \in S \cup {n}
      BY <2>1, <3>1, <3>2, ZenonT(60)
    <3>4. QED
      BY <3>3
  <2>3. e - 2 \in S \cup {n}
    BY <1>4, <2>2, ZenonT(60) DEF Splits
  <2>4. QED
    BY <1>5, <1>6, <2>1, <2>3, ZenonT(60)
<1>10. QED
  BY <1>5, <1>7, <1>8, <1>9, ZenonT(60) DEF Walk, u, t, e

(* A payload with a length field that does not lead to another, or to the  *)
(* end, cannot be split.                                                   *)
LEMMA NoSplit ==
  ASSUME NEW d, NEW n \in Nat, NEW s \in Seq(Nat), NEW k \in 1 .. Len(s), NEW p \in Nat,
         OnEverySplit(d, n, s), s[k] = p + 2, p < n, d.word[p] \in Nat,
         p + 2 + d.word[p] > n \/ d.word[p] = 0 \/ d.type[p + 2] \in {kStapA, kFuA}
  PROVE  ~\E S \in SUBSET (1 .. n - 1) : Splits(d, n, S)
<1> SUFFICES ASSUME NEW S \in SUBSET (1 .. n - 1), Splits(d, n, S) PROVE FALSE
  OBVIOUS
<1>1. s[k] - 2 \in S \cup {n}
  BY ZenonT(60) DEF OnEverySplit
<1>2. p \in S
  BY <1>1
<1>3. d.word[p] > 0 /\ d.type[p + 2] \notin {kStapA, kFuA} /\ p + 2 + d.word[p] \in S \cup {n}
  BY <1>2, ZenonT(60) DEF Splits
<1>4. p + 2 + d.word[p] <= n
  BY <1>3, SMTT(60)
<1>5. QED
  BY <1>3, <1>4, SMTT(60)

(* No offset is past m; every unit passes; every length field is known. *)
AtMost(s, m) == \A k \in 1 .. Len(s) : s[k] <= m
AllUnits(d, s) == \A k \in 1 .. Len(s) - 1 : IsUnit(d, s, k)
HasWords(d, n) == \A o \in 0 .. n - 1 : d.word[o] \in Nat

(* A unit of w bytes from a, when the next begins at b. *)
LEMMA NextLemma ==
  ASSUME NEW a \in Nat, NEW b \in Nat, NEW w \in Nat, NEW n \in Nat,
         a + 2 <= b, b <= n + 2, b = a + w + 2, b - 2 # a
  PROVE  a < n /\ w > 0 /\ a + w = b - 2
  OBVIOUS

(* The length field of a unit that begins at a. *)
LEMMA FieldLemma ==
  ASSUME NEW a \in Nat, NEW b \in Nat, NEW n \in Nat, a >= 3, a + 2 <= b, b <= n + 2
  PROVE  a - 2 \in 0 .. n - 1 /\ a = (a - 2) + 2
  OBVIOUS

(* Two successive offsets, and the length field between them. *)
Pair(d, n, s, k) ==
  /\ s[k] \in Nat /\ s[k + 1] \in Nat /\ s[k] >= 3
  /\ s[k] + 2 <= s[k + 1] /\ s[k + 1] <= n + 2
  /\ s[k] - 2 \in 0 .. n - 1 /\ s[k] = (s[k] - 2) + 2
  /\ s[k + 1] = s[k] + d.word[s[k] - 2] + 2

(* Two successive offsets of a walk are such a pair. *)
LEMMA WalkPair ==
  ASSUME NEW d, NEW n \in Nat, NEW s, Walk(d, n, s), Apart(s), AtMost(s, n + 2),
         NEW k \in 1 .. Len(s) - 1
  PROVE  Pair(d, n, s, k)
<1>1. s \in Seq(Nat)
  BY DEF Walk
<1>2. k \in 1 .. Len(s) /\ k + 1 \in 1 .. Len(s)
  BY <1>1
<1>3. s[k] \in Nat /\ s[k + 1] \in Nat
  BY <1>1, <1>2, SMTT(60)
<1>4. s[k] + 2 <= s[k + 1] /\ s[k + 1] <= n + 2
  BY <1>2, ZenonT(60) DEF Apart, AtMost, kLengthFieldSize
<1>5. s[k] >= 3 /\ s[k + 1] = s[k] + d.word[s[k] - 2] + 2
  BY <1>2, ZenonT(60) DEF Walk, Chained
<1>6. s[k] - 2 \in 0 .. n - 1 /\ s[k] = (s[k] - 2) + 2
  BY <1>3, <1>4, <1>5, FieldLemma, ZenonT(60)
<1>7. QED
  BY <1>3, <1>4, <1>5, <1>6, ZenonT(60) DEF Pair

(* Offsets that both loops accept split the payload. *)
LEMMA WalkSplits ==
  ASSUME NEW d, NEW n \in Nat, n > 3, NEW s, Walk(d, n, s), Apart(s), AtMost(s, n + 2),
         s[Len(s)] = n + 2, AllUnits(d, s), HasWords(d, n)
  PROVE  \E S \in SUBSET (1 .. n - 1) : Splits(d, n, S)
<1> DEFINE S == {s[k] - 2 : k \in 1 .. Len(s) - 1}
<1>1. s \in Seq(Nat) /\ Len(s) \in Nat /\ Len(s) >= 1 /\ s[1] = 3
  BY DEF Walk
<1>2. Len(s) > 1
  BY <1>1
<1>3. ASSUME NEW k \in 1 .. Len(s) - 1
      PROVE  /\ s[k] \in Nat /\ s[k] >= 3 /\ s[k] < n /\ d.word[s[k] - 2] > 0
             /\ d.type[s[k]] \notin {kStapA, kFuA} /\ s[k] = (s[k] - 2) + 2
             /\ s[k] + d.word[s[k] - 2] \in S \cup {n}
  <2>1. /\ s[k] \in Nat /\ s[k + 1] \in Nat /\ s[k] >= 3
        /\ s[k] + 2 <= s[k + 1] /\ s[k + 1] <= n + 2
        /\ s[k] - 2 \in 0 .. n - 1 /\ s[k] = (s[k] - 2) + 2
        /\ s[k + 1] = s[k] + d.word[s[k] - 2] + 2
    <3>1. Pair(d, n, s, k)
      BY WalkPair, ZenonT(60)
    <3>2. QED
      BY <3>1, ZenonT(60) DEF Pair
  <2>2. /\ s[k + 1] - 2 # s[k] /\ d.type[s[k]] \notin {kStapA, kFuA}
        /\ d.word[s[k] - 2] \in Nat
    BY <2>1, ZenonT(60) DEF AllUnits, IsUnit, HasWords
  <2>3. s[k + 1] - 2 \in S \cup {n}
    <3>1. k + 1 \in 1 .. Len(s) - 1 \/ k + 1 = Len(s)
      BY <1>1
    <3>2. CASE k + 1 \in 1 .. Len(s) - 1
      BY <3>2, ZenonT(60)
    <3>3. CASE k + 1 = Len(s)
      <4>1. s[k + 1] = n + 2
        BY <3>3, ZenonT(60)
      <4>2. (n + 2) - 2 = n
        OBVIOUS
      <4>3. QED
        BY <4>1, <4>2, ZenonT(60)
    <3>4. QED
      BY <3>1, <3>2, <3>3, ZenonT(60)
  <2> HIDE DEF S
  <2>4. /\ s[k] < n /\ d.word[s[k] - 2] > 0
        /\ s[k] + d.word[s[k] - 2] = s[k + 1] - 2
    <3> DEFINE a == s[k]
               b == s[k + 1]
               w == d.word[s[k] - 2]
    <3>1. /\ a \in Nat /\ b \in Nat /\ w \in Nat /\ a + 2 <= b /\ b <= n + 2
          /\ b = a + w + 2 /\ b - 2 # a
      BY <2>1, <2>2, ZenonT(60)
    <3> HIDE DEF a, b, w
    <3>2. a < n /\ w > 0 /\ a + w = b - 2
      BY <3>1, NextLemma
    <3>3. QED
      BY <3>2, ZenonT(60) DEF a, b, w
  <2>5. QED
    BY <2>1, <2>2, <2>3, <2>4, ZenonT(60)
<1>4. S \in SUBSET (1 .. n - 1)
  <2> SUFFICES ASSUME NEW k \in 1 .. Len(s) - 1 PROVE s[k] - 2 \in 1 .. n - 1
    BY ZenonT(60)
  <2>1. s[k] \in Nat /\ s[k] >= 3 /\ s[k] < n
    BY <1>3, ZenonT(60)
  <2> HIDE DEF S
  <2>2. QED
    BY <2>1, SMTT(60)
<1>5. 1 \in S
  BY <1>1, <1>2
<1>6. \A o \in S :
        /\ o + 2 < n /\ d.word[o] > 0
        /\ d.type[o + 2] \notin {kStapA, kFuA}
        /\ o + 2 + d.word[o] \in S \cup {n}
  <2> SUFFICES ASSUME NEW k \in 1 .. Len(s) - 1, NEW o, o = s[k] - 2
               PROVE  /\ o + 2 < n /\ d.word[o] > 0
                      /\ d.type[o + 2] \notin {kStapA, kFuA}
                      /\ o + 2 + d.word[o] \in S \cup {n}
    OBVIOUS
  <2> HIDE DEF S
  <2>1. QED
    BY <1>3, ZenonT(60)
<1> HIDE DEF S
<1>7. Splits(d, n, S)
  BY <1>5, <1>6, ZenonT(60) DEF Splits
<1>8. QED
  BY <1>4, <1>7, ZenonT(60)

(* The bytes of the payload are known. *)
LEMMA PayloadWord ==
  ASSUME RtpInv, NEW o \in Nat, o < rtp.payload_size
  PROVE  datagram.word[o] \in Nat
<1>1. /\ IsDatagram(datagram) /\ datagram.len \in Nat
      /\ rtp.payload_size \in Nat /\ rtp.payload_offset \in Nat /\ rtp.buffer \in Nat
  BY HeaderLemma, ZenonT(60) DEF RtpInv, RtpTypeOK
<1>2. rtp.payload_size > 0
  BY <1>1
<1>3. /\ rtp.payload_offset >= 12 /\ rtp.payload_offset + rtp.payload_size <= rtp.buffer
      /\ rtp.buffer <= datagram.len
  BY <1>2, ZenonT(60) DEF RtpInv, PayloadInBuffer, kFixedHeaderSize
<1>4. o \in 0 .. datagram.len - 12
  BY <1>1, <1>3
<1>5. QED
  BY <1>1, <1>4, WordLemma, ZenonT(60)

(* So every length field that begins in the payload is known. *)
LEMMA PayloadWords ==
  ASSUME RtpInv
  PROVE  HasWords(datagram, rtp.payload_size)
<1>1. rtp.payload_size \in Nat
  BY DEF RtpInv, RtpTypeOK
<1>2. \A o \in 0 .. rtp.payload_size - 1 : o \in Nat /\ o < rtp.payload_size
  BY <1>1
<1>3. QED
  BY <1>2, PayloadWord, ZenonT(60) DEF HasWords

(* The depacketizer has returned r, for a payload that cannot be accepted, *)
LEMMA Refused ==
  ASSUME Return("nullopt"), UNCHANGED <<datagram, rtp>>,
         ~WellFormedPayload(datagram, rtp.payload_size)
  PROVE  WalkInv'
<1>1. stage' = "done" /\ result' = "nullopt"
  BY ZenonT(60) DEF Return
<1>2. ~WellFormedPayload(datagram, rtp.payload_size)'
  BY ZenonT(60) DEF WellFormedPayload, Splits
<1>3. AcceptsUnits'
  BY <1>1, <1>2, ZenonT(60) DEF AcceptsUnits
<1>4. QED
  BY <1>1, <1>3, ZenonT(60) DEF WalkInv

(* or for one that can. *)
LEMMA Parsed ==
  ASSUME Return("parsed"), UNCHANGED <<datagram, rtp>>,
         WellFormedPayload(datagram, rtp.payload_size)
  PROVE  WalkInv'
<1>1. stage' = "done" /\ result' = "parsed"
  BY ZenonT(60) DEF Return
<1>2. WellFormedPayload(datagram, rtp.payload_size)'
  BY ZenonT(60) DEF WellFormedPayload, Splits
<1>3. AcceptsUnits'
  BY <1>1, <1>2, ZenonT(60) DEF AcceptsUnits
<1>4. QED
  BY <1>1, <1>3, ZenonT(60) DEF WalkInv

(* An aggregate that cannot be split. *)
LEMMA Unsplit ==
  ASSUME datagram.type[0] = kStapA,
         ~\E S \in SUBSET (1 .. rtp.payload_size - 1) : Splits(datagram, rtp.payload_size, S)
  PROVE  ~WellFormedPayload(datagram, rtp.payload_size)
  BY ZenonT(60) DEF WellFormedPayload

(* A payload too short for a unit, a single unit, a fragment. *)
LEMMA WalkDepacketize ==
  ASSUME RtpInv, WalkInv, Depacketize
  PROVE  WalkInv'
<1> DEFINE n == rtp.payload_size
<1>1. n \in Nat /\ UNCHANGED <<datagram, rtp>>
  BY ZenonT(60) DEF Depacketize, RtpInv, RtpTypeOK
<1>2. kStapA = 24 /\ kFuA = 28
  BY ZenonT(60) DEF kStapA, kFuA
<1>3. CASE n = 0
  <2>1. Return("nullopt")
    BY <1>3, ZenonT(60) DEF Depacketize
  <2>2. ~WellFormedPayload(datagram, n)
    BY <1>3 DEF WellFormedPayload
  <2>3. QED
    BY <1>1, <2>1, <2>2, Refused, ZenonT(60)
<1>4. CASE n # 0 /\ datagram.type[0] = kFuA
  <2>1. IF n < 2 THEN Return("nullopt") ELSE Return("parsed")
    BY <1>2, <1>4, SMTT(60) DEF Depacketize, kFuAHeaderSize
  <2>2. WellFormedPayload(datagram, n) <=> n >= 2
    BY <1>1, <1>2, <1>4 DEF WellFormedPayload
  <2>3. QED
    BY <1>1, <2>1, <2>2, Refused, Parsed, SMTT(60)
<1>5. CASE n # 0 /\ datagram.type[0] = kStapA
  <2>1. CASE n <= 3
    <3>1. Return("nullopt")
      BY <1>2, <1>5, <2>1, SMTT(60) DEF Depacketize, kStapAHeaderSize
    <3>2. ~\E S \in SUBSET (1 .. n - 1) : Splits(datagram, n, S)
      BY <1>1, <2>1 DEF Splits
    <3>3. QED
      BY <1>1, <1>5, <3>1, <3>2, Refused, Unsplit, ZenonT(60)
  <2>2. CASE ~(n <= 3)
    <3>1. stage' = "stapA" /\ nalu_ptr' = 1 /\ offsets' = <<>>
      BY <1>2, <1>5, <2>2 DEF Depacketize, kStapAHeaderSize
    <3>2. Append(offsets', nalu_ptr' + 2) = Append(<<>>, 3)
      BY <3>1
    <3>3. Walk(datagram, n, Append(offsets', nalu_ptr' + 2))
      BY <1>1, <3>2, WalkStarts, ZenonT(60)
    <3>4. Walk(datagram, rtp.payload_size, Append(offsets, nalu_ptr + 2))'
      BY <1>1, <3>3, ZenonT(60)
    <3>5. QED
      BY <1>1, <1>5, <3>1, <3>4, ZenonT(60) DEF WalkInv, AcceptsUnits
  <2>3. QED
    BY <2>1, <2>2, ZenonT(60)
<1>6. CASE n # 0 /\ datagram.type[0] \notin {kStapA, kFuA}
  <2>1. stage' = "units" /\ offsets' = <<0, n + 2>>
    BY <1>6, ZenonT(60) DEF Depacketize, kLengthFieldSize
  <2>2. QED
    BY <1>1, <1>6, <2>1, ZenonT(60) DEF WalkInv, AcceptsUnits
<1>7. QED
  BY <1>3, <1>4, <1>5, <1>6, ZenonT(60)

(* An iteration of the first loop. *)
LEMMA WalkStapA ==
  ASSUME RtpInv, WalkInv, ParseStapAStartOffsets
  PROVE  WalkInv'
<1> DEFINE n == rtp.payload_size
           z == datagram.word[nalu_ptr]
           s == Append(offsets, nalu_ptr + 2)
<1>1. /\ UNCHANGED <<datagram, rtp>> /\ stage = "stapA" /\ length_remaining > 0
      /\ n \in Nat /\ nalu_ptr \in Nat /\ length_remaining \in Nat /\ offset \in Nat
      /\ offsets \in Seq(Nat)
  BY ZenonT(60) DEF ParseStapAStartOffsets, TakeUnit, RtpInv, RtpTypeOK
<1>2. nalu_ptr = offset + 1 /\ nalu_ptr + length_remaining = n
  BY <1>1, ZenonT(60) DEF RtpInv, StapInv
<1>3. nalu_ptr < n /\ z \in Nat
  BY <1>1, <1>2, PayloadWord
<1>4. datagram.type[0] = kStapA /\ Walk(datagram, n, s)
  BY <1>1, ZenonT(60) DEF WalkInv
<1>5. CASE Return("nullopt") /\ nalu_ptr + 2 + z > n
  <2>1. s \in Seq(Nat) /\ Len(s) \in 1 .. Len(s) /\ s[Len(s)] = nalu_ptr + 2
    BY <1>1
  <2>2. OnEverySplit(datagram, n, s)
    BY <1>4, ZenonT(60) DEF Walk
  <2> HIDE DEF s, n
  <2>3. ~\E S \in SUBSET (1 .. n - 1) : Splits(datagram, n, S)
    BY <1>1, <1>3, <1>5, <2>1, <2>2, NoSplit, ZenonT(60)
  <2>4. QED
    BY <1>1, <1>4, <1>5, <2>3, Refused, Unsplit, ZenonT(60) DEF n
<1>6. CASE length_remaining < 2
  <2>1. Return("nullopt")
    BY <1>6, ZenonT(60) DEF ParseStapAStartOffsets, TakeUnit
  <2>2. nalu_ptr + 2 + z > n
    BY <1>1, <1>2, <1>3, <1>6, SMTT(60)
  <2>3. QED
    BY <1>5, <2>1, <2>2, ZenonT(60)
<1>7. CASE ~(length_remaining < 2) /\ ~UnitFits(z)
  <2>1. Return("nullopt")
    BY <1>7, ZenonT(60) DEF ParseStapAStartOffsets, TakeUnit
  <2>2. nalu_ptr + 2 + z > n
    BY <1>1, <1>2, <1>3, <1>7, SMTT(60) DEF UnitFits
  <2>3. QED
    BY <1>5, <2>1, <2>2, ZenonT(60)
<1>8. CASE ~(length_remaining < 2) /\ UnitFits(z)
  <2>1. /\ nalu_ptr' = nalu_ptr + 2 + z /\ UNCHANGED stage
        /\ offsets' = Append(offsets, UnitStart)
    BY <1>8, ZenonT(60) DEF ParseStapAStartOffsets, TakeUnit
  <2>2. UnitStart = nalu_ptr + 2
    BY <1>1, <1>2 DEF UnitStart, kStapAHeaderSize
  <2>3. Append(offsets', nalu_ptr' + 2) = Append(s, nalu_ptr + 2 + z + 2)
    BY <2>1, <2>2, ZenonT(60)
  <2>4. Walk(datagram, n, Append(s, nalu_ptr + 2 + z + 2))
    BY <1>1, <1>3, <1>4, WalkGoesOn, ZenonT(60)
  <2>5. Walk(datagram, rtp.payload_size, Append(offsets, nalu_ptr + 2))'
    BY <1>1, <2>3, <2>4, ZenonT(60)
  <2>6. QED
    BY <1>1, <1>4, <2>1, <2>5, ZenonT(60) DEF WalkInv, AcceptsUnits
<1>9. QED
  BY <1>6, <1>7, <1>8, ZenonT(60)

(* Its end. *)
LEMMA WalkStapAEnd ==
  ASSUME RtpInv, WalkInv, StapAEnd
  PROVE  WalkInv'
<1>1. /\ UNCHANGED <<datagram, rtp>> /\ stage = "stapA" /\ stage' = "units" /\ i' = 1
      /\ length_remaining = 0 /\ offsets' = Append(offsets, rtp.payload_size + 2)
      /\ rtp.payload_size \in Nat /\ offsets \in Seq(Nat) /\ nalu_ptr \in Nat
  BY ZenonT(60) DEF StapAEnd, kLengthFieldSize, RtpInv, RtpTypeOK
<1>2. nalu_ptr = rtp.payload_size /\ rtp.payload_size > 3
  BY <1>1 DEF RtpInv, StapInv, kStapAHeaderSize
<1>3. datagram.type[0] = kStapA /\ Walk(datagram, rtp.payload_size, offsets')
  BY <1>1, <1>2, ZenonT(60) DEF WalkInv
<1>4. /\ offsets'[Len(offsets')] = rtp.payload_size + 2 /\ 1 <= Len(offsets')
  BY <1>1
<1>5. Walked'
  BY <1>1, <1>2, <1>3, <1>4, ZenonT(60) DEF Walked
<1>6. \A k \in 1 .. i' - 1 : FALSE
  BY <1>1
<1>7. QED
  BY <1>1, <1>3, <1>4, <1>5, <1>6, ZenonT(60) DEF WalkInv, AcceptsUnits

(* An iteration of the second loop. *)
LEMMA WalkUnit ==
  ASSUME RtpInv, WalkInv, ProcessUnit
  PROVE  WalkInv'
<1> DEFINE n == rtp.payload_size
           passes == ~IsEmptyUnit(offsets[i], offsets[i + 1] - 2)
                     /\ datagram.type[offsets[i]] \notin {kStapA, kFuA}
<1>1. /\ UNCHANGED <<datagram, rtp, offsets>> /\ stage = "units" /\ i < Len(offsets)
      /\ n \in Nat /\ n > 0 /\ i \in Nat \ {0} /\ offsets \in Seq(Nat)
  BY ZenonT(60) DEF ProcessUnit, RtpInv, RtpTypeOK, UnitsInv
<1>2. \/ passes /\ i' = i + 1 /\ UNCHANGED stage
      \/ ~passes /\ Return("nullopt")
  BY ZenonT(60) DEF ProcessUnit, kLengthFieldSize
<1>3. CASE datagram.type[0] \notin {kStapA, kFuA} /\ offsets = <<0, n + 2>>
  <2>1. i = 1 /\ offsets[i] = 0 /\ offsets[i + 1] = n + 2
    BY <1>1, <1>3, SMTT(60)
  <2>2. passes
    BY <1>1, <1>3, <2>1 DEF IsEmptyUnit
  <2> HIDE DEF passes
  <2>3. stage' = "units"
    BY <1>1, <1>2, <2>2, ZenonT(60)
  <2>4. QED
    BY <1>1, <1>3, <2>3, ZenonT(60) DEF WalkInv, AcceptsUnits
<1>4. CASE /\ datagram.type[0] = kStapA /\ Walked
           /\ i <= Len(offsets) /\ \A k \in 1 .. i - 1 : IsUnit(datagram, offsets, k)
  <2>1. /\ i \in 1 .. Len(offsets) /\ i \in 1 .. Len(offsets) - 1
        /\ Walk(datagram, n, offsets)
    BY <1>1, <1>4 DEF Walked
  <2>2. /\ OnEverySplit(datagram, n, offsets)
        /\ offsets[i] \in Nat /\ offsets[i + 1] \in Nat /\ offsets[i] >= 3
        /\ offsets[i] - 2 \in 0 .. n - 1 /\ offsets[i] = (offsets[i] - 2) + 2
        /\ offsets[i + 1] = offsets[i] + datagram.word[offsets[i] - 2] + 2
    <3>1. OnEverySplit(datagram, n, offsets)
      BY <2>1 DEF Walk
    <3>2. Apart(offsets) /\ AtMost(offsets, n + 2)
      BY <1>1, ZenonT(60) DEF RtpInv, UnitsInv, AtMost, kLengthFieldSize
    <3>3. Pair(datagram, n, offsets, i)
      BY <1>1, <2>1, <3>2, WalkPair, ZenonT(60)
    <3>4. QED
      BY <3>1, <3>3, ZenonT(60) DEF Pair
  <2>3. CASE passes
    <3>1. IsUnit(datagram, offsets, i)
      BY <2>1, <2>3, ZenonT(60) DEF IsUnit, IsEmptyUnit
    <3>2. i' = i + 1 /\ stage' = "units"
      BY <1>1, <1>2, <2>3, ZenonT(60)
    <3>3. \A k \in 1 .. i' - 1 : IsUnit(datagram, offsets, k)
      BY <1>1, <1>4, <3>1, <3>2
    <3>4. (\A k \in 1 .. i - 1 : IsUnit(datagram, offsets, k))'
      BY <1>1, <3>3, ZenonT(60) DEF IsUnit
    <3>5. Walked' /\ i' <= Len(offsets')
      BY <1>1, <1>4, <3>2 DEF Walked
    <3>6. QED
      BY <1>1, <1>4, <3>2, <3>4, <3>5, ZenonT(60) DEF WalkInv, AcceptsUnits
  <2>4. CASE ~passes
    <3> DEFINE p == offsets[i] - 2
    <3>1. p \in 0 .. n - 1 /\ offsets[i] = p + 2
      BY <2>2, ZenonT(60)
    <3>2. datagram.word[p] \in Nat
      BY <3>1, PayloadWords, ZenonT(60) DEF HasWords
    <3>3. offsets[i + 1] = offsets[i] + datagram.word[p] + 2
      BY <2>2, ZenonT(60)
    <3>4. datagram.word[p] = 0 \/ datagram.type[p + 2] \in {kStapA, kFuA}
      <4>1. CASE datagram.type[offsets[i]] \in {kStapA, kFuA}
        BY <3>1, <4>1, ZenonT(60)
      <4>2. CASE offsets[i + 1] - 2 = offsets[i]
        <5> HIDE DEF p
        <5>1. QED
          BY <2>2, <3>2, <3>3, <4>2
      <4>3. QED
        BY <2>4, <4>1, <4>2, ZenonT(60) DEF IsEmptyUnit
    <3> HIDE DEF p, n, passes
    <3>5. ~\E S \in SUBSET (1 .. n - 1) : Splits(datagram, n, S)
      <4>1. n \in Nat /\ p \in Nat /\ p < n
        BY <1>1, <3>1, SMTT(60) DEF n
      <4>2. QED
        BY <1>1, <2>1, <2>2, <3>1, <3>2, <3>4, <4>1, NoSplit, ZenonT(60)
    <3>6. Return("nullopt")
      BY <1>2, <2>4, ZenonT(60)
    <3>7. QED
      BY <1>1, <1>4, <3>5, <3>6, Refused, Unsplit, ZenonT(60) DEF n
  <2>5. QED
    BY <2>3, <2>4, ZenonT(60)
<1>5. QED
  BY <1>1, <1>3, <1>4, ZenonT(60) DEF WalkInv

(* Its end. *)
LEMMA WalkUnitsEnd ==
  ASSUME RtpInv, WalkInv, UnitsEnd
  PROVE  WalkInv'
<1> DEFINE n == rtp.payload_size
<1>1. /\ UNCHANGED <<datagram, rtp>> /\ stage = "units" /\ i >= Len(offsets)
      /\ Return("parsed") /\ n \in Nat /\ n > 0 /\ i \in Nat \ {0} /\ offsets \in Seq(Nat)
      /\ Apart(offsets) /\ AtMost(offsets, n + 2)
  BY ZenonT(60) DEF UnitsEnd, RtpInv, RtpTypeOK, UnitsInv, kLengthFieldSize, AtMost
<1>2. CASE datagram.type[0] \notin {kStapA, kFuA}
  <2>1. WellFormedPayload(datagram, n)
    BY <1>1, <1>2, ZenonT(60) DEF WellFormedPayload
  <2>2. QED
    BY <1>1, <2>1, Parsed, ZenonT(60)
<1>3. CASE /\ datagram.type[0] = kStapA /\ Walked
           /\ i <= Len(offsets) /\ \A k \in 1 .. i - 1 : IsUnit(datagram, offsets, k)
  <2>1. i = Len(offsets)
    BY <1>1, <1>3
  <2>2. AllUnits(datagram, offsets)
    BY <1>3, <2>1, ZenonT(60) DEF AllUnits
  <2>3. HasWords(datagram, n)
    BY PayloadWords
  <2> HIDE DEF n
  <2>4. \E S \in SUBSET (1 .. n - 1) : Splits(datagram, n, S)
    BY <1>1, <1>3, <2>2, <2>3, WalkSplits, ZenonT(60) DEF Walked, n
  <2>5. WellFormedPayload(datagram, n)
    BY <1>1, <1>3, <2>4 DEF WellFormedPayload, kStapA, kFuA
  <2>6. QED
    BY <1>1, <2>5, Parsed, ZenonT(60) DEF n
<1>4. QED
  BY <1>1, <1>2, <1>3, ZenonT(60) DEF WalkInv

(* Every step of the two loops preserves what is known of the walk. *)
LEMMA WalkStep == RtpInv /\ WalkInv /\ [Next]_vars => WalkInv'
<1> SUFFICES ASSUME RtpInv, WalkInv, [Next]_vars PROVE WalkInv'
  OBVIOUS
<1>1. CASE OnInputDataPacket \/ OnRTP \/ Discard
  <2>1. stage' \in {"media", "other", "depacketize", "idle"}
    BY <1>1, ZenonT(60) DEF OnInputDataPacket, OnRTP, Discard
  <2>2. QED
    BY <2>1, ZenonT(60) DEF WalkInv, AcceptsUnits
<1>2. CASE UNCHANGED vars
  <2>1. UNCHANGED <<stage, datagram, rtp, nalu_ptr, offsets, i, result>>
    BY <1>2, ZenonT(60) DEF vars, stap
  <2>2. AcceptsUnits'
    BY <2>1, ZenonT(60) DEF WalkInv, AcceptsUnits, WellFormedPayload, Splits
  <2>3. (Walked => Walked')
        /\ ((\A k \in 1 .. i - 1 : IsUnit(datagram, offsets, k)) =>
              (\A k \in 1 .. i - 1 : IsUnit(datagram, offsets, k))')
    BY <2>1, ZenonT(60) DEF Walked, IsUnit
  <2>4. QED
    BY <2>1, <2>2, <2>3, ZenonT(60) DEF WalkInv
<1>3. QED
  BY <1>1, <1>2, WalkDepacketize, WalkStapA, WalkStapAEnd, WalkUnit, WalkUnitsEnd, ZenonT(60)
  DEF Next, Step

(* VideoRtpDepacketizerH264::Parse accepts exactly the payloads that split *)
(* into units, of any number and any sizes: what one loop finds and the    *)
(* other checks is a splitting, and a payload that either refuses has      *)
(* none.                                                                   *)
THEOREM RtpAcceptsUnits == Spec => []AcceptsUnits
<1>1. Init => WalkInv
  BY ZenonT(60) DEF Init, WalkInv, AcceptsUnits
<1>2. WalkInv => AcceptsUnits
  BY ZenonT(60) DEF WalkInv
<1>3. QED
  BY <1>1, <1>2, WalkStep, RtpInvariance, PTL DEF Spec
=============================================================================
