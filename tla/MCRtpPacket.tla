---------------------------- MODULE MCRtpPacket ------------------------------
(* First bytes of every protocol, headers with and without CSRC, extension *)
(* and padding, and payloads of up to three aggregated units.              *)
EXTENDS RtpPacket, SequencesExt

(* Offsets in the payload of the longest datagram. *)
Offsets == 0 .. 14

Packet(len, b0, b1, cookie, words, last, type, word) ==
  [len |-> len, b0 |-> b0, b1 |-> b1, cookie |-> cookie, extWords |-> words,
   last |-> last, type |-> type, word |-> word]

NoUnits == [o \in Offsets |-> 0]

First(t) == [o \in Offsets |-> IF o = 0 THEN t ELSE 1]

(* Datagrams that differ in what the four tests look at. *)
Protocols ==
  {Packet(len, b0, b1, c, 0, 1, First(1), NoUnits) :
     len \in {3, 4, 11, 12, 13, 19, 20}, b0 \in {0, 2, 3, 19, 20, 63, 64, 127, 128, 191, 192},
     b1 \in {0, 63, 64, 95, 96, 191, 192, 223, 224}, c \in BOOLEAN}

(* Headers: 2 * 64 is the version, 32 padding, 16 an extension, 1 a CSRC. *)
Headers ==
  {Packet(len, 128 + flags, 96, FALSE, words, last, First(t), NoUnits) :
     len \in 12 .. 26, flags \in {0, 1, 16, 17, 32, 33, 48, 49},
     words \in {0, 1, 2, 65535}, last \in {0, 1, 2, 255}, t \in {1, kStapA, kFuA}}

(* Size and type of a unit. *)
Units == {<<0, 5>>, <<1, 5>>, <<2, 5>>, <<65535, 5>>, <<1, kStapA>>, <<2, kFuA>>}

(* Where the length field of each unit stands. *)
At(units) ==
  LET at[k \in 1 .. Len(units)] ==
        IF k = 1 THEN 1 ELSE at[k - 1] + 2 + units[k - 1][1]
  IN at

UnitAt(units, o) ==
  {k \in 1 .. Len(units) : At(units)[k] = o}

StapWord(units) ==
  [o \in Offsets |->
     IF UnitAt(units, o) = {} THEN 0 ELSE units[CHOOSE k \in UnitAt(units, o) : TRUE][1]]

(* The type of an empty unit would be a byte of the next length field. *)
StapType(units) ==
  [o \in Offsets |->
     IF o = 0 THEN kStapA
     ELSE LET here == {k \in 1 .. Len(units) : At(units)[k] + 2 = o /\ units[k][1] > 0}
          IN IF here = {} THEN 0 ELSE units[CHOOSE k \in here : TRUE][2]]

Aggregates ==
  {Packet(12 + n, 128, 96, FALSE, 0, 0, StapType(units), StapWord(units)) :
     n \in 1 .. 14, units \in BoundedSeq(Units, 3) \ {<<>>}}

MCReceived == Protocols \cup Headers \cup Aggregates

MCUninitialized == {0, 7}
=============================================================================
