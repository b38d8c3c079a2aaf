-------------------------- MODULE StunPacketProofs ---------------------------
(***************************************************************************)
(* Proofs about Parse and Serialize of StunPacket: for every datagram,     *)
(* with any number of attributes, and every packet that is built.          *)
(***************************************************************************)
EXTENDS StunPacket, TLAPS

----------------------------------------------------------------------------
(* Where the attributes begin.  Starts is defined by recursion; that such  *)
(* a function exists, and what it is, is shown by the least number for     *)
(* which it would not.                                                     *)
INSTANCE WellFoundedInduction

(* A set of natural numbers has a least element. *)
LEMMA Least ==
  ASSUME NEW S, S \subseteq Nat, S # {}
  PROVE  \E m \in S : \A k \in S : m <= k
<1> DEFINE R == OpToRel(<, Nat)
<1>1. PICK m \in S : \A k \in S : ~(<<k, m>> \in R)
  <2> HIDE DEF R
  <2>1. IsWellFoundedOn(R, Nat)
    BY NatLessThanWellFounded, ZenonT(60) DEF R
  <2>2. QED
    BY <2>1, WFMin, ZenonT(60)
<1>2. \A k \in S : ~(k < m)
  BY <1>1 DEF OpToRel
<1>3. QED
  BY <1>2, SMTT(60)

(* A function that is what Starts should be, as far as k. *)
IsStart(s, f, k) ==
  f = [i \in 1 .. k |-> IF i = 1 THEN HeaderSize ELSE f[i - 1] + Span(s[i - 1])]

(* Rounding up to a multiple of four. *)
LEMMA RoundUp ==
  ASSUME NEW n \in Nat
  PROVE  LET r == ((n + 3) \div 4) * 4
         IN r \in Nat /\ r % 4 = 0 /\ (4 + r) % 4 = 0 /\ n <= r /\ r < n + 4
<1> DEFINE q == (n + 3) \div 4
<1>1. q \in Nat /\ 4 * q <= n + 3 /\ n + 3 < 4 * q + 4
  OBVIOUS
<1> HIDE DEF q
<1>2. (q * 4) % 4 = 0 /\ (4 + q * 4) % 4 = 0
  BY <1>1
<1>3. q * 4 \in Nat /\ n <= q * 4 /\ q * 4 < n + 4
  BY <1>1
<1>4. QED
  BY <1>2, <1>3 DEF q

(* An attribute takes a multiple of four bytes, its type and length        *)
(* included.                                                               *)
LEMMA SpanFacts ==
  ASSUME NEW a \in Attributes
  PROVE  /\ a.length \in Nat /\ Span(a) \in Nat /\ Span(a) % 4 = 0
         /\ 4 + a.length <= Span(a) /\ Span(a) < 4 + a.length + 4
<1>1. a.length \in Word
  BY ZenonT(60) DEF Attributes
<1>2. a.length \in Nat
  BY <1>1 DEF Word
<1> DEFINE r == ((a.length + 3) \div 4) * 4
<1>3. r \in Nat /\ (4 + r) % 4 = 0 /\ a.length <= r /\ r < a.length + 4
  BY <1>2, RoundUp
<1>4. Span(a) = 4 + r
  BY DEF Span
<1> HIDE DEF r
<1>5. \A l, q \in Nat : l <= q /\ q < l + 4 =>
        4 + q \in Nat /\ 4 + l <= 4 + q /\ 4 + q < 4 + l + 4
  OBVIOUS
<1>6. QED
  BY <1>2, <1>3, <1>4, <1>5, ZenonT(60)

(* There is such a function. *)
LEMMA StartExists ==
  ASSUME NEW s \in Seq(Attributes)
  PROVE  \A k \in 1 .. Len(s) + 1 : \E f : IsStart(s, f, k)
<1> SUFFICES ASSUME NEW k \in 1 .. Len(s) + 1, ~(\E f : IsStart(s, f, k))
             PROVE  FALSE
  OBVIOUS
<1> DEFINE Bad == {n \in 1 .. Len(s) + 1 : ~(\E f : IsStart(s, f, n))}
<1>1. Len(s) \in Nat
  OBVIOUS
<1>2. PICK m \in Bad : \A n \in Bad : m <= n
  <2>1. Bad \subseteq Nat /\ Bad # {}
    BY <1>1
  <2> HIDE DEF Bad
  <2>2. QED
    BY <2>1, Least, Zenon
<1>3. m \in 1 .. Len(s) + 1 /\ ~(\E f : IsStart(s, f, m))
  OBVIOUS
<1>4. CASE m = 1
  <2> DEFINE f == [i \in 1 .. 1 |-> HeaderSize]
  <2>1. IsStart(s, f, 1)
    BY DEF IsStart
  <2>2. QED
    BY <1>3, <1>4, <2>1, Zenon
<1>5. CASE m # 1
  <2>1. m - 1 \in 1 .. Len(s) + 1 /\ m - 1 \notin Bad
    BY <1>1, <1>2, <1>3, <1>5
  <2>2. PICK f : IsStart(s, f, m - 1)
    BY <2>1
  <2> DEFINE g == [i \in 1 .. m |-> IF i = m THEN f[m - 1] + Span(s[m - 1]) ELSE f[i]]
  <2>3. IsStart(s, g, m)
    BY <1>1, <1>3, <1>5, <2>2 DEF IsStart
  <2>4. QED
    BY <1>3, <2>3, Zenon
<1>6. QED
  BY <1>4, <1>5

(* Starts satisfies its definition. *)
LEMMA StartsIs ==
  ASSUME NEW s \in Seq(Attributes)
  PROVE  IsStart(s, Starts(s), Len(s) + 1)
<1>1. PICK f : IsStart(s, f, Len(s) + 1)
  BY StartExists
<1>2. QED
  BY <1>1, Zenon DEF IsStart, Starts

(* The first attribute begins after the header, and each one where the one *)
(* before it ends.                                                         *)
LEMMA StartsNext ==
  ASSUME NEW s \in Seq(Attributes)
  PROVE  /\ Starts(s)[1] = HeaderSize
         /\ \A i \in 1 .. Len(s) : Starts(s)[i + 1] = Starts(s)[i] + Span(s[i])
<1> DEFINE f == Starts(s)
<1>1. f = [i \in 1 .. Len(s) + 1 |->
             IF i = 1 THEN HeaderSize ELSE f[i - 1] + Span(s[i - 1])]
  BY StartsIs DEF IsStart
<1>2. Len(s) \in Nat
  OBVIOUS
<1> HIDE DEF f
<1>3. f[1] = HeaderSize
  BY <1>1, <1>2
<1>4. ASSUME NEW i \in 1 .. Len(s) PROVE f[i + 1] = f[i] + Span(s[i])
  <2>1. i + 1 \in 1 .. Len(s) + 1 /\ i + 1 # 1 /\ (i + 1) - 1 = i
    BY <1>2
  <2>2. f[i + 1] = f[(i + 1) - 1] + Span(s[(i + 1) - 1])
    BY <1>1, <2>1, Zenon
  <2>3. QED
    BY <2>1, <2>2, Zenon
<1>5. QED
  BY <1>3, <1>4 DEF f

(* Attributes begin at multiples of four. *)
Aligned(n) == n \in Nat /\ n % 4 = 0 /\ HeaderSize <= n

(* Another attribute does not change that. *)
LEMMA AlignedSum ==
  ASSUME NEW n, Aligned(n), NEW a \in Attributes
  PROVE  Aligned(n + Span(a)) /\ n + 4 + a.length <= n + Span(a) /\ n + 4 <= n + Span(a)
<1>1. Span(a) \in Nat /\ Span(a) % 4 = 0 /\ 4 + a.length <= Span(a) /\ a.length \in Nat
  BY SpanFacts
<1>2. n \in Nat /\ n % 4 = 0 /\ HeaderSize <= n
  BY DEF Aligned
<1>3. \A w \in Nat : w % 4 = 0 => (n + w) % 4 = 0
  BY <1>2
<1>4. \A w, l \in Nat : 4 + l <= w =>
                           /\ n + w \in Nat /\ HeaderSize <= n + w
                           /\ n + 4 + l <= n + w /\ n + 4 <= n + w
  BY <1>2 DEF HeaderSize
<1>5. QED
  BY <1>1, <1>3, <1>4, ZenonT(60) DEF Aligned

(* Every attribute begins at a multiple of four behind the header. *)
LEMMA StartsAligned ==
  ASSUME NEW s \in Seq(Attributes)
  PROVE  \A i \in 1 .. Len(s) + 1 : Aligned(Starts(s)[i])
<1> SUFFICES ASSUME NEW i \in 1 .. Len(s) + 1, ~Aligned(Starts(s)[i])
             PROVE  FALSE
  OBVIOUS
<1> DEFINE Bad == {j \in 1 .. Len(s) + 1 : ~Aligned(Starts(s)[j])}
<1>1. Len(s) \in Nat
  OBVIOUS
<1>2. PICK m \in Bad : \A j \in Bad : m <= j
  <2>1. Bad \subseteq Nat /\ Bad # {}
    BY <1>1
  <2> HIDE DEF Bad
  <2>2. QED
    BY <2>1, Least, Zenon
<1>3. m \in 1 .. Len(s) + 1 /\ ~Aligned(Starts(s)[m])
  OBVIOUS
<1>4. m # 1
  BY <1>3, StartsNext DEF Aligned, HeaderSize
<1>5. m - 1 \in 1 .. Len(s) /\ m - 1 \in 1 .. Len(s) + 1 /\ m - 1 \notin Bad /\ (m - 1) + 1 = m
  BY <1>1, <1>2, <1>3, <1>4
<1>6. Aligned(Starts(s)[m - 1]) /\ s[m - 1] \in Attributes
  BY <1>1, <1>5
<1>7. Starts(s)[m] = Starts(s)[m - 1] + Span(s[m - 1])
  <2> HIDE DEF Bad
  <2>1. QED
    BY <1>5, StartsNext
<1>8. QED
  BY <1>3, <1>6, <1>7, AlignedSum, Zenon

(* A later attribute begins later. *)
LEMMA StartsMonotone ==
  ASSUME NEW s \in Seq(Attributes), NEW i \in 1 .. Len(s) + 1
  PROVE  \A j \in i .. Len(s) + 1 : Starts(s)[i] <= Starts(s)[j]
<1> SUFFICES ASSUME NEW k \in i .. Len(s) + 1, ~(Starts(s)[i] <= Starts(s)[k])
             PROVE  FALSE
  OBVIOUS
<1> DEFINE Bad == {j \in i .. Len(s) + 1 : ~(Starts(s)[i] <= Starts(s)[j])}
<1>1. Len(s) \in Nat
  OBVIOUS
<1>2. PICK m \in Bad : \A j \in Bad : m <= j
  <2>1. Bad \subseteq Nat /\ Bad # {}
    BY <1>1
  <2> HIDE DEF Bad
  <2>2. QED
    BY <2>1, Least, Zenon
<1>3. m \in i .. Len(s) + 1 /\ ~(Starts(s)[i] <= Starts(s)[m])
  OBVIOUS
<1>4. Starts(s)[i] \in Nat
  BY StartsAligned DEF Aligned
<1>5. m # i
  BY <1>3, <1>4
<1>6. m - 1 \in i .. Len(s) + 1 /\ m - 1 \in 1 .. Len(s) /\ m - 1 \notin Bad /\ (m - 1) + 1 = m
  BY <1>1, <1>2, <1>3, <1>5
<1>7. Starts(s)[i] <= Starts(s)[m - 1] /\ s[m - 1] \in Attributes
  BY <1>1, <1>6
<1> HIDE DEF Bad
<1>8. Starts(s)[m] = Starts(s)[m - 1] + Span(s[m - 1]) /\ Starts(s)[m - 1] \in Nat
  <2>1. Starts(s)[m] = Starts(s)[m - 1] + Span(s[m - 1])
    BY <1>6, StartsNext
  <2>2. Starts(s)[m - 1] \in Nat
    BY <1>1, <1>6, StartsAligned DEF Aligned
  <2>3. QED
    BY <2>1, <2>2
<1>9. Span(s[m - 1]) \in Nat
  BY <1>7, SpanFacts
<1>10. QED
  BY <1>3, <1>4, <1>7, <1>8, <1>9

(* An attribute ends before the next one begins. *)
LEMMA StartsApart ==
  ASSUME NEW s \in Seq(Attributes), NEW i \in 1 .. Len(s), NEW j \in i + 1 .. Len(s) + 1
  PROVE  Starts(s)[i] + 4 + s[i].length <= Starts(s)[j]
<1>1. Len(s) \in Nat /\ i + 1 \in 1 .. Len(s) + 1 /\ i \in 1 .. Len(s) + 1
      /\ j \in 1 .. Len(s) + 1 /\ s[i] \in Attributes
  OBVIOUS
<1>2. Starts(s)[i + 1] <= Starts(s)[j]
  BY <1>1, StartsMonotone, ZenonT(60)
<1>3. Starts(s)[i + 1] = Starts(s)[i] + Span(s[i])
  BY StartsNext, ZenonT(60)
<1>4. Aligned(Starts(s)[i]) /\ Aligned(Starts(s)[j])
  BY <1>1, StartsAligned, ZenonT(60)
<1>5. Starts(s)[i] + 4 + s[i].length <= Starts(s)[i] + Span(s[i])
  BY <1>1, <1>4, AlignedSum, ZenonT(60)
<1>6. /\ Starts(s)[i] \in Nat /\ Starts(s)[j] \in Nat
      /\ s[i].length \in Nat /\ Span(s[i]) \in Nat
  <2>1. s[i].length \in Nat /\ Span(s[i]) \in Nat
    BY <1>1, SpanFacts, ZenonT(60)
  <2>2. QED
    BY <1>4, <2>1, ZenonT(60) DEF Aligned
<1>7. \A x, y, z, w \in Nat : x + 4 + w <= x + z /\ x + z <= y => x + 4 + w <= y
  OBVIOUS
<1>8. QED
  BY <1>2, <1>3, <1>5, <1>6, <1>7, ZenonT(60)

(* What is appended changes nothing before it. *)
LEMMA StartsAppend ==
  ASSUME NEW s \in Seq(Attributes), NEW a \in Attributes
  PROVE  End(Append(s, a)) = End(s) + Span(a)
<1> DEFINE t == Append(s, a)
           Bad == {j \in 1 .. Len(s) + 1 : Starts(t)[j] # Starts(s)[j]}
<1>1. /\ Len(s) \in Nat /\ t \in Seq(Attributes) /\ Len(t) = Len(s) + 1
      /\ t[Len(s) + 1] = a /\ \A i \in 1 .. Len(s) : t[i] = s[i]
  OBVIOUS
<1> HIDE DEF t
<1>2. /\ Starts(t)[1] = HeaderSize
      /\ \A i \in 1 .. Len(t) : Starts(t)[i + 1] = Starts(t)[i] + Span(t[i])
  BY <1>1, StartsNext, ZenonT(60)
<1>3. Bad = {}
  <2> SUFFICES ASSUME Bad # {} PROVE FALSE
    OBVIOUS
  <2>1. PICK m \in Bad : \A j \in Bad : m <= j
    <3>1. Bad \subseteq Nat
      BY <1>1
    <3> HIDE DEF Bad
    <3>2. QED
      BY <3>1, Least, Zenon
  <2>2. m \in 1 .. Len(s) + 1 /\ Starts(t)[m] # Starts(s)[m]
    OBVIOUS
  <2>3. m # 1
    BY <1>2, <2>2, StartsNext
  <2>4. m - 1 \in 1 .. Len(s) /\ m - 1 \in 1 .. Len(t) /\ (m - 1) + 1 = m /\ m - 1 \notin Bad
    BY <1>1, <2>1, <2>2, <2>3
  <2>5. Starts(t)[m - 1] = Starts(s)[m - 1]
    BY <1>1, <2>4
  <2> HIDE DEF Bad
  <2>6. Starts(t)[m] = Starts(t)[m - 1] + Span(s[m - 1])
    BY <1>1, <1>2, <2>4, ZenonT(60)
  <2>7. Starts(s)[m] = Starts(s)[m - 1] + Span(s[m - 1])
    BY <2>4, StartsNext, ZenonT(60)
  <2>8. QED
    BY <2>2, <2>5, <2>6, <2>7, ZenonT(60)
<1>4. Len(s) + 1 \in 1 .. Len(s) + 1 /\ Len(s) + 1 \in 1 .. Len(t)
  BY <1>1
<1>5. Starts(t)[Len(s) + 1] = End(s)
  BY <1>3, <1>4, ZenonT(60) DEF End
<1>6. Starts(t)[(Len(s) + 1) + 1] = End(s) + Span(a)
  BY <1>1, <1>2, <1>4, <1>5, ZenonT(60)
<1>7. QED
  BY <1>1, <1>6, ZenonT(60) DEF End, t

----------------------------------------------------------------------------
(* The next position.                                                      *)

(* There is one multiple of four from x on before x + 4. *)
LEMMA OneMultiple ==
  ASSUME NEW x \in Nat, NEW u \in Nat, NEW v \in Nat, u % 4 = 0, v % 4 = 0,
         x <= u, u < x + 4, x <= v, v < x + 4
  PROVE  u = v
OBVIOUS

(* uint16_t holds what is below its limit. *)
LEMMA WrapSmall ==
  ASSUME NEW n \in Nat, n < Wrap
  PROVE  n % Wrap = n
<1>1. Wrap \in Nat /\ Wrap > 0
  BY DEF Wrap
<1>2. QED
  BY <1>1

(* The multiple of four that PadTo4Bytes returns. *)
LEMMA PadFacts ==
  ASSUME NEW x \in Nat, NEW size \in Nat, size % 4 = 0, x <= size, size < Wrap
  PROVE  /\ PadTo4Bytes(x) \in Nat /\ PadTo4Bytes(x) % 4 = 0
         /\ x <= PadTo4Bytes(x) /\ PadTo4Bytes(x) < x + 4 /\ PadTo4Bytes(x) <= size
<1> DEFINE y == (x \div 4) * 4 + 4
<1>1. Wrap \in Nat
  BY DEF Wrap
<1>2. x % 4 # 0 => y \in Nat /\ y % 4 = 0 /\ x <= y /\ y < x + 4 /\ y <= size /\ y < Wrap
  BY <1>1
<1>3. PadTo4Bytes(x) = IF x % 4 = 0 THEN x ELSE y % Wrap
  BY DEF PadTo4Bytes
<1> HIDE DEF y
<1>4. CASE x % 4 = 0
  BY <1>3, <1>4
<1>5. CASE x % 4 # 0
  <2>1. y % Wrap = y
    BY <1>2, <1>5, WrapSmall
  <2>2. QED
    BY <1>2, <1>3, <1>5, <2>1, ZenonT(60)
<1>6. QED
  BY <1>4, <1>5

(* The 16-bit computation is exact and stays in a datagram whose size is a *)
(* multiple of four.                                                       *)
LEMMA NextPositionFacts ==
  ASSUME NEW p, Aligned(p), NEW a \in Attributes, NEW size \in Nat, size % 4 = 0,
         size < Wrap, p + 4 + a.length <= size
  PROVE  NextPosition(p, a) = p + Span(a) /\ p + Span(a) <= size
<1> DEFINE x == p + 4 + a.length
<1>1. p \in Nat /\ a.length \in Nat /\ Span(a) \in Nat
  BY SpanFacts DEF Aligned
<1>2. x \in Nat /\ x <= size
  BY <1>1
<1>3. Aligned(p + Span(a)) /\ x <= p + Span(a)
  BY AlignedSum
<1>4. p + Span(a) < x + 4
  <2>1. Span(a) < 4 + a.length + 4
    BY SpanFacts, ZenonT(60)
  <2>2. \A l, w \in Nat : w < 4 + l + 4 => p + w < (p + 4 + l) + 4
    BY <1>1
  <2>3. QED
    BY <1>1, <2>1, <2>2, ZenonT(60)
<1>5. x % Wrap = x
  <2>1. x < Wrap
    <3>1. Wrap \in Nat
      BY DEF Wrap
    <3> HIDE DEF x
    <3>2. QED
      BY <1>2, <3>1
  <2>2. QED
    BY <1>2, <2>1, WrapSmall, ZenonT(60)
<1>6. NextPosition(p, a) = PadTo4Bytes(x)
  BY <1>5, ZenonT(60) DEF NextPosition
<1> HIDE DEF x
<1>7. /\ PadTo4Bytes(x) \in Nat /\ PadTo4Bytes(x) % 4 = 0 /\ PadTo4Bytes(x) <= size
      /\ x <= PadTo4Bytes(x) /\ PadTo4Bytes(x) < x + 4
  BY <1>2, PadFacts, ZenonT(60)
<1>8. p + Span(a) = PadTo4Bytes(x)
  <2>1. p + Span(a) \in Nat /\ (p + Span(a)) % 4 = 0
    BY <1>3, ZenonT(60) DEF Aligned
  <2>2. QED
    BY <1>2, <1>3, <1>4, <1>7, <2>1, OneMultiple, ZenonT(60)
<1>9. QED
  BY <1>6, <1>7, <1>8, ZenonT(60)

----------------------------------------------------------------------------
(* The inductive invariant: what the loop has established of the           *)
(* attributes before the one it stands at.                                 *)

(* One of the first k attributes has the type. *)
Occurs(s, k, type) == \E i \in 1 .. k : s[i].type = type

(* What Parse takes from an attribute. *)
Content(a) ==
  CASE a.type = "USERNAME" -> a.length
    [] a.type = "ERROR_CODE" -> (a.value \div 256) * 100 + (a.value % 256)
    [] OTHER -> a.value

(* The last of the first k attributes that has the type, 0 if there is     *)
(* none, contains v.                                                       *)
Shows(s, k, type, v) ==
  \E i \in 0 .. k :
    /\ \A j \in 1 .. k : s[j].type = type => j <= i
    /\ IF i = 0 THEN v = 0 ELSE s[i].type = type /\ v = Content(s[i])

(* The MESSAGE-INTEGRITY of the first k attributes. *)
Signed(s, k, m) ==
  \/ m.length = 0 /\ ~Occurs(s, k, "MESSAGE_INTEGRITY")
  \/ m.length = 20 /\ \E i \in 1 .. k : s[i].type = "MESSAGE_INTEGRITY" /\ s[i] = m

(* The packet holds what the first k attributes say. *)
Reads(s, k, p) ==
  /\ Shows(s, k, "USERNAME", p.username)
  /\ Shows(s, k, "PRIORITY", p.priority)
  /\ Shows(s, k, "ICE_CONTROLLING", p.iceControlling)
  /\ Shows(s, k, "ICE_CONTROLLED", p.iceControlled)
  /\ Shows(s, k, "ERROR_CODE", p.errorCode)
  /\ p.hasUseCandidate <=> Occurs(s, k, "USE_CANDIDATE")
  /\ p.hasFingerprint <=> Occurs(s, k, "FINGERPRINT")
  /\ Signed(s, k, p.messageIntegrity)

(* The first k attributes could be a message. *)
Passed(s, k) ==
  \A i \in 1 .. k :
    /\ LengthOk(s[i])
    /\ s[i].type = "FINGERPRINT" => i = k
    /\ s[i].type = "MESSAGE_INTEGRITY" => i = k \/ (i = k - 1 /\ s[k].type = "FINGERPRINT")

(* Parse stands before attribute k + 1. *)
Scanned(d, k, at, p) ==
  /\ IsDatagram(d) /\ HeaderOk(d)
  /\ k \in 0 .. Len(d.attrs) /\ at = Starts(d.attrs)[k + 1] /\ at <= d.size
  /\ p.klass = ClassOf(d.type) /\ p.method = MethodOf(d.type)
  /\ Reads(d.attrs, k, p) /\ Passed(d.attrs, k)

(* The buffer after a failed recvfrom. *)
IsFailure(d) ==
  d.size = FailedRecv /\ d.length \in Word /\ d.attrs \in Seq(Attributes)

StunInv ==
  /\ stage \in {"idle", "filled", "scanning", "accepted", "rejected"}
  /\ packet \in Packets /\ pos \in 0 .. MaxDatagram /\ next \in Nat \ {0}
  /\ stage = "idle" => origin = {}
  /\ origin # {} => \E p \in Built : origin = {p} /\ datagram = SerializedDatagram(p)
  /\ stage # "idle" => IsDatagram(datagram) \/ IsFailure(datagram)
  /\ stage \in {"idle", "filled"} =>
       pos = HeaderSize /\ next = 1 /\ packet = NewStunPacket(REQUEST, BINDING)
  /\ stage \in {"scanning", "accepted"} => Scanned(datagram, next - 1, pos, packet)
  /\ stage = "accepted" =>
       /\ next = Len(datagram.attrs) + 1 /\ pos = datagram.size
       /\ FingerprintOk(datagram, packet)
  /\ stage = "rejected" => ~WellFormed(datagram)

----------------------------------------------------------------------------
(* One more attribute.                                                     *)

(* Among one attribute more, a type occurs when it did or is that one's. *)
LEMMA OccursNext ==
  ASSUME NEW s, NEW k \in Nat, NEW type
  PROVE  Occurs(s, k + 1, type) <=> Occurs(s, k, type) \/ s[k + 1].type = type
<1>1. \A i : i \in 1 .. k + 1 <=> i \in 1 .. k \/ i = k + 1
  OBVIOUS
<1>2. QED
  BY <1>1, ZenonT(60) DEF Occurs

(* The attribute read last replaces what its type showed. *)
LEMMA ShowsNext ==
  ASSUME NEW s, NEW k \in Nat, NEW type, NEW v, Shows(s, k, type, v)
  PROVE  /\ s[k + 1].type = type => Shows(s, k + 1, type, Content(s[k + 1]))
         /\ s[k + 1].type # type => Shows(s, k + 1, type, v)
<1>1. /\ \A i : i \in 1 .. k + 1 <=> i \in 1 .. k \/ i = k + 1
      /\ \A i \in 0 .. k : i \in 0 .. k + 1
      /\ k + 1 \in 0 .. k + 1 /\ k + 1 # 0 /\ \A i \in 1 .. k + 1 : i <= k + 1
  OBVIOUS
<1>2. s[k + 1].type = type => Shows(s, k + 1, type, Content(s[k + 1]))
  BY <1>1, ZenonT(60) DEF Shows
<1>3. ASSUME s[k + 1].type # type
      PROVE  Shows(s, k + 1, type, v)
  BY <1>1, <1>3, ZenonT(60) DEF Shows
<1>4. QED
  BY <1>2, <1>3

(* Before the first attribute nothing is shown. *)
LEMMA ShowsNothing ==
  ASSUME NEW s, NEW type
  PROVE  Shows(s, 0, type, 0) /\ ~Occurs(s, 0, type)
<1>1. 0 \in 0 .. 0 /\ \A i : i \notin 1 .. 0
  OBVIOUS
<1>2. QED
  BY <1>1, ZenonT(60) DEF Shows, Occurs

(* The content of an attribute, by its type. *)
LEMMA ContentFacts ==
  ASSUME NEW a
  PROVE  /\ a.type = "USERNAME" => Content(a) = a.length
         /\ a.type = "PRIORITY" => Content(a) = a.value
         /\ a.type = "ICE_CONTROLLING" => Content(a) = a.value
         /\ a.type = "ICE_CONTROLLED" => Content(a) = a.value
         /\ a.type = "ERROR_CODE" =>
              Content(a) = (a.value \div 256) * 100 + (a.value % 256)
<1>1. a.type = "USERNAME" => Content(a) = a.length
  BY DEF Content
<1>2. a.type = "ERROR_CODE" => Content(a) = (a.value \div 256) * 100 + (a.value % 256)
  BY DEF Content
<1>3. a.type \in {"PRIORITY", "ICE_CONTROLLING", "ICE_CONTROLLED"} => Content(a) = a.value
  BY DEF Content
<1>4. QED
  BY <1>1, <1>2, <1>3, ZenonT(60)

(* The fields of a packet. *)
PacketFields ==
  {"klass", "method", "username", "priority", "iceControlling", "iceControlled",
   "hasUseCandidate", "messageIntegrity", "hasFingerprint", "errorCode",
   "xorMappedAddress", "password"}

(* Each type sets the field it is for, and Store leaves all others alone. *)
LEMMA StoreFacts ==
  ASSUME NEW p \in Packets, NEW a
  PROVE  /\ Store(p, a).klass = p.klass /\ Store(p, a).method = p.method
         /\ Store(p, a).username = (IF a.type = "USERNAME" THEN Content(a) ELSE p.username)
         /\ Store(p, a).priority = (IF a.type = "PRIORITY" THEN Content(a) ELSE p.priority)
         /\ Store(p, a).iceControlling =
              (IF a.type = "ICE_CONTROLLING" THEN Content(a) ELSE p.iceControlling)
         /\ Store(p, a).iceControlled =
              (IF a.type = "ICE_CONTROLLED" THEN Content(a) ELSE p.iceControlled)
         /\ Store(p, a).errorCode =
              (IF a.type = "ERROR_CODE" THEN Content(a) ELSE p.errorCode)
         /\ Store(p, a).hasUseCandidate =
              (IF a.type = "USE_CANDIDATE" THEN TRUE ELSE p.hasUseCandidate)
         /\ Store(p, a).hasFingerprint =
              (IF a.type = "FINGERPRINT" THEN TRUE ELSE p.hasFingerprint)
         /\ Store(p, a).messageIntegrity =
              (IF a.type = "MESSAGE_INTEGRITY" THEN a ELSE p.messageIntegrity)
<1>1. p = [f \in PacketFields |-> p[f]]
  BY DEF Packets, PacketFields
<1>2. CASE a.type = "USERNAME"
  BY <1>1, <1>2, ContentFacts DEF Store, PacketFields
<1>3. CASE a.type = "PRIORITY"
  BY <1>1, <1>3, ContentFacts DEF Store, PacketFields
<1>4. CASE a.type = "ICE_CONTROLLING"
  BY <1>1, <1>4, ContentFacts DEF Store, PacketFields
<1>5. CASE a.type = "ICE_CONTROLLED"
  BY <1>1, <1>5, ContentFacts DEF Store, PacketFields
<1>6. CASE a.type = "USE_CANDIDATE"
  BY <1>1, <1>6, ZenonT(60) DEF Store, PacketFields
<1>7. CASE a.type = "MESSAGE_INTEGRITY"
  BY <1>1, <1>7 DEF Store, PacketFields
<1>8. CASE a.type = "FINGERPRINT"
  BY <1>1, <1>8, ZenonT(60) DEF Store, PacketFields
<1>9. CASE a.type = "ERROR_CODE"
  BY <1>1, <1>9, ContentFacts DEF Store, PacketFields
<1>10. CASE a.type \notin {"USERNAME", "PRIORITY", "ICE_CONTROLLING", "ICE_CONTROLLED",
                           "USE_CANDIDATE", "MESSAGE_INTEGRITY", "FINGERPRINT", "ERROR_CODE"}
  BY <1>10, ZenonT(60) DEF Store
<1>11. QED
  BY <1>2, <1>3, <1>4, <1>5, <1>6, <1>7, <1>8, <1>9, <1>10, ZenonT(60)

(* The two bytes of an error code, read as hundreds and rest, fit in 16    *)
(* bits.                                                                   *)
LEMMA ErrorCodeFits ==
  ASSUME NEW v \in Word
  PROVE  (v \div 256) * 100 + (v % 256) \in Word
<1>1. v \in Nat /\ \A x \in Nat : x <= v => x \in Word
  <2>1. Wrap \in Nat
    BY DEF Wrap
  <2>2. QED
    BY <2>1 DEF Word
<1>2. (v \div 256) * 100 + (v % 256) \in Nat /\ (v \div 256) * 100 + (v % 256) <= v
  BY <1>1
<1>3. QED
  BY <1>1, <1>2, ZenonT(60)

(* What the attributes of a datagram are. *)
LEMMA AttributeFacts ==
  ASSUME NEW d, IsDatagram(d) \/ IsFailure(d), NEW i \in 1 .. Len(d.attrs)
  PROVE  /\ d.attrs[i] \in Attributes /\ d.attrs \in Seq(Attributes)
         /\ d.attrs[i].type \in Attribute /\ d.attrs[i].length \in Nat
         /\ d.attrs[i].value \in Nat
<1>1. d.attrs \in Seq(Attributes)
  BY ZenonT(60) DEF IsDatagram, IsFailure
<1>2. d.attrs[i] \in Attributes
  BY <1>1
<1>3. d.attrs[i].length \in Nat
  BY <1>2, SpanFacts, ZenonT(60)
<1>4. QED
  BY <1>1, <1>2, <1>3, ZenonT(60) DEF Attributes

(* Parse leaves the packet with its types. *)
LEMMA StoreTyped ==
  ASSUME IsDatagram(datagram), NEW p \in Packets, NEW i \in 1 .. Len(datagram.attrs),
         LengthOk(datagram.attrs[i])
  PROVE  Store(p, datagram.attrs[i]) \in Packets
<1> DEFINE a == datagram.attrs[i]
           Keys == {Empty} \cup {datagram.attrs[j].key : j \in DOMAIN datagram.attrs}
           Marks == [type : {"MESSAGE_INTEGRITY"}, length : {0, 20}, value : Nat, key : Keys]
<1>1. /\ a \in Attributes /\ a.length \in Nat /\ a.value \in Nat
      /\ datagram.attrs \in Seq(Attributes)
  BY AttributeFacts
<1>2. a.type = "ERROR_CODE" => (a.value \div 256) * 100 + (a.value % 256) \in Word
  <2>1. i \in DOMAIN datagram.attrs
    BY <1>1
  <2>2. a.type = "ERROR_CODE" => a.value \in Word
    BY <2>1, ZenonT(60) DEF IsDatagram
  <2>3. QED
    BY <2>2, ErrorCodeFits, ZenonT(60)
<1>3. a.type = "MESSAGE_INTEGRITY" => a \in Marks
  <2>1. i \in DOMAIN datagram.attrs
    BY <1>1
  <2>2. a.key \in Keys
    BY <2>1, ZenonT(60)
  <2> HIDE DEF Keys
  <2>3. a.type = "MESSAGE_INTEGRITY" => a.length = 20
    BY DEF LengthOk
  <2> HIDE DEF a
  <2>4. a = [type |-> a.type, length |-> a.length, value |-> a.value, key |-> a.key]
    BY <1>1, ZenonT(60) DEF Attributes
  <2>5. QED
    BY <1>1, <2>2, <2>3, <2>4
<1>4. Packets =
        [klass : 0 .. 3, method : Methods, username : Nat, priority : Nat,
         iceControlling : Nat, iceControlled : Nat, hasUseCandidate : BOOLEAN,
         messageIntegrity : Marks, hasFingerprint : BOOLEAN, errorCode : Word,
         xorMappedAddress : {"none"}, password : {Empty}]
  BY ZenonT(60) DEF Packets
<1> HIDE DEF a, Keys, Marks
<1>5. Store(p, a) \in Packets
  <2>1. CASE a.type = "USERNAME"
    BY <1>1, <1>4, <2>1, ZenonT(60) DEF Store
  <2>2. CASE a.type = "PRIORITY"
    BY <1>1, <1>4, <2>2, ZenonT(60) DEF Store
  <2>3. CASE a.type = "ICE_CONTROLLING"
    BY <1>1, <1>4, <2>3, ZenonT(60) DEF Store
  <2>4. CASE a.type = "ICE_CONTROLLED"
    BY <1>1, <1>4, <2>4, ZenonT(60) DEF Store
  <2>5. CASE a.type = "USE_CANDIDATE"
    BY <1>4, <2>5, ZenonT(60) DEF Store
  <2>6. CASE a.type = "MESSAGE_INTEGRITY"
    BY <1>3, <1>4, <2>6, ZenonT(60) DEF Store
  <2>7. CASE a.type = "FINGERPRINT"
    BY <1>4, <2>7, ZenonT(60) DEF Store
  <2>8. CASE a.type = "ERROR_CODE"
    <3> DEFINE e == (a.value \div 256) * 100 + (a.value % 256)
    <3>1. Store(p, a) = [p EXCEPT !.errorCode = e]
      BY <2>8, ZenonT(60) DEF Store
    <3>2. e \in Word
      BY <1>2, <2>8, Zenon
    <3> HIDE DEF e
    <3>3. QED
      BY <1>4, <3>1, <3>2, ZenonT(60)
  <2>9. CASE a.type \notin {"USERNAME", "PRIORITY", "ICE_CONTROLLING", "ICE_CONTROLLED",
                            "USE_CANDIDATE", "MESSAGE_INTEGRITY", "FINGERPRINT", "ERROR_CODE"}
    BY <2>9, ZenonT(60) DEF Store
  <2>10. QED
    BY <2>1, <2>2, <2>3, <2>4, <2>5, <2>6, <2>7, <2>8, <2>9, ZenonT(60)
<1>6. QED
  BY <1>5 DEF a

(* The lengths that Parse allows are those of the message format. *)
LEMMA LengthOkFacts ==
  ASSUME NEW a
  PROVE  LengthOk(a) <=>
           /\ a.type \in DOMAIN FixedLength => a.length = FixedLength[a.type]
           /\ a.type = "ERROR_CODE" => a.length >= 4
<1>1. DOMAIN FixedLength = {"PRIORITY", "FINGERPRINT", "ICE_CONTROLLING", "ICE_CONTROLLED",
                            "USE_CANDIDATE", "MESSAGE_INTEGRITY"}
  BY DEF FixedLength
<1>2. /\ FixedLength["PRIORITY"] = 4 /\ FixedLength["FINGERPRINT"] = 4
      /\ FixedLength["ICE_CONTROLLING"] = 8 /\ FixedLength["ICE_CONTROLLED"] = 8
      /\ FixedLength["USE_CANDIDATE"] = 0 /\ FixedLength["MESSAGE_INTEGRITY"] = 20
  BY DEF FixedLength
<1>3. CASE a.type \in {"PRIORITY", "FINGERPRINT"}
  BY <1>1, <1>2, <1>3 DEF LengthOk
<1>4. CASE a.type \in {"ICE_CONTROLLING", "ICE_CONTROLLED"}
  BY <1>1, <1>2, <1>4 DEF LengthOk
<1>5. CASE a.type \in {"USE_CANDIDATE", "MESSAGE_INTEGRITY"}
  BY <1>1, <1>2, <1>5 DEF LengthOk
<1>6. CASE a.type = "ERROR_CODE"
  BY <1>1, <1>6 DEF LengthOk
<1>7. CASE a.type \notin {"PRIORITY", "FINGERPRINT", "ICE_CONTROLLING", "ICE_CONTROLLED",
                          "USE_CANDIDATE", "MESSAGE_INTEGRITY", "ERROR_CODE"}
  BY <1>1, <1>7 DEF LengthOk
<1>8. QED
  BY <1>3, <1>4, <1>5, <1>6, <1>7, ZenonT(60)

(* An attribute that is stored keeps the packet equal to what was read. *)
LEMMA ReadsNext ==
  ASSUME NEW s, NEW k \in Nat, NEW p \in Packets, Reads(s, k, p), LengthOk(s[k + 1])
  PROVE  Reads(s, k + 1, Store(p, s[k + 1]))
<1> DEFINE a == s[k + 1]
           q == Store(p, a)
<1>1. Shows(s, k + 1, "USERNAME", q.username)
  <2>1. q.username = IF a.type = "USERNAME" THEN Content(a) ELSE p.username
    BY StoreFacts, ZenonT(60)
  <2>2. QED
    BY <2>1, ShowsNext, ZenonT(60) DEF Reads
<1>2. Shows(s, k + 1, "PRIORITY", q.priority)
  <2>1. q.priority = IF a.type = "PRIORITY" THEN Content(a) ELSE p.priority
    BY StoreFacts, ZenonT(60)
  <2>2. QED
    BY <2>1, ShowsNext, ZenonT(60) DEF Reads
<1>3. Shows(s, k + 1, "ICE_CONTROLLING", q.iceControlling)
  <2>1. q.iceControlling = IF a.type = "ICE_CONTROLLING" THEN Content(a) ELSE p.iceControlling
    BY StoreFacts, ZenonT(60)
  <2>2. QED
    BY <2>1, ShowsNext, ZenonT(60) DEF Reads
<1>4. Shows(s, k + 1, "ICE_CONTROLLED", q.iceControlled)
  <2>1. q.iceControlled = IF a.type = "ICE_CONTROLLED" THEN Content(a) ELSE p.iceControlled
    BY StoreFacts, ZenonT(60)
  <2>2. QED
    BY <2>1, ShowsNext, ZenonT(60) DEF Reads
<1>5. Shows(s, k + 1, "ERROR_CODE", q.errorCode)
  <2>1. q.errorCode = IF a.type = "ERROR_CODE" THEN Content(a) ELSE p.errorCode
    BY StoreFacts, ZenonT(60)
  <2>2. QED
    BY <2>1, ShowsNext, ZenonT(60) DEF Reads
<1>6. q.hasUseCandidate <=> Occurs(s, k + 1, "USE_CANDIDATE")
  <2>1. q.hasUseCandidate = IF a.type = "USE_CANDIDATE" THEN TRUE ELSE p.hasUseCandidate
    BY StoreFacts, ZenonT(60)
  <2>2. QED
    BY <2>1, OccursNext, ZenonT(60) DEF Reads
<1>7. q.hasFingerprint <=> Occurs(s, k + 1, "FINGERPRINT")
  <2>1. q.hasFingerprint = IF a.type = "FINGERPRINT" THEN TRUE ELSE p.hasFingerprint
    BY StoreFacts, ZenonT(60)
  <2>2. QED
    BY <2>1, OccursNext, ZenonT(60) DEF Reads
<1>8. Signed(s, k + 1, q.messageIntegrity)
  <2>1. q.messageIntegrity = IF a.type = "MESSAGE_INTEGRITY" THEN a ELSE p.messageIntegrity
    BY StoreFacts, ZenonT(60)
  <2>2. k + 1 \in 1 .. k + 1 /\ \A i \in 1 .. k : i \in 1 .. k + 1
    OBVIOUS
  <2>3. CASE a.type = "MESSAGE_INTEGRITY"
    <3>1. a.length = 20
      BY <2>3 DEF LengthOk
    <3>2. QED
      BY <2>1, <2>2, <2>3, <3>1, ZenonT(60) DEF Signed
  <2>4. CASE a.type # "MESSAGE_INTEGRITY"
    <3>1. Signed(s, k, p.messageIntegrity)
      BY ZenonT(60) DEF Reads
    <3>2. QED
      BY <2>1, <2>2, <2>4, <3>1, OccursNext, ZenonT(60) DEF Signed
  <2>5. QED
    BY <2>3, <2>4
<1> HIDE DEF q
<1>9. Reads(s, k + 1, q)
  BY <1>1, <1>2, <1>3, <1>4, <1>5, <1>6, <1>7, <1>8, ZenonT(60) DEF Reads
<1>10. QED
  BY <1>9 DEF q

(* The packet remembers a MESSAGE-INTEGRITY that was read. *)
LEMMA SignedFacts ==
  ASSUME NEW s, NEW k \in Nat, NEW p, Reads(s, k, p)
  PROVE  HasMessageIntegrity(p) <=> Occurs(s, k, "MESSAGE_INTEGRITY")
<1>1. Signed(s, k, p.messageIntegrity)
  BY ZenonT(60) DEF Reads
<1>2. 20 # 0
  OBVIOUS
<1>3. QED
  BY <1>1, <1>2, ZenonT(60) DEF Signed, Occurs, HasMessageIntegrity

(* The checks before an attribute is stored keep the order of a message. *)
LEMMA PassedNext ==
  ASSUME NEW s, NEW k \in Nat, NEW p, Reads(s, k, p), Passed(s, k),
         LengthOk(s[k + 1]), OrderOk(p, s[k + 1])
  PROVE  Passed(s, k + 1)
<1>1. ~Occurs(s, k, "FINGERPRINT")
  BY ZenonT(60) DEF OrderOk, Reads
<1>2. Occurs(s, k, "MESSAGE_INTEGRITY") => s[k + 1].type = "FINGERPRINT"
  BY SignedFacts, ZenonT(60) DEF OrderOk
<1> SUFFICES ASSUME NEW i \in 1 .. k + 1
             PROVE  /\ LengthOk(s[i])
                    /\ s[i].type = "FINGERPRINT" => i = k + 1
                    /\ s[i].type = "MESSAGE_INTEGRITY" =>
                         \/ i = k + 1
                         \/ i = (k + 1) - 1 /\ s[k + 1].type = "FINGERPRINT"
  BY ZenonT(60) DEF Passed
<1>3. CASE i = k + 1
  BY <1>3, ZenonT(60)
<1>4. CASE i \in 1 .. k
  <2>1. k \in 1 .. k /\ (k + 1) - 1 = k
    BY <1>4
  <2>2. LengthOk(s[i]) /\ s[i].type # "FINGERPRINT" /\ s[k].type # "FINGERPRINT"
    BY <1>1, <1>4, <2>1, ZenonT(60) DEF Occurs, Passed
  <2>3. s[i].type = "MESSAGE_INTEGRITY" => i = k /\ s[k + 1].type = "FINGERPRINT"
    BY <1>2, <1>4, <2>2, ZenonT(60) DEF Occurs, Passed
  <2>4. QED
    BY <2>1, <2>2, <2>3, ZenonT(60)
<1>5. QED
  BY <1>3, <1>4

(* What the order check refuses is not a message. *)
LEMMA OrderRefuses ==
  ASSUME NEW d, d.attrs \in Seq(Attributes), NEW k \in Nat, k + 1 \in 1 .. Len(d.attrs),
         NEW p, Reads(d.attrs, k, p), ~OrderOk(p, d.attrs[k + 1])
  PROVE  ~WellFormed(d)
<1> DEFINE s == d.attrs
           n == Len(s)
<1>1. n \in Nat /\ \A i \in 1 .. k : i \in 1 .. n /\ i # n /\ (i = n - 1 => n = k + 1)
  OBVIOUS
<1> SUFFICES ASSUME WellFormed(d) PROVE FALSE
  OBVIOUS
<1>2. \A i \in 1 .. n : /\ s[i].type = "FINGERPRINT" => i = n
                        /\ s[i].type = "MESSAGE_INTEGRITY" =>
                             i = n \/ (i = n - 1 /\ s[n].type = "FINGERPRINT")
  BY ZenonT(60) DEF WellFormed
<1>3. ~Occurs(s, k, "FINGERPRINT")
  BY <1>1, <1>2, ZenonT(60) DEF Occurs
<1>4. Occurs(s, k, "MESSAGE_INTEGRITY") => s[k + 1].type = "FINGERPRINT"
  BY <1>1, <1>2, ZenonT(60) DEF Occurs
<1>5. QED
  BY <1>3, <1>4, SignedFacts, ZenonT(60) DEF OrderOk, Reads

----------------------------------------------------------------------------
(* The steps of Parse.                                                     *)

(* The class and the method of a type field. *)
LEMMA TypeFacts ==
  ASSUME NEW t \in Nat
  PROVE  ClassOf(t) \in 0 .. 3 /\ MethodOf(t) \in Methods
<1>1. ClassOf(t) \in 0 .. 3
  BY DEF ClassOf
<1> DEFINE x == t % 16
           y == (t \div 32) % 8
           z == (t \div 512) % 32
           Small(u, v, w) == u \in Nat /\ u < 16 /\ v \in Nat /\ v < 8 /\ w \in Nat /\ w < 32
           Joined(u, v, w) == u + v * 16 + w * 128
<1>2. Small(x, y, z)
  OBVIOUS
<1>3. MethodOf(t) = Joined(x, y, z)
  BY Zenon DEF MethodOf
<1>4. \A u, v, w : Small(u, v, w) => Joined(u, v, w) \in Methods
  <2>1. ASSUME NEW u, NEW v, NEW w, Small(u, v, w)
        PROVE  Joined(u, v, w) \in Nat /\ Joined(u, v, w) <= 16 * 256 - 1
    BY <2>1, SMTT(60)
  <2>2. \A n \in Nat : n <= 16 * 256 - 1 => n \in Methods
    BY SMTT(60) DEF Methods
  <2> HIDE DEF Small, Joined
  <2>3. QED
    BY <2>1, <2>2, ZenonT(60)
<1> HIDE DEF x, y, z, Small, Joined
<1>5. QED
  BY <1>1, <1>2, <1>3, <1>4, ZenonT(60)

(* What a datagram is, without its record type. *)
LEMMA DatagramFacts ==
  ASSUME NEW d, IsDatagram(d)
  PROVE  /\ d.size \in Nat /\ d.size <= MaxDatagram /\ d.size < Wrap
         /\ d.type \in Nat /\ d.length \in Nat /\ d.cookie \in BOOLEAN
         /\ d.attrs \in Seq(Attributes) /\ Len(d.attrs) \in Nat
         /\ MaxDatagram \in Nat /\ HeaderSize <= MaxDatagram
<1>1. /\ d.size \in 0 .. MaxDatagram /\ d.cookie \in BOOLEAN /\ d.type \in Word
      /\ d.length \in Word /\ d.attrs \in Seq(Attributes)
  BY ZenonT(60) DEF IsDatagram
<1>2. MaxDatagram \in HeaderSize .. Wrap - 4
  BY DatagramAssumption, ZenonT(60)
<1>3. Wrap \in Nat
  BY DEF Wrap
<1>4. MaxDatagram \in Nat /\ HeaderSize <= MaxDatagram /\ MaxDatagram < Wrap
  BY <1>2, <1>3 DEF HeaderSize
<1>5. d.size \in Nat /\ d.size <= MaxDatagram /\ d.size < Wrap
  BY <1>1, <1>3, <1>4
<1>6. \A x \in Word : x \in Nat
  BY DEF Word
<1>7. Len(d.attrs) \in Nat
  BY <1>1
<1>8. QED
  BY <1>1, <1>4, <1>5, <1>6, <1>7, ZenonT(60)

(* A datagram whose header is accepted is a multiple of four long. *)
LEMMA HeaderFacts ==
  ASSUME NEW d, IsDatagram(d), HeaderOk(d)
  PROVE  d.size % 4 = 0 /\ HeaderSize <= d.size /\ d.length + HeaderSize = d.size
<1>1. d.size \in Nat /\ d.length \in Nat
  BY DatagramFacts, ZenonT(60)
<1>2. d.size >= HeaderSize /\ d.length = d.size - HeaderSize /\ d.length % 4 = 0
  BY ZenonT(60) DEF HeaderOk, IsStun
<1>3. QED
  BY <1>1, <1>2 DEF HeaderSize

(* Its class is one of the four. *)
LEMMA HeaderType ==
  ASSUME NEW d, IsDatagram(d), HeaderOk(d)
  PROVE  d.cookie /\ d.type < 3 * 256
<1>1. d.type \in Nat
  BY DatagramFacts, ZenonT(60)
<1>2. d.type \div 256 < 3 /\ d.cookie
  BY ZenonT(60) DEF HeaderOk, IsStun
<1>3. d.type < 3 * 256
  BY <1>1, <1>2
<1>4. QED
  BY <1>2, <1>3, ZenonT(60)

(* The end of the attributes is a multiple of four. *)
LEMMA EndAligned ==
  ASSUME NEW s \in Seq(Attributes)
  PROVE  End(s) \in Nat /\ End(s) % 4 = 0
<1>1. Len(s) + 1 \in 1 .. Len(s) + 1
  OBVIOUS
<1>2. QED
  BY <1>1, StartsAligned, ZenonT(60) DEF Aligned, End

(* A header that is refused is not that of a message; after a failed       *)
(* recvfrom it always is.                                                  *)
LEMMA HeaderRefuses ==
  ASSUME NEW d, IsDatagram(d) \/ IsFailure(d), ~HeaderOk(d) \/ IsFailure(d)
  PROVE  ~WellFormed(d) /\ (IsFailure(d) => ~HeaderOk(d))
<1>1. CASE IsFailure(d)
  <2>1. Wrap \in Nat /\ Wrap > 0
    BY DEF Wrap
  <2>2. d.length \in Word /\ d.size = FailedRecv
    BY <1>1, ZenonT(60) DEF IsFailure
  <2>3. \A x \in Word : x + HeaderSize # FailedRecv /\ x # FailedRecv - HeaderSize
    BY <2>1 DEF Word, FailedRecv, HeaderSize
  <2>4. d.length + HeaderSize # d.size /\ d.length # d.size - HeaderSize
    BY <2>2, <2>3, ZenonT(60)
  <2>5. QED
    BY <2>4, ZenonT(60) DEF WellFormed, HeaderOk
<1>2. CASE IsDatagram(d) /\ ~HeaderOk(d)
  <2>1. /\ d.size \in Nat /\ d.type \in Nat /\ d.length \in Nat
        /\ d.attrs \in Seq(Attributes)
    BY <1>2, DatagramFacts, ZenonT(60)
  <2> SUFFICES ASSUME WellFormed(d) PROVE FALSE
    <3>1. CASE IsFailure(d)
      BY <1>1, <3>1
    <3>2. CASE ~IsFailure(d)
      BY <3>2
    <3>3. QED
      BY <3>1, <3>2
  <2>2. d.cookie /\ d.type < 3 * 256 /\ d.length + HeaderSize = d.size /\ End(d.attrs) = d.size
    BY ZenonT(60) DEF WellFormed
  <2>3. d.size % 4 = 0
    BY <2>1, <2>2, EndAligned, ZenonT(60)
  <2>4. d.size >= HeaderSize /\ d.length = d.size - HeaderSize /\ d.length % 4 = 0
    BY <2>1, <2>2, <2>3 DEF HeaderSize
  <2>5. d.type \div 256 < 3
    BY <2>1, <2>2
  <2>6. QED
    BY <1>2, <2>2, <2>4, <2>5, ZenonT(60) DEF HeaderOk, IsStun
<1>3. QED
  BY <1>1, <1>2, ZenonT(60)

(* The packet with which the loop begins. *)
LEMMA ScanBegins ==
  ASSUME NEW d, IsDatagram(d), HeaderOk(d)
  PROVE  Scanned(d, 0, HeaderSize, NewStunPacket(ClassOf(d.type), MethodOf(d.type)))
<1> DEFINE p == NewStunPacket(ClassOf(d.type), MethodOf(d.type))
<1>1. /\ p.username = 0 /\ p.priority = 0 /\ p.iceControlling = 0 /\ p.iceControlled = 0
      /\ p.errorCode = 0 /\ p.hasUseCandidate = FALSE /\ p.hasFingerprint = FALSE
      /\ p.messageIntegrity.length = 0
      /\ p.klass = ClassOf(d.type) /\ p.method = MethodOf(d.type)
  BY DEF NewStunPacket, Attr
<1> HIDE DEF p
<1>2. Reads(d.attrs, 0, p)
  BY <1>1, ShowsNothing, ZenonT(60) DEF Reads, Signed
<1>3. Passed(d.attrs, 0)
  <2>1. \A i : i \notin 1 .. 0
    OBVIOUS
  <2>2. QED
    BY <2>1, ZenonT(60) DEF Passed
<1>4. d.attrs \in Seq(Attributes) /\ 0 \in 0 .. Len(d.attrs) /\ 0 + 1 = 1
  BY DatagramFacts
<1>5. HeaderSize = Starts(d.attrs)[0 + 1] /\ HeaderSize <= d.size
  BY <1>4, StartsNext, HeaderFacts, ZenonT(60)
<1>6. Scanned(d, 0, HeaderSize, p)
  BY <1>1, <1>2, <1>3, <1>4, <1>5, ZenonT(60) DEF Scanned
<1>7. QED
  BY <1>6 DEF p

(* What a scan knows, without the packet. *)
LEMMA ScanFacts ==
  ASSUME NEW d, NEW k, NEW at, NEW p, Scanned(d, k, at, p)
  PROVE  /\ IsDatagram(d) /\ HeaderOk(d) /\ k \in Nat /\ k <= Len(d.attrs)
         /\ Len(d.attrs) \in Nat /\ k + 1 \in 1 .. Len(d.attrs) + 1
         /\ at = Starts(d.attrs)[k + 1] /\ Aligned(at) /\ at \in Nat
         /\ at <= d.size /\ d.size \in Nat /\ d.attrs \in Seq(Attributes)
<1>1. /\ IsDatagram(d) /\ HeaderOk(d) /\ k \in 0 .. Len(d.attrs)
      /\ at = Starts(d.attrs)[k + 1] /\ at <= d.size
  BY ZenonT(60) DEF Scanned
<1>2. d.size \in Nat /\ d.attrs \in Seq(Attributes) /\ Len(d.attrs) \in Nat
  BY <1>1, DatagramFacts, ZenonT(60)
<1>3. k \in Nat /\ k <= Len(d.attrs) /\ k + 1 \in 1 .. Len(d.attrs) + 1
  BY <1>1, <1>2
<1>4. Aligned(at) /\ at \in Nat
  BY <1>1, <1>2, <1>3, StartsAligned, ZenonT(60) DEF Aligned
<1>5. QED
  BY <1>1, <1>2, <1>3, <1>4, ZenonT(60)

(* While four more bytes are there, so is the attribute. *)
LEMMA ScanInside ==
  ASSUME NEW d, NEW k, NEW at, NEW p, Scanned(d, k, at, p), at + 4 <= d.size
  PROVE  k + 1 \in 1 .. Len(d.attrs)
<1>1. /\ IsDatagram(d) /\ k \in Nat /\ k <= Len(d.attrs) /\ Len(d.attrs) \in Nat
      /\ at = Starts(d.attrs)[k + 1] /\ at \in Nat /\ d.size \in Nat
  BY ScanFacts, ZenonT(60)
<1>2. d.size < End(d.attrs) + 4
  BY <1>1, ZenonT(60) DEF IsDatagram
<1>3. k # Len(d.attrs)
  <2> SUFFICES ASSUME k = Len(d.attrs) PROVE FALSE
    OBVIOUS
  <2>1. at = End(d.attrs)
    BY <1>1, ZenonT(60) DEF End
  <2>2. QED
    BY <1>1, <1>2, <2>1
<1>4. QED
  BY <1>1, <1>3

(* One iteration of the loop that does not return. *)
LEMMA ScanStep ==
  ASSUME NEW d, NEW k, NEW at, NEW p \in Packets, Scanned(d, k, at, p),
         k + 1 \in 1 .. Len(d.attrs), at + 4 + d.attrs[k + 1].length <= d.size,
         OrderOk(p, d.attrs[k + 1]), LengthOk(d.attrs[k + 1])
  PROVE  Scanned(d, k + 1, NextPosition(at, d.attrs[k + 1]), Store(p, d.attrs[k + 1]))
<1> DEFINE a == d.attrs[k + 1]
           q == Store(p, a)
<1>1. /\ IsDatagram(d) /\ HeaderOk(d) /\ k \in Nat /\ k <= Len(d.attrs)
      /\ Len(d.attrs) \in Nat /\ at = Starts(d.attrs)[k + 1] /\ Aligned(at)
      /\ d.size \in Nat /\ d.attrs \in Seq(Attributes)
  BY ScanFacts, ZenonT(60)
<1>2. /\ p.klass = ClassOf(d.type) /\ p.method = MethodOf(d.type)
      /\ Reads(d.attrs, k, p) /\ Passed(d.attrs, k)
  BY ZenonT(60) DEF Scanned
<1>3. a \in Attributes
  BY <1>1, AttributeFacts, ZenonT(60)
<1>4. NextPosition(at, a) = at + Span(a) /\ at + Span(a) <= d.size
  <2>1. d.size % 4 = 0 /\ d.size < Wrap
    BY <1>1, HeaderFacts, DatagramFacts, ZenonT(60)
  <2>2. QED
    BY <1>1, <1>3, <2>1, NextPositionFacts, ZenonT(60)
<1>5. Starts(d.attrs)[(k + 1) + 1] = at + Span(a)
  BY <1>1, StartsNext, ZenonT(60)
<1>6. q.klass = ClassOf(d.type) /\ q.method = MethodOf(d.type)
  BY <1>2, StoreFacts, ZenonT(60)
<1>7. Reads(d.attrs, k + 1, q)
  BY <1>1, <1>2, ReadsNext, ZenonT(60)
<1>8. Passed(d.attrs, k + 1)
  BY <1>1, <1>2, PassedNext, ZenonT(60)
<1>9. k + 1 \in 0 .. Len(d.attrs)
  BY <1>1
<1> HIDE DEF q
<1>10. Scanned(d, k + 1, NextPosition(at, a), q)
  BY <1>1, <1>4, <1>5, <1>6, <1>7, <1>8, <1>9, ZenonT(60) DEF Scanned
<1>11. QED
  BY <1>10 DEF q

(* One iteration of the loop that returns nothing. *)
LEMMA ScanRefuses ==
  ASSUME NEW d, NEW k, NEW at, NEW p, Scanned(d, k, at, p),
         k + 1 \in 1 .. Len(d.attrs),
         ~(/\ at + 4 + d.attrs[k + 1].length <= d.size
           /\ OrderOk(p, d.attrs[k + 1]) /\ LengthOk(d.attrs[k + 1]))
  PROVE  ~WellFormed(d)
<1> DEFINE a == d.attrs[k + 1]
<1>1. /\ IsDatagram(d) /\ k \in Nat /\ k <= Len(d.attrs) /\ Len(d.attrs) \in Nat
      /\ at = Starts(d.attrs)[k + 1] /\ at \in Nat /\ d.size \in Nat
      /\ d.attrs \in Seq(Attributes)
  BY ScanFacts, ZenonT(60)
<1>2. CASE ~(at + 4 + a.length <= d.size)
  <2>1. Len(d.attrs) + 1 \in (k + 1) + 1 .. Len(d.attrs) + 1
    BY <1>1
  <2>2. at + 4 + a.length <= End(d.attrs)
    BY <1>1, <2>1, StartsApart, ZenonT(60) DEF End
  <2>3. End(d.attrs) # d.size
    BY <1>2, <2>2, ZenonT(60)
  <2>4. QED
    BY <2>3, ZenonT(60) DEF WellFormed
<1>3. CASE ~OrderOk(p, a)
  BY <1>1, <1>3, OrderRefuses, ZenonT(60) DEF Scanned
<1>4. CASE ~LengthOk(a)
  BY <1>4, LengthOkFacts, ZenonT(60) DEF WellFormed
<1>5. QED
  BY <1>2, <1>3, <1>4, ZenonT(60)

(* The loop ends behind the last attribute. *)
LEMMA ScanLast ==
  ASSUME NEW d, NEW k, NEW at, NEW p, Scanned(d, k, at, p), ~(at + 4 <= d.size)
  PROVE  k = Len(d.attrs) /\ at = End(d.attrs)
<1>1. /\ IsDatagram(d) /\ k \in Nat /\ k <= Len(d.attrs) /\ Len(d.attrs) \in Nat
      /\ k + 1 \in 1 .. Len(d.attrs) + 1 /\ at = Starts(d.attrs)[k + 1]
      /\ at \in Nat /\ d.size \in Nat /\ d.attrs \in Seq(Attributes)
  BY ScanFacts, ZenonT(60)
<1>2. k = Len(d.attrs)
  <2> SUFFICES ASSUME k # Len(d.attrs) PROVE FALSE
    OBVIOUS
  <2>1. /\ d.attrs # <<>> /\ Len(d.attrs) \in k + 1 .. Len(d.attrs) + 1
        /\ Len(d.attrs) \in 1 .. Len(d.attrs) + 1 /\ k + 1 <= Len(d.attrs)
    BY <1>1
  <2>2. at <= Starts(d.attrs)[Len(d.attrs)]
    BY <1>1, <2>1, StartsMonotone, ZenonT(60)
  <2>3. Starts(d.attrs)[Len(d.attrs)] + 4 <= d.size
    BY <1>1, <2>1, ZenonT(60) DEF IsDatagram
  <2>4. Starts(d.attrs)[Len(d.attrs)] \in Nat
    BY <1>1, <2>1, StartsAligned, ZenonT(60) DEF Aligned
  <2>5. \A x, y, z \in Nat : x <= y /\ y + 4 <= z => x + 4 <= z
    OBVIOUS
  <2>6. QED
    BY <1>1, <2>2, <2>3, <2>4, <2>5, ZenonT(60)
<1>3. QED
  BY <1>1, <1>2, ZenonT(60) DEF End

(* What is accepted after the loop is a message. *)
LEMMA ScanAccepts ==
  ASSUME NEW d, NEW k, NEW at, NEW p, Scanned(d, k, at, p), ~(at + 4 <= d.size),
         at = d.size, FingerprintOk(d, p)
  PROVE  WellFormed(d)
<1> DEFINE s == d.attrs
           n == Len(s)
<1>1. IsDatagram(d) /\ HeaderOk(d) /\ n \in Nat
  BY ScanFacts, ZenonT(60)
<1>2. k = n /\ End(s) = d.size
  BY ScanLast, ZenonT(60)
<1>3. d.cookie /\ d.type < 3 * 256 /\ d.length + HeaderSize = d.size
  BY <1>1, HeaderFacts, HeaderType, ZenonT(60)
<1>4. ASSUME NEW i \in 1 .. n
      PROVE  /\ s[i].type \in DOMAIN FixedLength => s[i].length = FixedLength[s[i].type]
             /\ s[i].type = "ERROR_CODE" => s[i].length >= 4
             /\ s[i].type = "FINGERPRINT" => i = n /\ s[i].value = d.length
             /\ s[i].type = "MESSAGE_INTEGRITY" =>
                  i = n \/ (i = n - 1 /\ s[n].type = "FINGERPRINT")
  <2>1. /\ LengthOk(s[i])
        /\ s[i].type = "FINGERPRINT" => i = n
        /\ s[i].type = "MESSAGE_INTEGRITY" =>
             i = n \/ (i = n - 1 /\ s[n].type = "FINGERPRINT")
    BY <1>2, ZenonT(60) DEF Scanned, Passed
  <2>2. s[i].type = "FINGERPRINT" => p.hasFingerprint
    BY <1>2, ZenonT(60) DEF Scanned, Reads, Occurs
  <2>3. s[i].type = "FINGERPRINT" => s[n].value = d.length
    BY <2>2, ZenonT(60) DEF FingerprintOk
  <2>4. QED
    BY <2>1, <2>3, LengthOkFacts, ZenonT(60)
<1>5. QED
  BY <1>2, <1>3, <1>4, ZenonT(60) DEF WellFormed

(* What is refused after the loop is not. *)
LEMMA ScanEndRefuses ==
  ASSUME NEW d, NEW k, NEW at, NEW p, Scanned(d, k, at, p), ~(at + 4 <= d.size),
         ~(at = d.size /\ FingerprintOk(d, p))
  PROVE  ~WellFormed(d)
<1> SUFFICES ASSUME WellFormed(d) PROVE FALSE
  OBVIOUS
<1>1. k = Len(d.attrs) /\ at = End(d.attrs)
  BY ScanLast, ZenonT(60)
<1>2. at = d.size
  BY <1>1, ZenonT(60) DEF WellFormed
<1>3. p.hasFingerprint /\ d.attrs[Len(d.attrs)].value # d.length
  BY <1>2, ZenonT(60) DEF FingerprintOk
<1>4. PICK i \in 1 .. Len(d.attrs) : d.attrs[i].type = "FINGERPRINT"
  BY <1>1, <1>3, ZenonT(60) DEF Scanned, Reads, Occurs
<1>5. i = Len(d.attrs) /\ d.attrs[i].value = d.length
  BY <1>4, ZenonT(60) DEF WellFormed
<1>6. QED
  BY <1>3, <1>5, ZenonT(60)

----------------------------------------------------------------------------
(* What Serialize writes.                                                  *)

(* An attribute is among those of a message. *)
Has(s, a) == \E i \in 1 .. Len(s) : s[i] = a

(* One attribute more at the end. *)
LEMMA AppendFacts ==
  ASSUME NEW s \in Seq(Attributes), NEW a \in Attributes
  PROVE  /\ s \o <<a>> \in Seq(Attributes) /\ Len(s \o <<a>>) = Len(s) + 1
         /\ End(s \o <<a>>) = End(s) + Span(a)
         /\ (s \o <<a>>)[Len(s) + 1] = a
         /\ \A i \in 1 .. Len(s) : (s \o <<a>>)[i] = s[i]
         /\ \A x : Has(s \o <<a>>, x) <=> Has(s, x) \/ x = a
<1> DEFINE t == s \o <<a>>
<1>1. /\ t = Append(s, a) /\ t \in Seq(Attributes) /\ Len(t) = Len(s) + 1
      /\ t[Len(s) + 1] = a /\ \A i \in 1 .. Len(s) : t[i] = s[i]
  OBVIOUS
<1> HIDE DEF t
<1>2. End(t) = End(s) + Span(a)
  BY <1>1, StartsAppend, ZenonT(60)
<1>3. \A i : i \in 1 .. Len(s) + 1 <=> i \in 1 .. Len(s) \/ i = Len(s) + 1
  OBVIOUS
<1>4. \A x : Has(t, x) <=> Has(s, x) \/ x = a
  BY <1>1, <1>3, ZenonT(60) DEF Has
<1>5. QED
  BY <1>1, <1>2, <1>4, ZenonT(60) DEF t

(* An attribute that is written under a condition. *)
LEMMA OptionalFacts ==
  ASSUME NEW s \in Seq(Attributes), NEW c \in BOOLEAN, NEW a \in Attributes
  PROVE  /\ s \o Optional(c, a) \in Seq(Attributes)
         /\ End(s \o Optional(c, a)) = End(s) + (IF c THEN Span(a) ELSE 0)
         /\ \A x : Has(s \o Optional(c, a), x) <=> Has(s, x) \/ (c /\ x = a)
<1>1. CASE c
  <2>1. s \o Optional(c, a) = s \o <<a>>
    BY <1>1, ZenonT(60) DEF Optional
  <2>2. QED
    BY <1>1, <2>1, AppendFacts, ZenonT(60)
<1>2. CASE ~c
  <2>1. s \o Optional(c, a) = s
    BY <1>2 DEF Optional
  <2>2. End(s) + 0 = End(s)
    BY EndAligned
  <2>3. QED
    BY <1>2, <2>1, <2>2, ZenonT(60)
<1>3. QED
  BY <1>1, <1>2

(* A message without attributes. *)
LEMMA NoAttributes ==
  /\ <<>> \in Seq(Attributes) /\ End(<<>>) = HeaderSize /\ \A x : ~Has(<<>>, x)
  /\ \A s \in Seq(Attributes) : <<>> \o s = s
<1>1. <<>> \in Seq(Attributes) /\ Len(<<>>) = 0 /\ 0 + 1 = 1 /\ \A i : i \notin 1 .. 0
  OBVIOUS
<1>2. End(<<>>) = HeaderSize
  BY <1>1, StartsNext, ZenonT(60) DEF End
<1>3. \A x : ~Has(<<>>, x)
  BY <1>1, ZenonT(60) DEF Has
<1>4. \A s \in Seq(Attributes) : <<>> \o s = s
  OBVIOUS
<1>5. QED
  BY <1>1, <1>2, <1>3, <1>4

(* The fields of an attribute, and its type. *)
LEMMA AttrFacts ==
  ASSUME NEW type, NEW length, NEW value, NEW key
  PROVE  /\ Attr(type, length, value, key).type = type
         /\ Attr(type, length, value, key).length = length
         /\ Attr(type, length, value, key).value = value
         /\ Attr(type, length, value, key).key = key
         /\ type \in Attribute /\ length \in Word /\ value \in Nat /\ key \in Strings =>
              Attr(type, length, value, key) \in Attributes
<1>1. /\ Attr(type, length, value, key).type = type
      /\ Attr(type, length, value, key).length = length
      /\ Attr(type, length, value, key).value = value
      /\ Attr(type, length, value, key).key = key
  BY DEF Attr
<1>2. ASSUME type \in Attribute, length \in Word, value \in Nat, key \in Strings
      PROVE  Attr(type, length, value, key) \in Attributes
  BY <1>2, ZenonT(60) DEF Attr, Attributes
<1>3. QED
  BY <1>1, <1>2, ZenonT(60)

(* The bytes of an attribute, from its length. *)
LEMMA SpanOf ==
  ASSUME NEW type, NEW value, NEW key
  PROVE  /\ Span(Attr(type, 0, value, key)) = 4 /\ Span(Attr(type, 4, value, key)) = 8
         /\ Span(Attr(type, 8, value, key)) = 12 /\ Span(Attr(type, 20, value, key)) = 24
<1>1. \A n \in Nat : Span(Attr(type, n, value, key)) = 4 + ((n + 3) \div 4) * 4
  BY DEF Span, Attr
<1>2. /\ 4 + ((0 + 3) \div 4) * 4 = 4 /\ 4 + ((4 + 3) \div 4) * 4 = 8
      /\ 4 + ((8 + 3) \div 4) * 4 = 12 /\ 4 + ((20 + 3) \div 4) * 4 = 24
  OBVIOUS
<1>3. 0 \in Nat /\ 4 \in Nat /\ 8 \in Nat /\ 20 \in Nat
  OBVIOUS
<1>4. QED
  BY <1>1, <1>2, <1>3, ZenonT(60)

(* The padding that Serialize counts and writes is the one Parse skips. *)
LEMMA SpanUsername ==
  ASSUME NEW n \in 0 .. MaxDatagram, NEW type, NEW value, NEW key
  PROVE  Span(Attr(type, n, value, key)) = 4 + PadTo4Bytes(n)
<1> DEFINE r == ((n + 3) \div 4) * 4
<1>1. MaxDatagram \in HeaderSize .. Wrap - 4
  BY DatagramAssumption, ZenonT(60)
<1>2. Wrap \in Nat /\ Wrap % 4 = 0 /\ Wrap > 4
  BY DEF Wrap
<1>3. n \in Nat /\ n <= Wrap - 4
  BY <1>1, <1>2 DEF HeaderSize
<1>4. Wrap - 4 \in Nat /\ (Wrap - 4) % 4 = 0 /\ Wrap - 4 < Wrap
  BY <1>2
<1>5. /\ PadTo4Bytes(n) \in Nat /\ PadTo4Bytes(n) % 4 = 0
      /\ n <= PadTo4Bytes(n) /\ PadTo4Bytes(n) < n + 4
  BY <1>3, <1>4, PadFacts, ZenonT(60)
<1>6. r \in Nat /\ r % 4 = 0 /\ n <= r /\ r < n + 4
  BY <1>3, RoundUp
<1>7. Span(Attr(type, n, value, key)) = 4 + r
  BY DEF Span, Attr
<1> HIDE DEF r
<1>8. r = PadTo4Bytes(n)
  BY <1>3, <1>5, <1>6, OneMultiple, ZenonT(60)
<1>9. QED
  BY <1>7, <1>8, ZenonT(60)

(* The attributes that Serialize may write, in its order. *)
UsernameOf(p) == Attr("USERNAME", p.username, 0, Empty)
PriorityOf(p) == Attr("PRIORITY", 4, p.priority, Empty)
ControllingOf(p) == Attr("ICE_CONTROLLING", 8, p.iceControlling, Empty)
ControlledOf(p) == Attr("ICE_CONTROLLED", 8, p.iceControlled, Empty)
CandidateOf(p) == Attr("USE_CANDIDATE", 0, 0, Empty)
AddressOf(p) == Attr("XOR_MAPPED_ADDRESS", xorMappedAddressPaddedLen(p), 0, Empty)
ErrorOf(p) == Attr("ERROR_CODE", 4, ErrorCodeValue(p.errorCode), Empty)
IntegrityOf(p) ==
  Attr("MESSAGE_INTEGRITY", 20, IntegrityLength(SerializedSize(p)), p.password)
FingerprintOf(p) == Attr("FINGERPRINT", 4, SerializedSize(p) - HeaderSize, Empty)

(* The attributes before MESSAGE-INTEGRITY. *)
Plain(p) ==
  Optional(p.username # 0, UsernameOf(p))
  \o Optional(p.priority # 0, PriorityOf(p))
  \o Optional(p.iceControlling # 0, ControllingOf(p))
  \o Optional(p.iceControlled # 0, ControlledOf(p))
  \o Optional(p.hasUseCandidate, CandidateOf(p))
  \o Optional(AddXorMappedAddress(p), AddressOf(p))
  \o Optional(AddErrorCode(p), ErrorOf(p))

(* One of them. *)
IsPlain(p, x) ==
  \/ p.username # 0 /\ x = UsernameOf(p)
  \/ p.priority # 0 /\ x = PriorityOf(p)
  \/ p.iceControlling # 0 /\ x = ControllingOf(p)
  \/ p.iceControlled # 0 /\ x = ControlledOf(p)
  \/ p.hasUseCandidate /\ x = CandidateOf(p)
  \/ AddXorMappedAddress(p) /\ x = AddressOf(p)
  \/ AddErrorCode(p) /\ x = ErrorOf(p)

(* The bytes of the attributes before MESSAGE-INTEGRITY. *)
PlainSize(p) ==
  HeaderSize
    + (IF p.username # 0 THEN Span(UsernameOf(p)) ELSE 0)
    + (IF p.priority # 0 THEN Span(PriorityOf(p)) ELSE 0)
    + (IF p.iceControlling # 0 THEN Span(ControllingOf(p)) ELSE 0)
    + (IF p.iceControlled # 0 THEN Span(ControlledOf(p)) ELSE 0)
    + (IF p.hasUseCandidate THEN Span(CandidateOf(p)) ELSE 0)
    + (IF AddXorMappedAddress(p) THEN Span(AddressOf(p)) ELSE 0)
    + (IF AddErrorCode(p) THEN Span(ErrorOf(p)) ELSE 0)

(* The second pass of Serialize, in these terms. *)
LEMMA SerializedIs ==
  ASSUME NEW p
  PROVE  SerializedAttrs(p) =
           Plain(p) \o Optional(AddMessageIntegrity(p), IntegrityOf(p)) \o <<FingerprintOf(p)>>
BY ZenonT(60)
   DEF SerializedAttrs, Plain, UsernameOf, PriorityOf, ControllingOf, ControlledOf,
       CandidateOf, AddressOf, ErrorOf, IntegrityOf, FingerprintOf

(* An error code is written as two bytes, whatever it is. *)
LEMMA ErrorCodeTyped ==
  ASSUME NEW code \in Nat
  PROVE  ErrorCodeValue(code) \in Word
<1> DEFINE c == (code \div 100) % 256
           r == ((code % 256) - c * 100) % 256
<1>1. c \in Nat /\ c < 256
  <2>1. code \div 100 \in Nat
    OBVIOUS
  <2>2. QED
    BY <2>1
<1>2. r \in Nat /\ r < 256
  <2>1. code % 256 \in Nat
    OBVIOUS
  <2> HIDE DEF c
  <2>2. QED
    BY <1>1, <2>1
<1>3. ErrorCodeValue(code) = c * 256 + r
  BY Zenon DEF ErrorCodeValue
<1> HIDE DEF c, r
<1>4. c * 256 + r \in Nat /\ Wrap \in Nat /\ c * 256 + r < Wrap
  BY <1>1, <1>2 DEF Wrap
<1> DEFINE v == c * 256 + r
<1>5. v \in Nat /\ v < Wrap /\ Wrap \in Nat /\ ErrorCodeValue(code) = v
  BY <1>3, <1>4
<1> HIDE DEF v
<1>6. v \in Word
  BY <1>5 DEF Word
<1>7. QED
  BY <1>5, <1>6

(* The hundreds and the rest of an error code go through two bytes. *)
LEMMA ErrorCodeFacts ==
  ASSUME NEW code \in Nat, code \div 100 < 256
  PROVE  /\ ErrorCodeValue(code) \in Word
         /\ (ErrorCodeValue(code) \div 256) * 100 + (ErrorCodeValue(code) % 256) = code
<1> DEFINE c == (code \div 100) % 256
           r == ((code % 256) - c * 100) % 256
<1>1. c \in Nat /\ c < 256 /\ c = code \div 100
  OBVIOUS
<1>2. r = code - c * 100 /\ r \in Nat /\ r < 256
  <2>1. \E q \in Nat : code = 256 * q + (code % 256)
    <3>1. code \div 256 \in Nat /\ code = 256 * (code \div 256) + (code % 256)
      OBVIOUS
    <3>2. QED
      BY <3>1
  <2>2. PICK q \in Nat : code = 256 * q + (code % 256)
    BY <2>1
  <2>3. code - c * 100 \in 0 .. 99
    BY <1>1
  <2> DEFINE m == code % 256
  <2>4. m \in Nat
    OBVIOUS
  <2> HIDE DEF c, m
  <2>5. (m - c * 100) % 256 = (code - c * 100) - 256 * q - 256 * ((m - c * 100) \div 256)
    BY <1>1, <2>2, <2>4 DEF m
  <2>6. QED
    BY <1>1, <2>2, <2>3, <2>4, <2>5 DEF m
<1>3. ErrorCodeValue(code) = c * 256 + r
  BY Zenon DEF ErrorCodeValue
<1> HIDE DEF c, r
<1>4. (c * 256 + r) \div 256 = c /\ (c * 256 + r) % 256 = r
  BY <1>1, <1>2
<1>5. c * 256 + r \in Nat /\ Wrap \in Nat /\ c * 256 + r < Wrap
  BY <1>1, <1>2 DEF Wrap
<1>6. c * 100 + r = code
  BY <1>1, <1>2
<1> DEFINE v == c * 256 + r
<1>7. v \div 256 = c /\ v % 256 = r /\ v \in Nat /\ v < Wrap
  BY <1>4, <1>5
<1>8. ErrorCodeValue(code) = v
  BY <1>3
<1> HIDE DEF v
<1>9. v \in Word
  BY <1>5, <1>7 DEF Word
<1>10. (v \div 256) * 100 + (v % 256) = code
  BY <1>6, <1>7
<1>11. QED
  BY <1>8, <1>9, <1>10

(* The numbers of a packet that may be built. *)
LEMMA BuiltFacts ==
  ASSUME NEW p, IsBuilt(p)
  PROVE  /\ p.klass \in 0 .. 3 /\ p.method \in Methods /\ p.username \in 0 .. MaxDatagram
         /\ p.username \in Word /\ p.priority \in Nat /\ p.iceControlling \in Nat
         /\ p.iceControlled \in Nat /\ p.errorCode \in Nat
         /\ p.hasUseCandidate \in BOOLEAN /\ p.password \in Strings
         /\ SerializedSize(p) <= MaxDatagram
<1>1. p.username \in 0 .. MaxDatagram
  BY ZenonT(60) DEF IsBuilt
<1>2. MaxDatagram \in HeaderSize .. Wrap - 4
  BY DatagramAssumption, ZenonT(60)
<1>3. Wrap \in Nat
  BY DEF Wrap
<1>4. p.username \in Word
  BY <1>1, <1>2, <1>3 DEF Word, HeaderSize
<1>5. p.errorCode \in Nat
  <2>1. p.errorCode \in Word
    BY ZenonT(60) DEF IsBuilt
  <2>2. QED
    BY <1>3, <2>1 DEF Word
<1>6. QED
  BY <1>4, <1>5, ZenonT(60) DEF IsBuilt

(* Small numbers are lengths. *)
LEMMA SmallWords == 0 \in Word /\ 4 \in Word /\ 8 \in Word /\ 20 \in Word
<1>1. Wrap \in Nat /\ Wrap > 20
  BY DEF Wrap
<1>2. QED
  BY <1>1 DEF Word

(* The attributes before MESSAGE-INTEGRITY are attributes. *)
LEMMA PlainTyped ==
  ASSUME NEW p, IsBuilt(p)
  PROVE  /\ UsernameOf(p) \in Attributes /\ PriorityOf(p) \in Attributes
         /\ ControllingOf(p) \in Attributes /\ ControlledOf(p) \in Attributes
         /\ CandidateOf(p) \in Attributes /\ AddressOf(p) \in Attributes
         /\ ErrorOf(p) \in Attributes
<1>1. Empty \in Strings /\ 0 \in Nat
  BY Zenon DEF Strings
<1>2. \A t, l, v : t \in Attribute /\ l \in Word /\ v \in Nat => Attr(t, l, v, Empty) \in Attributes
  BY <1>1, AttrFacts, ZenonT(60)
<1>3. /\ "USERNAME" \in Attribute /\ "PRIORITY" \in Attribute /\ "ICE_CONTROLLING" \in Attribute
      /\ "ICE_CONTROLLED" \in Attribute /\ "USE_CANDIDATE" \in Attribute
      /\ "XOR_MAPPED_ADDRESS" \in Attribute /\ "ERROR_CODE" \in Attribute
  BY DEF Attribute
<1>4. UsernameOf(p) \in Attributes /\ CandidateOf(p) \in Attributes
  BY <1>1, <1>2, <1>3, SmallWords, BuiltFacts, ZenonT(60) DEF UsernameOf, CandidateOf
<1>5. PriorityOf(p) \in Attributes
  BY <1>2, <1>3, SmallWords, BuiltFacts, ZenonT(60) DEF PriorityOf
<1>6. ControllingOf(p) \in Attributes /\ ControlledOf(p) \in Attributes
  BY <1>2, <1>3, SmallWords, BuiltFacts, ZenonT(60) DEF ControllingOf, ControlledOf
<1>7. AddressOf(p) \in Attributes
  BY <1>1, <1>2, <1>3, SmallWords, ZenonT(60) DEF AddressOf, xorMappedAddressPaddedLen
<1>8. ErrorOf(p) \in Attributes
  <2>1. p.errorCode \in Nat
    BY BuiltFacts, Zenon
  <2>2. ErrorCodeValue(p.errorCode) \in Nat
    <3>1. \A v \in Word : v \in Nat
      BY DEF Word
    <3>2. ErrorCodeValue(p.errorCode) \in Word
      BY <2>1, ErrorCodeTyped, Zenon
    <3>3. QED
      BY <3>1, <3>2, Zenon
  <2>3. QED
    BY <1>2, <1>3, <2>2, SmallWords, ZenonT(60) DEF ErrorOf
<1>9. QED
  BY <1>4, <1>5, <1>6, <1>7, <1>8, ZenonT(60)

(* The conditions under which they are written are truth values. *)
LEMMA ConditionsTyped ==
  ASSUME NEW p, IsBuilt(p)
  PROVE  /\ (p.username # 0) \in BOOLEAN /\ (p.priority # 0) \in BOOLEAN
         /\ (p.iceControlling # 0) \in BOOLEAN /\ (p.iceControlled # 0) \in BOOLEAN
         /\ p.hasUseCandidate \in BOOLEAN /\ AddXorMappedAddress(p) \in BOOLEAN
         /\ AddErrorCode(p) \in BOOLEAN /\ AddMessageIntegrity(p) \in BOOLEAN
BY BuiltFacts, ZenonT(60) DEF AddXorMappedAddress, AddErrorCode, AddMessageIntegrity

(* What stands before MESSAGE-INTEGRITY, and where it ends. *)
LEMMA PlainFacts ==
  ASSUME NEW p, IsBuilt(p)
  PROVE  /\ Plain(p) \in Seq(Attributes) /\ End(Plain(p)) = PlainSize(p)
         /\ \A x : Has(Plain(p), x) <=> IsPlain(p, x)
<1> DEFINE S1 == Optional(p.username # 0, UsernameOf(p))
           S2 == S1 \o Optional(p.priority # 0, PriorityOf(p))
           S3 == S2 \o Optional(p.iceControlling # 0, ControllingOf(p))
           S4 == S3 \o Optional(p.iceControlled # 0, ControlledOf(p))
           S5 == S4 \o Optional(p.hasUseCandidate, CandidateOf(p))
           S6 == S5 \o Optional(AddXorMappedAddress(p), AddressOf(p))
           S7 == S6 \o Optional(AddErrorCode(p), ErrorOf(p))
           E1 == HeaderSize + (IF p.username # 0 THEN Span(UsernameOf(p)) ELSE 0)
           E2 == E1 + (IF p.priority # 0 THEN Span(PriorityOf(p)) ELSE 0)
           E3 == E2 + (IF p.iceControlling # 0 THEN Span(ControllingOf(p)) ELSE 0)
           E4 == E3 + (IF p.iceControlled # 0 THEN Span(ControlledOf(p)) ELSE 0)
           E5 == E4 + (IF p.hasUseCandidate THEN Span(CandidateOf(p)) ELSE 0)
           E6 == E5 + (IF AddXorMappedAddress(p) THEN Span(AddressOf(p)) ELSE 0)
           E7 == E6 + (IF AddErrorCode(p) THEN Span(ErrorOf(p)) ELSE 0)
<1>1. /\ S1 \in Seq(Attributes) /\ End(S1) = E1
      /\ \A x : Has(S1, x) <=> p.username # 0 /\ x = UsernameOf(p)
  <2>1. S1 \in Seq(Attributes)
    <3>1. \A a \in Attributes : <<a>> \in Seq(Attributes)
      OBVIOUS
    <3>2. QED
      BY <3>1, PlainTyped, NoAttributes, ZenonT(60) DEF Optional
  <2>2. <<>> \o S1 = S1
    BY <2>1, NoAttributes, Zenon
  <2>3. /\ End(<<>> \o S1) =
             End(<<>>) + (IF p.username # 0 THEN Span(UsernameOf(p)) ELSE 0)
        /\ \A x : Has(<<>> \o S1, x) <=>
                   Has(<<>>, x) \/ (p.username # 0 /\ x = UsernameOf(p))
    <3>1. <<>> \in Seq(Attributes)
      BY NoAttributes, Zenon
    <3>2. QED
      BY <3>1, OptionalFacts, PlainTyped, ConditionsTyped, ZenonT(60)
  <2> HIDE DEF S1
  <2>4. QED
    BY <2>1, <2>2, <2>3, NoAttributes, ZenonT(60)
<1>2. /\ S2 \in Seq(Attributes) /\ End(S2) = E2
      /\ \A x : Has(S2, x) <=> Has(S1, x) \/ (p.priority # 0 /\ x = PriorityOf(p))
  <2> HIDE DEF S1, E1
  <2>1. QED
    BY <1>1, OptionalFacts, PlainTyped, ConditionsTyped, ZenonT(60)
<1>3. /\ S3 \in Seq(Attributes) /\ End(S3) = E3
      /\ \A x : Has(S3, x) <=> Has(S2, x) \/ (p.iceControlling # 0 /\ x = ControllingOf(p))
  <2> HIDE DEF S2, E2
  <2>1. QED
    BY <1>2, OptionalFacts, PlainTyped, ConditionsTyped, ZenonT(60)
<1>4. /\ S4 \in Seq(Attributes) /\ End(S4) = E4
      /\ \A x : Has(S4, x) <=> Has(S3, x) \/ (p.iceControlled # 0 /\ x = ControlledOf(p))
  <2> HIDE DEF S3, E3
  <2>1. QED
    BY <1>3, OptionalFacts, PlainTyped, ConditionsTyped, ZenonT(60)
<1>5. /\ S5 \in Seq(Attributes) /\ End(S5) = E5
      /\ \A x : Has(S5, x) <=> Has(S4, x) \/ (p.hasUseCandidate /\ x = CandidateOf(p))
  <2> HIDE DEF S4, E4
  <2>1. QED
    BY <1>4, OptionalFacts, PlainTyped, ConditionsTyped, ZenonT(60)
<1>6. /\ S6 \in Seq(Attributes) /\ End(S6) = E6
      /\ \A x : Has(S6, x) <=> Has(S5, x) \/ (AddXorMappedAddress(p) /\ x = AddressOf(p))
  <2> HIDE DEF S5, E5
  <2>1. QED
    BY <1>5, OptionalFacts, PlainTyped, ConditionsTyped, ZenonT(60)
<1>7. /\ S7 \in Seq(Attributes) /\ End(S7) = E7
      /\ \A x : Has(S7, x) <=> Has(S6, x) \/ (AddErrorCode(p) /\ x = ErrorOf(p))
  <2> HIDE DEF S6, E6
  <2>1. QED
    BY <1>6, OptionalFacts, PlainTyped, ConditionsTyped, ZenonT(60)
<1>8. Plain(p) = S7 /\ PlainSize(p) = E7
  BY Zenon DEF Plain, PlainSize
<1> HIDE DEF S1, S2, S3, S4, S5, S6, S7, E7
<1>9. QED
  BY <1>1, <1>2, <1>3, <1>4, <1>5, <1>6, <1>7, <1>8, ZenonT(60) DEF IsPlain

(* The first pass of Serialize counts the bytes that the second writes. *)
LEMMA SizeFacts ==
  ASSUME NEW p, IsBuilt(p)
  PROVE  /\ PlainSize(p) \in Nat /\ PlainSize(p) >= HeaderSize
         /\ SerializedSize(p) = PlainSize(p) + (IF AddMessageIntegrity(p) THEN 24 ELSE 0) + 8
<1>1. PlainSize(p) \in Nat /\ PlainSize(p) >= HeaderSize
  <2>1. Plain(p) \in Seq(Attributes) /\ End(Plain(p)) = PlainSize(p)
    BY PlainFacts, Zenon
  <2>2. /\ Len(Plain(p)) + 1 \in 1 .. Len(Plain(p)) + 1 /\ 1 \in 1 .. Len(Plain(p)) + 1
        /\ 1 <= Len(Plain(p)) + 1
    BY <2>1
  <2>3. HeaderSize <= End(Plain(p))
    BY <2>1, <2>2, StartsNext, StartsMonotone, ZenonT(60) DEF End
  <2>4. End(Plain(p)) \in Nat
    BY <2>1, EndAligned, Zenon
  <2>5. QED
    BY <2>1, <2>3, <2>4 DEF HeaderSize
<1>2. Span(UsernameOf(p)) = 4 + PadTo4Bytes(p.username)
  BY BuiltFacts, SpanUsername, ZenonT(60) DEF UsernameOf
<1>3. /\ Span(PriorityOf(p)) = 8 /\ Span(ControllingOf(p)) = 12
      /\ Span(ControlledOf(p)) = 12 /\ Span(CandidateOf(p)) = 4 /\ Span(ErrorOf(p)) = 8
  <2>1. Span(PriorityOf(p)) = 8 /\ Span(ErrorOf(p)) = 8
    BY SpanOf, ZenonT(60) DEF PriorityOf, ErrorOf
  <2>2. Span(ControllingOf(p)) = 12 /\ Span(ControlledOf(p)) = 12
    BY SpanOf, ZenonT(60) DEF ControllingOf, ControlledOf
  <2>3. Span(CandidateOf(p)) = 4
    BY SpanOf, ZenonT(60) DEF CandidateOf
  <2>4. QED
    BY <2>1, <2>2, <2>3
<1>4. Span(AddressOf(p)) = 4 + xorMappedAddressPaddedLen(p)
  <2>1. 4 + 8 = 12 /\ 4 + 20 = 24
    OBVIOUS
  <2>2. CASE xorMappedAddressPaddedLen(p) = 8
    BY <2>1, <2>2, SpanOf, ZenonT(60) DEF AddressOf
  <2>3. CASE xorMappedAddressPaddedLen(p) = 20
    BY <2>1, <2>3, SpanOf, ZenonT(60) DEF AddressOf
  <2>4. QED
    BY <2>2, <2>3, Zenon DEF xorMappedAddressPaddedLen
<1>5. SerializedSize(p) = PlainSize(p) + (IF AddMessageIntegrity(p) THEN 24 ELSE 0) + 8
  <2> DEFINE b1 == IF p.username # 0 THEN 4 + PadTo4Bytes(p.username) ELSE 0
             b2 == IF p.priority # 0 THEN 8 ELSE 0
             b3 == IF p.iceControlling # 0 THEN 12 ELSE 0
             b4 == IF p.iceControlled # 0 THEN 12 ELSE 0
             b5 == IF p.hasUseCandidate THEN 4 ELSE 0
             b6 == IF AddXorMappedAddress(p) THEN 4 + xorMappedAddressPaddedLen(p) ELSE 0
             b7 == IF AddErrorCode(p) THEN 8 ELSE 0
             b8 == IF AddMessageIntegrity(p) THEN 24 ELSE 0
  <2>1. SerializedSize(p) = HeaderSize + b1 + b2 + b3 + b4 + b5 + b6 + b7 + b8 + 8
    BY Zenon DEF SerializedSize
  <2>2. b1 = IF p.username # 0 THEN Span(UsernameOf(p)) ELSE 0
    BY <1>2, Zenon
  <2>3. /\ b2 = IF p.priority # 0 THEN Span(PriorityOf(p)) ELSE 0
        /\ b3 = IF p.iceControlling # 0 THEN Span(ControllingOf(p)) ELSE 0
        /\ b4 = IF p.iceControlled # 0 THEN Span(ControlledOf(p)) ELSE 0
        /\ b5 = IF p.hasUseCandidate THEN Span(CandidateOf(p)) ELSE 0
        /\ b7 = IF AddErrorCode(p) THEN Span(ErrorOf(p)) ELSE 0
    BY <1>3, Zenon
  <2>4. b6 = IF AddXorMappedAddress(p) THEN Span(AddressOf(p)) ELSE 0
    BY <1>4, Zenon
  <2> HIDE DEF b1, b2, b3, b4, b5, b6, b7
  <2>5. PlainSize(p) = HeaderSize + b1 + b2 + b3 + b4 + b5 + b6 + b7
    BY <2>2, <2>3, <2>4, ZenonT(60) DEF PlainSize
  <2>6. QED
    BY <2>1, <2>5, ZenonT(60)
<1>6. QED
  BY <1>1, <1>5, Zenon

(* The size of a message that is serialized. *)
LEMMA SizeBounds ==
  ASSUME NEW p, IsBuilt(p)
  PROVE  /\ SerializedSize(p) \in Nat /\ SerializedSize(p) <= MaxDatagram
         /\ SerializedSize(p) - HeaderSize \in Nat
         /\ AddMessageIntegrity(p) => IntegrityLength(SerializedSize(p)) \in Nat
<1>1. /\ PlainSize(p) \in Nat /\ PlainSize(p) >= 20
      /\ SerializedSize(p) = PlainSize(p) + (IF AddMessageIntegrity(p) THEN 24 ELSE 0) + 8
  BY SizeFacts, ZenonT(60) DEF HeaderSize
<1>2. SerializedSize(p) <= MaxDatagram
  BY BuiltFacts, Zenon
<1>3. CASE AddMessageIntegrity(p)
  <2>1. SerializedSize(p) = PlainSize(p) + 24 + 8
    BY <1>1, <1>3, Zenon
  <2>2. QED
    BY <1>1, <1>2, <2>1 DEF HeaderSize, IntegrityLength
<1>4. CASE ~AddMessageIntegrity(p)
  <2>1. SerializedSize(p) = PlainSize(p) + 0 + 8
    BY <1>1, <1>4, Zenon
  <2>2. QED
    BY <1>1, <1>2, <1>4, <2>1 DEF HeaderSize
<1>5. QED
  BY <1>3, <1>4

(* The two attributes at the end are attributes. *)
LEMMA SealsTyped ==
  ASSUME NEW p, IsBuilt(p)
  PROVE  /\ AddMessageIntegrity(p) => IntegrityOf(p) \in Attributes
         /\ FingerprintOf(p) \in Attributes
<1>1. /\ Empty \in Strings /\ "MESSAGE_INTEGRITY" \in Attribute /\ "FINGERPRINT" \in Attribute
  BY Zenon DEF Strings, Attribute
<1>2. p.password \in Strings
  BY BuiltFacts, Zenon
<1>3. \A t, l, v, k : t \in Attribute /\ l \in Word /\ v \in Nat /\ k \in Strings =>
                       Attr(t, l, v, k) \in Attributes
  BY AttrFacts, ZenonT(60)
<1>4. 4 \in Word /\ 20 \in Word
  BY SmallWords, Zenon
<1>5. AddMessageIntegrity(p) => IntegrityOf(p) \in Attributes
  BY <1>1, <1>2, <1>3, <1>4, SizeBounds, ZenonT(60) DEF IntegrityOf
<1>6. FingerprintOf(p) \in Attributes
  BY <1>1, <1>3, <1>4, SizeBounds, ZenonT(60) DEF FingerprintOf
<1>7. QED
  BY <1>5, <1>6, Zenon

(* The attributes that are written: FINGERPRINT is the last one, and       *)
(* MESSAGE-INTEGRITY the one before it.                                    *)
LEMMA SerializedFacts ==
  ASSUME NEW p, IsBuilt(p)
  PROVE  LET T == SerializedAttrs(p)
             n == Len(T)
         IN /\ T \in Seq(Attributes) /\ End(T) = SerializedSize(p)
            /\ n \in Nat /\ n >= 1 /\ T[n] = FingerprintOf(p)
            /\ \A i \in 1 .. n :
                 \/ IsPlain(p, T[i])
                 \/ AddMessageIntegrity(p) /\ T[i] = IntegrityOf(p) /\ i = n - 1
                 \/ T[i] = FingerprintOf(p) /\ i = n
            /\ \A x : Has(T, x) <=> \/ IsPlain(p, x)
                                    \/ AddMessageIntegrity(p) /\ x = IntegrityOf(p)
                                    \/ x = FingerprintOf(p)
<1> DEFINE P == Plain(p)
           c == AddMessageIntegrity(p)
           M == IntegrityOf(p)
           F == FingerprintOf(p)
           S == P \o Optional(c, M)
           T == S \o <<F>>
<1>1. SerializedAttrs(p) = T
  BY SerializedIs, Zenon
<1>2. /\ P \in Seq(Attributes) /\ End(P) = PlainSize(p)
      /\ \A x : Has(P, x) <=> IsPlain(p, x)
  BY PlainFacts, Zenon
<1>3. F \in Attributes /\ (c => M \in Attributes) /\ Span(F) = 8 /\ Span(M) = 24
  <2>1. F \in Attributes /\ (c => M \in Attributes)
    BY SealsTyped, Zenon
  <2>2. Span(F) = 8
    BY SpanOf, ZenonT(60) DEF FingerprintOf
  <2>3. Span(M) = 24
    BY SpanOf, ZenonT(60) DEF IntegrityOf
  <2>4. QED
    BY <2>1, <2>2, <2>3, Zenon
<1> HIDE DEF P, M, F, c
<1>4. /\ S \in Seq(Attributes) /\ End(S) = PlainSize(p) + (IF c THEN 24 ELSE 0)
      /\ \A x : Has(S, x) <=> IsPlain(p, x) \/ (c /\ x = M)
      /\ \A i \in 1 .. Len(S) : IsPlain(p, S[i]) \/ (c /\ S[i] = M /\ i = Len(S))
  <2>1. CASE c
    <3>1. S = P \o <<M>>
      BY <2>1, Zenon DEF Optional
    <3>2. M \in Attributes
      BY <1>3, <2>1, Zenon
    <3>3. /\ S \in Seq(Attributes) /\ Len(S) = Len(P) + 1 /\ End(S) = PlainSize(p) + 24
          /\ S[Len(P) + 1] = M /\ \A i \in 1 .. Len(P) : S[i] = P[i]
          /\ \A x : Has(S, x) <=> IsPlain(p, x) \/ x = M
      <4> DEFINE U == P \o <<M>>
      <4>1. /\ U \in Seq(Attributes) /\ Len(U) = Len(P) + 1 /\ End(U) = End(P) + Span(M)
            /\ U[Len(P) + 1] = M /\ \A i \in 1 .. Len(P) : U[i] = P[i]
            /\ \A x : Has(U, x) <=> Has(P, x) \/ x = M
        BY <1>2, <3>2, AppendFacts, ZenonT(60)
      <4> HIDE DEF S, U
      <4>2. S = U
        BY <3>1 DEF U
      <4>3. QED
        BY <1>2, <1>3, <4>1, <4>2, ZenonT(60)
    <3> HIDE DEF S
    <3>4. \A i : i \in 1 .. Len(P) + 1 <=> i \in 1 .. Len(P) \/ i = Len(P) + 1
      BY <1>2
    <3>5. \A i \in 1 .. Len(P) : IsPlain(p, P[i])
      BY <1>2, ZenonT(60) DEF Has
    <3>6. \A i \in 1 .. Len(S) : IsPlain(p, S[i]) \/ (c /\ S[i] = M /\ i = Len(S))
      BY <2>1, <3>3, <3>4, <3>5, ZenonT(60)
    <3>7. QED
      BY <2>1, <3>3, <3>6, ZenonT(60)
  <2>2. CASE ~c
    <3>1. S = P
      BY <1>2, <2>2 DEF Optional
    <3>2. PlainSize(p) + 0 = PlainSize(p)
      BY SizeFacts
    <3> HIDE DEF S
    <3>3. \A i \in 1 .. Len(S) : IsPlain(p, S[i])
      BY <1>2, <3>1, ZenonT(60) DEF Has
    <3>4. QED
      BY <1>2, <2>2, <3>1, <3>2, <3>3, ZenonT(60)
  <2>3. QED
    BY <2>1, <2>2
<1> HIDE DEF S
<1>5. /\ T \in Seq(Attributes) /\ Len(T) = Len(S) + 1 /\ End(T) = End(S) + Span(F)
      /\ T[Len(S) + 1] = F /\ \A i \in 1 .. Len(S) : T[i] = S[i]
      /\ \A x : Has(T, x) <=> Has(S, x) \/ x = F
  <2>1. F \in Attributes /\ S \in Seq(Attributes)
    BY <1>3, <1>4, Zenon
  <2>2. QED
    BY <2>1, AppendFacts, ZenonT(60)
<1> HIDE DEF T
<1>6. End(T) = SerializedSize(p)
  BY <1>3, <1>4, <1>5, SizeFacts, ZenonT(60) DEF c
<1>7. /\ Len(S) \in Nat /\ Len(T) \in Nat /\ Len(T) >= 1 /\ Len(T) - 1 = Len(S)
      /\ \A i : i \in 1 .. Len(T) <=> i \in 1 .. Len(S) \/ i = Len(T)
  BY <1>4, <1>5
<1>8. \A i \in 1 .. Len(T) : \/ IsPlain(p, T[i])
                             \/ c /\ T[i] = M /\ i = Len(T) - 1
                             \/ T[i] = F /\ i = Len(T)
  BY <1>4, <1>5, <1>7, ZenonT(60)
<1>9. \A x : Has(T, x) <=> IsPlain(p, x) \/ (c /\ x = M) \/ x = F
  BY <1>4, <1>5, ZenonT(60)
<1>10. T[Len(T)] = F
  BY <1>5, ZenonT(60)
<1>11. QED
  BY <1>1, <1>5, <1>6, <1>7, <1>8, <1>9, <1>10, ZenonT(60) DEF c, M, F

(* The types of the attributes that are written. *)
LEMMA WrittenTypes ==
  ASSUME NEW p
  PROVE  /\ UsernameOf(p).type = "USERNAME" /\ PriorityOf(p).type = "PRIORITY"
         /\ ControllingOf(p).type = "ICE_CONTROLLING"
         /\ ControlledOf(p).type = "ICE_CONTROLLED"
         /\ CandidateOf(p).type = "USE_CANDIDATE"
         /\ AddressOf(p).type = "XOR_MAPPED_ADDRESS" /\ ErrorOf(p).type = "ERROR_CODE"
         /\ IntegrityOf(p).type = "MESSAGE_INTEGRITY"
         /\ FingerprintOf(p).type = "FINGERPRINT"
BY DEF UsernameOf, PriorityOf, ControllingOf, ControlledOf, CandidateOf, AddressOf,
       ErrorOf, IntegrityOf, FingerprintOf, Attr

(* Every attribute that is written has the length of its type. *)
LEMMA WrittenLengths ==
  ASSUME NEW p, IsBuilt(p)
  PROVE  /\ \A x : IsPlain(p, x) =>
              /\ LengthOk(x) /\ x.type # "MESSAGE_INTEGRITY" /\ x.type # "FINGERPRINT"
              /\ x.type = "ERROR_CODE" => x.value \in Word
         /\ LengthOk(IntegrityOf(p)) /\ LengthOk(FingerprintOf(p))
<1>1. LengthOk(UsernameOf(p)) /\ LengthOk(AddressOf(p))
  BY WrittenTypes DEF LengthOk
<1>2. LengthOk(PriorityOf(p)) /\ LengthOk(FingerprintOf(p))
  BY DEF LengthOk, PriorityOf, FingerprintOf, Attr
<1>3. LengthOk(ControllingOf(p)) /\ LengthOk(ControlledOf(p))
  BY DEF LengthOk, ControllingOf, ControlledOf, Attr
<1>4. LengthOk(CandidateOf(p)) /\ LengthOk(IntegrityOf(p))
  BY DEF LengthOk, CandidateOf, IntegrityOf, Attr
<1>5. LengthOk(ErrorOf(p))
  BY DEF LengthOk, ErrorOf, Attr
<1>6. ErrorOf(p).value \in Word
  <2>1. ErrorOf(p).value = ErrorCodeValue(p.errorCode)
    BY DEF ErrorOf, Attr
  <2>2. p.errorCode \in Nat
    BY BuiltFacts, Zenon
  <2>3. ErrorCodeValue(p.errorCode) \in Word
    BY <2>2, ErrorCodeTyped, Zenon
  <2>4. QED
    BY <2>1, <2>3, Zenon
<1>7. QED
  BY <1>1, <1>2, <1>3, <1>4, <1>5, <1>6, WrittenTypes, ZenonT(60) DEF IsPlain

(* The fields of the type field are apart from each other. *)
LEMMA TypeFieldFacts ==
  ASSUME NEW k \in 0 .. 3, NEW m \in Methods
  PROVE  /\ TypeField(k, m) \in Nat /\ TypeField(k, m) < 64 * 256
         /\ ClassOf(TypeField(k, m)) = k /\ MethodOf(TypeField(k, m)) = m
<1> DEFINE a == (m \div 128) % 32
           b == (m \div 16) % 8
           c == m % 16
           h == k \div 2
           l == k % 2
           t == a * 512 + b * 32 + c + h * 256 + l * 16
<1>1. /\ a \in Nat /\ a < 32 /\ b \in Nat /\ b < 8 /\ c \in Nat /\ c < 16
      /\ m = a * 128 + b * 16 + c
  BY DEF Methods
<1>2. h \in Nat /\ h < 2 /\ l \in Nat /\ l < 2 /\ k = h * 2 + l
  OBVIOUS
<1>3. TypeField(k, m) = t
  BY Zenon DEF TypeField
<1> HIDE DEF a, b, c, h, l
<1>4. t \in Nat /\ t < 64 * 256
  BY <1>1, <1>2
<1>5. t % 16 = c /\ (t \div 16) % 2 = l
  BY <1>1, <1>2
<1>6. (t \div 32) % 8 = b
  BY <1>1, <1>2
<1>7. (t \div 256) % 2 = h
  BY <1>1, <1>2
<1>8. (t \div 512) % 32 = a
  BY <1>1, <1>2
<1> HIDE DEF t
<1>9. ClassOf(t) = k
  BY <1>2, <1>5, <1>7 DEF ClassOf
<1>10. MethodOf(t) = m
  <2>1. MethodOf(t) = c + b * 16 + a * 128
    BY <1>5, <1>6, <1>8, ZenonT(60) DEF MethodOf
  <2>2. QED
    BY <1>1, <2>1
<1>11. QED
  BY <1>3, <1>4, <1>9, <1>10, Zenon

(* What Serialize writes is a datagram. *)
LEMMA SerializedDatagramTyped ==
  ASSUME NEW p, IsBuilt(p)
  PROVE  IsDatagram(SerializedDatagram(p))
<1> DEFINE d == SerializedDatagram(p)
           T == SerializedAttrs(p)
           z == SerializedSize(p)
<1>1. /\ d = [size |-> z, cookie |-> TRUE, type |-> TypeField(p.klass, p.method),
              length |-> z - HeaderSize, attrs |-> T]
  BY Zenon DEF SerializedDatagram
<1>2. /\ T \in Seq(Attributes) /\ End(T) = z /\ Len(T) \in Nat /\ Len(T) >= 1
      /\ T[Len(T)] = FingerprintOf(p)
  BY SerializedFacts, Zenon
<1>3. /\ z \in Nat /\ z <= MaxDatagram /\ z - HeaderSize \in Nat
  BY SizeBounds, Zenon
<1>4. MaxDatagram \in HeaderSize .. Wrap - 4
  BY DatagramAssumption, Zenon
<1>5. Wrap \in Nat /\ Wrap > 64 * 256
  BY DEF Wrap
<1>6. TypeField(p.klass, p.method) \in Word
  <2>1. p.klass \in 0 .. 3 /\ p.method \in Methods
    BY BuiltFacts, Zenon
  <2>2. TypeField(p.klass, p.method) \in Nat /\ TypeField(p.klass, p.method) < 64 * 256
    BY <2>1, TypeFieldFacts, Zenon
  <2>3. QED
    BY <1>5, <2>2 DEF Word
<1> HIDE DEF T, z
<1>7. z \in 0 .. MaxDatagram /\ z - HeaderSize \in Word
  BY <1>3, <1>4, <1>5 DEF HeaderSize, Word
<1>8. d \in [size : 0 .. MaxDatagram, cookie : BOOLEAN, type : Word, length : Word,
             attrs : Seq(Attributes)]
  <2> HIDE DEF d
  <2>1. QED
    BY <1>1, <1>2, <1>6, <1>7, ZenonT(60)
<1>9. d.size = z /\ d.attrs = T
  BY DEF SerializedDatagram, T, z
<1>10. \A i \in DOMAIN T : T[i].type = "ERROR_CODE" => T[i].value \in Word
  <2>1. DOMAIN T = 1 .. Len(T)
    BY <1>2
  <2>2. \A i \in 1 .. Len(T) : Has(T, T[i])
    BY Zenon DEF Has
  <2>3. \A x : Has(T, x) => \/ IsPlain(p, x) \/ x = IntegrityOf(p) \/ x = FingerprintOf(p)
    BY SerializedFacts, ZenonT(60) DEF T
  <2>4. QED
    BY <2>1, <2>2, <2>3, WrittenLengths, WrittenTypes, ZenonT(60)
<1>11. Starts(T)[Len(T)] + 4 <= z /\ z < End(T) + 4
  <2>1. Starts(T)[Len(T) + 1] = Starts(T)[Len(T)] + Span(FingerprintOf(p))
    <3>1. Len(T) \in 1 .. Len(T)
      BY <1>2
    <3>2. QED
      BY <1>2, <3>1, StartsNext, ZenonT(60)
  <2>2. Span(FingerprintOf(p)) = 8
    BY SpanOf, ZenonT(60) DEF FingerprintOf
  <2>3. Starts(T)[Len(T)] \in Nat
    <3>1. Len(T) \in 1 .. Len(T) + 1
      BY <1>2
    <3>2. QED
      BY <1>2, <3>1, StartsAligned, ZenonT(60) DEF Aligned
  <2>4. z = Starts(T)[Len(T)] + 8
    BY <1>2, <2>1, <2>2, ZenonT(60) DEF End
  <2>5. QED
    BY <1>2, <1>3, <2>3, <2>4
<1> HIDE DEF d
<1>12. IsDatagram(d)
  BY <1>8, <1>9, <1>10, <1>11, ZenonT(60) DEF IsDatagram
<1>13. QED
  BY <1>12 DEF d

(* What Serialize writes with a type field that IsStun takes is a message: *)
(* Parse will not refuse it.                                               *)
LEMMA SerializedWellFormed ==
  ASSUME NEW p, IsBuilt(p), TypeField(p.klass, p.method) < 3 * 256
  PROVE  WellFormed(SerializedDatagram(p))
<1> DEFINE d == SerializedDatagram(p)
           T == SerializedAttrs(p)
           z == SerializedSize(p)
           n == Len(T)
<1>1. /\ d.cookie /\ d.type = TypeField(p.klass, p.method) /\ d.size = z
      /\ d.length = z - HeaderSize /\ d.attrs = T
  BY DEF SerializedDatagram
<1>2. d.type < 3 * 256
  BY <1>1, Zenon
<1>3. d.length + HeaderSize = d.size
  <2>1. z \in Nat
    BY SizeBounds, Zenon
  <2> HIDE DEF z, d
  <2>2. QED
    BY <1>1, <2>1 DEF HeaderSize
<1>4. /\ End(T) = z /\ n \in Nat /\ T[n] = FingerprintOf(p)
      /\ \A i \in 1 .. n :
           \/ IsPlain(p, T[i])
           \/ AddMessageIntegrity(p) /\ T[i] = IntegrityOf(p) /\ i = n - 1
           \/ T[i] = FingerprintOf(p) /\ i = n
  BY SerializedFacts, ZenonT(60)
<1>5. FingerprintOf(p).value = z - HeaderSize
  BY DEF FingerprintOf, Attr
<1> HIDE DEF d, T, z
<1>6. ASSUME NEW i \in 1 .. n
      PROVE  /\ LengthOk(T[i])
             /\ T[i].type = "FINGERPRINT" => i = n /\ T[i].value = d.length
             /\ T[i].type = "MESSAGE_INTEGRITY" =>
                  i = n \/ (i = n - 1 /\ T[n].type = "FINGERPRINT")
  <2>1. CASE IsPlain(p, T[i])
    BY <2>1, WrittenLengths, ZenonT(60)
  <2>2. CASE T[i] = IntegrityOf(p) /\ i = n - 1
    BY <1>4, <2>2, WrittenLengths, WrittenTypes, ZenonT(60)
  <2>3. CASE T[i] = FingerprintOf(p) /\ i = n
    BY <1>1, <1>5, <2>3, WrittenLengths, WrittenTypes, ZenonT(60)
  <2>4. QED
    BY <1>4, <2>1, <2>2, <2>3, ZenonT(60)
<1>7. \A i \in 1 .. n :
        /\ T[i].type \in DOMAIN FixedLength => T[i].length = FixedLength[T[i].type]
        /\ T[i].type = "ERROR_CODE" => T[i].length >= 4
  BY <1>6, LengthOkFacts, ZenonT(60)
<1>8. WellFormed(d)
  BY <1>1, <1>2, <1>3, <1>4, <1>6, <1>7, ZenonT(60) DEF WellFormed
<1>9. QED
  BY <1>8 DEF d

----------------------------------------------------------------------------
(* What Parse reads from it.                                               *)

(* The value that is shown when no other attribute has the type. *)
LEMMA ShowsOnly ==
  ASSUME NEW s, Len(s) \in Nat, NEW a, NEW v, Shows(s, Len(s), a.type, v),
         \A x : Has(s, x) /\ x.type = a.type => x = a
  PROVE  v = IF Has(s, a) THEN Content(a) ELSE 0
<1> DEFINE n == Len(s)
<1>1. PICK i \in 0 .. n :
        /\ \A j \in 1 .. n : s[j].type = a.type => j <= i
        /\ IF i = 0 THEN v = 0 ELSE s[i].type = a.type /\ v = Content(s[i])
  BY Zenon DEF Shows
<1>2. CASE i = 0
  <2>1. \A j \in 1 .. n : ~(j <= 0)
    OBVIOUS
  <2>2. ~Has(s, a)
    BY <1>1, <1>2, <2>1, ZenonT(60) DEF Has
  <2>3. QED
    BY <1>1, <1>2, <2>2, ZenonT(60)
<1>3. CASE i # 0
  <2>1. i \in 1 .. n
    BY <1>3
  <2>2. Has(s, s[i]) /\ s[i].type = a.type /\ v = Content(s[i])
    BY <1>1, <1>3, <2>1, ZenonT(60) DEF Has
  <2>3. s[i] = a
    BY <2>2, ZenonT(60)
  <2>4. QED
    BY <2>2, <2>3, ZenonT(60)
<1>4. QED
  BY <1>2, <1>3

(* An attribute of the serialized message with a given type is the one     *)
(* that is written for it.                                                 *)
LEMMA WrittenByType ==
  ASSUME NEW p, IsBuilt(p), NEW x, Has(SerializedAttrs(p), x)
  PROVE  /\ x.type = "USERNAME" => p.username # 0 /\ x = UsernameOf(p)
         /\ x.type = "PRIORITY" => p.priority # 0 /\ x = PriorityOf(p)
         /\ x.type = "ICE_CONTROLLING" => p.iceControlling # 0 /\ x = ControllingOf(p)
         /\ x.type = "ICE_CONTROLLED" => p.iceControlled # 0 /\ x = ControlledOf(p)
         /\ x.type = "USE_CANDIDATE" => p.hasUseCandidate
         /\ x.type = "ERROR_CODE" => AddErrorCode(p) /\ x = ErrorOf(p)
         /\ x.type = "MESSAGE_INTEGRITY" => AddMessageIntegrity(p) /\ x = IntegrityOf(p)
<1>1. \/ IsPlain(p, x)
      \/ AddMessageIntegrity(p) /\ x = IntegrityOf(p)
      \/ x = FingerprintOf(p)
  BY SerializedFacts, ZenonT(60)
<1>2. CASE IsPlain(p, x)
  BY <1>2, WrittenTypes, ZenonT(60) DEF IsPlain
<1>3. CASE AddMessageIntegrity(p) /\ x = IntegrityOf(p)
  BY <1>3, WrittenTypes, ZenonT(60)
<1>4. CASE x = FingerprintOf(p)
  BY <1>4, WrittenTypes, ZenonT(60)
<1>5. QED
  BY <1>1, <1>2, <1>3, <1>4, Zenon

(* The numbers that Parse reads are those that were serialized. *)
LEMMA NumbersReadBack ==
  ASSUME NEW p, IsBuilt(p), NEW q,
         Reads(SerializedAttrs(p), Len(SerializedAttrs(p)), q)
  PROVE  /\ q.username = p.username /\ q.priority = p.priority
         /\ q.iceControlling = p.iceControlling /\ q.iceControlled = p.iceControlled
         /\ p.klass = ERROR_RESPONSE /\ p.errorCode < 256 * 100 => q.errorCode = p.errorCode
<1> DEFINE T == SerializedAttrs(p)
           n == Len(T)
<1>1. n \in Nat /\ \A x : IsPlain(p, x) => Has(T, x)
  BY SerializedFacts, ZenonT(60)
<1>2. /\ Shows(T, n, "USERNAME", q.username) /\ Shows(T, n, "PRIORITY", q.priority)
      /\ Shows(T, n, "ICE_CONTROLLING", q.iceControlling)
      /\ Shows(T, n, "ICE_CONTROLLED", q.iceControlled)
      /\ Shows(T, n, "ERROR_CODE", q.errorCode)
  BY Zenon DEF Reads
<1>3. q.username = p.username
  <2>1. q.username = IF p.username # 0 THEN Content(UsernameOf(p)) ELSE 0
    <3>1. UsernameOf(p).type = "USERNAME"
      BY WrittenTypes, Zenon
    <3>2. Has(T, UsernameOf(p)) <=> p.username # 0
      BY <1>1, <3>1, WrittenByType, ZenonT(60) DEF IsPlain
    <3>3. \A x : Has(T, x) /\ x.type = UsernameOf(p).type => x = UsernameOf(p)
      BY <3>1, WrittenByType, ZenonT(60)
    <3>4. Shows(T, n, UsernameOf(p).type, q.username)
      BY <1>2, <3>1, Zenon
    <3> HIDE DEF T
    <3>5. q.username = IF Has(T, UsernameOf(p)) THEN Content(UsernameOf(p)) ELSE 0
      BY <1>1, <3>3, <3>4, ShowsOnly, ZenonT(60)
    <3>6. QED
      BY <3>2, <3>5, Zenon
  <2>2. Content(UsernameOf(p)) = UsernameOf(p).length /\ UsernameOf(p).length = p.username
    BY DEF Content, UsernameOf, Attr
  <2>3. QED
    BY <2>1, <2>2, Zenon
<1>4. q.priority = p.priority
  <2>1. q.priority = IF p.priority # 0 THEN Content(PriorityOf(p)) ELSE 0
    <3>1. PriorityOf(p).type = "PRIORITY"
      BY WrittenTypes, Zenon
    <3>2. Has(T, PriorityOf(p)) <=> p.priority # 0
      BY <1>1, <3>1, WrittenByType, ZenonT(60) DEF IsPlain
    <3>3. \A x : Has(T, x) /\ x.type = PriorityOf(p).type => x = PriorityOf(p)
      BY <3>1, WrittenByType, ZenonT(60)
    <3>4. Shows(T, n, PriorityOf(p).type, q.priority)
      BY <1>2, <3>1, Zenon
    <3> HIDE DEF T
    <3>5. q.priority = IF Has(T, PriorityOf(p)) THEN Content(PriorityOf(p)) ELSE 0
      BY <1>1, <3>3, <3>4, ShowsOnly, ZenonT(60)
    <3>6. QED
      BY <3>2, <3>5, Zenon
  <2>2. Content(PriorityOf(p)) = PriorityOf(p).value /\ PriorityOf(p).value = p.priority
    BY DEF Content, PriorityOf, Attr
  <2>3. QED
    BY <2>1, <2>2, Zenon
<1>5. q.iceControlling = p.iceControlling
  <2>1. q.iceControlling = IF p.iceControlling # 0 THEN Content(ControllingOf(p)) ELSE 0
    <3>1. ControllingOf(p).type = "ICE_CONTROLLING"
      BY WrittenTypes, Zenon
    <3>2. Has(T, ControllingOf(p)) <=> p.iceControlling # 0
      BY <1>1, <3>1, WrittenByType, ZenonT(60) DEF IsPlain
    <3>3. \A x : Has(T, x) /\ x.type = ControllingOf(p).type => x = ControllingOf(p)
      BY <3>1, WrittenByType, ZenonT(60)
    <3>4. Shows(T, n, ControllingOf(p).type, q.iceControlling)
      BY <1>2, <3>1, Zenon
    <3> HIDE DEF T
    <3>5. q.iceControlling = IF Has(T, ControllingOf(p)) THEN Content(ControllingOf(p)) ELSE 0
      BY <1>1, <3>3, <3>4, ShowsOnly, ZenonT(60)
    <3>6. QED
      BY <3>2, <3>5, Zenon
  <2>2. /\ Content(ControllingOf(p)) = ControllingOf(p).value
        /\ ControllingOf(p).value = p.iceControlling
    BY DEF Content, ControllingOf, Attr
  <2>3. QED
    BY <2>1, <2>2, Zenon
<1>6. q.iceControlled = p.iceControlled
  <2>1. q.iceControlled = IF p.iceControlled # 0 THEN Content(ControlledOf(p)) ELSE 0
    <3>1. ControlledOf(p).type = "ICE_CONTROLLED"
      BY WrittenTypes, Zenon
    <3>2. Has(T, ControlledOf(p)) <=> p.iceControlled # 0
      BY <1>1, <3>1, WrittenByType, ZenonT(60) DEF IsPlain
    <3>3. \A x : Has(T, x) /\ x.type = ControlledOf(p).type => x = ControlledOf(p)
      BY <3>1, WrittenByType, ZenonT(60)
    <3>4. Shows(T, n, ControlledOf(p).type, q.iceControlled)
      BY <1>2, <3>1, Zenon
    <3> HIDE DEF T
    <3>5. q.iceControlled = IF Has(T, ControlledOf(p)) THEN Content(ControlledOf(p)) ELSE 0
      BY <1>1, <3>3, <3>4, ShowsOnly, ZenonT(60)
    <3>6. QED
      BY <3>2, <3>5, Zenon
  <2>2. /\ Content(ControlledOf(p)) = ControlledOf(p).value
        /\ ControlledOf(p).value = p.iceControlled
    BY DEF Content, ControlledOf, Attr
  <2>3. QED
    BY <2>1, <2>2, Zenon
<1>7. ASSUME p.klass = ERROR_RESPONSE, p.errorCode < 256 * 100
      PROVE  q.errorCode = p.errorCode
  <2>1. q.errorCode = IF AddErrorCode(p) THEN Content(ErrorOf(p)) ELSE 0
    <3>1. ErrorOf(p).type = "ERROR_CODE"
      BY WrittenTypes, Zenon
    <3>2. Has(T, ErrorOf(p)) <=> AddErrorCode(p)
      BY <1>1, <3>1, WrittenByType, ZenonT(60) DEF IsPlain
    <3>3. \A x : Has(T, x) /\ x.type = ErrorOf(p).type => x = ErrorOf(p)
      BY <3>1, WrittenByType, ZenonT(60)
    <3>4. Shows(T, n, ErrorOf(p).type, q.errorCode)
      BY <1>2, <3>1, Zenon
    <3> HIDE DEF T
    <3>5. q.errorCode = IF Has(T, ErrorOf(p)) THEN Content(ErrorOf(p)) ELSE 0
      BY <1>1, <3>3, <3>4, ShowsOnly, ZenonT(60)
    <3>6. QED
      BY <3>2, <3>5, Zenon
  <2>2. ErrorOf(p).value = ErrorCodeValue(p.errorCode)
    BY DEF ErrorOf, Attr
  <2>3. Content(ErrorOf(p)) = (ErrorOf(p).value \div 256) * 100 + (ErrorOf(p).value % 256)
    BY ContentFacts, WrittenTypes, ZenonT(60)
  <2>4. p.errorCode \in Nat /\ p.errorCode \div 100 < 256
    <3>1. p.errorCode \in Nat
      BY BuiltFacts, Zenon
    <3>2. QED
      BY <1>7, <3>1
  <2>5. Content(ErrorOf(p)) = p.errorCode
    BY <2>2, <2>3, <2>4, ErrorCodeFacts
  <2>6. QED
    BY <1>7, <2>1, <2>5, Zenon DEF AddErrorCode
<1>8. QED
  BY <1>3, <1>4, <1>5, <1>6, <1>7, Zenon

(* So are the flags and the MESSAGE-INTEGRITY. *)
LEMMA FlagsReadBack ==
  ASSUME NEW p, IsBuilt(p), NEW q,
         Reads(SerializedAttrs(p), Len(SerializedAttrs(p)), q)
  PROVE  /\ q.hasUseCandidate <=> p.hasUseCandidate
         /\ q.hasFingerprint
         /\ HasMessageIntegrity(q) <=> AddMessageIntegrity(p)
         /\ HasMessageIntegrity(q) => q.messageIntegrity = IntegrityOf(p)
<1> DEFINE T == SerializedAttrs(p)
           n == Len(T)
<1>1. /\ n \in Nat
      /\ \A x : Has(T, x) <=> \/ IsPlain(p, x)
                              \/ AddMessageIntegrity(p) /\ x = IntegrityOf(p)
                              \/ x = FingerprintOf(p)
  BY SerializedFacts, ZenonT(60)
<1>2. \A type : Occurs(T, n, type) <=> \E x : Has(T, x) /\ x.type = type
  BY ZenonT(60) DEF Occurs, Has
<1>3. q.hasUseCandidate <=> p.hasUseCandidate
  <2>1. q.hasUseCandidate <=> Occurs(T, n, "USE_CANDIDATE")
    BY Zenon DEF Reads
  <2>2. p.hasUseCandidate => Has(T, CandidateOf(p))
    BY <1>1, ZenonT(60) DEF IsPlain
  <2>3. \A x : Has(T, x) /\ x.type = "USE_CANDIDATE" => p.hasUseCandidate
    BY WrittenByType, ZenonT(60)
  <2>4. CandidateOf(p).type = "USE_CANDIDATE"
    BY WrittenTypes, Zenon
  <2>5. QED
    BY <1>2, <2>1, <2>2, <2>3, <2>4, ZenonT(60)
<1>4. q.hasFingerprint
  <2>1. q.hasFingerprint <=> Occurs(T, n, "FINGERPRINT")
    BY Zenon DEF Reads
  <2>2. Has(T, FingerprintOf(p)) /\ FingerprintOf(p).type = "FINGERPRINT"
    BY <1>1, WrittenTypes, ZenonT(60)
  <2>3. QED
    BY <1>2, <2>1, <2>2, ZenonT(60)
<1>5. \A x : Has(T, x) /\ x.type = "MESSAGE_INTEGRITY" =>
               AddMessageIntegrity(p) /\ x = IntegrityOf(p)
  BY WrittenByType, ZenonT(60)
<1>6. HasMessageIntegrity(q) <=> AddMessageIntegrity(p)
  <2>1. HasMessageIntegrity(q) <=> Occurs(T, n, "MESSAGE_INTEGRITY")
    BY <1>1, SignedFacts, ZenonT(60)
  <2>2. AddMessageIntegrity(p) => Has(T, IntegrityOf(p))
    BY <1>1, ZenonT(60)
  <2>3. IntegrityOf(p).type = "MESSAGE_INTEGRITY"
    BY WrittenTypes, Zenon
  <2>4. QED
    BY <1>2, <1>5, <2>1, <2>2, <2>3, ZenonT(60)
<1>7. HasMessageIntegrity(q) => q.messageIntegrity = IntegrityOf(p)
  <2>1. Signed(T, n, q.messageIntegrity)
    BY Zenon DEF Reads
  <2>2. HasMessageIntegrity(q) =>
          \E i \in 1 .. n : T[i].type = "MESSAGE_INTEGRITY" /\ T[i] = q.messageIntegrity
    BY <2>1, ZenonT(60) DEF Signed, HasMessageIntegrity
  <2>3. QED
    BY <1>5, <2>2, ZenonT(60) DEF Has
<1>8. QED
  BY <1>3, <1>4, <1>6, <1>7, Zenon

(* The HMAC holds under the password of the packet and under no other. *)
LEMMA IntegrityReadBack ==
  ASSUME NEW p, IsBuilt(p), NEW q, q.hasFingerprint,
         q.messageIntegrity = IntegrityOf(p), NEW w
  PROVE  IntegrityHolds(SerializedDatagram(p), q, w) <=> w = p.password
<1>1. /\ SerializedDatagram(p).size = SerializedSize(p)
      /\ IntegrityOf(p).key = p.password
      /\ IntegrityOf(p).value = IntegrityLength(SerializedSize(p))
  BY DEF SerializedDatagram, IntegrityOf, Attr
<1>2. IntegrityLength(SerializedSize(p)) = SerializedDatagram(p).size - HeaderSize - 8
  BY <1>1, Zenon DEF IntegrityLength
<1>3. QED
  BY <1>1, <1>2, ZenonT(60) DEF IntegrityHolds

----------------------------------------------------------------------------
(* The invariant is inductive.                                             *)

(* A new packet has its types, before a step and after it. *)
LEMMA NewTyped ==
  ASSUME NEW k \in 0 .. 3, NEW m \in Methods
  PROVE  NewStunPacket(k, m) \in Packets /\ NewStunPacket(k, m) \in Packets'
<1>1. 0 \in Nat /\ 0 \in {0, 20} /\ 0 \in Word
  BY SmallWords
<1>2. \A K : Attr("MESSAGE_INTEGRITY", 0, 0, Empty) \in
               [type : {"MESSAGE_INTEGRITY"}, length : {0, 20}, value : Nat, key : {Empty} \cup K]
  BY <1>1, ZenonT(60) DEF Attr
<1>3. NewStunPacket(k, m) \in Packets
  BY <1>1, <1>2, ZenonT(60) DEF NewStunPacket, Packets
<1>4. NewStunPacket(k, m) \in Packets'
  BY <1>1, <1>2, ZenonT(60) DEF NewStunPacket, Packets
<1>5. QED
  BY <1>3, <1>4

(* The packet with which Parse has not begun. *)
LEMMA FirstTyped ==
  /\ NewStunPacket(REQUEST, BINDING) \in Packets
  /\ NewStunPacket(REQUEST, BINDING) \in Packets'
  /\ HeaderSize \in 0 .. MaxDatagram /\ 1 \in Nat \ {0}
<1>1. REQUEST \in 0 .. 3
  BY DEF REQUEST
<1>2. BINDING \in Methods
  BY DEF BINDING, Methods
<1>3. HeaderSize \in 0 .. MaxDatagram /\ 1 \in Nat \ {0}
  <2>1. MaxDatagram \in HeaderSize .. Wrap - 4 /\ Wrap \in Nat
    BY DatagramAssumption DEF Wrap
  <2>2. QED
    BY <2>1 DEF HeaderSize
<1>4. QED
  BY <1>1, <1>2, <1>3, NewTyped, Zenon

(* It holds before anything has arrived. *)
LEMMA StunInit == Init => StunInv
<1> SUFFICES ASSUME Init PROVE StunInv
  OBVIOUS
<1>1. /\ stage = "idle" /\ origin = {} /\ pos = HeaderSize /\ next = 1
      /\ packet = NewStunPacket(REQUEST, BINDING)
  BY Zenon DEF Init
<1>2. stage # "scanning" /\ stage # "accepted" /\ stage # "rejected"
  BY <1>1
<1>3. QED
  BY <1>1, <1>2, FirstTyped, ZenonT(60) DEF StunInv

(* A buffer is filled. *)
LEMMA FillStep ==
  ASSUME StunInv, stage = "idle", NEW d, NEW o, Fill(d, o), IsDatagram(d) \/ IsFailure(d),
         o # {} => \E p \in Built : o = {p} /\ d = SerializedDatagram(p)
  PROVE  StunInv'
<1>1. /\ stage' = "filled" /\ datagram' = d /\ origin' = o
      /\ pos' = HeaderSize /\ next' = 1 /\ packet' = NewStunPacket(REQUEST, BINDING)
  <2>1. stage' = "filled" /\ datagram' = d /\ origin' = o
    BY Zenon DEF Fill
  <2>2. pos' = pos /\ next' = next /\ packet' = packet
    BY Zenon DEF Fill
  <2>3. pos = HeaderSize /\ next = 1 /\ packet = NewStunPacket(REQUEST, BINDING)
    BY ZenonT(60) DEF StunInv
  <2>4. QED
    BY <2>1, <2>2, <2>3, Zenon
<1>2. stage' # "idle" /\ stage' # "scanning" /\ stage' # "accepted" /\ stage' # "rejected"
  BY <1>1
<1>3. packet' \in Packets' /\ pos' \in 0 .. MaxDatagram /\ next' \in Nat \ {0}
  BY <1>1, FirstTyped, Zenon
<1>4. IsDatagram(datagram') \/ IsFailure(datagram')
  BY <1>1, Zenon
<1>5. origin' # {} => \E p \in Built : origin' = {p} /\ datagram' = SerializedDatagram(p)
  BY <1>1, Zenon
<1>6. QED
  BY <1>1, <1>2, <1>3, <1>4, <1>5, ZenonT(60) DEF StunInv

(* The three ways to fill it. *)
LEMMA ReceiveSteps == StunInv /\ (Receive \/ ReceiveFails \/ Serialize) => StunInv'
<1> SUFFICES ASSUME StunInv, Receive \/ ReceiveFails \/ Serialize PROVE StunInv'
  OBVIOUS
<1>1. CASE Receive
  <2>1. PICK d \in Received : Fill(d, {})
    BY <1>1, Zenon DEF Receive
  <2>2. stage = "idle" /\ IsDatagram(d)
    BY <1>1, DatagramAssumption, Zenon DEF Receive
  <2>3. QED
    BY <2>1, <2>2, FillStep, ZenonT(60)
<1>2. CASE ReceiveFails
  <2>1. PICK d \in Received : Fill([d EXCEPT !.size = FailedRecv], {})
    BY <1>2, Zenon DEF ReceiveFails
  <2>2. stage = "idle" /\ IsDatagram(d)
    BY <1>2, DatagramAssumption, Zenon DEF ReceiveFails
  <2> DEFINE f == [d EXCEPT !.size = FailedRecv]
  <2>3. IsFailure(f)
    <3>1. d \in [size : 0 .. MaxDatagram, cookie : BOOLEAN, type : Word, length : Word,
                 attrs : Seq(Attributes)]
      BY <2>2, Zenon DEF IsDatagram
    <3>2. f.size = FailedRecv /\ f.length = d.length /\ f.attrs = d.attrs
      BY <3>1
    <3>3. d.length \in Word /\ d.attrs \in Seq(Attributes)
      BY <3>1, Zenon
    <3> HIDE DEF f
    <3>4. QED
      BY <3>2, <3>3, Zenon DEF IsFailure
  <2> HIDE DEF f
  <2>4. QED
    BY <2>1, <2>2, <2>3, FillStep, ZenonT(60) DEF f
<1>3. CASE Serialize
  <2>1. PICK p \in Built : Fill(SerializedDatagram(p), {p})
    BY <1>3, Zenon DEF Serialize
  <2>2. stage = "idle" /\ IsBuilt(p)
    BY <1>3, BuiltAssumption, Zenon DEF Serialize
  <2>3. IsDatagram(SerializedDatagram(p))
    BY <2>2, SerializedDatagramTyped, Zenon
  <2>4. QED
    BY <2>1, <2>2, <2>3, FillStep, ZenonT(60)
<1>4. QED
  BY <1>1, <1>2, <1>3

(* The packets of the same buffer. *)
LEMMA SamePackets ==
  ASSUME datagram' = datagram
  PROVE  Packets' = Packets
<1> DEFINE K(d) == {Empty} \cup {d.attrs[i].key : i \in DOMAIN d.attrs}
           R(S) == [klass : 0 .. 3, method : Methods, username : Nat, priority : Nat,
                    iceControlling : Nat, iceControlled : Nat, hasUseCandidate : BOOLEAN,
                    messageIntegrity : [type : {"MESSAGE_INTEGRITY"}, length : {0, 20},
                                        value : Nat, key : S],
                    hasFingerprint : BOOLEAN, errorCode : Word,
                    xorMappedAddress : {"none"}, password : {Empty}]
<1>1. Packets' = R(K(datagram')) /\ Packets = R(K(datagram))
  BY Zenon DEF Packets
<1> HIDE DEF K, R
<1>2. QED
  BY <1>1, Zenon

(* What a step of Parse does not touch. *)
LEMMA SameBuffer ==
  ASSUME StunInv, stage # "idle", datagram' = datagram, origin' = origin
  PROVE  /\ Packets' = Packets
         /\ origin' # {} => \E p \in Built : origin' = {p} /\ datagram' = SerializedDatagram(p)
         /\ IsDatagram(datagram') \/ IsFailure(datagram')
<1>1. Packets' = Packets
  BY SamePackets, Zenon
<1>2. /\ origin # {} => \E p \in Built : origin = {p} /\ datagram = SerializedDatagram(p)
      /\ IsDatagram(datagram) \/ IsFailure(datagram)
  BY ZenonT(60) DEF StunInv
<1>3. QED
  BY <1>1, <1>2, ZenonT(60)

(* Parse returns nothing. *)
LEMMA RejectStep ==
  ASSUME StunInv, stage # "idle", datagram' = datagram, origin' = origin,
         packet' = packet, pos' = pos, next' = next, stage' = "rejected",
         ~WellFormed(datagram)
  PROVE  StunInv'
<1>1. stage' # "idle" /\ stage' # "filled" /\ stage' # "scanning" /\ stage' # "accepted"
  OBVIOUS
<1>2. packet \in Packets /\ pos \in 0 .. MaxDatagram /\ next \in Nat \ {0}
  BY ZenonT(60) DEF StunInv
<1>3. packet' \in Packets' /\ pos' \in 0 .. MaxDatagram /\ next' \in Nat \ {0}
  BY <1>2, SameBuffer, ZenonT(60)
<1>4. ~WellFormed(datagram')
  BY Zenon
<1>5. QED
  BY <1>1, <1>3, <1>4, SameBuffer, ZenonT(60) DEF StunInv

(* The header. *)
LEMMA ParseHeaderStep == StunInv /\ ParseHeader => StunInv'
<1> SUFFICES ASSUME StunInv, ParseHeader PROVE StunInv'
  OBVIOUS
<1>1. /\ stage = "filled" /\ datagram' = datagram /\ origin' = origin
      /\ pos' = pos /\ next' = next
  BY Zenon DEF ParseHeader
<1>2. stage # "idle"
  BY <1>1
<1>3. /\ IsDatagram(datagram) \/ IsFailure(datagram)
      /\ pos = HeaderSize /\ next = 1
  BY <1>1, <1>2, ZenonT(60) DEF StunInv
<1>4. CASE HeaderOk(datagram)
  <2> DEFINE q == NewStunPacket(ClassOf(datagram.type), MethodOf(datagram.type))
  <2>1. stage' = "scanning" /\ packet' = q
    BY <1>4, Zenon DEF ParseHeader
  <2>2. IsDatagram(datagram)
    BY <1>3, <1>4, HeaderRefuses, ZenonT(60)
  <2>3. q \in Packets'
    BY <2>2, DatagramFacts, TypeFacts, NewTyped, ZenonT(60)
  <2>4. Scanned(datagram, 0, HeaderSize, q)
    BY <1>4, <2>2, ScanBegins, ZenonT(60)
  <2> HIDE DEF q
  <2>5. next' - 1 = 0
    BY <1>1, <1>3
  <2>6. Scanned(datagram', next' - 1, pos', packet')
    BY <1>1, <1>3, <2>1, <2>4, <2>5, ZenonT(60)
  <2>7. stage' # "idle" /\ stage' # "filled" /\ stage' # "accepted" /\ stage' # "rejected"
    BY <2>1
  <2>8. packet' \in Packets' /\ pos' \in 0 .. MaxDatagram /\ next' \in Nat \ {0}
    BY <1>1, <1>3, <2>1, <2>3, FirstTyped, ZenonT(60)
  <2>9. QED
    BY <1>1, <1>2, <2>1, <2>6, <2>7, <2>8, SameBuffer, ZenonT(60) DEF StunInv
<1>5. CASE ~HeaderOk(datagram)
  <2>1. stage' = "rejected" /\ packet' = packet
    BY <1>5, Zenon DEF ParseHeader
  <2>2. ~WellFormed(datagram)
    BY <1>3, <1>5, HeaderRefuses, ZenonT(60)
  <2>3. QED
    BY <1>1, <1>2, <2>1, <2>2, RejectStep, ZenonT(60)
<1>6. QED
  BY <1>4, <1>5

(* One iteration of the loop. *)
LEMMA ParseAttributeStep == StunInv /\ ParseAttribute => StunInv'
<1> SUFFICES ASSUME StunInv, ParseAttribute PROVE StunInv'
  OBVIOUS
<1> DEFINE k == next - 1
           a == datagram.attrs[next]
           fits == /\ pos + 4 + a.length <= datagram.size
                   /\ OrderOk(packet, a)
                   /\ LengthOk(a)
<1>1. /\ stage = "scanning" /\ pos + 4 <= datagram.size
      /\ datagram' = datagram /\ origin' = origin
  BY Zenon DEF ParseAttribute
<1>2. stage # "idle"
  BY <1>1
<1>3. packet \in Packets /\ next \in Nat \ {0} /\ Scanned(datagram, k, pos, packet)
  BY <1>1, ZenonT(60) DEF StunInv
<1>4. k \in Nat /\ k + 1 = next /\ (next + 1) - 1 = k + 1 /\ next + 1 \in Nat \ {0}
  BY <1>3
<1>5. k + 1 \in 1 .. Len(datagram.attrs)
  BY <1>1, <1>3, ScanInside, ZenonT(60)
<1> HIDE DEF k
<1>6. CASE fits
  <2>1. /\ stage' = stage /\ packet' = Store(packet, a) /\ pos' = NextPosition(pos, a)
        /\ next' = next + 1
    BY <1>6, Zenon DEF ParseAttribute
  <2>2. IsDatagram(datagram)
    BY <1>3, Zenon DEF Scanned
  <2>3. Store(packet, a) \in Packets
    BY <1>3, <1>4, <1>5, <1>6, <2>2, StoreTyped, ZenonT(60)
  <2>4. Scanned(datagram, k + 1, NextPosition(pos, a), Store(packet, a))
    BY <1>3, <1>4, <1>5, <1>6, ScanStep, ZenonT(60)
  <2>5. Scanned(datagram', next' - 1, pos', packet')
    BY <1>1, <1>4, <2>1, <2>4, ZenonT(60)
  <2>6. pos' \in 0 .. MaxDatagram
    <3>1. pos' \in Nat /\ pos' <= datagram.size /\ datagram.size \in Nat
      BY <1>1, <2>5, ScanFacts, ZenonT(60)
    <3>2. datagram.size <= MaxDatagram /\ MaxDatagram \in Nat
      BY <2>2, DatagramFacts, ZenonT(60)
    <3>3. QED
      BY <3>1, <3>2
  <2>7. /\ stage' = "scanning" /\ stage' # "idle" /\ stage' # "filled"
        /\ stage' # "accepted" /\ stage' # "rejected"
    BY <1>1, <2>1
  <2>8. packet' \in Packets' /\ next' \in Nat \ {0}
    BY <1>1, <1>2, <1>4, <2>1, <2>3, SameBuffer, ZenonT(60)
  <2>9. QED
    BY <1>1, <1>2, <2>5, <2>6, <2>7, <2>8, SameBuffer, ZenonT(60) DEF StunInv
<1>7. CASE ~fits
  <2>1. stage' = "rejected" /\ packet' = packet /\ pos' = pos /\ next' = next
    BY <1>7, Zenon DEF ParseAttribute
  <2>2. ~WellFormed(datagram)
    BY <1>3, <1>4, <1>5, <1>7, ScanRefuses, ZenonT(60)
  <2>3. QED
    BY <1>1, <1>2, <2>1, <2>2, RejectStep, ZenonT(60)
<1>8. QED
  BY <1>6, <1>7

(* After the loop. *)
LEMMA ParseEndStep == StunInv /\ ParseEnd => StunInv'
<1> SUFFICES ASSUME StunInv, ParseEnd PROVE StunInv'
  OBVIOUS
<1>1. /\ stage = "scanning" /\ pos + 4 > datagram.size
      /\ datagram' = datagram /\ origin' = origin
      /\ pos' = pos /\ next' = next /\ packet' = packet
  BY Zenon DEF ParseEnd
<1>2. stage # "idle"
  BY <1>1
<1>3. /\ packet \in Packets /\ next \in Nat \ {0} /\ pos \in 0 .. MaxDatagram
      /\ Scanned(datagram, next - 1, pos, packet)
  BY <1>1, ZenonT(60) DEF StunInv
<1>4. ~(pos + 4 <= datagram.size)
  <2>1. pos \in Nat /\ datagram.size \in Nat
    BY <1>3, ScanFacts, ZenonT(60)
  <2>2. QED
    BY <1>1, <2>1
<1>5. CASE pos = datagram.size /\ FingerprintOk(datagram, packet)
  <2>1. stage' = "accepted"
    BY <1>5, Zenon DEF ParseEnd
  <2>2. next - 1 = Len(datagram.attrs)
    BY <1>3, <1>4, ScanLast, ZenonT(60)
  <2>3. next = Len(datagram.attrs) + 1
    BY <1>3, <2>2
  <2>4. /\ next' = Len(datagram'.attrs) + 1 /\ pos' = datagram'.size
        /\ FingerprintOk(datagram', packet')
        /\ Scanned(datagram', next' - 1, pos', packet')
    BY <1>1, <1>3, <1>5, <2>3, ZenonT(60)
  <2>5. stage' # "idle" /\ stage' # "filled" /\ stage' # "rejected"
    BY <2>1
  <2>6. packet' \in Packets' /\ pos' \in 0 .. MaxDatagram /\ next' \in Nat \ {0}
    BY <1>1, <1>2, <1>3, SameBuffer, ZenonT(60)
  <2>7. QED
    BY <1>1, <1>2, <2>1, <2>4, <2>5, <2>6, SameBuffer, ZenonT(60) DEF StunInv
<1>6. CASE ~(pos = datagram.size /\ FingerprintOk(datagram, packet))
  <2>1. stage' = "rejected"
    BY <1>6, Zenon DEF ParseEnd
  <2>2. ~WellFormed(datagram)
    BY <1>3, <1>4, <1>6, ScanEndRefuses, ZenonT(60)
  <2>3. QED
    BY <1>1, <1>2, <2>1, <2>2, RejectStep, ZenonT(60)
<1>7. QED
  BY <1>5, <1>6

(* The next datagram may come. *)
LEMMA DiscardStep == Discard => StunInv'
<1> SUFFICES ASSUME Discard PROVE StunInv'
  OBVIOUS
<1>1. /\ stage' = "idle" /\ origin' = {} /\ pos' = HeaderSize /\ next' = 1
      /\ packet' = NewStunPacket(REQUEST, BINDING)
  BY Zenon DEF Discard
<1>2. stage' # "scanning" /\ stage' # "accepted" /\ stage' # "rejected"
  BY <1>1
<1>3. packet' \in Packets' /\ pos' \in 0 .. MaxDatagram /\ next' \in Nat \ {0}
  BY <1>1, FirstTyped, Zenon
<1>4. QED
  BY <1>1, <1>2, <1>3, ZenonT(60) DEF StunInv

(* Nothing happens. *)
LEMMA StunStutter == StunInv /\ UNCHANGED vars => StunInv'
<1> SUFFICES ASSUME StunInv, UNCHANGED vars PROVE StunInv'
  OBVIOUS
<1>1. /\ stage' = stage /\ datagram' = datagram /\ origin' = origin /\ pos' = pos
      /\ next' = next /\ packet' = packet
  BY Zenon DEF vars
<1>2. Packets' = Packets
  BY <1>1, SamePackets, Zenon
<1>3. QED
  BY <1>1, <1>2, ZenonT(60) DEF StunInv

----------------------------------------------------------------------------
(* The theorems.                                                           *)

(* In every state of StunPacket, the scan stands where the attributes read *)
(* so far end, and the packet is what they say.                            *)
THEOREM StunInvariance == Spec => []StunInv
<1>1. Init => StunInv
  BY StunInit
<1>2. StunInv /\ [Next]_vars => StunInv'
  <2> SUFFICES ASSUME StunInv, [Next]_vars PROVE StunInv'
    OBVIOUS
  <2>1. CASE Receive \/ ReceiveFails \/ Serialize
    BY <2>1, ReceiveSteps, Zenon
  <2>2. CASE ParseHeader
    BY <2>2, ParseHeaderStep, Zenon
  <2>3. CASE ParseAttribute
    BY <2>3, ParseAttributeStep, Zenon
  <2>4. CASE ParseEnd
    BY <2>4, ParseEndStep, Zenon
  <2>5. CASE Discard
    BY <2>5, DiscardStep, Zenon
  <2>6. CASE UNCHANGED vars
    BY <2>6, StunStutter, Zenon
  <2>7. QED
    BY <2>1, <2>2, <2>3, <2>4, <2>5, <2>6, Zenon DEF Next
<1>3. QED
  BY <1>1, <1>2, PTL DEF Spec

(* The 16-bit position of Parse is exact, and Parse reads only what        *)
(* recvfrom has returned (ScanInBounds), for datagrams with any number of  *)
(* attributes and any lengths.                                             *)
THEOREM StunScanInBounds == Spec => []ScanInBounds
<1>1. StunInv => ScanInBounds
  <2> SUFFICES ASSUME StunInv PROVE ScanInBounds
    OBVIOUS
  <2>1. StunTypeOK
    BY ZenonT(60) DEF StunInv, StunTypeOK
  <2>2. ASSUME stage = "scanning"
        PROVE  /\ next \in DOMAIN Starts(datagram.attrs)
               /\ pos = Starts(datagram.attrs)[next]
               /\ pos <= datagram.size /\ datagram.size <= MaxDatagram
               /\ pos + 4 <= datagram.size => next <= Len(datagram.attrs)
    <3>1. Scanned(datagram, next - 1, pos, packet) /\ next \in Nat \ {0}
      BY <2>2, ZenonT(60) DEF StunInv
    <3>2. (next - 1) + 1 = next
      BY <3>1
    <3>3. /\ IsDatagram(datagram) /\ next \in 1 .. Len(datagram.attrs) + 1
          /\ pos = Starts(datagram.attrs)[next] /\ pos <= datagram.size
          /\ datagram.attrs \in Seq(Attributes) /\ Len(datagram.attrs) \in Nat
      BY <3>1, <3>2, ScanFacts, ZenonT(60)
    <3>4. DOMAIN Starts(datagram.attrs) = 1 .. Len(datagram.attrs) + 1
      BY <3>3, StartsIs, ZenonT(60) DEF IsStart
    <3>5. datagram.size <= MaxDatagram
      BY <3>3, DatagramFacts, ZenonT(60)
    <3>6. ASSUME pos + 4 <= datagram.size
          PROVE  next <= Len(datagram.attrs)
      <4>1. next \in 1 .. Len(datagram.attrs)
        BY <3>1, <3>2, <3>6, ScanInside, ZenonT(60)
      <4>2. QED
        BY <3>3, <4>1
    <3>7. QED
      BY <3>3, <3>4, <3>5, <3>6, ZenonT(60)
  <2>3. QED
    BY <2>1, <2>2, ZenonT(60) DEF ScanInBounds
<1>2. QED
  BY <1>1, StunInvariance, PTL

(* What was accepted is well-formed. *)
LEMMA AcceptedWellFormed ==
  ASSUME StunInv, stage = "accepted"
  PROVE  WellFormed(datagram)
<1>1. /\ Scanned(datagram, next - 1, pos, packet) /\ pos = datagram.size
      /\ FingerprintOk(datagram, packet)
  BY ZenonT(60) DEF StunInv
<1>2. pos \in Nat
  BY <1>1, ScanFacts, ZenonT(60)
<1>3. ~(pos + 4 <= datagram.size)
  BY <1>1, <1>2
<1>4. QED
  BY <1>1, <1>3, ScanAccepts, ZenonT(60)

(* Parse returns a packet exactly for the well-formed messages             *)
(* (AcceptsWellFormed).                                                    *)
THEOREM StunAcceptsWellFormed == Spec => []AcceptsWellFormed
<1>1. StunInv => AcceptsWellFormed
  <2> SUFFICES ASSUME StunInv PROVE AcceptsWellFormed
    OBVIOUS
  <2>1. stage = "accepted" => WellFormed(datagram)
    BY AcceptedWellFormed, Zenon
  <2>2. stage = "rejected" => ~WellFormed(datagram)
    BY ZenonT(60) DEF StunInv
  <2>3. QED
    BY <2>1, <2>2, Zenon DEF AcceptsWellFormed
<1>2. QED
  BY <1>1, StunInvariance, PTL

(* The last attribute of a type is the one that the scan shows. *)
LEMMA LastContent ==
  ASSUME NEW s \in Seq(Attributes), NEW type, NEW v, Shows(s, Len(s), type, v)
  PROVE  LET at == {i \in DOMAIN s : s[i].type = type}
             m == CHOOSE i \in at : \A j \in at : j <= i
         IN IF at = {} THEN v = 0 ELSE s[m].type = type /\ v = Content(s[m])
<1> DEFINE at == {i \in DOMAIN s : s[i].type = type}
           m == CHOOSE i \in at : \A j \in at : j <= i
<1>1. DOMAIN s = 1 .. Len(s) /\ Len(s) \in Nat
  OBVIOUS
<1>2. PICK i \in 0 .. Len(s) :
        /\ \A j \in 1 .. Len(s) : s[j].type = type => j <= i
        /\ IF i = 0 THEN v = 0 ELSE s[i].type = type /\ v = Content(s[i])
  BY Zenon DEF Shows
<1>3. CASE i = 0
  <2>1. \A j \in 1 .. Len(s) : ~(j <= 0)
    BY <1>1
  <2>2. at = {}
    BY <1>1, <1>2, <1>3, <2>1, ZenonT(60)
  <2>3. QED
    BY <1>2, <1>3, <2>2, ZenonT(60)
<1>4. CASE i # 0
  <2>1. i \in 1 .. Len(s)
    BY <1>1, <1>4
  <2>2. i \in at /\ \A j \in at : j <= i
    BY <1>1, <1>2, <1>4, <2>1, ZenonT(60)
  <2>3. m \in at /\ \A j \in at : j <= m
    BY <2>2, ZenonT(60)
  <2>4. m \in 1 .. Len(s)
    <3> HIDE DEF m
    <3>1. QED
      BY <1>1, <2>3, Zenon
  <2> HIDE DEF m
  <2>5. m <= i /\ i <= m
    BY <2>2, <2>3, Zenon
  <2>6. m = i
    <3> HIDE DEF at
    <3>1. QED
      BY <1>1, <2>1, <2>4, <2>5
  <2>7. at # {} /\ s[m].type = type /\ v = Content(s[m])
    BY <1>2, <1>4, <2>2, <2>6, ZenonT(60)
  <2>8. QED
    BY <2>7, ZenonT(60) DEF m
<1>5. QED
  BY <1>3, <1>4

(* Of repeated attributes the last one counts (LastAttributeCounts). *)
THEOREM StunLastAttributeCounts == Spec => []LastAttributeCounts
<1>1. StunInv => LastAttributeCounts
  <2> SUFFICES ASSUME StunInv, stage = "accepted"
               PROVE  LET Value(a) == a.value
                          Length(a) == a.length
                      IN /\ packet.username = LastValue(datagram, "USERNAME", Length)
                         /\ packet.priority = LastValue(datagram, "PRIORITY", Value)
                         /\ packet.iceControlling = LastValue(datagram, "ICE_CONTROLLING", Value)
                         /\ packet.iceControlled = LastValue(datagram, "ICE_CONTROLLED", Value)
    BY Zenon DEF LastAttributeCounts
  <2> DEFINE s == datagram.attrs
             At(type) == {i \in DOMAIN s : s[i].type = type}
             M(type) == CHOOSE i \in At(type) : \A j \in At(type) : j <= i
             Value(a) == a.value
             Length(a) == a.length
             LastLength(type) == LastValue(datagram, type, Length)
             LastNumber(type) == LastValue(datagram, type, Value)
  <2>1. Scanned(datagram, next - 1, pos, packet) /\ next = Len(s) + 1
    BY ZenonT(60) DEF StunInv
  <2>2. s \in Seq(Attributes) /\ Len(s) \in Nat
    BY <2>1, ScanFacts, ZenonT(60)
  <2>3. next - 1 = Len(s)
    BY <2>1, <2>2
  <2>4. Reads(s, Len(s), packet)
    BY <2>1, <2>3, Zenon DEF Scanned
  <2>5. \A type, v : Shows(s, Len(s), type, v) =>
          IF At(type) = {} THEN v = 0
          ELSE s[M(type)].type = type /\ v = Content(s[M(type)])
    BY <2>2, LastContent, ZenonT(60)
  <2>6. \A type : LastLength(type) = IF At(type) = {} THEN 0 ELSE s[M(type)].length
    BY Zenon DEF LastValue
  <2>7. \A type : LastNumber(type) = IF At(type) = {} THEN 0 ELSE s[M(type)].value
    BY Zenon DEF LastValue
  <2> HIDE DEF s, At, M, LastLength, LastNumber
  <2>8. packet.username = LastLength("USERNAME")
    <3>1. Shows(s, Len(s), "USERNAME", packet.username)
      BY <2>4, Zenon DEF Reads
    <3>2. CASE At("USERNAME") = {}
      BY <2>5, <2>6, <3>1, <3>2, ZenonT(60)
    <3>3. CASE At("USERNAME") # {}
      <4>1. /\ s[M("USERNAME")].type = "USERNAME"
            /\ packet.username = Content(s[M("USERNAME")])
        BY <2>5, <3>1, <3>3, ZenonT(60)
      <4>2. Content(s[M("USERNAME")]) = s[M("USERNAME")].length
        BY <4>1, ContentFacts, ZenonT(60)
      <4>3. QED
        BY <2>6, <3>3, <4>1, <4>2, ZenonT(60)
    <3>4. QED
      BY <3>2, <3>3, Zenon
  <2>9. packet.priority = LastNumber("PRIORITY")
    <3>1. Shows(s, Len(s), "PRIORITY", packet.priority)
      BY <2>4, Zenon DEF Reads
    <3>2. CASE At("PRIORITY") = {}
      BY <2>5, <2>7, <3>1, <3>2, ZenonT(60)
    <3>3. CASE At("PRIORITY") # {}
      <4>1. /\ s[M("PRIORITY")].type = "PRIORITY"
            /\ packet.priority = Content(s[M("PRIORITY")])
        BY <2>5, <3>1, <3>3, ZenonT(60)
      <4>2. Content(s[M("PRIORITY")]) = s[M("PRIORITY")].value
        BY <4>1, ContentFacts, ZenonT(60)
      <4>3. QED
        BY <2>7, <3>3, <4>1, <4>2, ZenonT(60)
    <3>4. QED
      BY <3>2, <3>3, Zenon
  <2>10. packet.iceControlling = LastNumber("ICE_CONTROLLING")
    <3>1. Shows(s, Len(s), "ICE_CONTROLLING", packet.iceControlling)
      BY <2>4, Zenon DEF Reads
    <3>2. CASE At("ICE_CONTROLLING") = {}
      BY <2>5, <2>7, <3>1, <3>2, ZenonT(60)
    <3>3. CASE At("ICE_CONTROLLING") # {}
      <4>1. /\ s[M("ICE_CONTROLLING")].type = "ICE_CONTROLLING"
            /\ packet.iceControlling = Content(s[M("ICE_CONTROLLING")])
        BY <2>5, <3>1, <3>3, ZenonT(60)
      <4>2. Content(s[M("ICE_CONTROLLING")]) = s[M("ICE_CONTROLLING")].value
        BY <4>1, ContentFacts, ZenonT(60)
      <4>3. QED
        BY <2>7, <3>3, <4>1, <4>2, ZenonT(60)
    <3>4. QED
      BY <3>2, <3>3, Zenon
  <2>11. packet.iceControlled = LastNumber("ICE_CONTROLLED")
    <3>1. Shows(s, Len(s), "ICE_CONTROLLED", packet.iceControlled)
      BY <2>4, Zenon DEF Reads
    <3>2. CASE At("ICE_CONTROLLED") = {}
      BY <2>5, <2>7, <3>1, <3>2, ZenonT(60)
    <3>3. CASE At("ICE_CONTROLLED") # {}
      <4>1. /\ s[M("ICE_CONTROLLED")].type = "ICE_CONTROLLED"
            /\ packet.iceControlled = Content(s[M("ICE_CONTROLLED")])
        BY <2>5, <3>1, <3>3, ZenonT(60)
      <4>2. Content(s[M("ICE_CONTROLLED")]) = s[M("ICE_CONTROLLED")].value
        BY <4>1, ContentFacts, ZenonT(60)
      <4>3. QED
        BY <2>7, <3>3, <4>1, <4>2, ZenonT(60)
    <3>4. QED
      BY <3>2, <3>3, Zenon
  <2>12. QED
    BY <2>8, <2>9, <2>10, <2>11, Zenon DEF LastLength, LastNumber
<1>2. QED
  BY <1>1, StunInvariance, PTL

(* What Serialize writes has the size it announced; Parse accepts it if    *)
(* IsStun takes its type field, and then only; it reads back what was      *)
(* written, an error code below 25600 too; and a signed message            *)
(* authenticates under its password and under no other (RoundTrip).        *)
THEOREM StunRoundTrip == Spec => []RoundTrip
<1>1. StunInv => RoundTrip
  <2> SUFFICES ASSUME StunInv, NEW p \in origin
               PROVE  /\ stage = "filled" => End(datagram.attrs) = datagram.size
                      /\ stage = "rejected" => TypeField(p.klass, p.method) >= 3 * 256
                      /\ stage = "accepted" => TypeField(p.klass, p.method) < 3 * 256
                      /\ stage = "accepted" =>
                           /\ packet.klass = p.klass /\ packet.method = p.method
                           /\ packet.username = p.username /\ packet.priority = p.priority
                           /\ packet.iceControlling = p.iceControlling
                           /\ packet.iceControlled = p.iceControlled
                           /\ packet.hasUseCandidate = p.hasUseCandidate
                           /\ p.klass = ERROR_RESPONSE /\ p.errorCode < 256 * 100 =>
                                packet.errorCode = p.errorCode
                           /\ packet.hasFingerprint
                           /\ HasMessageIntegrity(packet) <=> AddMessageIntegrity(p)
                           /\ HasMessageIntegrity(packet) =>
                                \A q \in Passwords :
                                  IntegrityHolds(datagram, packet, q) <=> q = p.password
    BY Zenon DEF RoundTrip
  <2>1. p \in Built /\ datagram = SerializedDatagram(p)
    BY ZenonT(60) DEF StunInv
  <2>2. IsBuilt(p)
    BY <2>1, BuiltAssumption, Zenon
  <2> DEFINE t == TypeField(p.klass, p.method)
  <2>3. End(datagram.attrs) = datagram.size
    <3>1. End(SerializedAttrs(p)) = SerializedSize(p)
      BY <2>2, SerializedFacts, Zenon
    <3>2. QED
      BY <2>1, <3>1 DEF SerializedDatagram
  <2>4. stage = "rejected" => t >= 3 * 256
    <3>1. p.klass \in 0 .. 3 /\ p.method \in Methods
      BY <2>2, BuiltFacts, Zenon
    <3>2. t \in Nat
      BY <3>1, TypeFieldFacts, Zenon
    <3>3. t < 3 * 256 => WellFormed(datagram)
      BY <2>1, <2>2, SerializedWellFormed, Zenon
    <3>4. stage = "rejected" => ~WellFormed(datagram)
      BY ZenonT(60) DEF StunInv
    <3> HIDE DEF t
    <3>5. QED
      BY <3>2, <3>3, <3>4
  <2>5. stage = "accepted" => t < 3 * 256
    <3>1. stage = "accepted" => WellFormed(datagram)
      BY AcceptedWellFormed, Zenon
    <3>2. datagram.type = t
      BY <2>1 DEF SerializedDatagram
    <3> HIDE DEF t
    <3>3. QED
      BY <3>1, <3>2, Zenon DEF WellFormed
  <2>6. /\ datagram.attrs = SerializedAttrs(p)
        /\ datagram.type = TypeField(p.klass, p.method)
    BY <2>1 DEF SerializedDatagram
  <2>7. ASSUME stage = "accepted"
        PROVE  /\ packet.klass = p.klass /\ packet.method = p.method
               /\ packet.username = p.username /\ packet.priority = p.priority
               /\ packet.iceControlling = p.iceControlling
               /\ packet.iceControlled = p.iceControlled
               /\ packet.hasUseCandidate = p.hasUseCandidate
               /\ p.klass = ERROR_RESPONSE /\ p.errorCode < 256 * 100 =>
                    packet.errorCode = p.errorCode
               /\ packet.hasFingerprint
               /\ HasMessageIntegrity(packet) <=> AddMessageIntegrity(p)
               /\ HasMessageIntegrity(packet) =>
                    \A q \in Passwords :
                      IntegrityHolds(datagram, packet, q) <=> q = p.password
    <3>1. /\ packet \in Packets /\ next = Len(datagram.attrs) + 1
          /\ Scanned(datagram, next - 1, pos, packet)
      BY <2>7, ZenonT(60) DEF StunInv
    <3>2. Len(datagram.attrs) \in Nat
      BY <3>1, ScanFacts, ZenonT(60)
    <3>3. next - 1 = Len(datagram.attrs)
      BY <3>1, <3>2
    <3>4. /\ packet.klass = ClassOf(datagram.type) /\ packet.method = MethodOf(datagram.type)
          /\ Reads(SerializedAttrs(p), Len(SerializedAttrs(p)), packet)
      BY <2>6, <3>1, <3>3, Zenon DEF Scanned
    <3>5. packet.klass = p.klass /\ packet.method = p.method
      <4>1. p.klass \in 0 .. 3 /\ p.method \in Methods
        BY <2>2, BuiltFacts, ZenonT(60)
      <4>2. /\ ClassOf(TypeField(p.klass, p.method)) = p.klass
            /\ MethodOf(TypeField(p.klass, p.method)) = p.method
        BY <4>1, TypeFieldFacts, ZenonT(60)
      <4>3. QED
        BY <2>6, <3>4, <4>2, ZenonT(60)
    <3>6. /\ packet.username = p.username /\ packet.priority = p.priority
          /\ packet.iceControlling = p.iceControlling
          /\ packet.iceControlled = p.iceControlled
          /\ p.klass = ERROR_RESPONSE /\ p.errorCode < 256 * 100 =>
               packet.errorCode = p.errorCode
      BY <2>2, <3>4, NumbersReadBack, ZenonT(60)
    <3>7. /\ packet.hasUseCandidate <=> p.hasUseCandidate
          /\ packet.hasFingerprint
          /\ HasMessageIntegrity(packet) <=> AddMessageIntegrity(p)
          /\ HasMessageIntegrity(packet) => packet.messageIntegrity = IntegrityOf(p)
      BY <2>2, <3>4, FlagsReadBack, ZenonT(60)
    <3>8. packet.hasUseCandidate = p.hasUseCandidate
      <4>1. packet.hasUseCandidate \in BOOLEAN
        BY <3>1, ZenonT(60) DEF Packets
      <4>2. p.hasUseCandidate \in BOOLEAN
        BY <2>2, BuiltFacts, Zenon
      <4>3. QED
        BY <3>7, <4>1, <4>2, Zenon
    <3>9. HasMessageIntegrity(packet) =>
            \A q \in Passwords : IntegrityHolds(datagram, packet, q) <=> q = p.password
      BY <2>1, <2>2, <3>7, IntegrityReadBack, ZenonT(60)
    <3>10. QED
      BY <3>5, <3>6, <3>7, <3>8, <3>9, ZenonT(60)
  <2>8. QED
    BY <2>3, <2>4, <2>5, <2>7, ZenonT(60)
<1>2. QED
  BY <1>1, StunInvariance, PTL
=============================================================================
