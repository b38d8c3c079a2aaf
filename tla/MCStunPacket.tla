---------------------------- MODULE MCStunPacket -----------------------------
(* Datagrams of up to two attributes, every type with its right and with   *)
(* wrong lengths, and of three with right lengths, cut off in the last     *)
(* attribute or not; and packets with every combination of attributes.     *)
EXTENDS StunPacket, SequencesExt

MCMaxDatagram == 4096

(* Attributes before the lengths that need the whole message are filled    *)
(* in: value 1 of an integrity attribute stands for the right one.         *)
AttrChoices ==
  {Attr("USERNAME", n, 0, Empty) : n \in {0, 3, 4, 65535}}
  \cup {Attr("PRIORITY", n, v, Empty) : n \in {4, 5}, v \in {1, 2}}
  \cup {Attr("ICE_CONTROLLING", n, 1, Empty) : n \in {4, 8}}
  \cup {Attr("ICE_CONTROLLED", n, 1, Empty) : n \in {8, 12}}
  \cup {Attr("USE_CANDIDATE", n, 0, Empty) : n \in {0, 4}}
  \cup {Attr("MESSAGE_INTEGRITY", n, 1, "p1") : n \in {16, 20}}
  \cup {Attr("FINGERPRINT", 4, v, Empty) : v \in {0, 1}}
  \cup {Attr("FINGERPRINT", 8, 1, Empty)}
  \cup {Attr("ERROR_CODE", n, 1025, Empty) : n \in {2, 4, 6}}
  \cup {Attr("SOFTWARE", n, 0, Empty) : n \in {0, 5}}

(* The CRC of a FINGERPRINT with value 1 is computed with the length field *)
(* that the header has.                                                    *)
Completed(attrs, length) ==
  [i \in DOMAIN attrs |->
    IF attrs[i].type = "FINGERPRINT" /\ attrs[i].value = 1
    THEN [attrs[i] EXCEPT !.value = length] ELSE attrs[i]]

Message(size, cookie, type, length, attrs) ==
  [size |-> size, cookie |-> cookie, type |-> type, length |-> length,
   attrs |-> Completed(attrs, length)]

AttrSequences ==
  (BoundedSeq(AttrChoices, 2) \ {<<>>})
  \cup TupleOf({a \in AttrChoices : LengthOk(a) /\ a.length < 65535}, 3)

LastStart(attrs) == Starts(attrs)[Len(attrs)] + 4

WithSize(attrs, size) == Message(size, TRUE, 1, size - 20, attrs)

(* The size ends in the last attribute, after its type and length, or in   *)
(* the word after it.                                                      *)
CutRight(d) ==
  LastStart(d.attrs) <= d.size /\ d.size <= End(d.attrs) + 3 /\ d.size <= MCMaxDatagram

MCReceived ==
  {d \in {WithSize(attrs, End(attrs) + n) :
            attrs \in AttrSequences, n \in {-4, -1, 0, 2}} : CutRight(d)}
  \cup {d \in {WithSize(attrs, LastStart(attrs) + n) :
                 attrs \in AttrSequences, n \in {0, 4}} : CutRight(d)}
  \cup {Message(20 + 8, cookie, type, length, <<Attr("PRIORITY", 4, 1, Empty)>>) :
          cookie \in BOOLEAN, type \in {1, 17, 257, 512, 768}, length \in {4, 8, 12}}
  \cup {Message(n, TRUE, 1, 0, <<>>) : n \in {0, 19, 20, 22}}

MCBuilt ==
  [klass : 0 .. 3, method : {1, 127, 128}, username : {0, 1, 4}, priority : {0, 5},
   iceControlling : {0, 5}, iceControlled : {0}, hasUseCandidate : BOOLEAN,
   messageIntegrity : {Attr("MESSAGE_INTEGRITY", 0, 0, Empty)}, hasFingerprint : {FALSE},
   errorCode : {0, 401, 699, 25599, 25600}, xorMappedAddress : {"none", "AF_INET", "AF_INET6"},
   password : {Empty, "p1", "p2"}]
=============================================================================
