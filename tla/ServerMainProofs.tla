-------------------------- MODULE ServerMainProofs ---------------------------
(***************************************************************************)
(* Proofs about the program's objects and its media thread (ServerMain,    *)
(* DtlsResources, MediaSource).                                            *)
(***************************************************************************)
EXTENDS ServerMain, TLAPS

----------------------------------------------------------------------------
(* Who is alive.                                                           *)

(* A set that has every object the program owns, and every object that a   *)
(* member holds, has every object alive.                                   *)
LEMMA AliveBound ==
  ASSUME NEW h, NEW S, \A o \in Objects : h.holders[o] \cap (S \cup {Code}) # {} => o \in S
  PROVE  Alive(h) \subseteq S
<1> DEFINE owned == {o \in Objects : Code \in h.holders[o]}
<1>1. owned \subseteq S
  BY ZenonT(60)
<1>2. ASSUME NEW T, T \subseteq S PROVE HeldBy(h, T) \subseteq S
  BY <1>2, ZenonT(60) DEF HeldBy
<1> HIDE DEF owned
<1>3. HeldBy(h, HeldBy(h, HeldBy(h, HeldBy(h, owned)))) \subseteq S
  BY <1>1, <1>2, ZenonT(60)
<1>4. QED
  BY <1>3, ZenonT(60) DEF Alive, owned

(* What the program owns is alive, and so is what it holds, and on, three  *)
(* levels down.                                                            *)
LEMMA AliveOwned ==
  ASSUME NEW h, NEW o \in Objects, Code \in h.holders[o]
  PROVE  /\ o \in Alive(h)
         /\ \A p \in Objects : o \in h.holders[p] =>
              /\ p \in Alive(h)
              /\ \A q \in Objects : p \in h.holders[q] =>
                   /\ q \in Alive(h)
                   /\ \A r \in Objects : q \in h.holders[r] => r \in Alive(h)
<1> DEFINE A0 == {x \in Objects : Code \in h.holders[x]}
           A1 == HeldBy(h, A0)
           A2 == HeldBy(h, A1)
           A3 == HeldBy(h, A2)
           A4 == HeldBy(h, A3)
<1>1. \A T : \A p \in Objects, x \in T : x \in h.holders[p] => p \in HeldBy(h, T)
  BY ZenonT(60) DEF HeldBy
<1>2. \A T : T \subseteq HeldBy(h, T)
  BY ZenonT(60) DEF HeldBy
<1>3. Alive(h) = A4
  BY ZenonT(60) DEF Alive
<1>4. o \in A0
  OBVIOUS
<1> HIDE DEF A0
<1>5. A0 \subseteq A1 /\ A1 \subseteq A2 /\ A2 \subseteq A3 /\ A3 \subseteq A4
  BY <1>2, ZenonT(60)
<1>6. \A p \in Objects : o \in h.holders[p] => p \in A1
  BY <1>1, <1>4, ZenonT(60)
<1>7. \A p, q \in Objects : p \in A1 /\ p \in h.holders[q] => q \in A2
  BY <1>1, ZenonT(60)
<1>8. \A q, r \in Objects : q \in A2 /\ q \in h.holders[r] => r \in A3
  BY <1>1, ZenonT(60)
<1> HIDE DEF A1, A2, A3, A4
<1>9. QED
  BY <1>3, <1>4, <1>5, <1>6, <1>7, <1>8, ZenonT(60)

----------------------------------------------------------------------------
(* The first video stream.  (Every non-empty set of naturals has a least  *)
(* element: the theorems on well-founded relations.)                       *)

INSTANCE WellFoundedInduction

(* A sequence with a video stream has a first one. *)
LEMMA FirstVideo ==
  ASSUME NEW s \in Seq({"video", "audio"}), NEW j \in DOMAIN s, s[j] = "video"
  PROVE  \E k \in DOMAIN s : s[k] = "video" /\ \A m \in 1 .. k - 1 : s[m] # "video"
<1> DEFINE T == {k \in DOMAIN s : s[k] = "video"}
           R == OpToRel(<, Nat)
<1>1. DOMAIN s = 1 .. Len(s) /\ Len(s) \in Nat
  OBVIOUS
<1>2. T \subseteq Nat /\ T # {}
  BY <1>1
<1>3. PICK k \in T : \A m \in T : ~(<<m, k>> \in R)
  <2> HIDE DEF T, R
  <2>1. IsWellFoundedOn(R, Nat)
    BY NatLessThanWellFounded, ZenonT(60) DEF R
  <2>2. QED
    BY <1>2, <2>1, WFMin, ZenonT(60)
<1>4. \A m \in T : ~(m < k)
  BY <1>2, <1>3 DEF OpToRel
<1>5. QED
  BY <1>1, <1>4, SMTT(60)

(* The first video stream is one. *)
LEMMA InStream ==
  ASSUME file \in Files, HasVideo
  PROVE  in_stream_index \in DOMAIN file.streams /\ in_stream_index \in Nat \ {Blank}
<1>1. file.streams \in Seq({"video", "audio"})
  BY FilesAssumption
<1>2. \E k \in DOMAIN file.streams :
        file.streams[k] = "video" /\ \A m \in 1 .. k - 1 : file.streams[m] # "video"
  BY <1>1, FirstVideo, ZenonT(60) DEF HasVideo
<1>3. in_stream_index \in DOMAIN file.streams
  BY <1>2, ZenonT(60) DEF in_stream_index
<1>4. DOMAIN file.streams \subseteq Nat \ {Blank}
  BY <1>1 DEF Blank
<1>5. QED
  BY <1>3, <1>4, ZenonT(60)

----------------------------------------------------------------------------
(* The media thread.                                                       *)

MediaStages == {"start", "read", "write", "done", "crashed"}
MediaObjects == {"abs_ctx", "avio_ctx_buffer", "avio_ctx", "pkt", "ifmt_ctx", "ofmt_ctx"}
Contents == SUBSET Nat

MediaType == [at : MediaStages, next : Nat, out_streams : {0, 1}, header : BOOLEAN,
              held : SUBSET MediaObjects, pkt : Nat, lost : Contents, refused : BOOLEAN]

(* What an ended thread leaves. *)
Remains(m) ==
  /\ m.held \subseteq {"avio_ctx", "avio_ctx_buffer", "abs_ctx"}
  /\ m.header => m.held = {}

(* A thread that plays wrote a header and has a video stream; the packet   *)
(* that it writes is of that stream, whose contents are not lost; what an  *)
(* ended one left behind.                                                  *)
MediaInv ==
  /\ file \in Files
  /\ media \in MediaType
  /\ media.next \in 1 .. Len(file.packets) + 1
  /\ media.at = "start" => media.lost = {} /\ media.pkt = Blank
  /\ media.at \in {"read", "write"} => media.header /\ HasVideo
  /\ media.at = "write" => media.pkt = in_stream_index
  /\ media.at = "done" => Remains(media)
  /\ PacketsReleased

(* The thread begins so. *)
LEMMA MediaInitInv == MediaInit => MediaInv
<1> SUFFICES ASSUME MediaInit PROVE MediaInv
  OBVIOUS
<1>1. Len(file.packets) \in Nat
  BY FilesAssumption DEF MediaInit
<1>2. file \in Files /\ media \in MediaType
  BY DEF MediaInit, MediaType, MediaStages, Blank, Contents
<1>3. media.next = 1 /\ media.at = "start" /\ media.lost = {} /\ media.pkt = Blank
  BY DEF MediaInit
<1>4. media.next \in 1 .. Len(file.packets) + 1
  BY <1>1, <1>3
<1>5. QED
  BY <1>2, <1>3, <1>4, ZenonT(60) DEF MediaInv, PacketsReleased

(* What is held when a call fails. *)
LEMMA OpenHolds ==
  ASSUME NEW failing \in 1 .. 10, NEW filter
  PROVE  LET allocated == Allocated(failing, filter)
         IN /\ allocated \subseteq MediaObjects
            /\ failing \notin {3, 10} =>
                 AtEnd(allocated, failing = 9) \subseteq {"avio_ctx", "avio_ctx_buffer"}
            /\ failing = 3 => allocated \subseteq {"avio_ctx", "avio_ctx_buffer", "abs_ctx"}
  BY DEF Allocated, AtEnd, MediaObjects

(* Threads that differ at most in pkt and in what became of it. *)
SameThread(m, n) ==
  /\ n \in MediaType
  /\ n.at = m.at /\ n.next = m.next /\ n.header = m.header /\ n.held = m.held

(* Overwriting pkt loses its contents. *)
LEMMA OverwriteFacts ==
  ASSUME NEW m \in MediaType, NEW contents \in Nat
  PROVE  LET n == Overwrite(m, contents)
         IN /\ SameThread(m, n)
            /\ n.pkt = contents /\ n.refused = m.refused
            /\ n.lost = IF m.pkt = Blank THEN m.lost ELSE m.lost \cup {m.pkt}
<1> DEFINE lost == IF m.pkt = Blank THEN m.lost ELSE m.lost \cup {m.pkt}
<1>1. lost \in Contents
  BY ZenonT(60) DEF MediaType, Contents
<1> HIDE DEF lost
<1>2. Overwrite(m, contents) = [m EXCEPT !.pkt = contents, !.lost = lost]
  BY ZenonT(60) DEF Overwrite, MediaType, lost
<1>3. QED
  BY <1>1, <1>2, Zenon DEF SameThread, MediaType, lost

(* The filter keeps the contents or takes them, and loses them only where  *)
(* it refused the packet.                                                  *)
LEMMA FilterFacts ==
  ASSUME NEW m \in MediaType, NEW sent \in BOOLEAN, NEW received \in BOOLEAN
  PROVE  LET n == Filter(m, sent, received)
         IN /\ SameThread(m, n)
            /\ m.refused => n.refused
            /\ n.lost = m.lost \/ n.refused
<1> DEFINE n == Filter(m, sent, received)
<1>1. CASE sent
  <2> DEFINE contents == IF received THEN m.pkt ELSE Blank
  <2>1. contents \in Nat
    BY DEF MediaType, Blank
  <2> HIDE DEF contents
  <2>2. n = [m EXCEPT !.pkt = contents]
    BY <1>1, ZenonT(60) DEF Filter, contents
  <2>3. QED
    BY <2>1, <2>2, Zenon DEF SameThread, MediaType
<1>2. CASE ~sent
  <2> DEFINE o == IF received THEN Overwrite(m, m.pkt) ELSE m
  <2>1. SameThread(m, o)
    <3>1. m.pkt \in Nat
      BY ZenonT(60) DEF MediaType
    <3>2. received => SameThread(m, o)
      BY <3>1, OverwriteFacts, ZenonT(60)
    <3>3. ~received => SameThread(m, o)
      BY ZenonT(60) DEF SameThread
    <3>4. QED
      BY <3>2, <3>3, ZenonT(60)
  <2>2. n = [o EXCEPT !.refused = TRUE]
    BY <1>2, ZenonT(60) DEF Filter
  <2> HIDE DEF o
  <2>3. SameThread(o, n) /\ n.refused
    BY <2>1, <2>2, Zenon DEF SameThread, MediaType
  <2> HIDE DEF n
  <2>4. QED
    BY <2>1, <2>3, ZenonT(60) DEF SameThread, n
<1>3. QED
  BY <1>1, <1>2, ZenonT(60)

(* The file stays, and so does what is read from it. *)
LEMMA MediaFile ==
  ASSUME MediaInv, file' = file
  PROVE  /\ file \in Files /\ Len(file.packets) \in Nat
         /\ \A k \in 1 .. Len(file.packets) : file.packets[k] \in Nat
         /\ HasVideo' <=> HasVideo
         /\ in_stream_index' = in_stream_index
         /\ HasVideo => in_stream_index # Blank
<1>1. /\ file \in Files /\ file.streams \in Seq({"video", "audio"})
      /\ file.packets \in Seq(DOMAIN file.streams)
  BY FilesAssumption, ZenonT(60) DEF MediaInv
<1>2. Len(file.packets) \in Nat /\ \A k \in 1 .. Len(file.packets) : file.packets[k] \in Nat
  BY <1>1
<1>3. (HasVideo' <=> HasVideo) /\ in_stream_index' = in_stream_index
  BY ZenonT(60) DEF HasVideo, in_stream_index
<1>4. QED
  BY <1>1, <1>2, <1>3, InStream, ZenonT(60)

(* Opening succeeds, fails or ends the process. *)
LEMMA OpenStep == MediaInv /\ Open => MediaInv'
<1> SUFFICES ASSUME MediaInv, Open PROVE MediaInv'
  OBVIOUS
<1>0. file' = file
  BY ZenonT(60) DEF Open
<1>1. /\ file \in Files /\ media \in MediaType /\ media.at = "start" /\ media.lost = {}
      /\ media.pkt = Blank
      /\ media.next \in 1 .. Len(file.packets) + 1
      /\ (HasVideo' <=> HasVideo) /\ in_stream_index' = in_stream_index
      /\ HasVideo => in_stream_index # Blank
  BY <1>0, MediaFile, ZenonT(60) DEF Open, MediaInv
<1>2. PICK failing \in OpenOutcomes, filter \in FilterOutcomes :
        IF FilterCrashes(filter, failing) THEN media' = [media EXCEPT !.at = "crashed"]
        ELSE \E end \in Ends(failing = 9) :
               media' = [media EXCEPT
                 !.at = IF failing = 10 THEN "read" ELSE end,
                 !.out_streams = IF HasVideo /\ failing > 7 THEN 1 ELSE 0,
                 !.header = failing = 10,
                 !.held = IF failing \in {3, 10} THEN Allocated(failing, filter)
                          ELSE AtEnd(Allocated(failing, filter), failing = 9)]
  BY ZenonT(60) DEF Open
<1>3. CASE FilterCrashes(filter, failing)
  <2>1. media' = [media EXCEPT !.at = "crashed"]
    BY <1>2, <1>3, ZenonT(60)
  <2>2. "crashed" \in MediaStages
    BY ZenonT(60) DEF MediaStages
  <2>3. media' \in MediaType /\ media'.at = "crashed" /\ media'.next = media.next
        /\ media'.lost = {}
    BY <1>1, <2>1, <2>2, Zenon DEF MediaType
  <2>4. QED
    BY <1>0, <1>1, <2>3, ZenonT(60) DEF MediaInv, PacketsReleased
<1>4. CASE ~FilterCrashes(filter, failing)
  <2> DEFINE allocated == Allocated(failing, filter)
             out == IF HasVideo /\ failing > 7 THEN 1 ELSE 0
             header == failing = 10
             held == IF failing \in {3, 10} THEN allocated
                     ELSE AtEnd(allocated, failing = 9)
  <2>1. failing \in 1 .. 10 /\ (failing = 10 => HasVideo)
    BY DEF OpenOutcomes
  <2>2. /\ allocated \subseteq MediaObjects
        /\ failing \notin {3, 10} =>
             AtEnd(allocated, failing = 9) \subseteq {"avio_ctx", "avio_ctx_buffer"}
        /\ failing = 3 => allocated \subseteq {"avio_ctx", "avio_ctx_buffer", "abs_ctx"}
    BY <2>1, OpenHolds, ZenonT(60)
  <2> HIDE DEF allocated
  <2>3. PICK end \in Ends(failing = 9) :
          media' = [media EXCEPT !.at = IF failing = 10 THEN "read" ELSE end,
                                 !.out_streams = out, !.header = header, !.held = held]
    BY <1>2, <1>4, ZenonT(60) DEF allocated
  <2> DEFINE stage == IF failing = 10 THEN "read" ELSE end
  <2>4. /\ stage \in MediaStages /\ out \in {0, 1} /\ header \in BOOLEAN
        /\ held \in SUBSET MediaObjects
        /\ failing = 10 => stage = "read" /\ header /\ HasVideo
        /\ failing # 10 =>
             /\ stage \in {"done", "crashed"} /\ ~header
             /\ held \subseteq {"avio_ctx", "avio_ctx_buffer", "abs_ctx"}
    <3>1. end \in {"done", "crashed"}
      BY ZenonT(60) DEF Ends
    <3>2. stage \in MediaStages /\ out \in {0, 1} /\ header \in BOOLEAN
      BY <3>1, ZenonT(60) DEF MediaStages
    <3>3. {"avio_ctx", "avio_ctx_buffer"} \subseteq MediaObjects
      BY ZenonT(60) DEF MediaObjects
    <3>4. held \in SUBSET MediaObjects
      BY <2>2, <3>3, ZenonT(60)
    <3>5. failing # 10 => held \subseteq {"avio_ctx", "avio_ctx_buffer", "abs_ctx"}
      BY <2>2, ZenonT(60)
    <3>6. QED
      BY <2>1, <3>1, <3>2, <3>4, <3>5, ZenonT(60)
  <2> HIDE DEF stage, out, header, held
  <2>5. media' = [media EXCEPT !.at = stage, !.out_streams = out, !.header = header,
                               !.held = held]
    BY <2>3, ZenonT(60) DEF stage
  <2>6. /\ media' \in MediaType /\ media'.at = stage /\ media'.next = media.next
        /\ media'.header = header /\ media'.held = held /\ media'.lost = {}
        /\ media'.pkt = media.pkt
    BY <1>1, <2>4, <2>5, Zenon DEF MediaType
  <2>7. QED
    BY <1>0, <1>1, <2>4, <2>6, ZenonT(60) DEF MediaInv, PacketsReleased, Remains
<1>5. QED
  BY <1>3, <1>4, ZenonT(60)

(* Reading loses the packet that was skipped before. *)
LEMMA ReadStep == MediaInv /\ ReadFrame => MediaInv'
<1> SUFFICES ASSUME MediaInv, ReadFrame PROVE MediaInv'
  OBVIOUS
<1>0. file' = file
  BY ZenonT(60) DEF ReadFrame
<1> DEFINE k == file.packets[media.next]
           m == Overwrite(media, k)
           at == IF k = in_stream_index THEN "write" ELSE "read"
<1>1. /\ file \in Files /\ media \in MediaType /\ media.at = "read" /\ media.header /\ HasVideo
      /\ media.next \in 1 .. Len(file.packets) + 1 /\ media.next <= Len(file.packets)
      /\ (HasVideo' <=> HasVideo) /\ in_stream_index' = in_stream_index
      /\ media.pkt # in_stream_index /\ (in_stream_index \in media.lost => media.refused)
      /\ media' = [m EXCEPT !.next = @ + 1, !.at = at]
  BY <1>0, MediaFile, ZenonT(60) DEF ReadFrame, MediaInv, PacketsReleased
<1>2. Len(file.packets) \in Nat /\ \A j \in 1 .. Len(file.packets) : file.packets[j] \in Nat
  BY <1>0, MediaFile, ZenonT(60)
<1>3. /\ media.next \in 1 .. Len(file.packets)
      /\ media.next + 1 \in 1 .. Len(file.packets) + 1
      /\ media.next + 1 \in Nat
  BY <1>1, <1>2, SMTT(60)
<1>4. k \in Nat /\ at \in MediaStages
  BY <1>2, <1>3, ZenonT(60) DEF MediaStages
<1>5. /\ SameThread(media, m) /\ m.pkt = k /\ m.refused = media.refused
      /\ m.lost = IF media.pkt = Blank THEN media.lost ELSE media.lost \cup {media.pkt}
  BY <1>1, <1>4, OverwriteFacts, ZenonT(60)
<1>6. in_stream_index \in m.lost => m.refused
  BY <1>1, <1>5, ZenonT(60)
<1>7. at = "write" <=> k = in_stream_index
  BY ZenonT(60)
<1>8. at \in {"read", "write"}
  BY ZenonT(60)
<1> HIDE DEF k, m, at
<1>9. media' = [m EXCEPT !.next = media.next + 1, !.at = at]
  BY <1>1, <1>5, ZenonT(60) DEF SameThread
<1>10. /\ media' \in MediaType /\ media'.next = media.next + 1 /\ media'.at = at
       /\ media'.header = m.header /\ media'.pkt = m.pkt /\ media'.lost = m.lost
       /\ media'.refused = m.refused
  BY <1>3, <1>4, <1>5, <1>9, Zenon DEF SameThread, MediaType
<1>11. media'.header /\ media'.pkt = k
  BY <1>1, <1>5, <1>10, ZenonT(60) DEF SameThread
<1>12. PacketsReleased'
  BY <1>1, <1>6, <1>7, <1>8, <1>10, <1>11, ZenonT(60) DEF PacketsReleased
<1>13. QED
  BY <1>0, <1>1, <1>3, <1>7, <1>8, <1>10, <1>11, <1>12, ZenonT(60) DEF MediaInv

(* A failed read may lose the packet that was skipped before. *)
LEMMA RewindStep == MediaInv /\ (\E sought \in BOOLEAN : Rewind(sought)) => MediaInv'
<1> SUFFICES ASSUME MediaInv, NEW sought \in BOOLEAN, Rewind(sought) PROVE MediaInv'
  OBVIOUS
<1>0. file' = file
  BY ZenonT(60) DEF Rewind
<1>1. /\ file \in Files /\ media \in MediaType /\ media.at = "read" /\ media.header /\ HasVideo
      /\ media.next \in 1 .. Len(file.packets) + 1
      /\ (HasVideo' <=> HasVideo) /\ in_stream_index' = in_stream_index
      /\ in_stream_index # Blank
      /\ media.pkt # in_stream_index /\ (in_stream_index \in media.lost => media.refused)
  BY <1>0, MediaFile, ZenonT(60) DEF Rewind, MediaInv, PacketsReleased
<1>2. PICK m \in {media, Overwrite(media, Blank)} :
        media' = [m EXCEPT !.next = IF sought THEN 1 ELSE @]
  BY ZenonT(60) DEF Rewind
<1>3. /\ SameThread(media, m) /\ m.pkt # in_stream_index
      /\ in_stream_index \in m.lost => m.refused
  <2>1. CASE m = media
    BY <1>1, <2>1, ZenonT(60) DEF SameThread
  <2>2. CASE m = Overwrite(media, Blank)
    <3>1. Blank \in Nat
      BY DEF Blank
    <3>2. /\ SameThread(media, m) /\ m.pkt = Blank /\ m.refused = media.refused
          /\ m.lost = IF media.pkt = Blank THEN media.lost ELSE media.lost \cup {media.pkt}
      BY <1>1, <2>2, <3>1, OverwriteFacts, ZenonT(60)
    <3>3. in_stream_index \in m.lost => in_stream_index \in media.lost
      BY <1>1, <3>2
    <3>4. QED
      BY <1>1, <3>2, <3>3
  <2>3. QED
    BY <2>1, <2>2, ZenonT(60)
<1> DEFINE next == IF sought THEN 1 ELSE media.next
<1>4. next \in 1 .. Len(file.packets) + 1 /\ next \in Nat
  <2>1. Len(file.packets) \in Nat
    BY <1>0, MediaFile, ZenonT(60)
  <2>2. QED
    BY <1>1, <2>1, SMTT(60)
<1>5. media' = [m EXCEPT !.next = next]
  BY <1>2, <1>3, ZenonT(60) DEF SameThread
<1> HIDE DEF next
<1>6. /\ media' \in MediaType /\ media'.next = next /\ media'.at = m.at
      /\ media'.header = m.header /\ media'.pkt = m.pkt /\ media'.lost = m.lost
      /\ media'.refused = m.refused
  BY <1>3, <1>4, <1>5, Zenon DEF SameThread, MediaType
<1>7. media'.header /\ media'.at = "read"
  BY <1>1, <1>3, <1>6, ZenonT(60) DEF SameThread
<1>8. PacketsReleased'
  BY <1>1, <1>3, <1>6, <1>7, ZenonT(60) DEF PacketsReleased
<1>9. QED
  BY <1>0, <1>1, <1>4, <1>6, <1>7, <1>8, ZenonT(60) DEF MediaInv

(* Writing leaves pkt blank, whatever the filter and the muxer say. *)
LEMMA WriteStep == MediaInv /\ (WriteFrame \/ WriteFails) => MediaInv'
<1> SUFFICES ASSUME MediaInv, WriteFrame \/ WriteFails PROVE MediaInv'
  OBVIOUS
<1>0. file' = file
  BY ZenonT(60) DEF WriteFrame, WriteFails
<1>1. /\ file \in Files /\ media \in MediaType /\ media.at = "write" /\ media.header /\ HasVideo
      /\ media.next \in 1 .. Len(file.packets) + 1
      /\ (HasVideo' <=> HasVideo) /\ in_stream_index' = in_stream_index
      /\ in_stream_index # Blank
      /\ in_stream_index \in media.lost => media.refused
  BY <1>0, MediaFile, ZenonT(60) DEF WriteFrame, WriteFails, MediaInv, PacketsReleased
<1>2. ASSUME NEW sent \in BOOLEAN, NEW received \in BOOLEAN
      PROVE  LET m == Filter(media, sent, received)
             IN SameThread(media, m) /\ (in_stream_index \in m.lost => m.refused)
  BY <1>1, FilterFacts, ZenonT(60)
<1>3. Blank \in Nat /\ "read" \in MediaStages
  BY DEF Blank, MediaStages
<1>4. CASE WriteFrame
  <2>1. PICK sent \in BOOLEAN, received \in BOOLEAN :
          media' = [Filter(media, sent, received) EXCEPT !.at = "read", !.pkt = Blank]
    BY <1>4, ZenonT(60) DEF WriteFrame, av_interleaved_write_frame
  <2> DEFINE m == Filter(media, sent, received)
  <2>2. SameThread(media, m) /\ (in_stream_index \in m.lost => m.refused)
    BY <1>2, ZenonT(60)
  <2>3. media' = [m EXCEPT !.at = "read", !.pkt = Blank]
    BY <2>1, ZenonT(60)
  <2> HIDE DEF m
  <2>4. /\ media' \in MediaType /\ media'.next = m.next /\ media'.at = "read"
        /\ media'.header = m.header /\ media'.pkt = Blank /\ media'.lost = m.lost
        /\ media'.refused = m.refused
    BY <1>3, <2>2, <2>3, Zenon DEF SameThread, MediaType
  <2>5. media'.header /\ media'.next = media.next
    BY <1>1, <2>2, <2>4, ZenonT(60) DEF SameThread
  <2>6. PacketsReleased'
    BY <1>1, <2>2, <2>4, ZenonT(60) DEF PacketsReleased
  <2>7. QED
    BY <1>0, <1>1, <2>4, <2>5, <2>6, ZenonT(60) DEF MediaInv
<1>5. CASE WriteFails
  <2>1. PICK sent \in BOOLEAN, received \in BOOLEAN, end \in {"done", "crashed"} :
          media' = [Filter(media, sent, received) EXCEPT
                      !.at = end, !.held = {}, !.pkt = Blank]
    BY <1>5, ZenonT(60) DEF WriteFails, av_interleaved_write_frame, Ends, AtEnd
  <2> DEFINE m == Filter(media, sent, received)
  <2>2. SameThread(media, m) /\ (in_stream_index \in m.lost => m.refused)
    BY <1>2, ZenonT(60)
  <2>3. media' = [m EXCEPT !.at = end, !.held = {}, !.pkt = Blank] /\ end \in MediaStages
        /\ {} \in SUBSET MediaObjects
    BY <2>1, ZenonT(60) DEF MediaStages
  <2> HIDE DEF m
  <2>4. /\ media' \in MediaType /\ media'.next = m.next /\ media'.at = end
        /\ media'.held = {} /\ media'.lost = m.lost /\ media'.refused = m.refused
    BY <1>3, <2>2, <2>3, Zenon DEF SameThread, MediaType
  <2>5. media'.next = media.next /\ media'.at \notin {"start", "read", "write"}
    BY <2>1, <2>2, <2>4, ZenonT(60) DEF SameThread
  <2>6. PacketsReleased' /\ Remains(media')
    BY <1>1, <2>2, <2>4, <2>5, ZenonT(60) DEF PacketsReleased, Remains
  <2>7. QED
    BY <1>0, <1>1, <2>4, <2>5, <2>6, ZenonT(60) DEF MediaInv, Remains
<1>6. QED
  BY <1>4, <1>5, ZenonT(60)

(* Every step of the thread preserves the invariant. *)
LEMMA MediaStep == MediaInv /\ MediaNext => MediaInv'
BY OpenStep, ReadStep, RewindStep, WriteStep, ZenonT(60) DEF MediaNext
----------------------------------------------------------------------------
(* The operations on references.                                           *)

(* h2 is h but for the holders of o, which are H. *)
SetTo(h, h2, o, H) ==
  /\ h2 \in HeapType
  /\ h2.holders[o] = H
  /\ \A x \in Objects \ {o} : h2.holders[x] = h.holders[x]
  /\ h2.pointers = h.pointers /\ h2.misused = h.misused

(* h2 is h but for the pointers, or for the misused objects. *)
SetPointers(h, h2, P) ==
  h2 \in HeapType /\ h2.pointers = P /\ h2.holders = h.holders /\ h2.misused = h.misused
SetMisused(h, h2, M) ==
  h2 \in HeapType /\ h2.misused = M /\ h2.holders = h.holders /\ h2.pointers = h.pointers

(* The objects that are not o keep their holders, whatever is done to o. *)
LEMMA HoldersExcept ==
  ASSUME NEW f \in [Objects -> SUBSET (Objects \cup {Code})], NEW o \in Objects,
         NEW H \in SUBSET (Objects \cup {Code})
  PROVE  /\ [f EXCEPT ![o] = H] \in [Objects -> SUBSET (Objects \cup {Code})]
         /\ [f EXCEPT ![o] = H][o] = H
         /\ \A x \in Objects \ {o} : [f EXCEPT ![o] = H][x] = f[x]
  BY ZenonT(60)

(* The parts of a heap. *)
LEMMA HeapParts ==
  ASSUME NEW h \in HeapType
  PROVE  /\ h.pointers \in SUBSET Objects /\ h.misused \in SUBSET Objects
         /\ h.holders \in [Objects -> SUBSET (Objects \cup {Code})]
         /\ h = [pointers |-> h.pointers, holders |-> h.holders, misused |-> h.misused]
         /\ \A o \in Objects : h.holders[o] \in SUBSET (Objects \cup {Code})
<1>1. /\ h.pointers \in SUBSET Objects /\ h.misused \in SUBSET Objects
      /\ h.holders \in [Objects -> SUBSET (Objects \cup {Code})]
      /\ h = [pointers |-> h.pointers, holders |-> h.holders, misused |-> h.misused]
  BY ZenonT(60) DEF HeapType
<1>2. QED
  BY <1>1, ZenonT(60)

(* Any change of the holders of o: what New, Share, Give and Free do. *)
LEMMA SetHolders ==
  ASSUME NEW h \in HeapType, NEW o \in Objects, NEW H \in SUBSET (Objects \cup {Code}), NEW h2
  PROVE  h2 = [h EXCEPT !.holders[o] = H] => SetTo(h, h2, o, H)
<1>1. ASSUME h2 = [h EXCEPT !.holders[o] = H] PROVE SetTo(h, h2, o, H)
  <2> DEFINE f == [h.holders EXCEPT ![o] = H]
  <2>1. h2 = [pointers |-> h.pointers, holders |-> f, misused |-> h.misused]
    BY <1>1, HeapParts DEF HeapType
  <2>2. h.pointers \in SUBSET Objects /\ h.misused \in SUBSET Objects
    BY HeapParts, ZenonT(60)
  <2>3. h.holders \in [Objects -> SUBSET (Objects \cup {Code})]
    BY HeapParts, ZenonT(60)
  <2>4. f \in [Objects -> SUBSET (Objects \cup {Code})]
    BY <2>3, HoldersExcept, ZenonT(60)
  <2>7. /\ f[o] = H
        /\ \A x \in Objects \ {o} : f[x] = h.holders[x]
    BY <2>3, HoldersExcept, ZenonT(60)
  <2> HIDE DEF f
  <2>5. /\ h2 \in HeapType /\ h2.holders = f /\ h2.pointers = h.pointers
        /\ h2.misused = h.misused
    BY <2>1, <2>2, <2>4 DEF HeapType
  <2>6. QED
    BY <2>5, <2>7, ZenonT(60) DEF SetTo
<1>2. QED
  BY <1>1, ZenonT(60)

(* Any change of the pointers or of the misused objects. *)
LEMMA SetOthers ==
  ASSUME NEW h \in HeapType, NEW P \in SUBSET Objects, NEW h2
  PROVE  /\ h2 = [h EXCEPT !.pointers = P] => SetPointers(h, h2, P)
         /\ h2 = [h EXCEPT !.misused = P] => SetMisused(h, h2, P)
  BY DEF HeapType, SetPointers, SetMisused

(* A new object has a pointer and the program's reference. *)
LEMMA NewLemma ==
  ASSUME NEW h \in HeapType, NEW o \in Objects
  PROVE  /\ New(h, o) \in HeapType /\ New(h, o).holders[o] = {Code}
         /\ \A x \in Objects \ {o} : New(h, o).holders[x] = h.holders[x]
         /\ New(h, o).pointers = h.pointers \cup {o} /\ New(h, o).misused = h.misused
<1> DEFINE P == h.pointers \cup {o}
           h1 == [h EXCEPT !.pointers = P]
<1>1. P \in SUBSET Objects
  BY HeapParts, ZenonT(60)
<1>2. New(h, o) = [h1 EXCEPT !.holders[o] = {Code}]
  BY DEF New, HeapType
<1> HIDE DEF P
<1>3. SetPointers(h, h1, P)
  BY <1>1, SetOthers, ZenonT(60)
<1> HIDE DEF h1
<1>4. h1 \in HeapType /\ {Code} \in SUBSET (Objects \cup {Code})
  BY <1>3, ZenonT(60) DEF SetPointers
<1>5. SetTo(h1, New(h, o), o, {Code})
  BY <1>2, <1>4, SetHolders, ZenonT(60)
<1>6. QED
  BY <1>3, <1>5, ZenonT(60) DEF SetTo, SetPointers, P

(* A reference that is shared. *)
LEMMA ShareLemma ==
  ASSUME NEW h \in HeapType, NEW o \in Objects, NEW holder \in Objects
  PROVE  SetTo(h, Share(h, o, holder), o, h.holders[o] \cup {holder})
<1> DEFINE H == h.holders[o] \cup {holder}
<1>1. H \in SUBSET (Objects \cup {Code})
  BY HeapParts, ZenonT(60)
<1>2. Share(h, o, holder) = [h EXCEPT !.holders[o] = H]
  BY ZenonT(60) DEF Share
<1> HIDE DEF H
<1>3. SetTo(h, Share(h, o, holder), o, H)
  BY <1>1, <1>2, SetHolders, ZenonT(60)
<1>4. QED
  BY <1>3, ZenonT(60) DEF H

(* A reference that is given away. *)
LEMMA GiveLemma ==
  ASSUME NEW h \in HeapType, NEW o \in Objects, NEW holder \in Objects
  PROVE  SetTo(h, Give(h, o, holder), o, (h.holders[o] \ {Code}) \cup {holder})
<1> DEFINE H == (h.holders[o] \ {Code}) \cup {holder}
<1>1. H \in SUBSET (Objects \cup {Code})
  BY HeapParts, ZenonT(60)
<1>2. Give(h, o, holder) = [h EXCEPT !.holders[o] = H]
  BY ZenonT(60) DEF Give
<1> HIDE DEF H
<1>3. SetTo(h, Give(h, o, holder), o, H)
  BY <1>1, <1>2, SetHolders, ZenonT(60)
<1>4. QED
  BY <1>3, ZenonT(60) DEF H

(* A pointer that is reset. *)
LEMMA NullLemma ==
  ASSUME NEW h \in HeapType, NEW o
  PROVE  SetPointers(h, Null(h, o), h.pointers \ {o})
<1> DEFINE P == h.pointers \ {o}
<1>1. P \in SUBSET Objects
  BY HeapParts, ZenonT(60)
<1>2. Null(h, o) = [h EXCEPT !.pointers = P]
  BY ZenonT(60) DEF Null
<1> HIDE DEF P
<1>3. SetPointers(h, Null(h, o), P)
  BY <1>1, <1>2, SetOthers, ZenonT(60)
<1>4. QED
  BY <1>3, ZenonT(60) DEF P

(* An object that the program owns may be used. *)
LEMMA UseLemma ==
  ASSUME NEW h, NEW o \in Objects, Code \in h.holders[o]
  PROVE  Use(h, o) = h
  BY AliveOwned, ZenonT(60) DEF Use

(* Freeing through a pointer that stands for a reference. *)
LEMMA FreeOwned ==
  ASSUME NEW h \in HeapType, NEW o \in Objects, o \in h.pointers, Code \in h.holders[o]
  PROVE  SetTo(h, Free(h, o), o, h.holders[o] \ {Code})
<1> DEFINE H == h.holders[o] \ {Code}
<1>1. H \in SUBSET (Objects \cup {Code})
  BY HeapParts, ZenonT(60)
<1>2. Free(h, o) = [h EXCEPT !.holders[o] = H]
  BY ZenonT(60) DEF Free
<1> HIDE DEF H
<1>3. SetTo(h, Free(h, o), o, H)
  BY <1>1, <1>2, SetHolders, ZenonT(60)
<1>4. QED
  BY <1>3, ZenonT(60) DEF H

(* Freeing through one that does not. *)
LEMMA FreeOther ==
  ASSUME NEW h \in HeapType, NEW o \in Objects, Code \notin h.holders[o]
  PROVE  SetMisused(h, Free(h, o),
                    IF o \in h.pointers THEN h.misused \cup {o} ELSE h.misused)
<1> DEFINE M == h.misused \cup {o}
<1>1. M \in SUBSET Objects
  BY HeapParts, ZenonT(60)
<1>2. CASE o \in h.pointers
  <2>1. Free(h, o) = [h EXCEPT !.misused = M]
    BY <1>2, ZenonT(60) DEF Free
  <2> HIDE DEF M
  <2>2. SetMisused(h, Free(h, o), M)
    BY <1>1, <2>1, SetOthers, ZenonT(60)
  <2>3. QED
    BY <1>2, <2>2, ZenonT(60) DEF M
<1>3. CASE o \notin h.pointers
  BY <1>3, ZenonT(60) DEF Free, SetMisused
<1>4. QED
  BY <1>2, <1>3, ZenonT(60)

----------------------------------------------------------------------------
(* A heap as its pointers, what the program owns, and who else holds what. *)

Owned(h) == {o \in Objects : Code \in h.holders[o]}
Held(h, o) == h.holders[o] \ {Code}

(* h has these pointers, owned objects and misused objects. *)
Is(h, P, O, M) == h \in HeapType /\ h.pointers = P /\ Owned(h) = O /\ h.misused = M

(* In h2 the objects hold each other as in h, but for the holders of o. *)
SameHeld(h, h2) == \A x \in Objects : Held(h2, x) = Held(h, x)
HeldBut(h, h2, o, H) ==
  Held(h2, o) = H /\ \A x \in Objects \ {o} : Held(h2, x) = Held(h, x)

(* The program itself is no object. *)
LEMMA CodeIsNoObject == Code \notin Objects
<1>1. Code \notin ClassObjects
  BY DEF Code, Class, ClassObjects
<1>2. \A t \in Transports : Code \notin TransportObjects(t) \cup SrtpObjects(t)
  BY DEF Code, Class, TransportObjects, SrtpObjects
<1>3. QED
  BY <1>1, <1>2, ZenonT(60) DEF Objects

(* Every heap is so described. *)
LEMMA IsSelf ==
  ASSUME NEW h \in HeapType
  PROVE  Is(h, h.pointers, Owned(h), h.misused) /\ SameHeld(h, h)
  BY ZenonT(60) DEF Is, SameHeld

(* A change of the holders of o, so described. *)
LEMMA SetToIs ==
  ASSUME NEW h, NEW h2, NEW o \in Objects, NEW H, NEW P, NEW O, NEW M,
         Is(h, P, O, M), SetTo(h, h2, o, H)
  PROVE  /\ Is(h2, P, IF Code \in H THEN O \cup {o} ELSE O \ {o}, M)
         /\ HeldBut(h, h2, o, H \ {Code})
<1>1. HeldBut(h, h2, o, H \ {Code})
  BY ZenonT(60) DEF SetTo, HeldBut, Held
<1>2. Owned(h2) = IF Code \in H THEN Owned(h) \cup {o} ELSE Owned(h) \ {o}
  BY SMT DEF SetTo, Owned
<1>3. QED
  BY <1>1, <1>2, ZenonT(60) DEF SetTo, Is

(* A new object. *)
LEMMA NewIs ==
  ASSUME NEW h, NEW o \in Objects, NEW P, NEW O, NEW M, Is(h, P, O, M)
  PROVE  Is(New(h, o), P \cup {o}, O \cup {o}, M) /\ HeldBut(h, New(h, o), o, {})
<1> DEFINE h2 == New(h, o)
<1>1. /\ h2 \in HeapType /\ h2.holders[o] = {Code}
      /\ \A x \in Objects \ {o} : h2.holders[x] = h.holders[x]
      /\ h2.pointers = h.pointers \cup {o} /\ h2.misused = h.misused
  BY NewLemma, ZenonT(60) DEF Is
<1> HIDE DEF h2
<1>2. HeldBut(h, h2, o, {})
  BY <1>1, ZenonT(60) DEF HeldBut, Held
<1>3. Owned(h2) = Owned(h) \cup {o}
  BY <1>1 DEF Owned
<1>4. Is(h2, P \cup {o}, O \cup {o}, M)
  BY <1>1, <1>3, ZenonT(60) DEF Is
<1>5. QED
  BY <1>2, <1>4, ZenonT(60) DEF h2

(* A reference that is shared. *)
LEMMA ShareIs ==
  ASSUME NEW h, NEW o \in Objects, NEW holder \in Objects, NEW P, NEW O, NEW M, Is(h, P, O, M)
  PROVE  /\ Is(Share(h, o, holder), P, O, M)
         /\ HeldBut(h, Share(h, o, holder), o, Held(h, o) \cup {holder})
<1> DEFINE h2 == Share(h, o, holder)
           H == h.holders[o] \cup {holder}
<1>1. SetTo(h, h2, o, H)
  BY ShareLemma, ZenonT(60) DEF Is
<1>2. H \ {Code} = Held(h, o) \cup {holder} /\ (Code \in H <=> o \in O)
  BY CodeIsNoObject, ZenonT(60) DEF Held, Is, Owned
<1> HIDE DEF h2, H
<1>3. /\ Is(h2, P, IF Code \in H THEN O \cup {o} ELSE O \ {o}, M)
      /\ HeldBut(h, h2, o, H \ {Code})
  BY <1>1, SetToIs, ZenonT(60)
<1>4. (IF Code \in H THEN O \cup {o} ELSE O \ {o}) = O
  BY <1>2, ZenonT(60)
<1>5. Is(h2, P, O, M) /\ HeldBut(h, h2, o, Held(h, o) \cup {holder})
  BY <1>2, <1>3, <1>4, ZenonT(60)
<1>6. QED
  BY <1>5, ZenonT(60) DEF h2

(* A reference that is given away. *)
LEMMA GiveIs ==
  ASSUME NEW h, NEW o \in Objects, NEW holder \in Objects, NEW P, NEW O, NEW M, Is(h, P, O, M)
  PROVE  /\ Is(Give(h, o, holder), P, O \ {o}, M)
         /\ HeldBut(h, Give(h, o, holder), o, Held(h, o) \cup {holder})
<1> DEFINE h2 == Give(h, o, holder)
           H == (h.holders[o] \ {Code}) \cup {holder}
<1>1. SetTo(h, h2, o, H)
  BY GiveLemma, ZenonT(60) DEF Is
<1>2. H \ {Code} = Held(h, o) \cup {holder} /\ Code \notin H
  BY CodeIsNoObject, ZenonT(60) DEF Held
<1> HIDE DEF h2, H
<1>3. /\ Is(h2, P, IF Code \in H THEN O \cup {o} ELSE O \ {o}, M)
      /\ HeldBut(h, h2, o, H \ {Code})
  BY <1>1, SetToIs, ZenonT(60)
<1>4. (IF Code \in H THEN O \cup {o} ELSE O \ {o}) = O \ {o}
  BY <1>2, ZenonT(60)
<1>5. Is(h2, P, O \ {o}, M) /\ HeldBut(h, h2, o, Held(h, o) \cup {holder})
  BY <1>2, <1>3, <1>4, ZenonT(60)
<1>6. QED
  BY <1>5, ZenonT(60) DEF h2

(* A pointer that is reset. *)
LEMMA NullIs ==
  ASSUME NEW h, NEW o, NEW P, NEW O, NEW M, Is(h, P, O, M)
  PROVE  Is(Null(h, o), P \ {o}, O, M) /\ SameHeld(h, Null(h, o))
<1>1. SetPointers(h, Null(h, o), h.pointers \ {o})
  BY NullLemma, ZenonT(60) DEF Is
<1>2. QED
  BY <1>1, ZenonT(60) DEF SetPointers, Is, Owned, SameHeld, Held

(* Free is called on a null pointer, on an owned object or on another. *)
LEMMA FreeIs ==
  ASSUME NEW h, NEW o \in Objects, NEW P, NEW O, NEW M, Is(h, P, O, M)
  PROVE  /\ SameHeld(h, Free(h, o))
         /\ o \notin P => Is(Free(h, o), P, O, M)
         /\ o \in P /\ o \in O => Is(Free(h, o), P, O \ {o}, M)
         /\ o \in P /\ o \notin O => Is(Free(h, o), P, O, M \cup {o})
<1> DEFINE h2 == Free(h, o)
<1>0. o \in Owned(h) <=> Code \in h.holders[o]
  BY ZenonT(60) DEF Owned
<1>1. CASE o \notin P
  <2>1. h2 = h
    BY <1>1, ZenonT(60) DEF Is, Free
  <2>2. QED
    BY <1>1, <2>1, ZenonT(60) DEF SameHeld
<1>2. CASE o \in P /\ o \in O
  <2>1. SetTo(h, h2, o, h.holders[o] \ {Code})
    BY <1>0, <1>2, FreeOwned, ZenonT(60) DEF Is
  <2> HIDE DEF h2
  <2>2. /\ Is(h2, P, IF Code \in h.holders[o] \ {Code} THEN O \cup {o} ELSE O \ {o}, M)
        /\ HeldBut(h, h2, o, (h.holders[o] \ {Code}) \ {Code})
    BY <2>1, SetToIs, ZenonT(60)
  <2>3. Is(h2, P, O \ {o}, M)
    BY <2>2, ZenonT(60)
  <2>4. SameHeld(h, h2)
    BY <2>2, ZenonT(60) DEF SameHeld, HeldBut, Held
  <2>5. QED
    BY <1>2, <2>3, <2>4, ZenonT(60) DEF h2
<1>3. CASE o \in P /\ o \notin O
  <2>1. SetMisused(h, h2, IF o \in h.pointers THEN h.misused \cup {o} ELSE h.misused)
    BY <1>0, <1>3, FreeOther, ZenonT(60) DEF Is
  <2> HIDE DEF h2
  <2>2. Is(h2, P, O, M \cup {o}) /\ SameHeld(h, h2)
    BY <1>3, <2>1, ZenonT(60) DEF SetMisused, Is, Owned, SameHeld, Held
  <2>3. QED
    BY <1>3, <2>2, ZenonT(60) DEF h2
<1>4. QED
  BY <1>1, <1>2, <1>3, ZenonT(60)

----------------------------------------------------------------------------
(* The objects.                                                            *)

EcKey == Class("ecKey")
PrivateKey == Class("privateKey")
Certificate == Class("certificate")
SslCtx == Class("sslCtx")
Ssl(t) == <<"ssl", t>>
BioFrom(t) == <<"sslBioFromNetwork", t>>
BioTo(t) == <<"sslBioToNetwork", t>>
EncryptBuffer(t) == <<"encrypt_buffer", t>>
Session(t) == <<"session", t>>

(* The objects of the class are four. *)
LEMMA ClassApart ==
  /\ {EcKey, PrivateKey, Certificate, SslCtx} \subseteq Objects
  /\ EcKey # PrivateKey /\ EcKey # Certificate /\ EcKey # SslCtx
  /\ PrivateKey # Certificate /\ PrivateKey # SslCtx /\ Certificate # SslCtx
<1>1. ClassObjects = {EcKey, PrivateKey, Certificate, SslCtx}
  BY DEF ClassObjects, EcKey, PrivateKey, Certificate, SslCtx
<1>2. /\ EcKey # PrivateKey /\ EcKey # Certificate /\ EcKey # SslCtx
      /\ PrivateKey # Certificate /\ PrivateKey # SslCtx /\ Certificate # SslCtx
  BY DEF EcKey, PrivateKey, Certificate, SslCtx, Class
<1>3. QED
  BY <1>1, <1>2, ZenonT(60) DEF Objects

(* The objects of a transport are five, apart from those of the class. *)
LEMMA TransportApart ==
  ASSUME NEW t \in Transports
  PROVE  /\ {Ssl(t), BioFrom(t), BioTo(t), EncryptBuffer(t), Session(t)} \subseteq Objects
         /\ TransportObjects(t) = {Ssl(t), BioFrom(t), BioTo(t)}
         /\ Ssl(t) # BioFrom(t) /\ Ssl(t) # BioTo(t) /\ BioFrom(t) # BioTo(t)
         /\ {EncryptBuffer(t), Session(t)} \cap {Ssl(t), BioFrom(t), BioTo(t)} = {}
         /\ {Ssl(t), BioFrom(t), BioTo(t), EncryptBuffer(t), Session(t)} \cap
              {EcKey, PrivateKey, Certificate, SslCtx} = {}
<1>1. /\ TransportObjects(t) = {Ssl(t), BioFrom(t), BioTo(t)}
      /\ SrtpObjects(t) = {EncryptBuffer(t), Session(t)}
  BY DEF TransportObjects, SrtpObjects, Ssl, BioFrom, BioTo, EncryptBuffer, Session
<1>2. /\ Ssl(t) # BioFrom(t) /\ Ssl(t) # BioTo(t) /\ BioFrom(t) # BioTo(t)
  BY DEF Ssl, BioFrom, BioTo
<1>3. {EncryptBuffer(t), Session(t)} \cap {Ssl(t), BioFrom(t), BioTo(t)} = {}
  BY DEF Ssl, BioFrom, BioTo, EncryptBuffer, Session
<1>4. {Ssl(t), BioFrom(t), BioTo(t), EncryptBuffer(t), Session(t)} \cap
        {EcKey, PrivateKey, Certificate, SslCtx} = {}
  <2>1. \A o \in {Ssl(t), BioFrom(t), BioTo(t), EncryptBuffer(t), Session(t)} : o[2] = t
    BY DEF Ssl, BioFrom, BioTo, EncryptBuffer, Session
  <2>2. \A o \in {EcKey, PrivateKey, Certificate, SslCtx} : o[2] = "class"
    BY DEF EcKey, PrivateKey, Certificate, SslCtx, Class
  <2>3. QED
    BY <2>1, <2>2, TransportsAssumption, ZenonT(60)
<1>5. TransportObjects(t) \cup SrtpObjects(t) \subseteq Objects
  BY ZenonT(60) DEF Objects
<1>6. {Ssl(t), BioFrom(t), BioTo(t), EncryptBuffer(t), Session(t)} \subseteq Objects
  BY <1>1, <1>5, ZenonT(60)
<1>7. QED
  BY <1>1, <1>2, <1>3, <1>4, <1>6, ZenonT(60)

(* Two transports share none. *)
LEMMA TransportsApart ==
  ASSUME NEW t, NEW u, t # u
  PROVE  {Ssl(t), BioFrom(t), BioTo(t), EncryptBuffer(t), Session(t)} \cap
           {Ssl(u), BioFrom(u), BioTo(u)} = {}
  BY DEF Ssl, BioFrom, BioTo, EncryptBuffer, Session

----------------------------------------------------------------------------
(* ClassInit.                                                              *)

(* Nothing holds the context or an object of a transport. *)
NothingElse(h) ==
  /\ Held(h, SslCtx) = {}
  /\ \A t \in Transports : \A o \in TransportObjects(t) : Held(h, o) = {}

(* The key pair and the certificate are there. *)
KeysMade(h) ==
  /\ Is(h, {PrivateKey, Certificate}, {PrivateKey, Certificate}, {})
  /\ PrivateKey \in Held(h, EcKey)
  /\ NothingElse(h)

(* The initial heap. *)
LEMMA EmptyIs == Is(EmptyHeap, {}, {}, {}) /\ NothingElse(EmptyHeap)
<1>1. EmptyHeap \in HeapType
  <2>1. [o \in Objects |-> {}] \in [Objects -> SUBSET (Objects \cup {Code})]
    BY ZenonT(60)
  <2>2. QED
    BY <2>1, ZenonT(60) DEF EmptyHeap, HeapType
<1>2. EmptyHeap.pointers = {} /\ EmptyHeap.misused = {}
      /\ EmptyHeap.holders = [o \in Objects |-> {}]
  BY ZenonT(60) DEF EmptyHeap
<1>3. \A o \in Objects : EmptyHeap.holders[o] = {}
  BY <1>2, ZenonT(60)
<1>4. SslCtx \in Objects /\ \A t \in Transports : TransportObjects(t) \subseteq Objects
  BY ClassApart, TransportApart, ZenonT(60)
<1>5. Owned(EmptyHeap) = {}
  BY <1>3, ZenonT(60) DEF Owned
<1>6. NothingElse(EmptyHeap)
  BY <1>3, <1>4 DEF NothingElse, Held
<1>7. QED
  BY <1>1, <1>2, <1>5, <1>6, ZenonT(60) DEF Is

(* What happens to the keys and the certificate leaves it so. *)
LEMMA NothingElseKept ==
  ASSUME NEW h, NEW h2, NothingElse(h), NEW H,
         \/ SameHeld(h, h2)
         \/ \E o \in {EcKey, PrivateKey, Certificate} : HeldBut(h, h2, o, H)
         \/ HeldBut(h, h2, SslCtx, {})
  PROVE  NothingElse(h2)
<1>1. ASSUME NEW t \in Transports, NEW x \in TransportObjects(t) PROVE Held(h2, x) = {}
  <2>1. x \in Objects /\ x \notin {EcKey, PrivateKey, Certificate, SslCtx} /\ Held(h, x) = {}
    BY TransportApart, ZenonT(60) DEF NothingElse
  <2>2. QED
    BY <2>1, ZenonT(60) DEF SameHeld, HeldBut
<1>2. Held(h2, SslCtx) = {}
  <2>1. /\ SslCtx \in Objects /\ SslCtx \notin {EcKey, PrivateKey, Certificate}
        /\ Held(h, SslCtx) = {}
    BY ClassApart, ZenonT(60) DEF NothingElse
  <2>2. QED
    BY <2>1, ZenonT(60) DEF SameHeld, HeldBut
<1>3. QED
  BY <1>1, <1>2, ZenonT(60) DEF NothingElse

(* Each of the three pointers is freed at most once, whatever was made. *)
LEMMA GenerateErrorIs ==
  ASSUME NEW h, NEW P, P \subseteq {EcKey, PrivateKey, Certificate}, Is(h, P, P, {})
  PROVE  Is(GenerateError(h), P, {}, {})
<1>0. {EcKey, PrivateKey, Certificate} \subseteq Objects
      /\ EcKey # PrivateKey /\ EcKey # Certificate /\ PrivateKey # Certificate
  BY ClassApart, ZenonT(60)
<1> DEFINE h1 == Free(h, EcKey)
           h2 == Free(h1, PrivateKey)
           h3 == Free(h2, Certificate)
           P1 == P \ {EcKey}
           P2 == P1 \ {PrivateKey}
<1>1. Is(h1, P, P1, {})
  <2>1. CASE EcKey \in P
    BY <1>0, <2>1, FreeIs, ZenonT(60)
  <2>2. CASE EcKey \notin P
    <3>1. P1 = P
      BY <2>2, SMTT(60)
    <3>2. QED
      BY <1>0, <2>2, <3>1, FreeIs, ZenonT(60)
  <2>3. QED
    BY <2>1, <2>2, ZenonT(60)
<1>a. PrivateKey \in P => PrivateKey \in P1
  BY <1>0, ZenonT(60)
<1> HIDE DEF h1, P1
<1>2. Is(h2, P, P2, {})
  <2>1. CASE PrivateKey \in P
    BY <1>0, <1>1, <1>a, <2>1, FreeIs, ZenonT(60)
  <2>2. CASE PrivateKey \notin P
    <3>1. P2 = P1
      BY <2>2 DEF P1
    <3>2. QED
      BY <1>0, <1>1, <2>2, <3>1, FreeIs, ZenonT(60)
  <2>3. QED
    BY <2>1, <2>2, ZenonT(60)
<1>b. Certificate \in P => Certificate \in P2
  BY <1>0, ZenonT(60) DEF P1
<1>c. P2 \ {Certificate} = {} /\ (Certificate \notin P => P2 = {})
  BY DEF P1
<1> HIDE DEF h2, P2
<1>3. Is(h3, P, {}, {})
  <2>1. CASE Certificate \in P
    <3>1. Is(h3, P, P2 \ {Certificate}, {})
      BY <1>0, <1>2, <1>b, <2>1, FreeIs, ZenonT(60)
    <3>2. QED
      BY <1>c, <3>1, ZenonT(60)
  <2>2. CASE Certificate \notin P
    <3>1. Is(h3, P, P2, {})
      BY <1>0, <1>2, <2>2, FreeIs, ZenonT(60)
    <3>2. QED
      BY <1>c, <2>2, <3>1, ZenonT(60)
  <2>3. QED
    BY <2>1, <2>2, ZenonT(60)
<1>4. GenerateError(h) = h3
  BY ZenonT(60) DEF GenerateError, h1, h2, h3, EcKey, PrivateKey, Certificate
<1>5. QED
  BY <1>3, <1>4, ZenonT(60)

(* A heap of which the program owns nothing has nothing alive. *)
LEMMA NothingAlive ==
  ASSUME NEW h, Owned(h) = {}
  PROVE  Alive(h) = {}
<1>1. \A o \in Objects : h.holders[o] \cap ({} \cup {Code}) # {} => o \in {}
  BY ZenonT(60) DEF Owned
<1>2. Alive(h) \subseteq {}
  BY <1>1, AliveBound, ZenonT(60)
<1>3. QED
  BY <1>2, ZenonT(60)

(* The key pair, as far as it got. *)
LEMMA KeyPairIs ==
  ASSUME NEW failing \in 1 .. 10
  PROVE  LET h == GenerateKeyPair(EmptyHeap, failing)
         IN /\ NothingElse(h)
            /\ \E P \in SUBSET {EcKey, PrivateKey} : Is(h, P, P, {})
            /\ failing > 4 => /\ Is(h, {PrivateKey}, {PrivateKey}, {})
                              /\ PrivateKey \in Held(h, EcKey)
<1>0. EcKey \in Objects /\ PrivateKey \in Objects /\ EcKey # PrivateKey
  BY ClassApart, ZenonT(60)
<1> DEFINE a == New(EmptyHeap, EcKey)
           b == New(a, PrivateKey)
           c == Give(b, EcKey, PrivateKey)
           d == Null(c, EcKey)
<1>1. Is(a, {EcKey}, {EcKey}, {}) /\ NothingElse(a)
  <2>1. Is(a, {} \cup {EcKey}, {} \cup {EcKey}, {}) /\ HeldBut(EmptyHeap, a, EcKey, {})
    BY <1>0, EmptyIs, NewIs, ZenonT(60)
  <2>2. {} \cup {EcKey} = {EcKey}
    OBVIOUS
  <2> HIDE DEF a
  <2>3. NothingElse(a)
    BY <2>1, EmptyIs, NothingElseKept, ZenonT(60)
  <2>4. QED
    BY <2>1, <2>2, <2>3, ZenonT(60)
<1> HIDE DEF a
<1>2. Is(b, {EcKey, PrivateKey}, {EcKey, PrivateKey}, {}) /\ NothingElse(b)
  <2>1. /\ Is(b, {EcKey} \cup {PrivateKey}, {EcKey} \cup {PrivateKey}, {})
        /\ HeldBut(a, b, PrivateKey, {})
    BY <1>0, <1>1, NewIs, ZenonT(60)
  <2>2. {EcKey} \cup {PrivateKey} = {EcKey, PrivateKey}
    OBVIOUS
  <2> HIDE DEF b
  <2>3. NothingElse(b)
    BY <1>1, <2>1, NothingElseKept, ZenonT(60)
  <2>4. QED
    BY <2>1, <2>2, <2>3, ZenonT(60)
<1> HIDE DEF b
<1>3. /\ Is(c, {EcKey, PrivateKey}, {PrivateKey}, {}) /\ NothingElse(c)
      /\ PrivateKey \in Held(c, EcKey)
  <2>1. /\ Is(c, {EcKey, PrivateKey}, {EcKey, PrivateKey} \ {EcKey}, {})
        /\ HeldBut(b, c, EcKey, Held(b, EcKey) \cup {PrivateKey})
    BY <1>0, <1>2, GiveIs, ZenonT(60)
  <2>2. {EcKey, PrivateKey} \ {EcKey} = {PrivateKey}
    BY <1>0
  <2> HIDE DEF c
  <2>3. NothingElse(c)
    BY <1>2, <2>1, NothingElseKept, ZenonT(60)
  <2>4. PrivateKey \in Held(c, EcKey)
    BY <2>1, ZenonT(60) DEF HeldBut
  <2>5. QED
    BY <2>1, <2>2, <2>3, <2>4, ZenonT(60)
<1> HIDE DEF c
<1>4. /\ Is(d, {PrivateKey}, {PrivateKey}, {}) /\ NothingElse(d) /\ PrivateKey \in Held(d, EcKey)
  <2>1. Is(d, {EcKey, PrivateKey} \ {EcKey}, {PrivateKey}, {}) /\ SameHeld(c, d)
    BY <1>3, NullIs, ZenonT(60)
  <2>2. {EcKey, PrivateKey} \ {EcKey} = {PrivateKey}
    BY <1>0
  <2> HIDE DEF d
  <2>3. NothingElse(d)
    BY <1>3, <2>1, NothingElseKept, ZenonT(60)
  <2>4. PrivateKey \in Held(d, EcKey)
    BY <1>0, <1>3, <2>1, ZenonT(60) DEF SameHeld
  <2>5. QED
    BY <2>1, <2>2, <2>3, <2>4, ZenonT(60)
<1> HIDE DEF d
<1> DEFINE h == GenerateKeyPair(EmptyHeap, failing)
<1>5. \/ failing = 1 /\ h = EmptyHeap
      \/ failing \in {2, 3} /\ h = a
      \/ failing = 4 /\ h = b
      \/ failing > 4 /\ h = d
  <2>1. failing = 1 \/ failing \in {2, 3} \/ failing = 4 \/ failing > 4
    OBVIOUS
  <2>2. /\ failing = 1 => ~(failing > 1) /\ ~(failing > 3) /\ ~(failing > 4)
        /\ failing \in {2, 3} => failing > 1 /\ ~(failing > 3) /\ ~(failing > 4)
        /\ failing = 4 => failing > 1 /\ failing > 3 /\ ~(failing > 4)
        /\ failing > 4 => failing > 1 /\ failing > 3
    OBVIOUS
  <2>3. h = LET h1 == IF failing > 1 THEN a ELSE EmptyHeap
                h2 == IF failing > 3 THEN New(h1, PrivateKey) ELSE h1
            IN IF failing > 4 THEN Null(Give(h2, EcKey, PrivateKey), EcKey) ELSE h2
    BY ZenonT(60) DEF GenerateKeyPair, a, EcKey, PrivateKey
  <2>4. QED
    BY <2>1, <2>2, <2>3, ZenonT(60) DEF b, c, d
<1>6. failing \in {1, 2, 3, 4} => ~(failing > 4)
  OBVIOUS
<1>7. {} \in SUBSET {EcKey, PrivateKey} /\ {EcKey} \in SUBSET {EcKey, PrivateKey}
      /\ {PrivateKey} \in SUBSET {EcKey, PrivateKey}
      /\ {EcKey, PrivateKey} \in SUBSET {EcKey, PrivateKey}
  OBVIOUS
<1> HIDE DEF h
<1>8. /\ NothingElse(h)
      /\ \E P \in SUBSET {EcKey, PrivateKey} : Is(h, P, P, {})
      /\ failing > 4 => Is(h, {PrivateKey}, {PrivateKey}, {}) /\ PrivateKey \in Held(h, EcKey)
  BY <1>1, <1>2, <1>4, <1>5, <1>6, <1>7, EmptyIs, ZenonT(60)
<1>9. QED
  BY <1>8, ZenonT(60) DEF h

(* Either the key pair and the certificate are made, or nothing is left. *)
LEMMA GenerateIs ==
  ASSUME NEW failing \in 1 .. 10
  PROVE  LET h == GenerateCertificateAndPrivateKey(EmptyHeap, failing)
         IN /\ failing > 9 => KeysMade(h)
            /\ ~(failing > 9) => h \in HeapType /\ h.misused = {} /\ Alive(h) = {}
<1>0. /\ {EcKey, PrivateKey, Certificate} \subseteq Objects
      /\ EcKey # PrivateKey /\ EcKey # Certificate /\ PrivateKey # Certificate
  BY ClassApart, ZenonT(60)
<1> DEFINE k == GenerateKeyPair(EmptyHeap, failing)
           a == New(k, Certificate)
           b == Share(a, PrivateKey, Certificate)
           made == GenerateCertificate(k, failing)
<1>1. /\ NothingElse(k)
      /\ \E P \in SUBSET {EcKey, PrivateKey} : Is(k, P, P, {})
      /\ failing > 4 => Is(k, {PrivateKey}, {PrivateKey}, {}) /\ PrivateKey \in Held(k, EcKey)
  BY KeyPairIs, ZenonT(60)
<1> HIDE DEF k
<1>2. failing > 5 => Is(a, {PrivateKey, Certificate}, {PrivateKey, Certificate}, {})
                     /\ NothingElse(a) /\ PrivateKey \in Held(a, EcKey)
  <2> SUFFICES ASSUME failing > 5
               PROVE  Is(a, {PrivateKey, Certificate}, {PrivateKey, Certificate}, {})
                      /\ NothingElse(a) /\ PrivateKey \in Held(a, EcKey)
    OBVIOUS
  <2>0. failing > 4
    OBVIOUS
  <2>1. Is(a, {PrivateKey} \cup {Certificate}, {PrivateKey} \cup {Certificate}, {})
        /\ HeldBut(k, a, Certificate, {})
    BY <1>0, <1>1, <2>0, NewIs, ZenonT(60)
  <2>2. {PrivateKey} \cup {Certificate} = {PrivateKey, Certificate}
    OBVIOUS
  <2> HIDE DEF a
  <2>3. NothingElse(a)
    BY <1>1, <2>1, NothingElseKept, ZenonT(60)
  <2>4. PrivateKey \in Held(a, EcKey)
    BY <1>0, <1>1, <2>0, <2>1, ZenonT(60) DEF HeldBut
  <2>5. QED
    BY <2>1, <2>2, <2>3, <2>4, ZenonT(60)
<1> HIDE DEF a
<1>3. failing > 6 => Is(b, {PrivateKey, Certificate}, {PrivateKey, Certificate}, {})
                     /\ NothingElse(b) /\ PrivateKey \in Held(b, EcKey)
  <2> SUFFICES ASSUME failing > 6
               PROVE  Is(b, {PrivateKey, Certificate}, {PrivateKey, Certificate}, {})
                      /\ NothingElse(b) /\ PrivateKey \in Held(b, EcKey)
    OBVIOUS
  <2>0. failing > 5
    OBVIOUS
  <2>1. Is(b, {PrivateKey, Certificate}, {PrivateKey, Certificate}, {})
        /\ HeldBut(a, b, PrivateKey, Held(a, PrivateKey) \cup {Certificate})
    BY <1>0, <1>2, <2>0, ShareIs, ZenonT(60)
  <2> HIDE DEF b
  <2>3. NothingElse(b)
    BY <1>2, <2>0, <2>1, NothingElseKept, ZenonT(60)
  <2>4. PrivateKey \in Held(b, EcKey)
    BY <1>0, <1>2, <2>0, <2>1, ZenonT(60) DEF HeldBut
  <2>5. QED
    BY <2>1, <2>3, <2>4, ZenonT(60)
<1> HIDE DEF b
<1>4. \/ ~(failing > 5) /\ made = k
      \/ failing > 5 /\ ~(failing > 6) /\ made = a
      \/ failing > 6 /\ made = b
  <2>1. failing > 6 => failing > 5
    OBVIOUS
  <2>2. made = LET h1 == IF failing > 5 THEN a ELSE k
               IN IF failing > 6 THEN Share(h1, PrivateKey, Certificate) ELSE h1
    BY ZenonT(60) DEF GenerateCertificate, a, PrivateKey, Certificate
  <2>3. QED
    BY <2>1, <2>2, ZenonT(60) DEF b
<1>5. failing > 9 => KeysMade(made)
  <2>1. failing > 9 => failing > 6
    OBVIOUS
  <2>2. failing > 6 => failing > 5
    OBVIOUS
  <2>3. QED
    BY <1>3, <1>4, <2>1, <2>2, ZenonT(60) DEF KeysMade
<1>6. \E P : P \subseteq {EcKey, PrivateKey, Certificate} /\ Is(made, P, P, {})
  BY <1>1, <1>2, <1>3, <1>4, ZenonT(60)
<1> HIDE DEF made
<1>7. GenerateError(made) \in HeapType /\ GenerateError(made).misused = {}
      /\ Alive(GenerateError(made)) = {}
  <2>1. \E P : Is(GenerateError(made), P, {}, {})
    BY <1>6, GenerateErrorIs, ZenonT(60)
  <2>2. QED
    BY <2>1, NothingAlive, ZenonT(60) DEF Is
<1> DEFINE h == GenerateCertificateAndPrivateKey(EmptyHeap, failing)
<1>8. h = IF failing > 9 THEN made ELSE GenerateError(made)
  BY ZenonT(60) DEF GenerateCertificateAndPrivateKey, GenerateCalls, made, k
<1> HIDE DEF h
<1>9. /\ failing > 9 => KeysMade(h)
      /\ ~(failing > 9) => h \in HeapType /\ h.misused = {} /\ Alive(h) = {}
  BY <1>5, <1>7, <1>8, ZenonT(60)
<1>10. QED
  BY <1>9, ZenonT(60) DEF h

(* The class is complete: three references, which ClassDestroy would give  *)
(* up, and the chain from the context to the EC key.                       *)
ClassMade(h) ==
  /\ h \in HeapType /\ h.misused = {}
  /\ {PrivateKey, Certificate, SslCtx} \subseteq h.pointers \cap Owned(h)
  /\ PrivateKey \in Held(h, EcKey)
  /\ SslCtx \in Held(h, PrivateKey) /\ SslCtx \in Held(h, Certificate)

(* ClassDestroy frees each of them once. *)
LEMMA ClassDestroyIs ==
  ASSUME NEW h, NEW P, NEW O, Is(h, P, O, {}), {PrivateKey, Certificate} \subseteq P \cap O,
         SslCtx \in P <=> SslCtx \in O
  PROVE  /\ Is(ClassDestroy(h), P, O \ {PrivateKey, Certificate, SslCtx}, {})
         /\ SameHeld(h, ClassDestroy(h))
<1>0. /\ {PrivateKey, Certificate, SslCtx} \subseteq Objects
      /\ PrivateKey # Certificate /\ PrivateKey # SslCtx /\ Certificate # SslCtx
  BY ClassApart, ZenonT(60)
<1> DEFINE a == Free(h, PrivateKey)
           b == Free(a, Certificate)
           c == Free(b, SslCtx)
           O1 == O \ {PrivateKey}
           O2 == O1 \ {Certificate}
           O3 == O2 \ {SslCtx}
<1>1. Is(a, P, O1, {}) /\ SameHeld(h, a)
  BY <1>0, FreeIs, ZenonT(60)
<1>2. Certificate \in O1 /\ (SslCtx \in O1 <=> SslCtx \in O)
  BY <1>0, ZenonT(60)
<1> HIDE DEF a, O1
<1>3. Is(b, P, O2, {}) /\ SameHeld(a, b)
  BY <1>0, <1>1, <1>2, FreeIs, ZenonT(60)
<1>4. SslCtx \in O2 <=> SslCtx \in P
  BY <1>0, <1>2, ZenonT(60)
<1> HIDE DEF b, O2
<1>5. Is(c, P, O3, {}) /\ SameHeld(b, c)
  <2>1. CASE SslCtx \in P
    BY <1>0, <1>3, <1>4, <2>1, FreeIs, ZenonT(60)
  <2>2. CASE SslCtx \notin P
    <3>1. O3 = O2
      BY <1>4, <2>2, SMTT(60)
    <3>2. QED
      BY <1>0, <1>3, <2>2, <3>1, FreeIs, ZenonT(60)
  <2>3. QED
    BY <2>1, <2>2, ZenonT(60)
<1>6. O3 = O \ {PrivateKey, Certificate, SslCtx}
  BY DEF O1, O2
<1> HIDE DEF c, O3
<1>7. SameHeld(h, c)
  BY <1>1, <1>3, <1>5, ZenonT(60) DEF SameHeld
<1>8. ClassDestroy(h) = c
  BY ZenonT(60) DEF ClassDestroy, a, b, c, PrivateKey, Certificate, SslCtx
<1>9. QED
  BY <1>5, <1>6, <1>7, <1>8, ZenonT(60)

(* An object that nothing holds and the program does not own is freed. *)
LEMMA Unowned ==
  ASSUME NEW h, NEW S, \A o \in S : o \notin Owned(h) /\ Held(h, o) \subseteq S
  PROVE  S \cap Alive(h) = {}
<1>1. \A o \in Objects : h.holders[o] \cap ((Objects \ S) \cup {Code}) # {} => o \in Objects \ S
  BY ZenonT(60) DEF Owned, Held
<1>2. Alive(h) \subseteq Objects \ S
  BY <1>1, AliveBound, ZenonT(60)
<1>3. QED
  BY <1>2, ZenonT(60)

(* Either the context is made, or it is gone, with its references. *)
LEMMA CreateIs ==
  ASSUME NEW h, KeysMade(h), NEW failing \in 1 .. 7
  PROVE  LET h2 == CreateSslCtx(h, failing)
         IN /\ failing > 6 => /\ ClassMade(h2) /\ NothingElse(h2)
                              /\ Owned(h2) = {PrivateKey, Certificate, SslCtx}
            /\ ~(failing > 6) => /\ h2 \in HeapType /\ h2.misused = {}
                                 /\ Alive(ClassDestroy(h2)) = {} /\ SslCtx \notin Alive(h2)
<1>0. /\ {EcKey, PrivateKey, Certificate, SslCtx} \subseteq Objects
      /\ EcKey # PrivateKey /\ EcKey # Certificate /\ EcKey # SslCtx
      /\ PrivateKey # Certificate /\ PrivateKey # SslCtx /\ Certificate # SslCtx
  BY ClassApart, ZenonT(60)
<1> DEFINE Q == {PrivateKey, Certificate, SslCtx}
           a == New(h, SslCtx)
           b == Share(a, Certificate, SslCtx)
           c == Share(b, PrivateKey, SslCtx)
<1>1. Is(a, Q, Q, {}) /\ NothingElse(a) /\ PrivateKey \in Held(a, EcKey)
  <2> DEFINE R == {PrivateKey, Certificate}
  <2>1. Is(h, R, R, {}) /\ PrivateKey \in Held(h, EcKey) /\ NothingElse(h)
    BY ZenonT(60) DEF KeysMade
  <2>2. R \cup {SslCtx} = Q
    OBVIOUS
  <2> HIDE DEF R, Q
  <2>3. Is(a, R \cup {SslCtx}, R \cup {SslCtx}, {}) /\ HeldBut(h, a, SslCtx, {})
    BY <1>0, <2>1, NewIs, ZenonT(60)
  <2> HIDE DEF a
  <2>4. NothingElse(a)
    BY <2>1, <2>3, NothingElseKept, ZenonT(60)
  <2>5. PrivateKey \in Held(a, EcKey)
    BY <1>0, <2>1, <2>3, ZenonT(60) DEF HeldBut
  <2>6. QED
    BY <2>2, <2>3, <2>4, <2>5, ZenonT(60)
<1> HIDE DEF a
<1>2. /\ Is(b, Q, Q, {}) /\ NothingElse(b) /\ PrivateKey \in Held(b, EcKey)
      /\ SslCtx \in Held(b, Certificate)
  <2> HIDE DEF Q
  <2>1. /\ Is(b, Q, Q, {})
        /\ HeldBut(a, b, Certificate, Held(a, Certificate) \cup {SslCtx})
    BY <1>0, <1>1, ShareIs, ZenonT(60)
  <2> HIDE DEF b
  <2>2. NothingElse(b)
    BY <1>1, <2>1, NothingElseKept, ZenonT(60)
  <2>3. PrivateKey \in Held(b, EcKey) /\ SslCtx \in Held(b, Certificate)
    BY <1>0, <1>1, <2>1, ZenonT(60) DEF HeldBut
  <2>4. QED
    BY <2>1, <2>2, <2>3, ZenonT(60)
<1> HIDE DEF b
<1>3. /\ Is(c, Q, Q, {}) /\ NothingElse(c) /\ PrivateKey \in Held(c, EcKey)
      /\ SslCtx \in Held(c, Certificate) /\ SslCtx \in Held(c, PrivateKey)
  <2> HIDE DEF Q
  <2>1. /\ Is(c, Q, Q, {})
        /\ HeldBut(b, c, PrivateKey, Held(b, PrivateKey) \cup {SslCtx})
    BY <1>0, <1>2, ShareIs, ZenonT(60)
  <2> HIDE DEF c
  <2>2. NothingElse(c)
    BY <1>2, <2>1, NothingElseKept, ZenonT(60)
  <2>3. /\ PrivateKey \in Held(c, EcKey) /\ SslCtx \in Held(c, Certificate)
        /\ SslCtx \in Held(c, PrivateKey)
    BY <1>0, <1>2, <2>1, ZenonT(60) DEF HeldBut
  <2>4. QED
    BY <2>1, <2>2, <2>3, ZenonT(60)
<1> HIDE DEF c
<1>4. Use(a, Certificate) = a /\ Use(b, PrivateKey) = b
  <2>1. Code \in a.holders[Certificate] /\ Code \in b.holders[PrivateKey]
    BY <1>1, <1>2, ZenonT(60) DEF Is, Owned
  <2>2. QED
    BY <1>0, <2>1, UseLemma, ZenonT(60)
<1> DEFINE made == LET h1 == IF failing > 1 THEN a ELSE h
                       h2 == IF failing > 2 THEN Share(Use(h1, Certificate), Certificate, SslCtx)
                             ELSE h1
                   IN IF failing > 3 THEN Share(Use(h2, PrivateKey), PrivateKey, SslCtx) ELSE h2
           h2 == CreateSslCtx(h, failing)
<1>5. h2 = IF failing > 6 THEN made ELSE Null(Free(made, SslCtx), SslCtx)
  BY ZenonT(60) DEF CreateSslCtx, CreateCalls, a, PrivateKey, Certificate, SslCtx
<1>6. \/ ~(failing > 1) /\ made = h
      \/ ~(failing > 3) /\ made \in {a, b}
      \/ failing > 3 /\ made = c
  <2>1. /\ failing > 3 => failing > 2
        /\ failing > 2 => failing > 1
    OBVIOUS
  <2>2. QED
    BY <1>4, <2>1, ZenonT(60) DEF b, c
<1> HIDE DEF made, h2
<1>7. CASE failing > 6
  <2>1. failing > 3 /\ failing > 1
    BY <1>7
  <2>2. h2 = c
    BY <1>5, <1>6, <1>7, <2>1, ZenonT(60)
  <2>3. ClassMade(c) /\ Owned(c) = Q
    BY <1>3, ZenonT(60) DEF ClassMade, Is
  <2>4. QED
    BY <1>3, <1>7, <2>2, <2>3, ZenonT(60) DEF h2
<1>8. CASE ~(failing > 6)
  <2> DEFINE R == {PrivateKey, Certificate}
             f == Free(made, SslCtx)
  <2>0. h2 = Null(f, SslCtx)
    BY <1>5, <1>8, ZenonT(60)
  <2>1. Is(h2, R, R, {}) /\ Held(h2, SslCtx) = {}
    <3>1. CASE made = h
      <4>1. Is(h, R, R, {}) /\ NothingElse(h)
        BY ZenonT(60) DEF KeysMade
      <4>2. SslCtx \notin R /\ R \ {SslCtx} = R
        BY <1>0
      <4> HIDE DEF R
      <4>3. Is(f, R, R, {}) /\ SameHeld(h, f)
        BY <1>0, <3>1, <4>1, <4>2, FreeIs, ZenonT(60)
      <4> HIDE DEF f
      <4>4. Is(h2, R \ {SslCtx}, R, {}) /\ SameHeld(f, h2)
        BY <2>0, <4>3, NullIs, ZenonT(60)
      <4>5. QED
        BY <1>0, <4>1, <4>2, <4>3, <4>4, ZenonT(60) DEF SameHeld, NothingElse
    <3>2. CASE made \in {a, b, c}
      <4>1. Is(made, Q, Q, {}) /\ NothingElse(made)
        BY <1>1, <1>2, <1>3, <3>2, ZenonT(60)
      <4>2. SslCtx \in Q /\ Q \ {SslCtx} = R
        BY <1>0
      <4> HIDE DEF R, Q
      <4>3. Is(f, Q, Q \ {SslCtx}, {}) /\ SameHeld(made, f)
        BY <1>0, <4>1, <4>2, FreeIs, ZenonT(60)
      <4> HIDE DEF f
      <4>4. Is(h2, Q \ {SslCtx}, Q \ {SslCtx}, {}) /\ SameHeld(f, h2)
        BY <2>0, <4>3, NullIs, ZenonT(60)
      <4>5. QED
        BY <1>0, <4>1, <4>2, <4>3, <4>4, ZenonT(60) DEF SameHeld, NothingElse
    <3>3. QED
      BY <1>6, <3>1, <3>2, ZenonT(60)
  <2>2. SslCtx \notin Alive(h2)
    <3>1. SslCtx \notin Owned(h2)
      BY <1>0, <2>1, ZenonT(60) DEF Is
    <3>2. {SslCtx} \cap Alive(h2) = {}
      BY <2>1, <3>1, Unowned, ZenonT(60)
    <3>3. QED
      BY <3>2, ZenonT(60)
  <2>3. Alive(ClassDestroy(h2)) = {}
    <3>1. SslCtx \notin R /\ R \subseteq R \cap R /\ R \ {PrivateKey, Certificate, SslCtx} = {}
      BY <1>0, SMTT(60)
    <3>2. Is(ClassDestroy(h2), R, R \ {PrivateKey, Certificate, SslCtx}, {})
      BY <2>1, <3>1, ClassDestroyIs, ZenonT(60)
    <3>3. QED
      BY <3>1, <3>2, NothingAlive, ZenonT(60) DEF Is
  <2>4. QED
    BY <1>8, <2>1, <2>2, <2>3, ZenonT(60) DEF Is, h2
<1>9. QED
  BY <1>7, <1>8, ZenonT(60)

----------------------------------------------------------------------------
(* The constructor of a transport.                                         *)

(* A failed constructor: nothing owns the transport's objects, and only    *)
(* they have been misused.                                                 *)
Dead(h, t) ==
  /\ h \in HeapType /\ h.misused \subseteq TransportObjects(t)
  /\ \A o \in TransportObjects(t) : o \notin Owned(h) /\ Held(h, o) \subseteq TransportObjects(t)

(* Freeing them once more changes nothing of that. *)
LEMMA FreeDead ==
  ASSUME NEW h, NEW t \in Transports, Dead(h, t), NEW o \in TransportObjects(t)
  PROVE  Dead(Free(h, o), t)
<1>0. TransportObjects(t) \subseteq Objects
  BY TransportApart, ZenonT(60)
<1>1. Is(h, h.pointers, Owned(h), h.misused)
  BY IsSelf, ZenonT(60) DEF Dead
<1>2. o \in Objects /\ o \notin Owned(h)
  BY <1>0, ZenonT(60) DEF Dead
<1>3. /\ SameHeld(h, Free(h, o))
      /\ \/ Is(Free(h, o), h.pointers, Owned(h), h.misused)
         \/ Is(Free(h, o), h.pointers, Owned(h), h.misused \cup {o})
  BY <1>1, <1>2, FreeIs, ZenonT(60)
<1> DEFINE h2 == Free(h, o)
<1> HIDE DEF h2
<1>4. h2 \in HeapType /\ Owned(h2) = Owned(h) /\ h2.misused \subseteq h.misused \cup {o}
  BY <1>3, ZenonT(60) DEF Is, h2
<1>5. \A x \in TransportObjects(t) : Held(h2, x) = Held(h, x)
  BY <1>0, <1>3, ZenonT(60) DEF SameHeld, h2
<1>6. Dead(h2, t)
  BY <1>4, <1>5, ZenonT(60) DEF Dead
<1>7. QED
  BY <1>6, ZenonT(60) DEF h2

(* What the constructor finds. *)
BeforeNew(h, t, P, O) ==
  /\ Is(h, P, O, {}) /\ SslCtx \in O
  /\ TransportObjects(t) \cap O = {}
  /\ \A o \in TransportObjects(t) : Held(h, o) \subseteq TransportObjects(t)

(* What a constructor that does not fail makes of it. *)
AfterNew(h, h2, t, P, O) ==
  /\ Is(h2, P \cup TransportObjects(t), O \cup {Ssl(t)}, {})
  /\ Held(h2, Ssl(t)) = {} /\ Held(h2, BioFrom(t)) = {Ssl(t)} /\ Held(h2, BioTo(t)) = {Ssl(t)}
  /\ Held(h2, SslCtx) = Held(h, SslCtx) \cup {Ssl(t)}
  /\ \A x \in Objects \ (TransportObjects(t) \cup {SslCtx}) : Held(h2, x) = Held(h, x)

(* The allocations, in the order of the code. *)
Allocated1(h, t) == Share(New(h, Ssl(t)), SslCtx, Ssl(t))
Allocated2(h, t) == New(Allocated1(h, t), BioFrom(t))
Allocated3(h, t) == New(Allocated2(h, t), BioTo(t))

(* The SSL, with its reference to the context. *)
LEMMA Allocated1Is ==
  ASSUME NEW h, NEW t \in Transports, NEW P, NEW O, BeforeNew(h, t, P, O)
  PROVE  LET h2 == Allocated1(h, t)
         IN /\ Is(h2, P \cup {Ssl(t)}, O \cup {Ssl(t)}, {})
            /\ Held(h2, Ssl(t)) = {} /\ Held(h2, SslCtx) = Held(h, SslCtx) \cup {Ssl(t)}
            /\ \A x \in Objects \ {Ssl(t), SslCtx} : Held(h2, x) = Held(h, x)
<1>0. Ssl(t) \in Objects /\ SslCtx \in Objects /\ Ssl(t) # SslCtx
  BY ClassApart, TransportApart, ZenonT(60)
<1> DEFINE a == New(h, Ssl(t))
           b == Share(a, SslCtx, Ssl(t))
           P1 == P \cup {Ssl(t)}
           O1 == O \cup {Ssl(t)}
<1>1. Is(a, P1, O1, {}) /\ HeldBut(h, a, Ssl(t), {})
  BY <1>0, NewIs, ZenonT(60) DEF BeforeNew
<1> HIDE DEF a, P1, O1
<1>2. Is(b, P1, O1, {}) /\ HeldBut(a, b, SslCtx, Held(a, SslCtx) \cup {Ssl(t)})
  BY <1>0, <1>1, ShareIs, ZenonT(60)
<1>3. Allocated1(h, t) = b
  BY ZenonT(60) DEF Allocated1, a, b
<1> HIDE DEF b
<1>4. Held(b, Ssl(t)) = {} /\ Held(b, SslCtx) = Held(h, SslCtx) \cup {Ssl(t)}
  BY <1>0, <1>1, <1>2, ZenonT(60) DEF HeldBut
<1>5. \A x \in Objects \ {Ssl(t), SslCtx} : Held(b, x) = Held(h, x)
  BY <1>0, <1>1, <1>2, ZenonT(60) DEF HeldBut
<1>6. QED
  BY <1>2, <1>3, <1>4, <1>5, ZenonT(60) DEF P1, O1

(* Then the first BIO. *)
LEMMA Allocated2Is ==
  ASSUME NEW h, NEW t \in Transports, NEW P, NEW O, BeforeNew(h, t, P, O)
  PROVE  LET h2 == Allocated2(h, t)
         IN /\ Is(h2, P \cup {Ssl(t), BioFrom(t)}, O \cup {Ssl(t), BioFrom(t)}, {})
            /\ Held(h2, Ssl(t)) = {} /\ Held(h2, BioFrom(t)) = {}
            /\ Held(h2, SslCtx) = Held(h, SslCtx) \cup {Ssl(t)}
            /\ \A x \in Objects \ {Ssl(t), BioFrom(t), SslCtx} : Held(h2, x) = Held(h, x)
<1>0. /\ Ssl(t) \in Objects /\ SslCtx \in Objects /\ BioFrom(t) \in Objects
      /\ BioFrom(t) # SslCtx /\ BioFrom(t) # Ssl(t)
  BY ClassApart, TransportApart, ZenonT(60)
<1> DEFINE a == Allocated1(h, t)
           b == New(a, BioFrom(t))
           P1 == P \cup {Ssl(t)}
           O1 == O \cup {Ssl(t)}
<1>1. /\ Is(a, P1, O1, {})
      /\ Held(a, Ssl(t)) = {} /\ Held(a, SslCtx) = Held(h, SslCtx) \cup {Ssl(t)}
      /\ \A x \in Objects \ {Ssl(t), SslCtx} : Held(a, x) = Held(h, x)
  BY Allocated1Is, ZenonT(60)
<1>2. /\ P1 \cup {BioFrom(t)} = P \cup {Ssl(t), BioFrom(t)}
      /\ O1 \cup {BioFrom(t)} = O \cup {Ssl(t), BioFrom(t)}
  OBVIOUS
<1> HIDE DEF a, P1, O1
<1>3. Is(b, P1 \cup {BioFrom(t)}, O1 \cup {BioFrom(t)}, {}) /\ HeldBut(a, b, BioFrom(t), {})
  BY <1>0, <1>1, NewIs, ZenonT(60)
<1>4. Allocated2(h, t) = b
  BY ZenonT(60) DEF Allocated2, a, b
<1> HIDE DEF b
<1>5. /\ Held(b, Ssl(t)) = {} /\ Held(b, BioFrom(t)) = {}
      /\ Held(b, SslCtx) = Held(h, SslCtx) \cup {Ssl(t)}
      /\ \A x \in Objects \ {Ssl(t), BioFrom(t), SslCtx} : Held(b, x) = Held(h, x)
  BY <1>0, <1>1, <1>3, ZenonT(60) DEF HeldBut
<1>6. QED
  BY <1>2, <1>3, <1>4, <1>5, ZenonT(60)

(* Then the other one. *)
LEMMA Allocated3Is ==
  ASSUME NEW h, NEW t \in Transports, NEW P, NEW O, BeforeNew(h, t, P, O)
  PROVE  LET h2 == Allocated3(h, t)
         IN /\ Is(h2, P \cup TransportObjects(t), O \cup TransportObjects(t), {})
            /\ Held(h2, Ssl(t)) = {} /\ Held(h2, BioFrom(t)) = {} /\ Held(h2, BioTo(t)) = {}
            /\ Held(h2, SslCtx) = Held(h, SslCtx) \cup {Ssl(t)}
            /\ \A x \in Objects \ (TransportObjects(t) \cup {SslCtx}) : Held(h2, x) = Held(h, x)
<1>0. /\ Ssl(t) \in Objects /\ SslCtx \in Objects /\ BioFrom(t) \in Objects
      /\ BioTo(t) \in Objects /\ BioTo(t) # SslCtx /\ BioTo(t) # Ssl(t) /\ BioTo(t) # BioFrom(t)
      /\ TransportObjects(t) = {Ssl(t), BioFrom(t), BioTo(t)}
  BY ClassApart, TransportApart, ZenonT(60)
<1> DEFINE a == Allocated2(h, t)
           b == New(a, BioTo(t))
           P2 == P \cup {Ssl(t), BioFrom(t)}
           O2 == O \cup {Ssl(t), BioFrom(t)}
<1>1. /\ Is(a, P2, O2, {})
      /\ Held(a, Ssl(t)) = {} /\ Held(a, BioFrom(t)) = {}
      /\ Held(a, SslCtx) = Held(h, SslCtx) \cup {Ssl(t)}
      /\ \A x \in Objects \ {Ssl(t), BioFrom(t), SslCtx} : Held(a, x) = Held(h, x)
  BY Allocated2Is, ZenonT(60)
<1>2. /\ P2 \cup {BioTo(t)} = P \cup TransportObjects(t)
      /\ O2 \cup {BioTo(t)} = O \cup TransportObjects(t)
  BY <1>0, SMTT(60)
<1> HIDE DEF a, P2, O2
<1>3. Is(b, P2 \cup {BioTo(t)}, O2 \cup {BioTo(t)}, {}) /\ HeldBut(a, b, BioTo(t), {})
  BY <1>0, <1>1, NewIs, ZenonT(60)
<1>4. Allocated3(h, t) = b
  BY ZenonT(60) DEF Allocated3, a, b
<1> HIDE DEF b
<1>5. /\ Held(b, Ssl(t)) = {} /\ Held(b, BioFrom(t)) = {} /\ Held(b, BioTo(t)) = {}
      /\ Held(b, SslCtx) = Held(h, SslCtx) \cup {Ssl(t)}
      /\ \A x \in Objects \ (TransportObjects(t) \cup {SslCtx}) : Held(b, x) = Held(h, x)
  BY <1>0, <1>1, <1>3, ZenonT(60) DEF HeldBut
<1>6. QED
  BY <1>2, <1>3, <1>4, <1>5, ZenonT(60)

(* SSL_set_bio: the constructor's last call. *)
LEMMA SetBioIs ==
  ASSUME NEW h, NEW t \in Transports, NEW P, NEW O, BeforeNew(h, t, P, O)
  PROVE  AfterNew(h, SetBio(Allocated3(h, t), t), t, P, O)
<1>0. /\ Ssl(t) \in Objects /\ BioFrom(t) \in Objects /\ BioTo(t) \in Objects
      /\ SslCtx \in Objects /\ TransportObjects(t) = {Ssl(t), BioFrom(t), BioTo(t)}
      /\ SslCtx \notin TransportObjects(t)
      /\ BioTo(t) # Ssl(t) /\ BioTo(t) # BioFrom(t) /\ BioFrom(t) # Ssl(t)
  BY ClassApart, TransportApart, ZenonT(60)
<1> DEFINE a == Allocated3(h, t)
           b == Give(a, BioFrom(t), Ssl(t))
           c == Give(b, BioTo(t), Ssl(t))
           P3 == P \cup TransportObjects(t)
           O3 == O \cup TransportObjects(t)
<1>1. /\ Is(a, P3, O3, {})
      /\ Held(a, Ssl(t)) = {} /\ Held(a, BioFrom(t)) = {} /\ Held(a, BioTo(t)) = {}
      /\ Held(a, SslCtx) = Held(h, SslCtx) \cup {Ssl(t)}
      /\ \A x \in Objects \ (TransportObjects(t) \cup {SslCtx}) : Held(a, x) = Held(h, x)
  BY Allocated3Is, ZenonT(60)
<1>2. (O3 \ {BioFrom(t)}) \ {BioTo(t)} = O \cup {Ssl(t)}
  BY <1>0, SMTT(60) DEF BeforeNew
<1> HIDE DEF a, O3
<1>3. Is(b, P3, O3 \ {BioFrom(t)}, {})
      /\ HeldBut(a, b, BioFrom(t), Held(a, BioFrom(t)) \cup {Ssl(t)})
  BY <1>0, <1>1, GiveIs, ZenonT(60)
<1> HIDE DEF b
<1>4. Is(c, P3, (O3 \ {BioFrom(t)}) \ {BioTo(t)}, {})
      /\ HeldBut(b, c, BioTo(t), Held(b, BioTo(t)) \cup {Ssl(t)})
  BY <1>0, <1>3, GiveIs, ZenonT(60)
<1>5. SetBio(Allocated3(h, t), t) = c
  BY ZenonT(60) DEF SetBio, a, b, c, Ssl, BioFrom, BioTo
<1> HIDE DEF c
<1>6. Held(b, Ssl(t)) = {} /\ Held(b, BioFrom(t)) = {Ssl(t)} /\ Held(b, BioTo(t)) = {}
      /\ Held(b, SslCtx) = Held(a, SslCtx)
      /\ \A x \in Objects \ (TransportObjects(t) \cup {SslCtx}) : Held(b, x) = Held(a, x)
  BY <1>0, <1>1, <1>3, ZenonT(60) DEF HeldBut
<1>7. Held(c, Ssl(t)) = {} /\ Held(c, BioFrom(t)) = {Ssl(t)} /\ Held(c, BioTo(t)) = {Ssl(t)}
      /\ Held(c, SslCtx) = Held(b, SslCtx)
      /\ \A x \in Objects \ (TransportObjects(t) \cup {SslCtx}) : Held(c, x) = Held(b, x)
  BY <1>0, <1>4, <1>6, ZenonT(60) DEF HeldBut
<1>8. AfterNew(h, c, t, P, O)
  BY <1>1, <1>2, <1>4, <1>6, <1>7, ZenonT(60) DEF AfterNew
<1>9. QED
  BY <1>5, <1>8, ZenonT(60)

(* What each failing call frees by itself leaves nothing owned. *)
LEMMA UndoIs ==
  ASSUME NEW h, NEW t \in Transports, NEW P, NEW O, BeforeNew(h, t, P, O)
  PROVE  /\ Dead(h, t)
         /\ Dead(Free(Allocated1(h, t), Ssl(t)), t)
         /\ Dead(Free(Free(Allocated2(h, t), BioFrom(t)), Ssl(t)), t)
<1>0. /\ Ssl(t) \in Objects /\ BioFrom(t) \in Objects /\ BioTo(t) \in Objects
      /\ TransportObjects(t) = {Ssl(t), BioFrom(t), BioTo(t)}
      /\ SslCtx \notin TransportObjects(t)
      /\ BioTo(t) # Ssl(t) /\ BioTo(t) # BioFrom(t) /\ BioFrom(t) # Ssl(t)
  BY TransportApart, ClassApart, ZenonT(60)
<1>1. Dead(h, t)
  BY ZenonT(60) DEF BeforeNew, Is, Dead
<1>2. Dead(Free(Allocated1(h, t), Ssl(t)), t)
  <2> DEFINE a == Allocated1(h, t)
             b == Free(a, Ssl(t))
             P1 == P \cup {Ssl(t)}
             O1 == O \cup {Ssl(t)}
  <2>1. /\ Is(a, P1, O1, {}) /\ Held(a, Ssl(t)) = {}
        /\ \A x \in Objects \ {Ssl(t), SslCtx} : Held(a, x) = Held(h, x)
    BY Allocated1Is, ZenonT(60)
  <2>2. Ssl(t) \in P1 /\ Ssl(t) \in O1
    OBVIOUS
  <2>3. TransportObjects(t) \cap (O1 \ {Ssl(t)}) = {}
    BY ZenonT(60) DEF BeforeNew
  <2> HIDE DEF a, P1, O1
  <2>4. Is(b, P1, O1 \ {Ssl(t)}, {}) /\ SameHeld(a, b)
    BY <1>0, <2>1, <2>2, FreeIs, ZenonT(60)
  <2> HIDE DEF b
  <2>5. ASSUME NEW x \in TransportObjects(t) PROVE Held(b, x) \subseteq TransportObjects(t)
    <3>1. Held(b, x) = Held(a, x)
      BY <1>0, <2>4, ZenonT(60) DEF SameHeld
    <3>2. x = Ssl(t) \/ Held(a, x) = Held(h, x)
      BY <1>0, <2>1, ZenonT(60)
    <3>3. QED
      BY <2>1, <3>1, <3>2, ZenonT(60) DEF BeforeNew
  <2>6. Dead(b, t)
    BY <2>3, <2>4, <2>5, ZenonT(60) DEF Dead, Is
  <2>7. QED
    BY <2>6, ZenonT(60) DEF a, b
<1>3. Dead(Free(Free(Allocated2(h, t), BioFrom(t)), Ssl(t)), t)
  <2> DEFINE a == Allocated2(h, t)
             b == Free(a, BioFrom(t))
             c == Free(b, Ssl(t))
             P2 == P \cup {Ssl(t), BioFrom(t)}
             O2 == O \cup {Ssl(t), BioFrom(t)}
             O3 == O2 \ {BioFrom(t)}
  <2>1. /\ Is(a, P2, O2, {}) /\ Held(a, Ssl(t)) = {} /\ Held(a, BioFrom(t)) = {}
        /\ \A x \in Objects \ {Ssl(t), BioFrom(t), SslCtx} : Held(a, x) = Held(h, x)
    BY Allocated2Is, ZenonT(60)
  <2>2. /\ Ssl(t) \in P2 /\ Ssl(t) \in O3 /\ BioFrom(t) \in P2 /\ BioFrom(t) \in O2
        /\ TransportObjects(t) \cap (O3 \ {Ssl(t)}) = {}
    BY <1>0, ZenonT(60) DEF BeforeNew
  <2> HIDE DEF a, P2, O2
  <2>3. Is(b, P2, O3, {}) /\ SameHeld(a, b)
    BY <1>0, <2>1, <2>2, FreeIs, ZenonT(60)
  <2> HIDE DEF b, O3
  <2>4. Is(c, P2, O3 \ {Ssl(t)}, {}) /\ SameHeld(b, c)
    BY <1>0, <2>2, <2>3, FreeIs, ZenonT(60)
  <2> HIDE DEF c
  <2>5. ASSUME NEW x \in TransportObjects(t) PROVE Held(c, x) \subseteq TransportObjects(t)
    <3>1. Held(c, x) = Held(a, x)
      BY <1>0, <2>3, <2>4, ZenonT(60) DEF SameHeld
    <3>2. x \in {Ssl(t), BioFrom(t)} \/ Held(a, x) = Held(h, x)
      BY <1>0, <2>1, ZenonT(60)
    <3>3. QED
      BY <2>1, <3>1, <3>2, ZenonT(60) DEF BeforeNew
  <2>6. Dead(c, t)
    BY <2>2, <2>4, <2>5, ZenonT(60) DEF Dead, Is
  <2>7. QED
    BY <2>6, ZenonT(60) DEF a, b, c
<1>4. QED
  BY <1>1, <1>2, <1>3, ZenonT(60)

(* The constructor: a transport, or nothing of it alive. *)
LEMMA ConstructorIs ==
  ASSUME NEW h, NEW t \in Transports, NEW P, NEW O, BeforeNew(h, t, P, O),
         NEW failing \in 1 .. 4
  PROVE  LET h2 == NewDtlsTransport(h, t, failing)
         IN /\ failing > 3 => AfterNew(h, h2, t, P, O)
            /\ ~(failing > 3) => Dead(h2, t)
<1>0. TransportObjects(t) = {Ssl(t), BioFrom(t), BioTo(t)}
  BY TransportApart, ZenonT(60)
<1>1. Use(h, SslCtx) = h
  <2>1. SslCtx \in Objects /\ Code \in h.holders[SslCtx]
    BY ClassApart, ZenonT(60) DEF BeforeNew, Is, Owned
  <2>2. QED
    BY <2>1, UseLemma, ZenonT(60)
<1> DEFINE made == LET h1 == IF failing > 1 THEN Allocated1(h, t) ELSE h
                       h2 == IF failing > 2 THEN New(h1, BioFrom(t)) ELSE h1
                   IN IF failing > 3 THEN New(h2, BioTo(t)) ELSE h2
           h2 == NewDtlsTransport(h, t, failing)
<1>2. h2 = IF failing > 3 THEN SetBio(made, t)
           ELSE ConstructorError(ConstructorUndo(made, t, failing), t)
  <2>1. Allocated1(h, t) = Share(New(Use(h, Class("sslCtx")), <<"ssl", t>>),
                                 Class("sslCtx"), <<"ssl", t>>)
    BY <1>1, ZenonT(60) DEF Allocated1, SslCtx, Ssl
  <2>2. QED
    BY <2>1, ZenonT(60) DEF NewDtlsTransport, ConstructorCalls, BioFrom, BioTo
<1>3. /\ failing > 3 => made = Allocated3(h, t)
      /\ failing = 3 => made = Allocated2(h, t)
      /\ failing = 2 => made = Allocated1(h, t)
      /\ failing = 1 => made = h
  <2>1. /\ failing > 3 => failing > 2 /\ failing > 1
        /\ failing = 3 => failing > 2 /\ failing > 1 /\ ~(failing > 3)
        /\ failing = 2 => ~(failing > 2) /\ failing > 1 /\ ~(failing > 3)
        /\ failing = 1 => ~(failing > 2) /\ ~(failing > 1) /\ ~(failing > 3)
    OBVIOUS
  <2>2. QED
    BY <2>1, ZenonT(60) DEF Allocated2, Allocated3
<1> HIDE DEF made, h2
<1>4. CASE failing > 3
  BY <1>2, <1>3, <1>4, SetBioIs, ZenonT(60) DEF h2
<1>5. CASE ~(failing > 3)
  <2> DEFINE u == ConstructorUndo(made, t, failing)
  <2>1. failing = 1 \/ failing = 2 \/ failing = 3
    BY <1>5, SMTT(60)
  <2>2. Dead(u, t)
    <3>1. /\ failing = 1 => u = made
          /\ failing = 2 => u = Free(made, Ssl(t))
          /\ failing = 3 => u = Free(Free(made, BioFrom(t)), Ssl(t))
      BY SMTT(60) DEF ConstructorUndo, Ssl, BioFrom
    <3>2. QED
      BY <1>3, <2>1, <3>1, UndoIs, ZenonT(60)
  <2> HIDE DEF u
  <2>3. Dead(Free(u, BioFrom(t)), t)
    BY <1>0, <2>2, FreeDead, ZenonT(60)
  <2>4. Dead(Free(Free(u, BioFrom(t)), BioTo(t)), t)
    BY <1>0, <2>3, FreeDead, ZenonT(60)
  <2>5. Dead(Free(Free(Free(u, BioFrom(t)), BioTo(t)), Ssl(t)), t)
    BY <1>0, <2>4, FreeDead, ZenonT(60)
  <2>6. h2 = Free(Free(Free(u, BioFrom(t)), BioTo(t)), Ssl(t))
    BY <1>2, <1>5, ZenonT(60) DEF ConstructorError, u, Ssl, BioFrom, BioTo
  <2>7. QED
    BY <1>5, <2>5, <2>6, ZenonT(60) DEF h2
<1>6. QED
  BY <1>4, <1>5, ZenonT(60)

----------------------------------------------------------------------------
(* The heap while the program serves.                                      *)

(* The program owns the SSL of a transport that is kept, and of no other;  *)
(* only the SSL holds its BIOs, and it holds the context.                  *)
TransportMade(h, t, K) ==
  /\ Ssl(t) \in Owned(h) <=> t \in K
  /\ BioFrom(t) \notin Owned(h) /\ BioTo(t) \notin Owned(h)
  /\ Held(h, Ssl(t)) = {} /\ Held(h, BioFrom(t)) \subseteq {Ssl(t)}
  /\ Held(h, BioTo(t)) \subseteq {Ssl(t)}
  /\ t \in K => /\ Ssl(t) \in h.pointers /\ Ssl(t) \in Held(h, SslCtx)
                /\ Ssl(t) \in Held(h, BioFrom(t)) /\ Ssl(t) \in Held(h, BioTo(t))

(* The class and the transports, of which the ones in K are kept. *)
HeapMade(h, K) == ClassMade(h) /\ \A t \in Transports : TransportMade(h, t, K)

(* h2 has what h has of a transport. *)
Unmoved(h, h2, t) ==
  /\ \A o \in TransportObjects(t) :
       (o \in Owned(h2) <=> o \in Owned(h)) /\ Held(h2, o) = Held(h, o)
  /\ Ssl(t) \in h.pointers => Ssl(t) \in h2.pointers
  /\ Held(h, SslCtx) \subseteq Held(h2, SslCtx)

(* Then the transport stands as it did. *)
LEMMA TransportKept ==
  ASSUME NEW h, NEW h2, NEW t \in Transports, NEW K, NEW L, TransportMade(h, t, K),
         Unmoved(h, h2, t), t \in K <=> t \in L
  PROVE  TransportMade(h2, t, L)
<1>1. TransportObjects(t) = {Ssl(t), BioFrom(t), BioTo(t)}
  BY TransportApart, ZenonT(60)
<1>2. /\ Ssl(t) \in Owned(h2) <=> Ssl(t) \in Owned(h)
      /\ BioFrom(t) \in Owned(h2) <=> BioFrom(t) \in Owned(h)
      /\ BioTo(t) \in Owned(h2) <=> BioTo(t) \in Owned(h)
      /\ Held(h2, Ssl(t)) = Held(h, Ssl(t)) /\ Held(h2, BioFrom(t)) = Held(h, BioFrom(t))
      /\ Held(h2, BioTo(t)) = Held(h, BioTo(t))
  BY <1>1, ZenonT(60) DEF Unmoved
<1>3. QED
  BY <1>2, ZenonT(60) DEF TransportMade, Unmoved

(* The context has just been made. *)
LEMMA ContextMade ==
  ASSUME NEW h, NEW K, ClassMade(h), NothingElse(h), K \cap Transports = {},
         Owned(h) = {PrivateKey, Certificate, SslCtx}
  PROVE  HeapMade(h, K)
<1> SUFFICES ASSUME NEW t \in Transports PROVE TransportMade(h, t, K)
  BY ZenonT(60) DEF HeapMade
<1>1. /\ TransportObjects(t) = {Ssl(t), BioFrom(t), BioTo(t)}
      /\ TransportObjects(t) \cap {PrivateKey, Certificate, SslCtx} = {}
  BY TransportApart, ZenonT(60)
<1>2. /\ Held(h, Ssl(t)) = {} /\ Held(h, BioFrom(t)) = {} /\ Held(h, BioTo(t)) = {}
  BY <1>1, ZenonT(60) DEF NothingElse
<1>3. t \notin K
  BY ZenonT(60)
<1>4. Ssl(t) \notin Owned(h) /\ BioFrom(t) \notin Owned(h) /\ BioTo(t) \notin Owned(h)
  BY <1>1, ZenonT(60)
<1>5. QED
  BY <1>2, <1>3, <1>4, ZenonT(60) DEF TransportMade

(* What is not the class's may change and leave the class complete. *)
LEMMA ClassKept ==
  ASSUME NEW h, NEW h2, NEW P, NEW O, ClassMade(h), Is(h2, P, O, {}),
         {PrivateKey, Certificate, SslCtx} \subseteq P \cap O,
         \A x \in {EcKey, PrivateKey, Certificate} : Held(h2, x) = Held(h, x)
  PROVE  ClassMade(h2)
  BY ZenonT(60) DEF ClassMade, Is

(* The objects of another transport. *)
LEMMA OtherTransport ==
  ASSUME NEW t \in Transports, NEW u \in Transports, u # t
  PROVE  /\ TransportObjects(u) \subseteq Objects \ (TransportObjects(t) \cup {SslCtx})
         /\ Ssl(u) \in TransportObjects(u)
<1>1. /\ TransportObjects(u) = {Ssl(u), BioFrom(u), BioTo(u)}
      /\ TransportObjects(u) \subseteq Objects
  BY TransportApart, ZenonT(60)
<1>2. SslCtx \notin {Ssl(u), BioFrom(u), BioTo(u)}
  BY TransportApart, ZenonT(60)
<1>3. TransportObjects(t) = {Ssl(t), BioFrom(t), BioTo(t)}
  BY TransportApart, ZenonT(60)
<1>4. TransportObjects(t) \cap TransportObjects(u) = {}
  BY <1>1, <1>3, TransportsApart, ZenonT(60)
<1>5. QED
  BY <1>1, <1>2, <1>4, ZenonT(60)

(* A constructor: one more transport that is kept, or the process ends. *)
LEMMA NewMade ==
  ASSUME NEW h, NEW K, HeapMade(h, K), NEW t \in Transports, t \notin K, NEW failing \in 1 .. 4
  PROVE  LET h2 == NewDtlsTransport(h, t, failing)
         IN /\ failing > 3 => HeapMade(h2, K \cup {t})
            /\ ~(failing > 3) => Dead(h2, t)
<1>0. /\ TransportObjects(t) = {Ssl(t), BioFrom(t), BioTo(t)}
      /\ TransportObjects(t) \subseteq Objects
      /\ TransportObjects(t) \cap {EcKey, PrivateKey, Certificate, SslCtx} = {}
      /\ {EcKey, PrivateKey, Certificate, SslCtx} \subseteq Objects
      /\ SslCtx \notin {EcKey, PrivateKey, Certificate}
      /\ BioFrom(t) # Ssl(t) /\ BioTo(t) # Ssl(t)
  BY TransportApart, ClassApart, ZenonT(60)
<1> DEFINE P == h.pointers
           O == Owned(h)
           h2 == NewDtlsTransport(h, t, failing)
<1>1. ClassMade(h) /\ TransportMade(h, t, K)
  BY ZenonT(60) DEF HeapMade
<1>2. BeforeNew(h, t, P, O)
  <2>1. Is(h, P, O, {}) /\ SslCtx \in O
    BY <1>1, ZenonT(60) DEF Is, ClassMade
  <2>2. TransportObjects(t) \cap O = {}
    BY <1>0, <1>1, ZenonT(60) DEF TransportMade
  <2>3. \A o \in TransportObjects(t) : Held(h, o) \subseteq TransportObjects(t)
    BY <1>0, <1>1, ZenonT(60) DEF TransportMade
  <2>4. QED
    BY <2>1, <2>2, <2>3, ZenonT(60) DEF BeforeNew
<1> HIDE DEF P, O
<1>3. /\ failing > 3 => AfterNew(h, h2, t, P, O)
      /\ ~(failing > 3) => Dead(h2, t)
  BY <1>2, ConstructorIs, ZenonT(60)
<1> HIDE DEF h2
<1>4. ASSUME failing > 3 PROVE HeapMade(h2, K \cup {t})
  <2> DEFINE P2 == P \cup TransportObjects(t)
             O2 == O \cup {Ssl(t)}
  <2>1. /\ Is(h2, P2, O2, {})
        /\ Held(h2, Ssl(t)) = {} /\ Held(h2, BioFrom(t)) = {Ssl(t)}
        /\ Held(h2, BioTo(t)) = {Ssl(t)}
        /\ Held(h2, SslCtx) = Held(h, SslCtx) \cup {Ssl(t)}
        /\ \A x \in Objects \ (TransportObjects(t) \cup {SslCtx}) : Held(h2, x) = Held(h, x)
    BY <1>3, <1>4, ZenonT(60) DEF AfterNew
  <2>2. {PrivateKey, Certificate, SslCtx} \subseteq P2 \cap O2
    BY <1>1, ZenonT(60) DEF ClassMade, P, O
  <2>3. \A x \in {EcKey, PrivateKey, Certificate} : Held(h2, x) = Held(h, x)
    BY <1>0, <2>1, ZenonT(60)
  <2>4. Ssl(t) \in P2 /\ Ssl(t) \in O2 /\ BioFrom(t) \notin O2 /\ BioTo(t) \notin O2
    BY <1>0, <1>2, ZenonT(60) DEF BeforeNew
  <2>5. /\ \A o \in TransportObjects(t) : o \notin O
        /\ P \subseteq P2 /\ \A o : o \in O2 <=> (o \in O \/ o = Ssl(t))
    BY <1>2, ZenonT(60) DEF BeforeNew
  <2> HIDE DEF P2, O2
  <2>6. ClassMade(h2)
    BY <1>1, <2>1, <2>2, <2>3, ClassKept, ZenonT(60)
  <2>7. TransportMade(h2, t, K \cup {t})
    BY <2>1, <2>4, ZenonT(60) DEF TransportMade, Is
  <2>8. ASSUME NEW u \in Transports, u # t PROVE TransportMade(h2, u, K \cup {t})
    <3>1. TransportObjects(u) \subseteq Objects \ (TransportObjects(t) \cup {SslCtx})
          /\ Ssl(u) \in TransportObjects(u)
      BY <2>8, OtherTransport, ZenonT(60)
    <3>2. Ssl(t) \notin TransportObjects(u)
      BY <1>0, <3>1, ZenonT(60)
    <3>3. Unmoved(h, h2, u)
      BY <2>1, <2>5, <3>1, <3>2, ZenonT(60) DEF Unmoved, Is, P, O
    <3>4. u \in K <=> u \in K \cup {t}
      BY <2>8, ZenonT(60)
    <3>5. TransportMade(h, u, K)
      BY ZenonT(60) DEF HeapMade
    <3>6. QED
      BY <3>3, <3>4, <3>5, TransportKept, ZenonT(60)
  <2>9. QED
    BY <2>6, <2>7, <2>8, ZenonT(60) DEF HeapMade
<1>5. QED
  BY <1>3, <1>4, ZenonT(60) DEF h2

(* It matters only which transports are kept. *)
LEMMA SameKept ==
  ASSUME NEW h, NEW K, NEW L, HeapMade(h, K), \A t \in Transports : t \in L <=> t \in K
  PROVE  HeapMade(h, L)
  BY ZenonT(60) DEF HeapMade, TransportMade

(* The destructor of a transport that is kept: one less. *)
LEMMA DeleteMade ==
  ASSUME NEW h, NEW K, HeapMade(h, K), NEW t \in Transports, t \in K
  PROVE  HeapMade(DeleteDtlsTransport(h, t), K \ {t})
<1>0. /\ TransportObjects(t) = {Ssl(t), BioFrom(t), BioTo(t)}
      /\ TransportObjects(t) \subseteq Objects
      /\ TransportObjects(t) \cap {EcKey, PrivateKey, Certificate, SslCtx} = {}
      /\ {EcKey, PrivateKey, Certificate, SslCtx} \subseteq Objects
      /\ Ssl(t) \in Objects
  BY TransportApart, ClassApart, ZenonT(60)
<1> DEFINE P == h.pointers
           O == Owned(h)
           O2 == O \ {Ssl(t)}
           P1 == P \ {Ssl(t)}
           P2 == P1 \ {BioFrom(t)}
           P3 == P2 \ {BioTo(t)}
           a == Free(h, Ssl(t))
           b == Null(a, Ssl(t))
           c == Null(b, BioFrom(t))
           d == Null(c, BioTo(t))
<1>1. ClassMade(h) /\ TransportMade(h, t, K)
  BY ZenonT(60) DEF HeapMade
<1>2. Is(h, P, O, {}) /\ Ssl(t) \in P /\ Ssl(t) \in O
  BY <1>1, ZenonT(60) DEF ClassMade, TransportMade, Is
<1> HIDE DEF P, O
<1>3. Is(a, P, O2, {}) /\ SameHeld(h, a)
  BY <1>0, <1>2, FreeIs, ZenonT(60)
<1> HIDE DEF a, O2
<1>4. Is(b, P1, O2, {}) /\ SameHeld(a, b)
  BY <1>3, NullIs, ZenonT(60)
<1> HIDE DEF b, P1
<1>5. Is(c, P2, O2, {}) /\ SameHeld(b, c)
  BY <1>4, NullIs, ZenonT(60)
<1> HIDE DEF c, P2
<1>6. Is(d, P3, O2, {}) /\ SameHeld(c, d)
  BY <1>5, NullIs, ZenonT(60)
<1>7. \A x \in Objects : Held(d, x) = Held(h, x)
  BY <1>3, <1>4, <1>5, <1>6, ZenonT(60) DEF SameHeld
<1>8. DeleteDtlsTransport(h, t) = d
  BY ZenonT(60) DEF DeleteDtlsTransport, a, b, c, d, Ssl, BioFrom, BioTo
<1> HIDE DEF d, P3
<1>9. \A x : /\ x \in O2 <=> (x \in O /\ x # Ssl(t))
             /\ x \in P3 <=> (x \in P /\ x \notin TransportObjects(t))
  BY <1>0, ZenonT(60) DEF O2, P1, P2, P3
<1>10. ClassMade(d)
  <2>1. /\ {PrivateKey, Certificate, SslCtx} \subseteq P
        /\ {PrivateKey, Certificate, SslCtx} \subseteq O
    BY <1>1, ZenonT(60) DEF ClassMade, P, O
  <2>2. {PrivateKey, Certificate, SslCtx} \subseteq P3 \cap O2
    BY <1>0, <1>9, <2>1, ZenonT(60)
  <2>3. \A x \in {EcKey, PrivateKey, Certificate} : Held(d, x) = Held(h, x)
    BY <1>0, <1>7, ZenonT(60)
  <2>4. QED
    BY <1>1, <1>6, <2>2, <2>3, ClassKept, ZenonT(60)
<1>11. TransportMade(d, t, K \ {t})
  <2>1. /\ Held(d, Ssl(t)) = Held(h, Ssl(t)) /\ Held(d, BioFrom(t)) = Held(h, BioFrom(t))
        /\ Held(d, BioTo(t)) = Held(h, BioTo(t))
    BY <1>0, <1>7, ZenonT(60)
  <2>2. Ssl(t) \notin Owned(d) /\ BioFrom(t) \notin Owned(d) /\ BioTo(t) \notin Owned(d)
    BY <1>1, <1>6, <1>9, ZenonT(60) DEF Is, TransportMade, O
  <2>3. t \notin K \ {t}
    BY ZenonT(60)
  <2>4. QED
    BY <1>1, <2>1, <2>2, <2>3, ZenonT(60) DEF TransportMade
<1>12. ASSUME NEW u \in Transports, u # t PROVE TransportMade(d, u, K \ {t})
  <2>1. /\ TransportObjects(u) = {Ssl(u), BioFrom(u), BioTo(u)}
        /\ TransportObjects(u) \subseteq Objects
    BY TransportApart, ZenonT(60)
  <2>2. TransportObjects(t) \cap TransportObjects(u) = {}
    BY <1>0, <1>12, <2>1, TransportsApart, ZenonT(60)
  <2>3. Ssl(t) \notin TransportObjects(u) /\ Ssl(u) \notin TransportObjects(t)
    BY <1>0, <2>1, <2>2, ZenonT(60)
  <2>4. Unmoved(h, d, u)
    <3>1. \A o \in TransportObjects(u) : o \in Owned(d) <=> o \in Owned(h)
      BY <1>6, <1>9, <2>3, ZenonT(60) DEF Is, O
    <3>2. Ssl(u) \in h.pointers => Ssl(u) \in d.pointers
      BY <1>6, <1>9, <2>3, ZenonT(60) DEF Is, P
    <3>3. Held(h, SslCtx) \subseteq Held(d, SslCtx)
      BY <1>0, <1>7, ZenonT(60)
    <3>4. QED
      BY <1>7, <2>1, <3>1, <3>2, <3>3, ZenonT(60) DEF Unmoved
  <2>5. u \in K <=> u \in K \ {t}
    BY <1>12, ZenonT(60)
  <2>6. TransportMade(h, u, K)
    BY ZenonT(60) DEF HeapMade
  <2>7. QED
    BY <2>4, <2>5, <2>6, TransportKept, ZenonT(60)
<1>13. QED
  BY <1>8, <1>10, <1>11, <1>12, ZenonT(60) DEF HeapMade

(* An object of an SRTP session is of no transport and not of the class. *)
LEMMA NewSrtpObject ==
  ASSUME NEW h, NEW K, HeapMade(h, K), NEW t \in Transports,
         NEW o \in {EncryptBuffer(t), Session(t)}
  PROVE  HeapMade(New(h, o), K)
<1>0. /\ o \in Objects /\ o \notin {EcKey, PrivateKey, Certificate, SslCtx}
      /\ {EcKey, PrivateKey, Certificate, SslCtx} \subseteq Objects
  BY TransportApart, ClassApart, ZenonT(60)
<1> DEFINE P == h.pointers
           O == Owned(h)
           h2 == New(h, o)
<1>1. ClassMade(h)
  BY ZenonT(60) DEF HeapMade
<1>2. Is(h, P, O, {})
  BY <1>1, ZenonT(60) DEF ClassMade, Is
<1> HIDE DEF P, O
<1>3. Is(h2, P \cup {o}, O \cup {o}, {}) /\ HeldBut(h, h2, o, {})
  BY <1>0, <1>2, NewIs, ZenonT(60)
<1> HIDE DEF h2
<1>4. ClassMade(h2)
  <2>1. {PrivateKey, Certificate, SslCtx} \subseteq (P \cup {o}) \cap (O \cup {o})
    BY <1>1, ZenonT(60) DEF ClassMade, P, O
  <2>2. \A x \in {EcKey, PrivateKey, Certificate} : Held(h2, x) = Held(h, x)
    BY <1>0, <1>3, ZenonT(60) DEF HeldBut
  <2>3. QED
    BY <1>1, <1>3, <2>1, <2>2, ClassKept, ZenonT(60)
<1>5. ASSUME NEW u \in Transports PROVE TransportMade(h2, u, K)
  <2>1. /\ TransportObjects(u) = {Ssl(u), BioFrom(u), BioTo(u)}
        /\ TransportObjects(u) \subseteq Objects
    BY TransportApart, ZenonT(60)
  <2>2. o \notin TransportObjects(u)
    <3>1. CASE u = t
      BY <2>1, <3>1, TransportApart, ZenonT(60)
    <3>2. CASE u # t
      BY <2>1, <3>2, TransportsApart, ZenonT(60)
    <3>3. QED
      BY <3>1, <3>2, ZenonT(60)
  <2>3. Unmoved(h, h2, u)
    <3>1. \A x \in TransportObjects(u) : x \in Owned(h2) <=> x \in Owned(h)
      BY <1>3, <2>2, ZenonT(60) DEF Is, O
    <3>2. h.pointers \subseteq h2.pointers
      BY <1>3, ZenonT(60) DEF Is, P
    <3>3. Held(h, SslCtx) \subseteq Held(h2, SslCtx)
      BY <1>0, <1>3, ZenonT(60) DEF HeldBut
    <3>4. \A x \in TransportObjects(u) : Held(h2, x) = Held(h, x)
      BY <1>3, <2>1, <2>2, ZenonT(60) DEF HeldBut
    <3>5. QED
      BY <3>1, <3>2, <3>3, <3>4, ZenonT(60) DEF Unmoved
  <2>4. TransportMade(h, u, K)
    BY ZenonT(60) DEF HeapMade
  <2>5. QED
    BY <2>3, <2>4, TransportKept, ZenonT(60)
<1>6. QED
  BY <1>4, <1>5, ZenonT(60) DEF HeapMade, h2

(* The SRTP session, complete or not. *)
LEMMA SrtpMade ==
  ASSUME NEW h, NEW K, HeapMade(h, K), NEW t \in Transports, NEW ok
  PROVE  HeapMade(NewSrtpSession(h, t, ok), K)
<1>1. HeapMade(New(h, EncryptBuffer(t)), K)
  BY NewSrtpObject, ZenonT(60)
<1>2. HeapMade(New(New(h, EncryptBuffer(t)), Session(t)), K)
  BY <1>1, NewSrtpObject, ZenonT(60)
<1>3. QED
  BY <1>1, <1>2, ZenonT(60) DEF NewSrtpSession, EncryptBuffer, Session

(* What HeapMade says of who is alive, now and after ClassDestroy. *)
LEMMA MadeComplete ==
  ASSUME NEW h, NEW K, HeapMade(h, K)
  PROVE  LET needed == {SslCtx, Certificate, PrivateKey, EcKey}
         IN /\ needed \subseteq Alive(h)
            /\ ClassDestroy(h).misused = {}
            /\ \A t \in K \cap Transports :
                 needed \cup TransportObjects(t) \subseteq Alive(ClassDestroy(h))
            /\ \A t \in Transports \ K : TransportObjects(t) \cap Alive(h) = {}
<1>0. {EcKey, PrivateKey, Certificate, SslCtx} \subseteq Objects
  BY ClassApart, ZenonT(60)
<1>1. ClassMade(h)
  BY ZenonT(60) DEF HeapMade
<1>2. {SslCtx, Certificate, PrivateKey, EcKey} \subseteq Alive(h)
  <2>1. /\ Code \in h.holders[SslCtx] /\ Code \in h.holders[Certificate]
        /\ Code \in h.holders[PrivateKey] /\ PrivateKey \in h.holders[EcKey]
    BY <1>1, ZenonT(60) DEF ClassMade, Owned, Held
  <2>2. SslCtx \in Alive(h) /\ Certificate \in Alive(h)
    BY <1>0, <2>1, AliveOwned, ZenonT(60)
  <2>3. PrivateKey \in Alive(h) /\ EcKey \in Alive(h)
    BY <1>0, <2>1, AliveOwned, ZenonT(60)
  <2>4. QED
    BY <2>2, <2>3, ZenonT(60)
<1> DEFINE P == h.pointers
           O == Owned(h)
           d == ClassDestroy(h)
           O2 == O \ {PrivateKey, Certificate, SslCtx}
<1>3. /\ Is(h, P, O, {}) /\ {PrivateKey, Certificate} \subseteq P \cap O
      /\ SslCtx \in P /\ SslCtx \in O
  BY <1>1, ZenonT(60) DEF ClassMade, Is
<1> HIDE DEF P, O
<1>4. Is(d, P, O2, {}) /\ SameHeld(h, d)
  BY <1>3, ClassDestroyIs, ZenonT(60)
<1> HIDE DEF d
<1>5. ASSUME NEW t \in K \cap Transports
      PROVE  {SslCtx, Certificate, PrivateKey, EcKey} \cup TransportObjects(t) \subseteq Alive(d)
  <2>1. /\ TransportObjects(t) = {Ssl(t), BioFrom(t), BioTo(t)}
        /\ {Ssl(t), BioFrom(t), BioTo(t)} \cap {EcKey, PrivateKey, Certificate, SslCtx} = {}
        /\ {Ssl(t), BioFrom(t), BioTo(t)} \subseteq Objects
    BY TransportApart, ZenonT(60)
  <2>2. TransportMade(h, t, K)
    BY ZenonT(60) DEF HeapMade
  <2>3. Ssl(t) \in O2
    BY <2>1, <2>2, ZenonT(60) DEF TransportMade, O
  <2>4. /\ Ssl(t) \in Held(h, SslCtx) /\ Ssl(t) \in Held(h, BioFrom(t))
        /\ Ssl(t) \in Held(h, BioTo(t))
    BY <2>2, ZenonT(60) DEF TransportMade
  <2> HIDE DEF O2
  <2>5. Ssl(t) \in Objects /\ Code \in d.holders[Ssl(t)]
    BY <1>4, <2>3, ZenonT(60) DEF Is, Owned
  <2>6. \A x \in Objects : \A y \in Held(h, x) : y \in d.holders[x]
    BY <1>4, ZenonT(60) DEF SameHeld, Held
  <2>7. /\ Ssl(t) \in d.holders[SslCtx] /\ Ssl(t) \in d.holders[BioFrom(t)]
        /\ Ssl(t) \in d.holders[BioTo(t)] /\ SslCtx \in d.holders[Certificate]
        /\ SslCtx \in d.holders[PrivateKey] /\ PrivateKey \in d.holders[EcKey]
    BY <1>0, <1>1, <2>1, <2>4, <2>6, ZenonT(60) DEF ClassMade
  <2>8. /\ Ssl(t) \in Alive(d)
        /\ \A p \in Objects : Ssl(t) \in d.holders[p] =>
             /\ p \in Alive(d)
             /\ \A q \in Objects : p \in d.holders[q] =>
                  /\ q \in Alive(d)
                  /\ \A r \in Objects : q \in d.holders[r] => r \in Alive(d)
    BY <2>5, AliveOwned, ZenonT(60)
  <2>9. SslCtx \in Alive(d) /\ BioFrom(t) \in Alive(d) /\ BioTo(t) \in Alive(d)
    BY <1>0, <2>1, <2>7, <2>8, ZenonT(60)
  <2>10. Certificate \in Alive(d) /\ PrivateKey \in Alive(d) /\ EcKey \in Alive(d)
    BY <1>0, <2>7, <2>8, ZenonT(60)
  <2>11. QED
    BY <2>1, <2>8, <2>9, <2>10, ZenonT(60)
<1>6. ASSUME NEW t \in Transports \ K PROVE TransportObjects(t) \cap Alive(h) = {}
  <2>1. TransportObjects(t) = {Ssl(t), BioFrom(t), BioTo(t)}
    BY TransportApart, ZenonT(60)
  <2>2. TransportMade(h, t, K)
    BY ZenonT(60) DEF HeapMade
  <2>3. \A o \in TransportObjects(t) :
          o \notin Owned(h) /\ Held(h, o) \subseteq TransportObjects(t)
    BY <2>1, <2>2, ZenonT(60) DEF TransportMade
  <2>4. QED
    BY <2>3, Unowned, ZenonT(60)
<1>7. d.misused = {}
  BY <1>4, ZenonT(60) DEF Is
<1>8. QED
  BY <1>2, <1>5, <1>6, <1>7, ZenonT(60) DEF d

----------------------------------------------------------------------------
(* The program.                                                            *)

(* The callback has a session and a fragment, but between two requests. *)
HttpInv ==
  /\ http \in [at : {"idle", "insert", "reply"}, session : Transports \cup {NoSession},
               id : Fragments \cup {NoSession}]
  /\ http.at = "idle" => http.session = NoSession
  /\ http.at # "idle" => http.session \in Transports /\ http.id \in Fragments

TableInv ==
  /\ created \subseteq Transports
  /\ rtc_sessions \in [Fragments -> Transports \cup {NoSession}]
  /\ Kept \subseteq created \cup {NoSession}

(* The heap at each stage of main. *)
StageInv ==
  /\ main = "generate" => heap = EmptyHeap
  /\ main = "context" => KeysMade(heap)
  /\ main \in {"fingerprints", "srtp", "serving"} => HeapMade(heap, Kept)
  /\ main \in {"generate", "context"} => created = {}
  /\ main # "terminated" => failed = "none"

(* The heap that the exception left. *)
FailedInv ==
  /\ failed = "GenerateCertificateAndPrivateKey" => Alive(heap) = {}
  /\ failed = "CreateSslCtx" => Alive(ClassDestroy(heap)) = {} /\ SslCtx \notin Alive(heap)
  /\ failed = "DtlsTransport" => Dead(heap, http.session)
  /\ failed # "DtlsTransport" => heap.misused = {}

MainType ==
  /\ heap \in HeapType
  /\ main \in {"generate", "context", "fingerprints", "srtp", "serving", "terminated"}
  /\ failed \in {"none", "GenerateCertificateAndPrivateKey", "CreateSslCtx",
                 "GenerateFingerprints", "ClassInit", "DtlsTransport", "SrtpSession",
                 "H2642Rtp"}

(* The inductive invariant. *)
ServerInv == MainType /\ HttpInv /\ TableInv /\ StageInv /\ FailedInv /\ MediaInv

(* The program begins so. *)
LEMMA ServerInitInv == ServerInit => ServerInv
<1> SUFFICES ASSUME ServerInit PROVE ServerInv
  OBVIOUS
<1>1. heap = EmptyHeap /\ main = "generate" /\ failed = "none" /\ http = NoCallback
      /\ created = {} /\ rtc_sessions = [f \in Fragments |-> NoSession] /\ MediaInit
  BY ZenonT(60) DEF ServerInit
<1>2. heap \in HeapType /\ heap.misused = {}
  BY <1>1, EmptyIs, ZenonT(60) DEF Is
<1>3. MainType
  BY <1>1, <1>2, ZenonT(60) DEF MainType
<1>4. HttpInv /\ http.session = NoSession
  BY <1>1, SMTT(60) DEF HttpInv, NoCallback
<1>5. TableInv
  <2>1. rtc_sessions \in [Fragments -> Transports \cup {NoSession}]
    BY <1>1, ZenonT(60)
  <2>2. \A f \in Fragments : rtc_sessions[f] = NoSession
    BY <1>1, ZenonT(60)
  <2>3. QED
    BY <1>1, <1>4, <2>1, <2>2, ZenonT(60) DEF TableInv, Kept
<1>6. StageInv /\ FailedInv
  BY <1>1, <1>2, SMTT(60) DEF StageInv, FailedInv
<1>7. QED
  BY <1>1, <1>3, <1>4, <1>5, <1>6, MediaInitInv, ZenonT(60) DEF ServerInv

(* The parts that most actions leave alone. *)
LEMMA ServerFrame ==
  /\ MediaInv /\ UNCHANGED <<file, media>> => MediaInv'
  /\ HttpInv /\ UNCHANGED http => HttpInv'
  /\ TableInv /\ UNCHANGED <<http, created, rtc_sessions>> => TableInv'
  /\ UNCHANGED <<http, rtc_sessions>> => Kept' = Kept
<1>1. MediaInv /\ UNCHANGED <<file, media>> => MediaInv'
  <2> SUFFICES ASSUME MediaInv, file' = file, media' = media PROVE MediaInv'
    BY ZenonT(60)
  <2>1. HasVideo' <=> HasVideo
    BY ZenonT(60) DEF HasVideo
  <2>2. in_stream_index' = in_stream_index
    BY ZenonT(60) DEF in_stream_index
  <2>3. QED
    BY <2>1, <2>2, ZenonT(60) DEF MediaInv, PacketsReleased
<1>2. HttpInv /\ UNCHANGED http => HttpInv'
  BY ZenonT(60) DEF HttpInv
<1>3. UNCHANGED <<http, rtc_sessions>> => Kept' = Kept
  BY ZenonT(60) DEF Kept
<1>4. TableInv /\ UNCHANGED <<http, created, rtc_sessions>> => TableInv'
  BY <1>3, ZenonT(60) DEF TableInv
<1>5. QED
  BY <1>1, <1>2, <1>3, <1>4, ZenonT(60)

(* The first stage of the class. *)
LEMMA InitCertificateStep == ServerInv /\ InitCertificate => ServerInv'
<1> SUFFICES ASSUME ServerInv, InitCertificate PROVE ServerInv'
  OBVIOUS
<1>1. PICK failing \in 1 .. 10 :
        /\ heap' = GenerateCertificateAndPrivateKey(heap, failing)
        /\ Continue(failing > 9, "GenerateCertificateAndPrivateKey", "context")
  BY DEF InitCertificate, GenerateCalls
<1>2. main = "generate" /\ heap = EmptyHeap /\ failed = "none" /\ created = {}
  BY ZenonT(60) DEF InitCertificate, ServerInv, StageInv
<1>3. UNCHANGED <<http, created, rtc_sessions, file, media>>
  BY ZenonT(60) DEF InitCertificate, NoSessionsYet
<1>4. HttpInv' /\ TableInv' /\ MediaInv'
  BY <1>3, ServerFrame, ZenonT(60) DEF ServerInv
<1>5. /\ failing > 9 => KeysMade(heap')
      /\ ~(failing > 9) => heap' \in HeapType /\ heap'.misused = {} /\ Alive(heap') = {}
  BY <1>1, <1>2, GenerateIs, ZenonT(60)
<1>6. CASE failing > 9
  <2>1. main' = "context" /\ failed' = "none"
    BY <1>1, <1>2, <1>6, ZenonT(60) DEF Continue
  <2>2. heap' \in HeapType /\ heap'.misused = {}
    BY <1>5, <1>6, ZenonT(60) DEF KeysMade, Is
  <2>3. MainType' /\ StageInv' /\ FailedInv'
    BY <1>2, <1>3, <1>5, <1>6, <2>1, <2>2, ZenonT(60) DEF MainType, StageInv, FailedInv
  <2>4. QED
    BY <1>4, <2>3, ZenonT(60) DEF ServerInv
<1>7. CASE ~(failing > 9)
  <2>1. main' = "terminated" /\ failed' = "GenerateCertificateAndPrivateKey"
    BY <1>1, <1>7, ZenonT(60) DEF Continue
  <2>2. MainType' /\ StageInv' /\ FailedInv'
    BY <1>5, <1>7, <2>1, ZenonT(60) DEF MainType, StageInv, FailedInv
  <2>3. QED
    BY <1>4, <2>2, ZenonT(60) DEF ServerInv
<1>8. QED
  BY <1>6, <1>7, ZenonT(60)

(* The second. *)
LEMMA InitSslCtxStep == ServerInv /\ InitSslCtx => ServerInv'
<1> SUFFICES ASSUME ServerInv, InitSslCtx PROVE ServerInv'
  OBVIOUS
<1>1. PICK failing \in 1 .. 7 :
        /\ heap' = CreateSslCtx(heap, failing)
        /\ Continue(failing > 6, "CreateSslCtx", "fingerprints")
  BY SMTT(60) DEF InitSslCtx, CreateCalls
<1>2. main = "context" /\ KeysMade(heap) /\ failed = "none" /\ created = {}
  BY ZenonT(60) DEF InitSslCtx, ServerInv, StageInv
<1>3. UNCHANGED <<http, created, rtc_sessions, file, media>>
  BY ZenonT(60) DEF InitSslCtx, NoSessionsYet
<1>4. HttpInv' /\ TableInv' /\ MediaInv' /\ Kept' = Kept
  BY <1>3, ServerFrame, ZenonT(60) DEF ServerInv
<1>5. /\ failing > 6 => /\ ClassMade(heap') /\ NothingElse(heap')
                        /\ Owned(heap') = {PrivateKey, Certificate, SslCtx}
      /\ ~(failing > 6) => /\ heap' \in HeapType /\ heap'.misused = {}
                           /\ Alive(ClassDestroy(heap')) = {} /\ SslCtx \notin Alive(heap')
  BY <1>1, <1>2, CreateIs, ZenonT(60)
<1>6. CASE failing > 6
  <2>1. main' = "fingerprints" /\ failed' = "none"
    BY <1>1, <1>2, <1>6, ZenonT(60) DEF Continue
  <2>2. heap' \in HeapType /\ heap'.misused = {}
    BY <1>5, <1>6, ZenonT(60) DEF ClassMade
  <2>3. HeapMade(heap', Kept')
    <3>1. Kept' \cap Transports = {}
      BY <1>2, <1>4, NoSessionAssumption, ZenonT(60) DEF ServerInv, TableInv
    <3>2. QED
      BY <1>5, <1>6, <3>1, ContextMade, ZenonT(60)
  <2>4. MainType' /\ StageInv' /\ FailedInv'
    BY <2>1, <2>2, <2>3, ZenonT(60) DEF MainType, StageInv, FailedInv
  <2>5. QED
    BY <1>4, <2>4, ZenonT(60) DEF ServerInv
<1>7. CASE ~(failing > 6)
  <2>1. main' = "terminated" /\ failed' = "CreateSslCtx"
    BY <1>1, <1>7, ZenonT(60) DEF Continue
  <2>2. MainType' /\ StageInv' /\ FailedInv'
    BY <1>5, <1>7, <2>1, ZenonT(60) DEF MainType, StageInv, FailedInv
  <2>3. QED
    BY <1>4, <2>2, ZenonT(60) DEF ServerInv
<1>8. QED
  BY <1>6, <1>7, ZenonT(60)

(* The rest of the initialisation uses the certificate, or no object. *)
LEMMA InitOthersStep == ServerInv /\ (InitFingerprints \/ InitSrtp) => ServerInv'
<1> SUFFICES ASSUME ServerInv, InitFingerprints \/ InitSrtp PROVE ServerInv'
  OBVIOUS
<1>1. main \in {"fingerprints", "srtp"} /\ HeapMade(heap, Kept) /\ failed = "none"
  BY ZenonT(60) DEF InitFingerprints, InitSrtp, ServerInv, StageInv
<1>2. UNCHANGED <<http, created, rtc_sessions, file, media>>
  BY ZenonT(60) DEF InitFingerprints, InitSrtp, NoSessionsYet
<1>3. HttpInv' /\ TableInv' /\ MediaInv' /\ Kept' = Kept
  BY <1>2, ServerFrame, ZenonT(60) DEF ServerInv
<1>4. heap' = heap
  <2>1. Certificate \in Objects /\ Code \in heap.holders[Certificate]
    BY <1>1, ClassApart, ZenonT(60) DEF HeapMade, ClassMade, Owned
  <2>2. Use(heap, Certificate) = heap
    BY <2>1, UseLemma, ZenonT(60)
  <2>3. QED
    BY <2>2, ZenonT(60) DEF InitFingerprints, InitSrtp, GenerateFingerprints, Certificate
<1>5. heap' \in HeapType /\ heap'.misused = {} /\ HeapMade(heap', Kept')
  BY <1>1, <1>3, <1>4, ZenonT(60) DEF HeapMade, ClassMade
<1>6. \/ main' \in {"srtp", "serving"} /\ failed' = "none"
      \/ main' = "terminated" /\ failed' \in {"GenerateFingerprints", "ClassInit"}
  BY <1>1, ZenonT(60) DEF InitFingerprints, InitSrtp, Continue
<1>7. MainType' /\ StageInv' /\ FailedInv'
  BY <1>5, <1>6, ZenonT(60) DEF MainType, StageInv, FailedInv
<1>8. QED
  BY <1>3, <1>7, ZenonT(60) DEF ServerInv

(* A request: the transport is kept by the callback. *)
LEMMA CreateSessionStep == ServerInv /\ CreateWebRTCSession => ServerInv'
<1> SUFFICES ASSUME ServerInv, CreateWebRTCSession PROVE ServerInv'
  OBVIOUS
<1>1. PICK t \in Transports \ created, id \in Fragments, failing \in 1 .. 4 :
        /\ heap' = NewDtlsTransport(heap, t, failing)
        /\ Continue(failing > 3, "DtlsTransport", "serving")
        /\ http' = [at |-> "insert", session |-> t, id |-> id]
        /\ created' = created \cup {t}
  BY SMTT(60) DEF CreateWebRTCSession, ConstructorCalls
<1>2. /\ main = "serving" /\ http.at = "idle" /\ HeapMade(heap, Kept) /\ failed = "none"
      /\ UNCHANGED <<rtc_sessions, file, media>>
  BY ZenonT(60) DEF CreateWebRTCSession, ServerInv, StageInv
<1>3. MediaInv'
  BY <1>2, ServerFrame, ZenonT(60) DEF ServerInv
<1>4. HttpInv' /\ http'.session = t
  BY <1>1, SMTT(60) DEF HttpInv
<1>5. \A u \in Transports : u \in Kept' <=> u \in Kept \cup {t}
  <2>1. http.session = NoSession
    BY <1>2, ZenonT(60) DEF ServerInv, HttpInv
  <2>2. QED
    BY <1>2, <1>4, <2>1, NoSessionAssumption, ZenonT(60) DEF Kept
<1>6. t \in Transports /\ t \notin Kept
  BY NoSessionAssumption, ZenonT(60) DEF ServerInv, TableInv
<1>7. TableInv'
  <2>1. /\ created' \subseteq Transports
        /\ rtc_sessions' \in [Fragments -> Transports \cup {NoSession}]
    BY <1>1, <1>2, ZenonT(60) DEF ServerInv, TableInv
  <2>2. \A f \in Fragments : rtc_sessions'[f] \in created' \cup {NoSession}
    BY <1>1, <1>2, ZenonT(60) DEF ServerInv, TableInv, Kept
  <2>3. QED
    BY <1>1, <1>4, <2>1, <2>2, ZenonT(60) DEF TableInv, Kept
<1>8. /\ failing > 3 => HeapMade(heap', Kept \cup {t})
      /\ ~(failing > 3) => Dead(heap', t)
  BY <1>1, <1>2, <1>6, NewMade, ZenonT(60)
<1>9. CASE failing > 3
  <2>1. main' = "serving" /\ failed' = "none"
    BY <1>1, <1>2, <1>9, ZenonT(60) DEF Continue
  <2>2. HeapMade(heap', Kept')
    BY <1>5, <1>8, <1>9, SameKept, ZenonT(60)
  <2>3. heap' \in HeapType /\ heap'.misused = {}
    BY <2>2, ZenonT(60) DEF HeapMade, ClassMade
  <2>4. MainType' /\ StageInv' /\ FailedInv'
    BY <2>1, <2>2, <2>3, ZenonT(60) DEF MainType, StageInv, FailedInv
  <2>5. QED
    BY <1>3, <1>4, <1>7, <2>4, ZenonT(60) DEF ServerInv
<1>10. CASE ~(failing > 3)
  <2>1. main' = "terminated" /\ failed' = "DtlsTransport"
    BY <1>1, <1>10, ZenonT(60) DEF Continue
  <2>2. heap' \in HeapType
    BY <1>8, <1>10, ZenonT(60) DEF Dead
  <2>3. MainType' /\ StageInv' /\ FailedInv'
    BY <1>4, <1>8, <1>10, <2>1, <2>2, ZenonT(60) DEF MainType, StageInv, FailedInv
  <2>4. QED
    BY <1>3, <1>4, <1>7, <2>3, ZenonT(60) DEF ServerInv
<1>11. QED
  BY <1>9, <1>10, ZenonT(60)

(* The insertion, refused or not, keeps what the callback keeps. *)
LEMMA InsertStep == ServerInv /\ InsertSession => ServerInv'
<1> SUFFICES ASSUME ServerInv, InsertSession PROVE ServerInv'
  OBVIOUS
<1>1. /\ main = "serving" /\ http.at = "insert" /\ HeapMade(heap, Kept) /\ failed = "none"
      /\ UNCHANGED <<heap, main, failed, created, file, media>>
      /\ rtc_sessions' = Insert(rtc_sessions, http.id, http.session)
      /\ http' = [http EXCEPT !.at = "reply"]
  BY ZenonT(60) DEF InsertSession, ServerInv, StageInv
<1>2. http.session \in Transports /\ http.id \in Fragments
  BY <1>1, SMTT(60) DEF ServerInv, HttpInv
<1>3. MediaInv'
  BY <1>1, ServerFrame, ZenonT(60) DEF ServerInv
<1>4. HttpInv' /\ http'.session = http.session
  <2>1. http \in [at : {"idle", "insert", "reply"}, session : Transports \cup {NoSession},
                  id : Fragments \cup {NoSession}]
    BY ZenonT(60) DEF ServerInv, HttpInv
  <2>2. QED
    BY <1>1, <1>2, <2>1, SMTT(60) DEF HttpInv
<1>5. /\ rtc_sessions' \in [Fragments -> Transports \cup {NoSession}]
      /\ \A f \in Fragments : \/ rtc_sessions'[f] = rtc_sessions[f]
                              \/ rtc_sessions'[f] = http.session /\ rtc_sessions[f] = NoSession
  BY <1>1, <1>2, SMTT(60) DEF Insert, ServerInv, TableInv
<1>6. \A u \in Transports : u \in Kept' <=> u \in Kept
  BY <1>4, <1>5, NoSessionAssumption, ZenonT(60) DEF Kept
<1>7. TableInv'
  <2>1. Kept \subseteq created \cup {NoSession} /\ created \subseteq Transports
    BY ZenonT(60) DEF ServerInv, TableInv
  <2>2. \A u \in Kept' : u \in Kept
    BY <1>4, <1>5, ZenonT(60) DEF Kept
  <2>3. QED
    BY <1>1, <1>5, <2>1, <2>2, ZenonT(60) DEF TableInv
<1>8. HeapMade(heap', Kept')
  BY <1>1, <1>6, SameKept, ZenonT(60)
<1>9. MainType' /\ StageInv' /\ FailedInv'
  <2>1. heap' \in HeapType /\ heap'.misused = {}
    BY <1>8, ZenonT(60) DEF HeapMade, ClassMade
  <2>2. main' = "serving" /\ failed' = "none"
    BY <1>1, ZenonT(60)
  <2>3. QED
    BY <1>8, <2>1, <2>2, ZenonT(60) DEF MainType, StageInv, FailedInv
<1>10. QED
  BY <1>3, <1>4, <1>7, <1>9, ZenonT(60) DEF ServerInv

(* The callback's reference was the last one, unless the table has one. *)
LEMMA EndStep == ServerInv /\ EndOfCallback => ServerInv'
<1> SUFFICES ASSUME ServerInv, EndOfCallback PROVE ServerInv'
  OBVIOUS
<1>1. /\ main = "serving" /\ http.at = "reply" /\ HeapMade(heap, Kept) /\ failed = "none"
      /\ UNCHANGED <<main, failed, created, rtc_sessions, file, media>>
      /\ heap' = Release(heap, http.session)
      /\ http' = NoCallback
  BY ZenonT(60) DEF EndOfCallback, ServerInv, StageInv
<1> DEFINE t == http.session
<1>2. t \in Transports /\ t \in Kept
  <2>1. t \in Transports
    BY <1>1, SMTT(60) DEF ServerInv, HttpInv
  <2>2. QED
    BY <2>1, ZenonT(60) DEF Kept
<1>3. MediaInv'
  BY <1>1, ServerFrame, ZenonT(60) DEF ServerInv
<1>4. HttpInv' /\ http'.session = NoSession
  BY <1>1, SMTT(60) DEF HttpInv, NoCallback
<1>5. TableInv'
  <2>1. \A f \in Fragments : rtc_sessions[f] \in created \cup {NoSession}
    BY ZenonT(60) DEF ServerInv, TableInv, Kept
  <2>2. QED
    BY <1>1, <1>4, <2>1, SMTT(60) DEF ServerInv, TableInv, Kept
<1>6. HeapMade(heap', Kept')
  <2>1. CASE \E f \in Fragments : rtc_sessions[f] = t
    <3>1. heap' = heap
      BY <1>1, <2>1, ZenonT(60) DEF Release
    <3>2. \A u \in Transports : u \in Kept' <=> u \in Kept
      BY <1>1, <1>4, <2>1, NoSessionAssumption, ZenonT(60) DEF Kept
    <3> HIDE DEF t
    <3>3. HeapMade(heap', Kept)
      BY <1>1, <3>1, ZenonT(60)
    <3>4. QED
      BY <3>2, <3>3, SameKept, ZenonT(60)
  <2>2. CASE ~\E f \in Fragments : rtc_sessions[f] = t
    <3>1. heap' = DeleteDtlsTransport(heap, t)
      BY <1>1, <2>2, ZenonT(60) DEF Release
    <3>2. \A u \in Transports : u \in Kept' <=> u \in Kept \ {t}
      BY <1>1, <1>2, <1>4, <2>2, NoSessionAssumption, ZenonT(60) DEF Kept
    <3> HIDE DEF t
    <3>5. HeapMade(DeleteDtlsTransport(heap, t), Kept \ {t})
      <4>1. HeapMade(heap, Kept)
        BY <1>1, ZenonT(60)
      <4>2. QED
        BY <1>2, <4>1, DeleteMade, ZenonT(60)
    <3>3. HeapMade(heap', Kept \ {t})
      BY <3>1, <3>5, ZenonT(60)
    <3>4. QED
      BY <3>2, <3>3, SameKept, ZenonT(60)
  <2>3. QED
    BY <2>1, <2>2, ZenonT(60)
<1>7. heap' \in HeapType /\ heap'.misused = {}
  BY <1>6, ZenonT(60) DEF HeapMade, ClassMade
<1>8. MainType' /\ StageInv' /\ FailedInv'
  BY <1>1, <1>6, <1>7, ZenonT(60) DEF MainType, StageInv, FailedInv
<1>9. QED
  BY <1>3, <1>4, <1>5, <1>8, ZenonT(60) DEF ServerInv

(* An SRTP session touches no object of a transport. *)
LEMMA ConnectedStep == ServerInv /\ Connected => ServerInv'
<1> SUFFICES ASSUME ServerInv, Connected PROVE ServerInv'
  OBVIOUS
<1>1. /\ main = "serving" /\ HeapMade(heap, Kept) /\ failed = "none"
      /\ UNCHANGED <<http, created, rtc_sessions, file, media>>
  BY ZenonT(60) DEF Connected, ServerInv, StageInv
<1>2. PICK f \in Fragments, ok \in BOOLEAN :
        /\ rtc_sessions[f] # NoSession
        /\ heap' = NewSrtpSession(heap, rtc_sessions[f], ok)
        /\ Continue(ok, "SrtpSession", "serving")
  BY ZenonT(60) DEF Connected
<1>3. rtc_sessions[f] \in Transports
  BY <1>2, ZenonT(60) DEF ServerInv, TableInv
<1>4. HttpInv' /\ TableInv' /\ MediaInv' /\ Kept' = Kept
  BY <1>1, ServerFrame, ZenonT(60) DEF ServerInv
<1>5. HeapMade(heap', Kept')
  BY <1>1, <1>2, <1>3, <1>4, SrtpMade, ZenonT(60)
<1>6. heap' \in HeapType /\ heap'.misused = {}
  BY <1>5, ZenonT(60) DEF HeapMade, ClassMade
<1>7. \/ main' = "serving" /\ failed' = "none"
      \/ main' = "terminated" /\ failed' = "SrtpSession"
  BY <1>1, <1>2, ZenonT(60) DEF Continue
<1>8. MainType' /\ StageInv' /\ FailedInv'
  BY <1>5, <1>6, <1>7, ZenonT(60) DEF MainType, StageInv, FailedInv
<1>9. QED
  BY <1>4, <1>8, ZenonT(60) DEF ServerInv

(* The media thread runs beside the rest. *)
LEMMA MediaThreadStep == ServerInv /\ MediaThread => ServerInv'
<1> SUFFICES ASSUME ServerInv, MediaThread PROVE ServerInv'
  OBVIOUS
<1>1. /\ MediaNext /\ UNCHANGED <<heap, http, created, rtc_sessions>> /\ main = "serving"
      /\ main' = (IF media'.at # "crashed" THEN "serving" ELSE "terminated")
      /\ failed' = (IF media'.at # "crashed" THEN failed ELSE "H2642Rtp")
  BY ZenonT(60) DEF MediaThread, Play, Continue
<1>2. MediaInv'
  BY <1>1, MediaStep, ZenonT(60) DEF ServerInv
<1>3. HttpInv' /\ TableInv' /\ Kept' = Kept
  BY <1>1, ServerFrame, ZenonT(60) DEF ServerInv
<1>4. CASE media'.at # "crashed"
  <2>1. main' = main /\ failed' = failed
    BY <1>1, <1>4, ZenonT(60)
  <2>2. MainType' /\ StageInv' /\ FailedInv'
    BY <1>1, <1>3, <2>1, ZenonT(60) DEF ServerInv, MainType, StageInv, FailedInv
  <2>3. QED
    BY <1>2, <1>3, <2>2, ZenonT(60) DEF ServerInv
<1>5. CASE media'.at = "crashed"
  <2>1. main' = "terminated" /\ failed' = "H2642Rtp"
    BY <1>1, <1>5, ZenonT(60)
  <2>2. heap.misused = {} /\ heap \in HeapType
    BY <1>1, ZenonT(60) DEF ServerInv, MainType, StageInv, FailedInv
  <2>3. MainType' /\ StageInv' /\ FailedInv'
    BY <1>1, <2>1, <2>2, ZenonT(60) DEF MainType, StageInv, FailedInv
  <2>4. QED
    BY <1>2, <1>3, <2>3, ZenonT(60) DEF ServerInv
<1>6. QED
  BY <1>4, <1>5, ZenonT(60)

(* Every step of the program preserves the invariant. *)
LEMMA ServerStep == ServerInv /\ [ServerNext]_serverVars => ServerInv'
<1> SUFFICES ASSUME ServerInv, [ServerNext]_serverVars PROVE ServerInv'
  OBVIOUS
<1>1. CASE UNCHANGED serverVars
  <2>1. UNCHANGED <<heap, main, failed, http, created, rtc_sessions, file, media>>
    BY <1>1, ZenonT(60) DEF serverVars
  <2>2. HttpInv' /\ TableInv' /\ MediaInv' /\ Kept' = Kept
    BY <2>1, ServerFrame, ZenonT(60) DEF ServerInv
  <2>3. MainType' /\ StageInv' /\ FailedInv'
    BY <2>1, <2>2, ZenonT(60) DEF ServerInv, MainType, StageInv, FailedInv
  <2>4. QED
    BY <2>2, <2>3, ZenonT(60) DEF ServerInv
<1>2. CASE ServerNext
  BY <1>2, InitCertificateStep, InitSslCtxStep, InitOthersStep, CreateSessionStep, InsertStep,
     EndStep, ConnectedStep, MediaThreadStep, ZenonT(60) DEF ServerNext
<1>3. QED
  BY <1>1, <1>2, ZenonT(60)

(* The inductive invariant holds throughout: at every stage of main the    *)
(* heap has the objects of that stage, with who holds them, for any number *)
(* of transports and fragments and any media files.                        *)
THEOREM ServerInvariance == ServerSpec => []ServerInv
<1>1. QED
  BY ServerInitInv, ServerStep, PTL DEF ServerSpec

(* No error path of ClassInit or of DtlsTransport's constructor leaks,     *)
(* whichever call fails, nor a media thread that has begun to play.        *)
THEOREM ServerErrorsRelease == ServerSpec => []ErrorsRelease
<1>1. ServerInv => ErrorsRelease
  <2> SUFFICES ASSUME ServerInv PROVE ErrorsRelease
    OBVIOUS
  <2>1. failed = "DtlsTransport" => TransportObjects(http.session) \cap Alive(heap) = {}
    <3> SUFFICES ASSUME failed = "DtlsTransport"
                 PROVE  TransportObjects(http.session) \cap Alive(heap) = {}
      OBVIOUS
    <3>1. Dead(heap, http.session)
      BY ZenonT(60) DEF ServerInv, FailedInv
    <3>2. QED
      BY <3>1, Unowned, ZenonT(60) DEF Dead
  <2>2. QED
    BY <2>1, ZenonT(60) DEF ServerInv, FailedInv, MediaInv, Remains, ErrorsRelease, SslCtx
<1>2. QED
  BY <1>1, ServerInvariance, PTL

(* A session that is kept has all its objects and would keep them through  *)
(* ClassDestroy; one that is not, has left nothing.                        *)
THEOREM ServerSessionsComplete == ServerSpec => []SessionsComplete
<1>1. ServerInv => SessionsComplete
  <2> SUFFICES ASSUME ServerInv PROVE SessionsComplete
    OBVIOUS
  <2>1. ServerTypeOK
    BY ZenonT(60) DEF ServerInv, MainType, HttpInv, TableInv, MediaInv, ServerTypeOK
  <2>2. ASSUME main = "serving"
        PROVE  LET needed == {Class("sslCtx"), Class("certificate"), Class("privateKey"),
                              Class("ecKey")}
               IN /\ needed \subseteq Alive(heap)
                  /\ \A t \in Kept \ {NoSession} :
                       needed \cup TransportObjects(t) \subseteq Alive(ClassDestroy(heap))
                  /\ \A t \in Transports \ Kept : TransportObjects(t) \cap Alive(heap) = {}
    <3>1. HeapMade(heap, Kept)
      BY <2>2, ZenonT(60) DEF ServerInv, StageInv
    <3>2. Kept \ {NoSession} \subseteq Kept \cap Transports
      BY ZenonT(60) DEF ServerInv, TableInv
    <3> DEFINE needed == {SslCtx, Certificate, PrivateKey, EcKey}
    <3>3. /\ needed \subseteq Alive(heap)
          /\ \A t \in Kept \cap Transports :
               needed \cup TransportObjects(t) \subseteq Alive(ClassDestroy(heap))
          /\ \A t \in Transports \ Kept : TransportObjects(t) \cap Alive(heap) = {}
      BY <3>1, MadeComplete, ZenonT(60)
    <3>4. needed = {Class("sslCtx"), Class("certificate"), Class("privateKey"), Class("ecKey")}
      BY ZenonT(60) DEF SslCtx, Certificate, PrivateKey, EcKey
    <3> HIDE DEF needed
    <3>5. QED
      BY <3>2, <3>3, <3>4, ZenonT(60)
  <2>3. QED
    BY <2>1, <2>2, ZenonT(60) DEF SessionsComplete
<1>2. QED
  BY <1>1, ServerInvariance, PTL

(* But for a constructor that could not get its BIOs, every object is      *)
(* freed once and none is used after it was.                               *)
THEOREM ServerFreedOnceElsewhere == ServerSpec => []FreedOnceElsewhere
<1>1. ServerInv => FreedOnceElsewhere
  <2> SUFFICES ASSUME ServerInv PROVE FreedOnceElsewhere
    OBVIOUS
  <2>1. failed = "DtlsTransport" => heap.misused \subseteq TransportObjects(http.session)
    BY ZenonT(60) DEF ServerInv, FailedInv, Dead
  <2>2. failed # "DtlsTransport" => heap.misused = {}
    BY ZenonT(60) DEF ServerInv, FailedInv
  <2>3. main = "serving" => ClassDestroy(heap).misused = {}
    <3>1. main = "serving" => HeapMade(heap, Kept)
      BY ZenonT(60) DEF ServerInv, StageInv
    <3>2. QED
      BY <3>1, MadeComplete, ZenonT(60)
  <2>4. QED
    BY <2>1, <2>2, <2>3, ZenonT(60) DEF FreedOnceElsewhere
<1>2. QED
  BY <1>1, ServerInvariance, PTL

(* The media thread loses no packet of the stream it plays, in any round   *)
(* of any file, as long as the filter takes them.                          *)
THEOREM ServerPacketsReleased == ServerSpec => []PacketsReleased
<1>1. ServerInv => PacketsReleased
  BY ZenonT(60) DEF ServerInv, MediaInv
<1>2. QED
  BY <1>1, ServerInvariance, PTL
=============================================================================
