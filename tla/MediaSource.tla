----------------------------- MODULE MediaSource -----------------------------
(***************************************************************************)
(* The media thread of example/rtp_src_example.cc (H2642Rtp): it opens a   *)
(* file, finds its first video stream, and plays it to the RTP muxer, over *)
(* and over.  FFmpeg is external: its calls may fail, the ones whose       *)
(* result the thread ignores included.  What the muxer's output becomes    *)
(* (WriteRtpCallback) is modelled in SessionThreads.                       *)
(***************************************************************************)
EXTENDS Naturals, Sequences

CONSTANT Files      \* media files: the kinds of their streams, the packets' stream indexes

ASSUME FilesAssumption ==
  \A f \in Files :
    /\ f.streams \in Seq({"video", "audio"})
    /\ f.packets \in Seq(DOMAIN f.streams) /\ f.packets # <<>>

VARIABLES
  file,     \* the file that ifmt_ctx reads
  media     \* the thread: its place, the next packet, and what it holds

(* pkt without contents; otherwise the index of their stream. *)
Blank == 0

HasVideo == \E k \in DOMAIN file.streams : file.streams[k] = "video"

(* The loop over the streams stops at the first video stream. *)
in_stream_index ==
  CHOOSE k \in DOMAIN file.streams :
    /\ file.streams[k] = "video"
    /\ \A j \in 1 .. k - 1 : file.streams[j] # "video"

MediaInit ==
  /\ file \in Files
  /\ media = [at |-> "start", next |-> 1, out_streams |-> 0, header |-> FALSE, held |-> {},
              pkt |-> Blank, lost |-> {}, refused |-> FALSE]

----------------------------------------------------------------------------
(* Opening.  failing is the place of the call that fails: av_malloc,       *)
(* avio_alloc_context, av_packet_alloc, avformat_open_input,               *)
(* avformat_find_stream_info, avformat_alloc_output_context2,              *)
(* avformat_new_stream, avcodec_parameters_copy, avformat_write_header;    *)
(* 10 when none does.                                                      *)

(* What has been allocated when a call fails. *)
Allocated(failing, filter) ==
  (IF filter = "made" THEN {"abs_ctx"} ELSE {})
    \cup (IF failing > 1 THEN {"avio_ctx_buffer"} ELSE {})
    \cup (IF failing > 2 THEN {"avio_ctx"} ELSE {})
    \cup (IF failing > 3 THEN {"pkt"} ELSE {})
    \cup (IF failing > 4 THEN {"ifmt_ctx"} ELSE {})
    \cup (IF failing > 6 THEN {"ofmt_ctx"} ELSE {})

(* end: releases the packet, the contexts and the filter; the I/O context  *)
(* and its buffer only as ofmt_ctx->pb.                                    *)
AtEnd(held, pb) == IF pb THEN {} ELSE held \cap {"avio_ctx_buffer", "avio_ctx"}

(* avio_closep is for contexts that avio_open made: it takes the opaque    *)
(* pointer, here the session factory, for FFmpeg's own and closes it.  The *)
(* thread may or may not survive that.                                     *)
Ends(pb) == IF pb THEN {"done", "crashed"} ELSE {"done"}

(* avformat_new_stream and avcodec_parameters_copy are called for a video  *)
(* stream only, and avformat_write_header refuses to write no streams.     *)
OpenOutcomes ==
  {f \in 1 .. 10 : f \in {7, 8, 10} => HasVideo}

(* h264_mp4toannexb may be unknown to FFmpeg, or not be allocated; neither *)
(* result is looked at, so that av_bsf_alloc, or the access to             *)
(* abs_ctx->par_in once a video stream is found, dereferences NULL.        *)
FilterOutcomes == {"made", "unknown", "unallocated"}

FilterCrashes(filter, failing) ==
  filter = "unknown" \/ (filter = "unallocated" /\ HasVideo /\ failing > 8)

(* A packet that cannot be allocated returns past the cleanup. *)
Open ==
  /\ media.at = "start"
  /\ \E failing \in OpenOutcomes, filter \in FilterOutcomes :
       IF FilterCrashes(filter, failing) THEN media' = [media EXCEPT !.at = "crashed"]
       ELSE \E end \in Ends(failing = 9) :
              media' = [media EXCEPT
                !.at = IF failing = 10 THEN "read" ELSE end,
                !.out_streams = IF HasVideo /\ failing > 7 THEN 1 ELSE 0,
                !.header = failing = 10,
                !.held = IF failing \in {3, 10} THEN Allocated(failing, filter)
                         ELSE AtEnd(Allocated(failing, filter), failing = 9)]
  /\ UNCHANGED file

----------------------------------------------------------------------------
(* Playing.  Nothing calls av_packet_unref: contents that are overwritten  *)
(* are lost.                                                               *)

Overwrite(m, contents) ==
  [m EXCEPT !.pkt = contents, !.lost = IF m.pkt = Blank THEN @ ELSE @ \cup {m.pkt}]

(* av_read_frame fills pkt; packets of other streams are skipped. *)
ReadFrame ==
  /\ media.at = "read" /\ media.next <= Len(file.packets)
  /\ LET k == file.packets[media.next]
     IN media' = [Overwrite(media, k) EXCEPT
                    !.next = @ + 1, !.at = IF k = in_stream_index THEN "write" ELSE "read"]
  /\ UNCHANGED file

(* Mutant: the streams are not sought. *)
Rewind_NoSeek(sought) == media.at = "read" /\ UNCHANGED <<file, media>>

(* At the end of the file, or when a read fails, every stream is sought to *)
(* its start; whether that worked is not looked at.  A failed read leaves  *)
(* pkt as it is or makes it blank.                                         *)
Rewind(sought) ==
  /\ media.at = "read"
  /\ \E m \in {media, Overwrite(media, Blank)} :
       media' = [m EXCEPT !.next = IF sought THEN 1 ELSE @]
  /\ UNCHANGED file

(* av_bsf_send_packet takes the contents, or refuses and leaves them;      *)
(* av_bsf_receive_packet overwrites pkt, or gives nothing and leaves it.   *)
Filter(m, sent, received) ==
  IF sent THEN [m EXCEPT !.pkt = IF received THEN @ ELSE Blank]
  ELSE [(IF received THEN Overwrite(m, m.pkt) ELSE m) EXCEPT !.refused = TRUE]

(* Mutant: av_write_frame, which leaves the contents to the caller. *)
av_interleaved_write_frame_Keeps(contents) == contents

(* The contents of pkt after the call, which owns them even if it fails. *)
av_interleaved_write_frame(contents) == Blank

(* pkt keeps the stream index of the input, and the muxer refuses an index *)
(* that is none of its own: with the video stream behind another one, no   *)
(* frame is accepted (a blank packet has the first index).                 *)
WriteFrame ==
  /\ media.at = "write"
  /\ \E sent, received \in BOOLEAN :
       LET m == Filter(media, sent, received)
       IN /\ m.pkt <= m.out_streams
          /\ media' = [m EXCEPT !.at = "read", !.pkt = av_interleaved_write_frame(@)]
  /\ UNCHANGED file

(* A frame that cannot be muxed ends the thread. *)
WriteFails ==
  /\ media.at = "write"
  /\ \E sent, received \in BOOLEAN, end \in Ends(TRUE) :
       media' = [Filter(media, sent, received) EXCEPT
                   !.at = end, !.held = AtEnd(@, TRUE),
                   !.pkt = av_interleaved_write_frame(@)]
  /\ UNCHANGED file

MediaNext == Open \/ ReadFrame \/ (\E sought \in BOOLEAN : Rewind(sought)) \/ WriteFrame \/ WriteFails
=============================================================================
