---------------------------- MODULE SecureChannel ----------------------------
(***************************************************************************)
(* The life of a secured media path, as the users of WebRtcTransport may   *)
(* rely on it: a peer address is selected, a handshake runs, keys are      *)
(* agreed once, and the handshake's connection may end.  No phase is ever  *)
(* entered twice and the keys never change.  WebRtcTransport implements    *)
(* this module.                                                            *)
(***************************************************************************)
CONSTANTS Keys, NoKey

VARIABLES phase, key

channelVars == <<phase, key>>

ChannelInit == phase = "idle" /\ key = NoKey

Select == phase = "idle" /\ phase' = "securing" /\ UNCHANGED key

Secure ==
  /\ phase = "securing" /\ phase' = "secured"
  /\ key' \in Keys

End == phase \in {"securing", "secured"} /\ phase' = "over" /\ UNCHANGED key

ChannelNext == Select \/ Secure \/ End

ChannelSpec == ChannelInit /\ [][ChannelNext]_channelVars
=============================================================================
