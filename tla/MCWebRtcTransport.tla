-------------------------- MODULE MCWebRtcTransport --------------------------
(* One session: one username fragment, the session's password and a wrong  *)
(* one, and two peer addresses.                                            *)
EXTENDS WebRtcTransport
MCUfrags == {"u1"}
MCPasswords == {"p1", "p2"}
MCTuples == {"t1", "t2"}
=============================================================================
