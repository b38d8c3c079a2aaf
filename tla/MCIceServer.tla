----------------------------- MODULE MCIceServer -----------------------------
(* Three username fragments, so that a third restart can meet credentials  *)
(* two generations old; two passwords and two peer addresses.              *)
EXTENDS IceServer
MCUfrags == {"u1", "u2", "u3"}
MCPasswords == {"p1", "p2"}
MCTuples == {"t1", "t2"}
=============================================================================
