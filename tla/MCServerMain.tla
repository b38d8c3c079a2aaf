---------------------------- MODULE MCServerMain -----------------------------
(* Three sessions that draw two fragments; a file whose video comes first, *)
(* one that starts with audio and one without video.                       *)
EXTENDS ServerMain

MCFiles ==
  {[streams |-> <<"video", "audio">>, packets |-> <<2, 1, 2>>],
   [streams |-> <<"audio", "video">>, packets |-> <<1, 2>>],
   [streams |-> <<"audio">>, packets |-> <<1>>]}
=============================================================================
