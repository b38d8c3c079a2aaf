-------------------------- MODULE MCSessionThreads ---------------------------
EXTENDS SessionThreads

MCPeers == {"p1", "p2"}

(* Two sessions share an address, and so a connection; one of them is also *)
(* contacted from a second.                                                *)
MCSessions == {"s1", "s2"}
MCSharedAddress == {<<"p1", "s1">>, <<"p1", "s2">>, <<"p2", "s1">>}

(* One session contacted from two addresses. *)
MCOneSession == {"s1"}
MCTwoAddresses == {<<"p1", "s1">>, <<"p2", "s1">>}
=============================================================================
