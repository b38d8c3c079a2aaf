------------------------------- MODULE IceLite -------------------------------
(***************************************************************************)
(* What an ICE-Lite agent promises about credentials, whatever its         *)
(* representation.  There is a current pair <<username, password>> and,    *)
(* after a restart and until the peer first uses the new pair, the pair in *)
(* force before.  A request is granted only under one of these, the reply  *)
(* is signed with the password the request used, and the first address     *)
(* granted is nominated for good.  IceServer implements this module.       *)
(***************************************************************************)
CONSTANTS Pairs, Addresses

VARIABLES
  current,    \* the pair in force
  previous,   \* the pair replaced by the last restart, in a set of at most one
  nominated,  \* the address nominated, in a set of at most one
  answer      \* reply to the last request: its pair, the code (0 for no
              \* reply), and the pair that signs the reply

NoReply == 0
Success == 200
BadRequest == 400
Unauthorized == 401

abstractVars == <<current, previous, nominated, answer>>

AbstractInit ==
  /\ current \in Pairs
  /\ previous = {}
  /\ nominated = {}
  /\ answer.code = NoReply

(* A restart puts a new pair in force. *)
Restart ==
  /\ current' \in Pairs
  /\ previous' = {current}
  /\ answer'.code = NoReply
  /\ UNCHANGED nominated

(* A request under a pair in force is granted. *)
Grant ==
  /\ answer'.code = Success
  /\ answer'.pair \in {current} \cup previous
  /\ answer'.signedBy = answer'.pair[2]
  /\ \E a \in Addresses : nominated' = IF nominated = {} THEN {a} ELSE nominated
  /\ previous' = IF answer'.pair = current THEN {} ELSE previous
  /\ UNCHANGED current

(* Anything else changes nothing, and 401 blames the credentials only when *)
(* they really are not in force.                                           *)
Refuse ==
  /\ answer'.code \in {NoReply, BadRequest, Unauthorized}
  /\ answer'.code = Unauthorized => answer'.pair \notin {current} \cup previous
  /\ UNCHANGED <<current, previous, nominated>>

AbstractNext == Restart \/ Grant \/ Refuse

AbstractSpec == AbstractInit /\ [][AbstractNext]_abstractVars
=============================================================================
