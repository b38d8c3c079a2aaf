----------------------------- MODULE StunStatics -----------------------------
(***************************************************************************)
(* Binding requests handled at the same time by several I/O loops, step by *)
(* step in what they share: the HMAC context and its result in             *)
(* Utils::Crypto (common/crypto.cc), which CheckAuthentication and         *)
(* Serialize use (rtc/stun_packet.cc), and StunSerializeBuffer, in which   *)
(* ProcessStunPacket builds every response (rtc/ice_server.cc).  None of   *)
(* them is locked.  A session's packets are handled by one loop, the       *)
(* sessions of two loops at the same time.  (A race inside OpenSSL may     *)
(* also crash the process; the model goes on.)                             *)
(***************************************************************************)
EXTENDS Naturals

CONSTANTS
  Sessions,
  Loops,
  Stranger      \* a password that no session has

ASSUME StrangerAssumption == Stranger \notin Sessions

VARIABLES
  loop,         \* the loop of each session
  hmacSha1Ctx, hmacSha1Buffer, StunSerializeBuffer,
  handler       \* what each loop is doing

staticsVars == <<loop, hmacSha1Ctx, hmacSha1Buffer, StunSerializeBuffer, handler>>

(* A request that comes to the HMAC is its session and the password of its *)
(* MESSAGE-INTEGRITY; a session stands for its own password.  The bytes    *)
(* under the HMAC are the message without the attribute.                   *)
Requests == [session : Sessions, key : Sessions \cup {Stranger}]

Empty == [kind |-> "none", session |-> Stranger]
Torn == [kind |-> "torn", session |-> Stranger]

Message(kind, session) == [kind |-> kind, session |-> session]

Messages == [kind : {"request", "success", "error"}, session : Sessions] \cup {Empty, Torn}

Digest(key, message) == [key |-> key, message |-> message]

NoDigest == Digest(Stranger, Empty)

(* The stages of a handler, in order. *)
Stages ==
  {"idle", "check init", "check update", "check final", "compare",
   "build", "sign init", "sign update", "sign final", "attach", "send"}

IdleHandler ==
  [at |-> "idle", session |-> Stranger, key |-> Stranger, alone |-> TRUE, accepted |-> FALSE,
   reply |-> Empty]

StaticsInit ==
  /\ loop \in [Sessions -> Loops]
  /\ hmacSha1Ctx = NoDigest /\ hmacSha1Buffer = NoDigest
  /\ StunSerializeBuffer = [message |-> Empty, integrity |-> NoDigest]
  /\ handler = [l \in Loops |-> IdleHandler]

----------------------------------------------------------------------------
(* A race on a static: while another handler is under way, what is read or *)
(* written at the same time may be neither the one's nor the other's.      *)
Busy(l) == \E k \in Loops \ {l} : handler[k].at # "idle"

MayTear(l, message) == IF Busy(l) THEN {message, Torn} ELSE {message}

(* A step of loop l: it moves on, and the other handlers that are under    *)
(* way have not been alone.  alone is a history variable.                  *)
Advance(l, at, changes) ==
  handler' = [k \in Loops |->
    IF k = l THEN [changes EXCEPT !.at = at]
    ELSE IF handler[k].at # "idle" THEN [handler[k] EXCEPT !.alone = FALSE]
    ELSE handler[k]]

At(l, stage) == handler[l].at = stage

Receive(l) ==
  /\ At(l, "idle")
  /\ \E r \in Requests :
       /\ loop[r.session] = l
       /\ Advance(l, "check init",
                  [IdleHandler EXCEPT !.session = r.session, !.key = r.key])
  /\ UNCHANGED <<loop, hmacSha1Ctx, hmacSha1Buffer, StunSerializeBuffer>>

(* A request that is refused before the HMAC: 400 for another method or a  *)
(* missing attribute, 401 for another's username.  Its reply is built and  *)
(* sent like any other.                                                    *)
Refuse(l) ==
  /\ At(l, "idle")
  /\ \E s \in Sessions :
       /\ loop[s] = l
       /\ Advance(l, "build", [IdleHandler EXCEPT !.session = s, !.reply = Message("error", s)])
  /\ UNCHANGED <<loop, hmacSha1Ctx, hmacSha1Buffer, StunSerializeBuffer>>

----------------------------------------------------------------------------
(* GetHmacShA1, for the check and for the signature.                       *)

(* Mutant: the context is initialised on its first use only. *)
HMAC_Init_ex_Once(key) ==
  IF hmacSha1Ctx = NoDigest THEN Digest(key, Empty) ELSE hmacSha1Ctx

(* Whatever the context holds, it starts again with the key. *)
HMAC_Init_ex(key) == Digest(key, Empty)

(* More data in a context that has some make a digest of neither. *)
HMAC_Update(ctx, message) ==
  [ctx EXCEPT !.message = IF ctx.message = Empty THEN message ELSE Torn]

Init(l, stage, next) ==
  /\ At(l, stage)
  /\ hmacSha1Ctx' = HMAC_Init_ex(handler[l].session)
  /\ Advance(l, next, handler[l])
  /\ UNCHANGED <<loop, hmacSha1Buffer, StunSerializeBuffer>>

Update(l, stage, next, message) ==
  /\ At(l, stage)
  /\ \E m \in MayTear(l, message) :
       /\ hmacSha1Ctx' = HMAC_Update(hmacSha1Ctx, m)
       /\ Advance(l, next, [handler[l] EXCEPT !.alone = @ /\ m = message])
  /\ UNCHANGED <<loop, hmacSha1Buffer, StunSerializeBuffer>>

(* HMAC_Final leaves a context that needs a new HMAC_Init_ex. *)
Final(l, stage, next) ==
  /\ At(l, stage)
  /\ \E m \in MayTear(l, hmacSha1Ctx.message) :
       /\ hmacSha1Buffer' = Digest(hmacSha1Ctx.key, m)
       /\ Advance(l, next, [handler[l] EXCEPT !.alone = @ /\ m = hmacSha1Ctx.message])
  /\ hmacSha1Ctx' = Digest(hmacSha1Ctx.key, Torn)
  /\ UNCHANGED <<loop, StunSerializeBuffer>>

----------------------------------------------------------------------------
(* CheckAuthentication's comparison: the request's own digest.             *)

(* Mutant: the memcmp leaves out the digest's key. *)
Matches_AnyKey(l) == hmacSha1Buffer.message = Message("request", handler[l].session)

Matches(l) ==
  hmacSha1Buffer = Digest(handler[l].key, Message("request", handler[l].session))

Compare(l) ==
  /\ At(l, "compare")
  /\ LET accepted == Matches(l)
     IN Advance(l, "build",
          [handler[l] EXCEPT
            !.accepted = accepted,
            !.reply = Message(IF accepted THEN "success" ELSE "error", handler[l].session)])
  /\ UNCHANGED <<loop, hmacSha1Ctx, hmacSha1Buffer, StunSerializeBuffer>>

(* Serialize: header and attributes, then the signature of a success. *)
Build(l) ==
  /\ At(l, "build")
  /\ StunSerializeBuffer' = [message |-> handler[l].reply, integrity |-> NoDigest]
  /\ Advance(l, IF handler[l].accepted THEN "sign init" ELSE "send", handler[l])
  /\ UNCHANGED <<loop, hmacSha1Ctx, hmacSha1Buffer>>

(* The digest goes to the end of the message. *)
Attach(l) ==
  /\ At(l, "attach")
  /\ StunSerializeBuffer' = [StunSerializeBuffer EXCEPT !.integrity = hmacSha1Buffer]
  /\ Advance(l, "send", handler[l])
  /\ UNCHANGED <<loop, hmacSha1Ctx, hmacSha1Buffer>>

(* OnIceServerSendStunPacket writes the buffer to the socket. *)
Send(l) ==
  /\ At(l, "send")
  /\ Advance(l, "idle", IdleHandler)
  /\ UNCHANGED <<loop, hmacSha1Ctx, hmacSha1Buffer, StunSerializeBuffer>>

Handle(l) ==
  \/ Init(l, "check init", "check update")
  \/ Update(l, "check update", "check final", Message("request", handler[l].session))
  \/ Final(l, "check final", "compare")
  \/ Compare(l)
  \/ Build(l)
  \/ Init(l, "sign init", "sign update")
  \/ Update(l, "sign update", "sign final", StunSerializeBuffer.message)
  \/ Final(l, "sign final", "attach")
  \/ Attach(l)
  \/ Send(l)

StaticsNext == \E l \in Loops : Receive(l) \/ Refuse(l) \/ Handle(l)

StaticsSpec == StaticsInit /\ [][StaticsNext]_staticsVars

----------------------------------------------------------------------------
(* Properties.                                                             *)

Digests == [key : Sessions \cup {Stranger}, message : Messages]

Handlers ==
  [at : Stages, session : Sessions \cup {Stranger}, key : Sessions \cup {Stranger},
   alone : BOOLEAN, accepted : BOOLEAN, reply : Messages]

(* Type invariant. *)
StaticsTypeOK ==
  /\ loop \in [Sessions -> Loops]
  /\ hmacSha1Ctx \in Digests /\ hmacSha1Buffer \in Digests
  /\ StunSerializeBuffer \in [message : Messages, integrity : Digests]
  /\ handler \in [Loops -> Handlers]

(* What the handler of a request owes its peer. *)
Owed(h) ==
  IF h.key = h.session
  THEN [message |-> Message("success", h.session),
        integrity |-> Digest(h.session, Message("success", h.session))]
  ELSE [message |-> Message("error", h.session), integrity |-> NoDigest]

(* A handler during which no other loop took a step, nor raced with it,    *)
(* answers its request exactly, whatever earlier overlaps left in the      *)
(* statics; in particular every handler does when the sessions share one   *)
(* loop.                                                                   *)
AloneIsExact ==
  \A l \in Loops :
    /\ At(l, "send") /\ handler[l].alone => StunSerializeBuffer = Owed(handler[l])
    /\ (\A s, t \in Sessions : loop[s] = loop[t]) => handler[l].alone

(* Even when handlers overlap, a request is accepted only if its integrity *)
(* was computed over its own bytes with the password of some session: the  *)
(* race refuses good requests, and sends one session's response on         *)
(* another's socket, but accepts no request that nobody signed.            *)
AcceptedWasSigned ==
  \A l \in Loops : handler[l].accepted => handler[l].key \in Sessions
=============================================================================
