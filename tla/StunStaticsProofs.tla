-------------------------- MODULE StunStaticsProofs --------------------------
(***************************************************************************)
(* For every number of I/O loops and sessions, what the requests handled   *)
(* through the statics of StunStatics are owed.                            *)
(***************************************************************************)
EXTENDS StunStatics, TLAPS

Hashing == {"check update", "check final", "sign update", "sign final"}

Signing == {"sign init", "sign update", "sign final", "attach"}

(* A handler works for a session of its own loop. *)
OwnLoop ==
  \A l \in Loops : ~At(l, "idle") => handler[l].session \in Sessions /\ loop[handler[l].session] = l

(* Once a handler uses the context it holds a session's key, and so does   *)
(* every digest that has been computed.                                    *)
KeysAreSessions ==
  /\ (\E l \in Loops : handler[l].at \in Hashing) => hmacSha1Ctx.key \in Sessions
  /\ hmacSha1Buffer.message # Empty => hmacSha1Buffer.key \in Sessions

(* What a handler that has been alone finds in the statics at each stage. *)
Exact(h) ==
  LET request == Message("request", h.session)
      success == Message("success", h.session)
  IN /\ h.at = "check update" => hmacSha1Ctx = Digest(h.session, Empty)
     /\ h.at = "check final" => hmacSha1Ctx = Digest(h.session, request)
     /\ h.at = "compare" => hmacSha1Buffer = Digest(h.session, request)
     /\ h.at = "build" \/ h.at \in Signing => h.accepted = (h.key = h.session)
     /\ h.at = "build" => h.reply = Message(IF h.accepted THEN "success" ELSE "error", h.session)
     /\ h.at \in Signing =>
          h.accepted /\ StunSerializeBuffer = [message |-> success, integrity |-> NoDigest]
     /\ h.at = "sign update" => hmacSha1Ctx = Digest(h.session, Empty)
     /\ h.at = "sign final" => hmacSha1Ctx = Digest(h.session, success)
     /\ h.at = "attach" => hmacSha1Buffer = Digest(h.session, success)
     /\ h.at = "send" => StunSerializeBuffer = Owed(h)

AloneInv == \A l \in Loops : handler[l].alone => Exact(handler[l])

SharedLoopInv == (\A s, t \in Sessions : loop[s] = loop[t]) => \A l \in Loops : handler[l].alone

StaticsInv ==
  StaticsTypeOK /\ OwnLoop /\ KeysAreSessions /\ AcceptedWasSigned /\ AloneInv /\ SharedLoopInv

----------------------------------------------------------------------------
(* What a step of loop l does to the handlers: its own takes the new       *)
(* record, an idle one keeps its own, every other one is no longer alone.  *)
LEMMA AdvanceLemma ==
  ASSUME handler \in [Loops -> Handlers],
         NEW l \in Loops, NEW at \in Stages, NEW c \in Handlers, Advance(l, at, c)
  PROVE  /\ handler' \in [Loops -> Handlers]
         /\ handler'[l] = [c EXCEPT !.at = at]
         /\ \A k \in Loops \ {l} :
              /\ handler[k].at = "idle" => handler'[k] = handler[k]
              /\ handler[k].at # "idle" => handler'[k] = [handler[k] EXCEPT !.alone = FALSE]
<1>1. [c EXCEPT !.at = at] \in Handlers
  BY DEF Handlers
<1>2. \A k \in Loops : [handler[k] EXCEPT !.alone = FALSE] \in Handlers
  BY DEF Handlers
<1>3. QED
  BY <1>1, <1>2 DEF Advance

(* The same, field by field. *)
LEMMA FieldsLemma ==
  ASSUME handler \in [Loops -> Handlers],
         NEW l \in Loops, NEW at \in Stages, NEW c \in Handlers, Advance(l, at, c)
  PROVE  /\ handler'[l].at = at /\ handler'[l].session = c.session /\ handler'[l].key = c.key
         /\ handler'[l].alone = c.alone /\ handler'[l].accepted = c.accepted
         /\ handler'[l].reply = c.reply
         /\ \A k \in Loops \ {l} : handler'[k].at = handler[k].at
<1>1. /\ handler'[l] = [c EXCEPT !.at = at]
      /\ \A k \in Loops \ {l} :
           /\ handler[k].at = "idle" => handler'[k] = handler[k]
           /\ handler[k].at # "idle" => handler'[k] = [handler[k] EXCEPT !.alone = FALSE]
  BY AdvanceLemma
<1>2. QED
  BY <1>1, ZenonT(60) DEF Handlers

(* The parts of the invariant that speak of the handlers, for any step of  *)
(* loop l on behalf of a session of its own: what remains to be shown is   *)
(* what the new record says of itself.                                     *)
LEMMA FrameLemma ==
  ASSUME StaticsInv, loop' = loop,
         NEW l \in Loops, NEW at \in Stages, NEW c \in Handlers, Advance(l, at, c),
         NEW s \in Sessions, loop[s] = l,
         at = "idle" \/ c.session = s,
         c.accepted => c.key \in Sessions,
         handler[l].alone /\ ~Busy(l) => c.alone,
         c.alone => Exact(handler[l])'
  PROVE  /\ handler' \in [Loops -> Handlers]
         /\ OwnLoop' /\ AcceptedWasSigned' /\ AloneInv' /\ SharedLoopInv'
<1> USE DEF StaticsInv, StaticsTypeOK
<1>1. /\ handler' \in [Loops -> Handlers]
      /\ handler'[l] = [c EXCEPT !.at = at]
      /\ \A k \in Loops \ {l} :
           /\ handler[k].at = "idle" => handler'[k] = handler[k]
           /\ handler[k].at # "idle" => handler'[k] = [handler[k] EXCEPT !.alone = FALSE]
  BY AdvanceLemma
<1>2. /\ handler'[l].at = at /\ handler'[l].session = c.session /\ handler'[l].key = c.key
      /\ handler'[l].accepted = c.accepted /\ handler'[l].alone = c.alone
  BY <1>1 DEF Handlers
<1>3. \A k \in Loops \ {l} :
        /\ handler'[k].at = handler[k].at /\ handler'[k].session = handler[k].session
        /\ handler'[k].key = handler[k].key /\ handler'[k].accepted = handler[k].accepted
        /\ handler'[k].alone => handler[k].at = "idle"
        /\ handler[k].at = "idle" => handler'[k].alone = handler[k].alone
  BY <1>1 DEF Handlers, StaticsInv
<1>4. OwnLoop'
  BY <1>2, <1>3 DEF OwnLoop, At
<1>5. AcceptedWasSigned'
  BY <1>2, <1>3 DEF AcceptedWasSigned
<1>6. AloneInv'
  <2> SUFFICES ASSUME NEW k \in Loops, handler'[k].alone
               PROVE  Exact(handler[k])'
    BY DEF AloneInv
  <2>1. CASE k = l
    BY <2>1, <1>2, SMTT(60)
  <2>2. CASE k # l
    <3>1. handler'[k].at = "idle"
      BY <2>2, <1>3
    <3>2. QED
      BY <3>1 DEF Exact, Signing
  <2>3. QED
    BY <2>1, <2>2
<1>7. SharedLoopInv'
  <2> SUFFICES ASSUME \A t, u \in Sessions : loop[t] = loop[u]
               PROVE  \A k \in Loops : handler'[k].alone
    BY DEF SharedLoopInv
  <2>1. \A k \in Loops \ {l} : handler[k].at = "idle"
    BY DEF OwnLoop, At
  <2>2. \A k \in Loops : handler[k].alone
    BY DEF SharedLoopInv
  <2>3. ~Busy(l)
    BY <2>1 DEF Busy
  <2>4. QED
    BY <1>2, <1>3, <2>1, <2>2, <2>3
<1>8. QED
  BY <1>1, <1>4, <1>5, <1>6, <1>7

(* A request arrives on an idle loop. *)
LEMMA ReceiveStep ==
  ASSUME StaticsInv, NEW l \in Loops, Receive(l)
  PROVE  StaticsInv'
<1>1. PICK r \in Requests :
        /\ loop[r.session] = l
        /\ Advance(l, "check init", [IdleHandler EXCEPT !.session = r.session, !.key = r.key])
  BY DEF Receive
<1> DEFINE c == [IdleHandler EXCEPT !.session = r.session, !.key = r.key]
<1>2. /\ r.session \in Sessions /\ c \in Handlers
      /\ c.session = r.session /\ ~c.accepted /\ c.alone
  BY ZenonT(60) DEF Requests, Handlers, IdleHandler, Stages, Messages, Empty
<1>3. /\ UNCHANGED <<loop, hmacSha1Ctx, hmacSha1Buffer, StunSerializeBuffer>>
      /\ Advance(l, "check init", c)
  BY <1>1 DEF Receive
<1>4. "check init" \in Stages /\ handler \in [Loops -> Handlers]
  BY DEF Stages, StaticsInv, StaticsTypeOK
<1> HIDE DEF c
<1>5. /\ handler'[l].at = "check init"
      /\ \A k \in Loops \ {l} : handler'[k].at = handler[k].at
  BY <1>2, <1>3, <1>4, FieldsLemma, ZenonT(60)
<1>6. Exact(handler[l])'
  BY <1>5 DEF Exact, Signing
<1>7. /\ handler' \in [Loops -> Handlers]
      /\ OwnLoop' /\ AcceptedWasSigned' /\ AloneInv' /\ SharedLoopInv'
  BY <1>1, <1>2, <1>3, <1>4, <1>6, FrameLemma
<1>8. KeysAreSessions'
  BY <1>3, <1>5 DEF KeysAreSessions, Hashing, StaticsInv
<1>9. QED
  BY <1>3, <1>7, <1>8, ZenonT(60) DEF StaticsInv, StaticsTypeOK

(* A request is refused before the HMAC. *)
LEMMA RefuseStep ==
  ASSUME StaticsInv, NEW l \in Loops, Refuse(l)
  PROVE  StaticsInv'
<1>1. PICK s \in Sessions :
        /\ loop[s] = l
        /\ Advance(l, "build", [IdleHandler EXCEPT !.session = s, !.reply = Message("error", s)])
  BY DEF Refuse
<1> DEFINE c == [IdleHandler EXCEPT !.session = s, !.reply = Message("error", s)]
<1>2. /\ c \in Handlers /\ c.session = s /\ c.key = Stranger
      /\ c.accepted = FALSE /\ c.alone /\ c.reply = Message("error", s)
  <2>1. Message("error", s) \in Messages
    BY DEF Messages, Message
  <2>2. QED
    BY <2>1, ZenonT(60) DEF Handlers, IdleHandler, Stages
<1>3. /\ UNCHANGED <<loop, hmacSha1Ctx, hmacSha1Buffer, StunSerializeBuffer>>
      /\ Advance(l, "build", c)
  BY <1>1 DEF Refuse
<1>4. "build" \in Stages /\ handler \in [Loops -> Handlers]
  BY DEF Stages, StaticsInv, StaticsTypeOK
<1> HIDE DEF c
<1>5. /\ handler'[l].at = "build"
      /\ handler'[l].session = s /\ handler'[l].key = Stranger
      /\ handler'[l].accepted = FALSE /\ handler'[l].reply = Message("error", s)
      /\ \A k \in Loops \ {l} : handler'[k].at = handler[k].at
  BY <1>2, <1>3, <1>4, FieldsLemma, ZenonT(60)
<1>6. Exact(handler[l])'
  <2>1. handler'[l].key # handler'[l].session
    BY <1>5, StrangerAssumption
  <2>2. QED
    BY <1>5, <2>1 DEF Exact, Signing
<1>7. /\ handler' \in [Loops -> Handlers]
      /\ OwnLoop' /\ AcceptedWasSigned' /\ AloneInv' /\ SharedLoopInv'
  BY <1>1, <1>2, <1>3, <1>4, <1>6, FrameLemma
<1>8. KeysAreSessions'
  BY <1>3, <1>5 DEF KeysAreSessions, Hashing, StaticsInv
<1>9. QED
  BY <1>3, <1>7, <1>8, ZenonT(60) DEF StaticsInv, StaticsTypeOK

(* HMAC_Init_ex, for the check or for the signature. *)
LEMMA InitStep ==
  ASSUME StaticsInv, NEW l \in Loops, NEW stage, NEW next,
         \/ stage = "check init" /\ next = "check update"
         \/ stage = "sign init" /\ next = "sign update",
         Init(l, stage, next)
  PROVE  StaticsInv'
<1> DEFINE h == handler[l]
<1>1. /\ next \in Stages /\ next \in Hashing /\ stage # "idle"
      /\ \/ stage = "check init" /\ next = "check update"
         \/ stage = "sign init" /\ next = "sign update"
  BY DEF Stages, Hashing
<1>2. /\ handler \in [Loops -> Handlers] /\ h \in Handlers /\ h.at = stage
      /\ h.session \in Sessions /\ loop[h.session] = l
      /\ h.accepted => h.key \in Sessions
      /\ Advance(l, next, h)
      /\ UNCHANGED <<loop, hmacSha1Buffer, StunSerializeBuffer>>
  BY <1>1 DEF Init, At, OwnLoop, AcceptedWasSigned, StaticsInv, StaticsTypeOK
<1>3. hmacSha1Ctx' = Digest(h.session, Empty) /\ hmacSha1Ctx' \in Digests
  BY <1>2 DEF Init, HMAC_Init_ex, Digest, Digests, Messages
<1>4. h.alone => Exact(h)
  BY ZenonT(60) DEF AloneInv, StaticsInv
<1> HIDE DEF h
<1>5. /\ handler'[l].at = next /\ handler'[l].session = h.session /\ handler'[l].key = h.key
      /\ handler'[l].accepted = h.accepted
  BY <1>1, <1>2, FieldsLemma, ZenonT(60)
<1>6. h.alone => Exact(handler[l])'
  <2>1. CASE stage = "check init" /\ next = "check update"
    BY <2>1, <1>3, <1>5 DEF Exact, Signing
  <2>2. CASE stage = "sign init" /\ next = "sign update"
    BY <2>2, <1>2, <1>3, <1>4, <1>5 DEF Exact, Signing
  <2>3. QED
    BY <2>1, <2>2, <1>1
<1>7. handler[l].alone => h.alone
  BY DEF h
<1>8. /\ handler' \in [Loops -> Handlers]
      /\ OwnLoop' /\ AcceptedWasSigned' /\ AloneInv' /\ SharedLoopInv'
  BY <1>1, <1>2, <1>6, <1>7, FrameLemma, ZenonT(60)
<1>9. KeysAreSessions'
  BY <1>2, <1>3 DEF KeysAreSessions, Digest, StaticsInv
<1>10. QED
  BY <1>2, <1>3, <1>8, <1>9 DEF StaticsInv, StaticsTypeOK

(* A handler that is alone does not tear what it reads. *)
LEMMA TearLemma ==
  ASSUME NEW l \in Loops, NEW message \in Messages, NEW m \in MayTear(l, message)
  PROVE  m \in Messages /\ (~Busy(l) => m = message)
BY DEF MayTear, Messages

(* HMAC_Update, for the check or for the signature. *)
LEMMA UpdateStep ==
  ASSUME StaticsInv, NEW l \in Loops, NEW stage, NEW next, NEW message \in Messages,
         \/ /\ stage = "check update" /\ next = "check final"
            /\ message = Message("request", handler[l].session)
         \/ /\ stage = "sign update" /\ next = "sign final"
            /\ message = StunSerializeBuffer.message,
         Update(l, stage, next, message)
  PROVE  StaticsInv'
<1> DEFINE h == handler[l]
<1>1. next \in Stages /\ next \in Hashing /\ stage \in Hashing /\ stage # "idle"
  BY DEF Stages, Hashing
<1>2. PICK m \in MayTear(l, message) :
        /\ hmacSha1Ctx' = HMAC_Update(hmacSha1Ctx, m)
        /\ Advance(l, next, [h EXCEPT !.alone = @ /\ m = message])
  BY DEF Update
<1> DEFINE c == [h EXCEPT !.alone = @ /\ m = message]
<1>3. /\ handler \in [Loops -> Handlers] /\ h \in Handlers /\ h.at = stage
      /\ h.session \in Sessions /\ loop[h.session] = l
      /\ h.accepted => h.key \in Sessions
      /\ UNCHANGED <<loop, hmacSha1Buffer, StunSerializeBuffer>>
  BY <1>1 DEF Update, At, OwnLoop, AcceptedWasSigned, StaticsInv, StaticsTypeOK
<1>4. /\ c \in Handlers /\ c.session = h.session /\ c.key = h.key /\ c.accepted = h.accepted
      /\ c.alone <=> h.alone /\ m = message
  BY <1>3, ZenonT(60) DEF Handlers
<1>5. m \in Messages /\ (~Busy(l) => m = message)
  BY <1>2, TearLemma
<1>6. hmacSha1Ctx \in Digests /\ hmacSha1Ctx.key \in Sessions
  BY <1>1, <1>3 DEF KeysAreSessions, StaticsInv, StaticsTypeOK
<1>7. /\ hmacSha1Ctx' \in Digests /\ hmacSha1Ctx'.key \in Sessions
      /\ hmacSha1Ctx.message = Empty => hmacSha1Ctx' = Digest(hmacSha1Ctx.key, m)
  BY <1>2, <1>5, <1>6 DEF HMAC_Update, Digests, Digest, Messages
<1>8. h.alone => Exact(h)
  BY DEF AloneInv, StaticsInv
<1>9. handler[l].alone /\ ~Busy(l) => c.alone
  BY <1>4, <1>5
<1>10. Advance(l, next, c)
  BY <1>2
<1> HIDE DEF h, c
<1>11. /\ handler'[l].at = next /\ handler'[l].session = h.session /\ handler'[l].key = h.key
       /\ handler'[l].accepted = h.accepted
  <2>1. /\ handler \in [Loops -> Handlers] /\ next \in Stages /\ c \in Handlers
        /\ Advance(l, next, c)
    BY <1>1, <1>3, <1>4, <1>10
  <2>2. /\ handler'[l].at = next /\ handler'[l].session = c.session /\ handler'[l].key = c.key
        /\ handler'[l].accepted = c.accepted
    BY <2>1, FieldsLemma, ZenonT(60)
  <2>3. QED
    BY <2>2, <1>4, ZenonT(60)
<1>12. c.alone => Exact(handler[l])'
  <2> SUFFICES ASSUME c.alone
               PROVE  Exact(handler[l])'
    OBVIOUS
  <2>1. hmacSha1Ctx = Digest(h.session, Empty)
    BY <1>1, <1>3, <1>4, <1>8 DEF Exact
  <2>2. hmacSha1Ctx' = Digest(h.session, message)
    BY <2>1, <1>4, <1>7, ZenonT(60) DEF Digest
  <2>3. CASE stage = "check update"
    BY <2>2, <2>3, <1>11, ZenonT(60) DEF Exact, Signing, h
  <2>4. CASE stage = "sign update"
    <3>1. message = Message("success", h.session)
      <4>1. StunSerializeBuffer = [message |-> Message("success", h.session),
                                   integrity |-> NoDigest]
        BY <2>4, <1>3, <1>4, <1>8, ZenonT(60) DEF Exact, Signing
      <4>2. QED
        BY <2>4, <4>1
    <3>2. QED
      BY <2>2, <2>4, <3>1, <1>3, <1>4, <1>8, <1>11, ZenonT(60) DEF Exact, Signing
  <2>5. QED
    BY <2>3, <2>4
<1>13. /\ handler' \in [Loops -> Handlers]
       /\ OwnLoop' /\ AcceptedWasSigned' /\ AloneInv' /\ SharedLoopInv'
  BY <1>1, <1>3, <1>4, <1>9, <1>10, <1>12, FrameLemma, ZenonT(60)
<1>14. KeysAreSessions'
  BY <1>3, <1>7 DEF KeysAreSessions, StaticsInv
<1>15. QED
  BY <1>3, <1>7, <1>13, <1>14 DEF StaticsInv, StaticsTypeOK

(* HMAC_Final, for the check or for the signature. *)
LEMMA FinalStep ==
  ASSUME StaticsInv, NEW l \in Loops, NEW stage, NEW next,
         \/ stage = "check final" /\ next = "compare"
         \/ stage = "sign final" /\ next = "attach",
         Final(l, stage, next)
  PROVE  StaticsInv'
<1> DEFINE h == handler[l]
<1>1. /\ next \in Stages /\ next \notin Hashing /\ stage \in Hashing /\ stage # "idle"
      /\ \/ stage = "check final" /\ next = "compare"
         \/ stage = "sign final" /\ next = "attach"
  BY DEF Stages, Hashing
<1>2. PICK m \in MayTear(l, hmacSha1Ctx.message) :
        /\ hmacSha1Buffer' = Digest(hmacSha1Ctx.key, m)
        /\ Advance(l, next, [h EXCEPT !.alone = @ /\ m = hmacSha1Ctx.message])
  BY DEF Final
<1> DEFINE c == [h EXCEPT !.alone = @ /\ m = hmacSha1Ctx.message]
<1>3. /\ handler \in [Loops -> Handlers] /\ h \in Handlers /\ h.at = stage
      /\ h.session \in Sessions /\ loop[h.session] = l
      /\ h.accepted => h.key \in Sessions
      /\ hmacSha1Ctx' = Digest(hmacSha1Ctx.key, Torn)
      /\ UNCHANGED <<loop, StunSerializeBuffer>>
  BY <1>1 DEF Final, At, OwnLoop, AcceptedWasSigned, StaticsInv, StaticsTypeOK
<1>4. /\ c \in Handlers /\ c.session = h.session /\ c.key = h.key /\ c.accepted = h.accepted
      /\ c.alone <=> h.alone /\ m = hmacSha1Ctx.message
  BY <1>3, ZenonT(60) DEF Handlers
<1>5. /\ hmacSha1Ctx \in Digests /\ hmacSha1Ctx.key \in Sessions
      /\ hmacSha1Ctx.message \in Messages
  BY <1>1, <1>3 DEF KeysAreSessions, Digests, StaticsInv, StaticsTypeOK
<1>6. m \in Messages /\ (~Busy(l) => m = hmacSha1Ctx.message)
  BY <1>2, <1>5, TearLemma
<1>7. /\ hmacSha1Ctx' \in Digests /\ hmacSha1Ctx'.key \in Sessions
      /\ hmacSha1Buffer' \in Digests /\ hmacSha1Buffer'.key \in Sessions
  BY <1>2, <1>3, <1>5, <1>6 DEF Digests, Digest, Messages
<1>8. h.alone => Exact(h)
  BY DEF AloneInv, StaticsInv
<1>9. handler[l].alone /\ ~Busy(l) => c.alone
  BY <1>4, <1>6
<1>10. Advance(l, next, c)
  BY <1>2
<1> HIDE DEF h, c
<1>11. /\ handler'[l].at = next /\ handler'[l].session = h.session /\ handler'[l].key = h.key
       /\ handler'[l].accepted = h.accepted
  <2>1. /\ handler \in [Loops -> Handlers] /\ next \in Stages /\ c \in Handlers
        /\ Advance(l, next, c)
    BY <1>1, <1>3, <1>4, <1>10
  <2>2. /\ handler'[l].at = next /\ handler'[l].session = c.session /\ handler'[l].key = c.key
        /\ handler'[l].accepted = c.accepted
    BY <2>1, FieldsLemma, ZenonT(60)
  <2>3. QED
    BY <2>2, <1>4, ZenonT(60)
<1>12. c.alone => Exact(handler[l])'
  <2> SUFFICES ASSUME c.alone
               PROVE  Exact(handler[l])'
    OBVIOUS
  <2>1. hmacSha1Buffer' = hmacSha1Ctx
    BY <1>2, <1>4, <1>5 DEF Digest, Digests
  <2>2. CASE stage = "check final" /\ next = "compare"
    BY <2>1, <2>2, <1>3, <1>4, <1>8, <1>11, ZenonT(60) DEF Exact, Signing
  <2>3. CASE stage = "sign final" /\ next = "attach"
    BY <2>1, <2>3, <1>3, <1>4, <1>8, <1>11, ZenonT(60) DEF Exact, Signing
  <2>4. QED
    BY <2>2, <2>3, <1>1
<1>13. /\ handler' \in [Loops -> Handlers]
       /\ OwnLoop' /\ AcceptedWasSigned' /\ AloneInv' /\ SharedLoopInv'
  BY <1>1, <1>3, <1>4, <1>9, <1>10, <1>12, FrameLemma, ZenonT(60)
<1>14. KeysAreSessions'
  BY <1>7 DEF KeysAreSessions
<1>15. QED
  BY <1>3, <1>7, <1>13, <1>14 DEF StaticsInv, StaticsTypeOK

(* The comparison of the digests. *)
LEMMA CompareStep ==
  ASSUME StaticsInv, NEW l \in Loops, Compare(l)
  PROVE  StaticsInv'
<1> DEFINE h == handler[l]
           c == [h EXCEPT !.accepted = Matches(l),
                          !.reply = Message(IF Matches(l) THEN "success" ELSE "error", h.session)]
<1>1. "build" \in Stages /\ "build" \notin Hashing
  BY DEF Stages, Hashing
<1>2. /\ handler \in [Loops -> Handlers] /\ h \in Handlers /\ h.at = "compare"
      /\ h.session \in Sessions /\ loop[h.session] = l
      /\ Advance(l, "build", c)
      /\ UNCHANGED <<loop, hmacSha1Ctx, hmacSha1Buffer, StunSerializeBuffer>>
  BY DEF Compare, At, OwnLoop, StaticsInv, StaticsTypeOK
<1>3. /\ Matches(l) <=> hmacSha1Buffer = Digest(h.key, Message("request", h.session))
      /\ Matches(l) \in BOOLEAN
  BY DEF Matches
<1>4. Message(IF Matches(l) THEN "success" ELSE "error", h.session) \in Messages
  BY <1>2 DEF Message, Messages
<1>5. /\ c \in Handlers /\ c.session = h.session /\ c.key = h.key /\ c.alone = h.alone
      /\ c.accepted = Matches(l)
      /\ c.reply = Message(IF Matches(l) THEN "success" ELSE "error", h.session)
  BY <1>2, <1>3, <1>4, ZenonT(60) DEF Handlers
<1>6. Matches(l) => h.key \in Sessions
  <2> SUFFICES ASSUME Matches(l)
               PROVE  h.key \in Sessions
    OBVIOUS
  <2>1. hmacSha1Buffer.message = Message("request", h.session) /\ hmacSha1Buffer.key = h.key
    BY <1>3 DEF Digest
  <2>2. Message("request", h.session) # Empty
    BY DEF Message, Empty
  <2>3. QED
    BY <2>1, <2>2 DEF KeysAreSessions, StaticsInv
<1>7. h.alone => Exact(h)
  BY DEF AloneInv, StaticsInv
<1>8. handler[l].alone => c.alone
  BY <1>5
<1> HIDE DEF h, c
<1>9. /\ handler'[l].at = "build" /\ handler'[l].session = c.session /\ handler'[l].key = c.key
      /\ handler'[l].accepted = c.accepted /\ handler'[l].reply = c.reply
      /\ \A k \in Loops \ {l} : handler'[k].at = handler[k].at
  BY <1>1, <1>2, <1>5, FieldsLemma
<1>10. c.alone => Exact(handler[l])'
  <2> SUFFICES ASSUME c.alone
               PROVE  Exact(handler[l])'
    BY SMTT(60)
  <2>1. hmacSha1Buffer = Digest(h.session, Message("request", h.session))
    BY <1>2, <1>5, <1>7 DEF Exact
  <2>2. Matches(l) = (h.key = h.session)
    BY <2>1, <1>3 DEF Digest
  <2>3. /\ handler'[l].accepted = (handler'[l].key = handler'[l].session)
        /\ handler'[l].reply = Message(IF handler'[l].accepted THEN "success" ELSE "error",
                                       handler'[l].session)
    BY <2>2, <1>5, <1>9
  <2>4. QED
    BY <2>3, <1>9 DEF Exact, Signing
<1>11. /\ handler' \in [Loops -> Handlers]
       /\ OwnLoop' /\ AcceptedWasSigned' /\ AloneInv' /\ SharedLoopInv'
  BY <1>1, <1>2, <1>5, <1>6, <1>8, <1>10, FrameLemma
<1>12. KeysAreSessions'
  BY <1>1, <1>2, <1>9, SMTT(60) DEF KeysAreSessions, StaticsInv
<1>13. QED
  BY <1>2, <1>11, <1>12 DEF StaticsInv, StaticsTypeOK

(* The message is written to the buffer. *)
LEMMA BuildStep ==
  ASSUME StaticsInv, NEW l \in Loops, Build(l)
  PROVE  StaticsInv'
<1> DEFINE h == handler[l]
           next == IF h.accepted THEN "sign init" ELSE "send"
<1>1. next \in Stages /\ next \notin Hashing
  BY SMTT(60) DEF Stages, Hashing
<1>2. /\ handler \in [Loops -> Handlers] /\ h \in Handlers /\ h.at = "build"
      /\ h.session \in Sessions /\ loop[h.session] = l
      /\ h.accepted => h.key \in Sessions
      /\ Advance(l, next, h)
      /\ StunSerializeBuffer' = [message |-> h.reply, integrity |-> NoDigest]
      /\ UNCHANGED <<loop, hmacSha1Ctx, hmacSha1Buffer>>
  BY ZenonT(60) DEF Build, At, OwnLoop, AcceptedWasSigned, StaticsInv, StaticsTypeOK
<1>3. StunSerializeBuffer' \in [message : Messages, integrity : Digests]
  BY <1>2 DEF Handlers, NoDigest, Digest, Digests, Messages
<1>4. h.alone => Exact(h)
  BY DEF AloneInv, StaticsInv
<1>5. (h.accepted => next = "sign init") /\ (~h.accepted => next = "send")
  OBVIOUS
<1>6. handler[l].alone => h.alone
  BY SMTT(60)
<1> HIDE DEF h, next
<1>7. /\ handler'[l].at = next /\ handler'[l].session = h.session /\ handler'[l].key = h.key
      /\ handler'[l].accepted = h.accepted
      /\ \A k \in Loops \ {l} : handler'[k].at = handler[k].at
  BY <1>1, <1>2, FieldsLemma
<1>8. h.alone => Exact(handler[l])'
  <2> SUFFICES ASSUME h.alone
               PROVE  Exact(handler[l])'
    OBVIOUS
  <2>1. /\ h.accepted = (h.key = h.session)
        /\ h.reply = Message(IF h.accepted THEN "success" ELSE "error", h.session)
    BY <1>2, <1>4, SMTT(60) DEF Exact
  <2>2. CASE h.accepted
    BY <2>1, <2>2, <1>2, <1>5, <1>7, ZenonT(60) DEF Exact, Signing
  <2>3. CASE ~h.accepted
    BY <2>1, <2>3, <1>2, <1>5, <1>7 DEF Exact, Signing, Owed
  <2>4. QED
    BY <2>2, <2>3, SMTT(60)
<1>9. /\ handler' \in [Loops -> Handlers]
      /\ OwnLoop' /\ AcceptedWasSigned' /\ AloneInv' /\ SharedLoopInv'
  BY <1>1, <1>2, <1>6, <1>8, FrameLemma
<1>10. KeysAreSessions'
  BY <1>1, <1>2, <1>7 DEF KeysAreSessions, StaticsInv
<1>11. QED
  BY <1>2, <1>3, <1>9, <1>10 DEF StaticsInv, StaticsTypeOK

(* The signature is attached to the message. *)
LEMMA AttachStep ==
  ASSUME StaticsInv, NEW l \in Loops, Attach(l)
  PROVE  StaticsInv'
<1> DEFINE h == handler[l]
<1>1. "send" \in Stages /\ "send" \notin Hashing
  BY DEF Stages, Hashing
<1>2. /\ handler \in [Loops -> Handlers] /\ h \in Handlers /\ h.at = "attach"
      /\ h.session \in Sessions /\ loop[h.session] = l
      /\ h.accepted => h.key \in Sessions
      /\ Advance(l, "send", h)
      /\ StunSerializeBuffer' = [StunSerializeBuffer EXCEPT !.integrity = hmacSha1Buffer]
      /\ UNCHANGED <<loop, hmacSha1Ctx, hmacSha1Buffer>>
  BY DEF Attach, At, OwnLoop, AcceptedWasSigned, StaticsInv, StaticsTypeOK
<1>3. StunSerializeBuffer' \in [message : Messages, integrity : Digests]
  BY <1>2 DEF StaticsInv, StaticsTypeOK
<1>4. h.alone => Exact(h)
  BY DEF AloneInv, StaticsInv
<1>5. handler[l].alone => h.alone
  OBVIOUS
<1> HIDE DEF h
<1>6. /\ handler'[l].at = "send" /\ handler'[l].session = h.session /\ handler'[l].key = h.key
      /\ \A k \in Loops \ {l} : handler'[k].at = handler[k].at
  BY <1>1, <1>2, FieldsLemma
<1>7. h.alone => Exact(handler[l])'
  <2> SUFFICES ASSUME h.alone
               PROVE  Exact(handler[l])'
    OBVIOUS
  <2>1. /\ h.accepted /\ h.accepted = (h.key = h.session)
        /\ StunSerializeBuffer = [message |-> Message("success", h.session),
                                  integrity |-> NoDigest]
        /\ hmacSha1Buffer = Digest(h.session, Message("success", h.session))
    BY <1>2, <1>4 DEF Exact, Signing
  <2>2. StunSerializeBuffer' = [message |-> Message("success", h.session),
                                integrity |-> Digest(h.session, Message("success", h.session))]
    BY <2>1, <1>2, SMTT(60)
  <2>3. StunSerializeBuffer' = Owed(handler'[l])
    BY <2>1, <2>2, <1>6 DEF Owed
  <2>4. QED
    BY <2>3, <1>6 DEF Exact, Signing
<1>8. /\ handler' \in [Loops -> Handlers]
      /\ OwnLoop' /\ AcceptedWasSigned' /\ AloneInv' /\ SharedLoopInv'
  BY <1>1, <1>2, <1>5, <1>7, FrameLemma
<1>9. KeysAreSessions'
  BY <1>1, <1>2, <1>6 DEF KeysAreSessions, StaticsInv
<1>10. QED
  BY <1>2, <1>3, <1>8, <1>9 DEF StaticsInv, StaticsTypeOK

(* The response is sent. *)
LEMMA SendStep ==
  ASSUME StaticsInv, NEW l \in Loops, Send(l)
  PROVE  StaticsInv'
<1> DEFINE h == handler[l]
<1>1. /\ "idle" \in Stages /\ "idle" \notin Hashing
      /\ IdleHandler \in Handlers /\ ~IdleHandler.accepted /\ IdleHandler.alone
  BY DEF Stages, Hashing, IdleHandler, Handlers, Messages, Empty
<1>2. /\ handler \in [Loops -> Handlers]
      /\ h.session \in Sessions /\ loop[h.session] = l
      /\ Advance(l, "idle", IdleHandler)
      /\ UNCHANGED <<loop, hmacSha1Ctx, hmacSha1Buffer, StunSerializeBuffer>>
  BY DEF Send, At, OwnLoop, StaticsInv, StaticsTypeOK
<1> HIDE DEF h
<1>3. /\ handler'[l].at = "idle"
      /\ \A k \in Loops \ {l} : handler'[k].at = handler[k].at
  BY <1>1, <1>2, FieldsLemma
<1>4. Exact(handler[l])'
  BY <1>3 DEF Exact, Signing
<1>5. /\ handler' \in [Loops -> Handlers]
      /\ OwnLoop' /\ AcceptedWasSigned' /\ AloneInv' /\ SharedLoopInv'
  BY <1>1, <1>2, <1>4, FrameLemma
<1>6. KeysAreSessions'
  BY <1>1, <1>2, <1>3 DEF KeysAreSessions, StaticsInv
<1>7. QED
  BY <1>2, <1>5, <1>6 DEF StaticsInv, StaticsTypeOK

(* A step of a handler under way. *)
LEMMA HandleStep ==
  ASSUME StaticsInv, NEW l \in Loops, Handle(l)
  PROVE  StaticsInv'
<1>1. ASSUME Init(l, "check init", "check update") \/ Init(l, "sign init", "sign update")
      PROVE  StaticsInv'
  BY <1>1, InitStep, ZenonT(60)
<1>2. CASE Update(l, "check update", "check final", Message("request", handler[l].session))
  <2>1. handler[l].session \in Sessions
    BY <1>2 DEF Update, At, OwnLoop, StaticsInv
  <2>2. Message("request", handler[l].session) \in Messages
    BY <2>1 DEF Message, Messages
  <2>3. QED
    BY <1>2, <2>2, UpdateStep
<1>3. CASE Update(l, "sign update", "sign final", StunSerializeBuffer.message)
  <2>1. StunSerializeBuffer.message \in Messages
    BY DEF StaticsInv, StaticsTypeOK
  <2>2. QED
    BY <1>3, <2>1, UpdateStep
<1>4. ASSUME Final(l, "check final", "compare") \/ Final(l, "sign final", "attach")
      PROVE  StaticsInv'
  BY <1>4, FinalStep, ZenonT(60)
<1>5. CASE Compare(l) \/ Build(l) \/ Attach(l) \/ Send(l)
  BY <1>5, CompareStep, BuildStep, AttachStep, SendStep
<1>6. QED
  BY <1>1, <1>2, <1>3, <1>4, <1>5 DEF Handle

----------------------------------------------------------------------------
(* The inductive invariant holds initially. *)
LEMMA StaticsInitially == StaticsInit => StaticsInv
<1> SUFFICES ASSUME StaticsInit
             PROVE  StaticsInv
  OBVIOUS
<1>1. /\ NoDigest \in Digests /\ NoDigest.message = Empty
      /\ Empty \in Messages
  BY DEF NoDigest, Digest, Digests, Messages
<1>2. /\ IdleHandler \in Handlers /\ IdleHandler.at = "idle" /\ ~IdleHandler.accepted
      /\ IdleHandler.alone
  BY <1>1 DEF IdleHandler, Handlers, Stages
<1>3. \A l \in Loops : handler[l] = IdleHandler
  BY DEF StaticsInit
<1>4. StaticsTypeOK
  BY <1>1, <1>2 DEF StaticsInit, StaticsTypeOK
<1>5. OwnLoop /\ AcceptedWasSigned /\ SharedLoopInv
  BY <1>2, <1>3 DEF OwnLoop, At, AcceptedWasSigned, SharedLoopInv
<1>6. KeysAreSessions
  BY <1>1, <1>2, <1>3, ZenonT(60) DEF KeysAreSessions, StaticsInit, Hashing
<1>7. AloneInv
  BY <1>2, <1>3, ZenonT(60) DEF AloneInv, Exact, Signing
<1>8. QED
  BY <1>4, <1>5, <1>6, <1>7 DEF StaticsInv

(* It is kept by every step of every loop. *)
THEOREM StaticsInvariant == StaticsSpec => []StaticsInv
<1>1. StaticsInv /\ [StaticsNext]_staticsVars => StaticsInv'
  <2> SUFFICES ASSUME StaticsInv, [StaticsNext]_staticsVars
               PROVE  StaticsInv'
    OBVIOUS
  <2>1. CASE StaticsNext
    BY <2>1, ReceiveStep, RefuseStep, HandleStep, SMTT(60) DEF StaticsNext
  <2>2. CASE UNCHANGED staticsVars
    BY <2>2, ZenonT(60) DEF staticsVars, StaticsInv, StaticsTypeOK, OwnLoop, At, KeysAreSessions,
                AcceptedWasSigned, AloneInv, Exact, Owed, SharedLoopInv
  <2>3. QED
    BY <2>1, <2>2
<1>2. QED
  BY <1>1, StaticsInitially, PTL DEF StaticsSpec

(* The statics and the handlers keep their types, whatever is torn. *)
THEOREM StaticsTypes == StaticsSpec => []StaticsTypeOK
<1>1. StaticsInv => StaticsTypeOK
  BY DEF StaticsInv
<1>2. QED
  BY <1>1, StaticsInvariant, PTL

(* For any number of loops and sessions: a handler that has been alone     *)
(* answers exactly, and handlers are alone where all sessions share a      *)
(* loop.                                                                   *)
THEOREM AloneHandlersAreExact == StaticsSpec => []AloneIsExact
<1>1. StaticsInv => AloneIsExact
  BY DEF StaticsInv, AloneInv, Exact, SharedLoopInv, AloneIsExact, At
<1>2. QED
  BY <1>1, StaticsInvariant, PTL

(* For any number of loops and sessions: no overlap of handlers accepts a  *)
(* request that no session's password has signed.                          *)
THEOREM AcceptedRequestsWereSigned == StaticsSpec => []AcceptedWasSigned
<1>1. StaticsInv => AcceptedWasSigned
  BY DEF StaticsInv
<1>2. QED
  BY <1>1, StaticsInvariant, PTL
=============================================================================
