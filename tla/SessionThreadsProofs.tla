------------------------ MODULE SessionThreadsProofs -------------------------
(***************************************************************************)
(* Proofs about the threads of SessionThreads: for any number of sessions, *)
(* peers, loops, datagrams and media packets, and any order of the steps.  *)
(***************************************************************************)
EXTENDS SessionThreads, TLAPS

Kinds == {"enable", "input", "rtp"}
Functors == [kind : Kinds, peer : Peers \cup {NoPeer}, session : Sessions]
Steps == {"idle", "connection", "connect", "transport", "callback", "start", "loop", "ready",
          "post"}
Faults == {"none", "assert", "loop", "race"}

(* The elements of a queue. *)
Items(q) == {q[i] : i \in DOMAIN q}

(* What the main loop has done when it is at a step of HandlePacket. *)
HasConnection == main.at \in {"transport", "callback", "start", "loop", "ready", "post"}
HasTransport == main.at \in {"callback", "start", "loop", "ready", "post"}
HasCallback == main.at \in {"start", "loop", "ready", "post"}
HasLoop == main.at \in {"ready", "post"}

(* The type invariant, with the record of the main loop, variable by        *)
(* variable: an action is typed by the groups it changes.                  *)
SessionTypes ==
  /\ created \subseteq Sessions /\ ready \subseteq Sessions /\ batch \subseteq Sessions
  /\ transport \in [Sessions -> Peers \cup {NoPeer}]
  /\ loop \in [Sessions -> Loops \cup {NoLoop}]

NetTypes ==
  /\ connLoop \in [Peers -> Loops \cup {NoLoop}]
  /\ nextLoop \in Loops
  /\ callback \in [Peers -> Sessions \cup {NoSession}]
  /\ reading \subseteq Peers

QueueTypes ==
  /\ listenQ \in Seq(Contacts) /\ sockQ \in [Peers -> Seq(Contacts)]
  /\ queue \in [Loops -> Seq(Functors)]

MainTypes ==
  /\ main \in [at : Steps, peer : Peers \cup {NoPeer}, session : Sessions \cup {NoSession}]
  /\ main.at # "idle" => <<main.peer, main.session>> \in Contacts

HistoryTypes ==
  /\ sentCount \in 0 .. MaxDatagrams /\ frames \in 0 .. MaxFrames
  /\ driven \in [Sessions -> SUBSET Loops] /\ astray \subseteq Sessions
  /\ selected \in [Sessions -> Peers \cup {NoPeer}]
  /\ fault \in Faults

ThreadTypes == SessionTypes /\ NetTypes /\ QueueTypes /\ MainTypes /\ HistoryTypes

(* A functor that waits has what it needs: a connection is enabled after   *)
(* it has a callback, and a session's packets are posted after it has a    *)
(* connection to answer through.                                           *)
Runnable(f) ==
  /\ f.kind = "enable" => f.peer \in Peers /\ callback[f.peer] # NoSession
  /\ f.kind = "input" => f.peer \in Peers
  /\ f.kind # "enable" => transport[f.session] # NoPeer

(* The order of HandlePacket, as the other threads see it. *)
MainOrder ==
  /\ HasConnection => connLoop[main.peer] # NoLoop
  /\ HasTransport => transport[main.session] # NoPeer
  /\ HasCallback => callback[main.peer] # NoSession
  /\ HasLoop => loop[main.session] # NoLoop

SessionOrder ==
  /\ \A s \in ready \cup batch : loop[s] # NoLoop
  /\ \A s \in Sessions : loop[s] # NoLoop => transport[s] # NoPeer

ConnOrder ==
  /\ \A p \in Peers : callback[p] # NoSession => transport[callback[p]] # NoPeer
  /\ \A p \in reading : callback[p] # NoSession

QueueOrder == \A l \in Loops : \A f \in Items(queue[l]) : Runnable(f)

BindingOrder == MainOrder /\ SessionOrder /\ ConnOrder /\ QueueOrder

ThreadsInv ==
  /\ ThreadTypes /\ BindingOrder
  /\ fault # "loop" /\ FirstBindingDoesNotRace

----------------------------------------------------------------------------
(* Queues and steps.                                                       *)

(* What a posted functor, or a datagram that arrives, adds to its queue. *)
LEMMA AppendItems ==
  ASSUME NEW S, NEW q \in Seq(S), NEW e \in S
  PROVE  Append(q, e) \in Seq(S) /\ Items(Append(q, e)) = Items(q) \cup {e}
<1>1. /\ Append(q, e) \in Seq(S) /\ DOMAIN Append(q, e) = 1 .. Len(q) + 1
      /\ \A i \in 1 .. Len(q) : Append(q, e)[i] = q[i]
      /\ Append(q, e)[Len(q) + 1] = e /\ DOMAIN q = 1 .. Len(q) /\ Len(q) \in Nat
  OBVIOUS
<1>2. 1 .. Len(q) + 1 = (1 .. Len(q)) \cup {Len(q) + 1}
  BY <1>1
<1>3. QED
  BY <1>1, <1>2 DEF Items

(* What a loop takes from a queue, and what it leaves. *)
LEMMA TailItems ==
  ASSUME NEW S, NEW q \in Seq(S), q # <<>>
  PROVE  /\ Tail(q) \in Seq(S) /\ Items(Tail(q)) \subseteq Items(q)
         /\ Head(q) \in S /\ Head(q) \in Items(q)
<1>1. /\ Tail(q) \in Seq(S) /\ DOMAIN Tail(q) = 1 .. Len(q) - 1
      /\ \A i \in 1 .. Len(q) - 1 : Tail(q)[i] = q[i + 1]
      /\ Head(q) = q[1] /\ DOMAIN q = 1 .. Len(q) /\ Len(q) \in Nat \ {0}
      /\ Head(q) \in S
  OBVIOUS
<1>2. Items(Tail(q)) \subseteq Items(q)
  BY <1>1 DEF Items
<1>3. QED
  BY <1>1, <1>2 DEF Items

(* The values that stand for nothing are none of the others. *)
LEMMA NoneFacts ==
  /\ NoPeer \notin Peers /\ NoSession \notin Sessions /\ NoLoop \notin Loops
  /\ NumLoops \in Nat \ {0} /\ MaxDatagrams \in Nat /\ MaxFrames \in Nat
  /\ \A c \in Contacts : /\ c[1] \in Peers /\ c[2] \in Sessions /\ c = <<c[1], c[2]>>
  BY ThreadsAssumption DEF NoLoop, Loops

(* The order of HandlePacket. *)
LEMMA AdvanceFacts ==
  ASSUME ThreadTypes, Advance, main.at \in Steps \ {"idle", "connection", "post"}
  PROVE  /\ main' \in [at : Steps, peer : Peers \cup {NoPeer}, session : Sessions \cup {NoSession}]
         /\ main'.peer = main.peer /\ main'.session = main.session
         /\ main.at = "connect" => main'.at = "transport"
         /\ main.at = "transport" => main'.at = "callback"
         /\ main.at = "callback" => main'.at = "start"
         /\ main.at = "start" => main'.at = "loop"
         /\ main.at = "loop" => main'.at = "ready"
         /\ main.at = "ready" => main'.at = "post"
         /\ main.peer \in Peers /\ main.session \in Sessions
         /\ <<main.peer, main.session>> \in Contacts
<1>1. /\ main.at = "connect" => NextStep(main.at) = "transport"
      /\ main.at = "transport" => NextStep(main.at) = "callback"
      /\ main.at = "callback" => NextStep(main.at) = "start"
      /\ main.at = "start" => NextStep(main.at) = "loop"
      /\ main.at = "loop" => NextStep(main.at) = "ready"
      /\ main.at = "ready" => NextStep(main.at) = "post"
  BY ZenonT(60) DEF NextStep
<1>2. NextStep(main.at) \in Steps
  BY <1>1, ZenonT(60) DEF Steps
<1>3. main' = [main EXCEPT !.at = NextStep(main.at)]
  BY ZenonT(60) DEF Advance
<1>4. /\ main' \in [at : Steps, peer : Peers \cup {NoPeer}, session : Sessions \cup {NoSession}]
      /\ main'.peer = main.peer /\ main'.session = main.session /\ main'.at = NextStep(main.at)
  BY <1>2, <1>3, ZenonT(60) DEF ThreadTypes, MainTypes
<1>5. <<main.peer, main.session>> \in Contacts
  BY ZenonT(60) DEF ThreadTypes, MainTypes
<1>6. main.peer \in Peers /\ main.session \in Sessions
  BY <1>5, ThreadsAssumption, ZenonT(60)
<1>7. QED
  BY <1>1, <1>4, <1>5, <1>6, ZenonT(60)

(* What every step of HandlePacket finds at its step. *)
LEMMA AtFacts ==
  ASSUME ThreadTypes, main.at # "idle"
  PROVE  /\ main.peer \in Peers /\ main.session \in Sessions
         /\ <<main.peer, main.session>> \in Contacts
<1>1. <<main.peer, main.session>> \in Contacts
  BY ZenonT(60) DEF ThreadTypes, MainTypes
<1>2. QED
  BY <1>1, ThreadsAssumption, ZenonT(60)

(* The functors that wait. *)
LEMMA ItemsTyped ==
  ASSUME ThreadTypes, NEW l \in Loops, NEW f \in Items(queue[l])
  PROVE  f \in Functors /\ f.kind \in Kinds /\ f.session \in Sessions
<1>1. queue[l] \in Seq(Functors)
  BY ZenonT(60) DEF ThreadTypes, QueueTypes
<1>2. f \in Functors
  BY <1>1 DEF Items
<1>3. QED
  BY <1>2, ZenonT(60) DEF Functors

(* What an action leaves alone stays typed, *)
LEMMA TypesFrame ==
  ASSUME ThreadTypes
  PROVE  /\ UNCHANGED <<created, ready, batch, transport, loop>> => SessionTypes'
         /\ UNCHANGED <<connLoop, nextLoop, callback, reading>> => NetTypes'
         /\ UNCHANGED <<listenQ, sockQ, queue>> => QueueTypes'
         /\ UNCHANGED main => MainTypes'
         /\ UNCHANGED <<sentCount, frames, driven, astray, selected, fault>> => HistoryTypes'
<1>1. UNCHANGED <<created, ready, batch, transport, loop>> => SessionTypes'
  BY ZenonT(60) DEF ThreadTypes, SessionTypes
<1>2. UNCHANGED <<connLoop, nextLoop, callback, reading>> => NetTypes'
  BY ZenonT(60) DEF ThreadTypes, NetTypes
<1>3. UNCHANGED <<listenQ, sockQ, queue>> => QueueTypes'
  BY ZenonT(60) DEF ThreadTypes, QueueTypes
<1>4. UNCHANGED main => MainTypes'
  BY ZenonT(60) DEF ThreadTypes, MainTypes
<1>5. UNCHANGED <<sentCount, frames, driven, astray, selected, fault>> => HistoryTypes'
  BY ZenonT(60) DEF ThreadTypes, HistoryTypes
<1>6. QED
  BY <1>1, <1>2, <1>3, <1>4, <1>5, ZenonT(60)

(* and in order. *)
LEMMA OrderFrame ==
  ASSUME BindingOrder
  PROVE  /\ UNCHANGED <<main, connLoop, transport, callback, loop>> => MainOrder'
         /\ UNCHANGED <<ready, batch, loop, transport>> => SessionOrder'
         /\ UNCHANGED <<callback, transport, reading>> => ConnOrder'
         /\ UNCHANGED <<queue, callback, transport>> => QueueOrder'
<1>1. UNCHANGED <<main, connLoop, transport, callback, loop>> => MainOrder'
  BY ZenonT(60) DEF BindingOrder, MainOrder, HasConnection, HasTransport, HasCallback, HasLoop
<1>2. UNCHANGED <<ready, batch, loop, transport>> => SessionOrder'
  BY ZenonT(60) DEF BindingOrder, SessionOrder
<1>3. UNCHANGED <<callback, transport, reading>> => ConnOrder'
  BY ZenonT(60) DEF BindingOrder, ConnOrder
<1>4. UNCHANGED <<queue, callback, transport>> => QueueOrder'
  BY ZenonT(60) DEF BindingOrder, QueueOrder, Runnable
<1>5. QED
  BY <1>1, <1>2, <1>3, <1>4, ZenonT(60)

----------------------------------------------------------------------------
(* ThreadsInv, action by action.                                           *)

(* A datagram arrives. *)
LEMMA ArriveInv ==
  ASSUME ThreadsInv, Arrive
  PROVE  ThreadsInv'
<1>0. ThreadTypes /\ BindingOrder
  BY ZenonT(60) DEF ThreadsInv
<1>1. /\ UNCHANGED <<created, transport, loop, ready, connLoop, nextLoop, callback, reading,
                     queue, main, batch, frames, driven, selected, astray, fault>>
      /\ sentCount' = sentCount + 1 /\ sentCount < MaxDatagrams
  BY ZenonT(60) DEF Arrive, sessionVars, netVars, mediaVars, historyVars
<1>2. PICK c \in Contacts :
        \/ listenQ' = Append(listenQ, c) /\ UNCHANGED sockQ
        \/ \E p \in Peers : sockQ' = [sockQ EXCEPT ![p] = Append(@, c)] /\ UNCHANGED listenQ
  BY ZenonT(60) DEF Arrive
<1>3. listenQ' \in Seq(Contacts) /\ sockQ' \in [Peers -> Seq(Contacts)]
  <2>1. Append(listenQ, c) \in Seq(Contacts)
    BY <1>0, AppendItems, ZenonT(60) DEF ThreadTypes, QueueTypes
  <2>2. \A p \in Peers : Append(sockQ[p], c) \in Seq(Contacts)
    BY <1>0, AppendItems, ZenonT(60) DEF ThreadTypes, QueueTypes
  <2>3. listenQ \in Seq(Contacts) /\ sockQ \in [Peers -> Seq(Contacts)]
    BY <1>0, ZenonT(60) DEF ThreadTypes, QueueTypes
  <2>4. QED
    BY <1>2, <2>1, <2>2, <2>3, ZenonT(60)
<1>7. sentCount' \in 0 .. MaxDatagrams
  BY <1>0, <1>1, NoneFacts, SMTT(60) DEF ThreadTypes, HistoryTypes
<1>4. ThreadTypes'
  <2>1. QueueTypes' /\ HistoryTypes'
    BY <1>0, <1>1, <1>3, <1>7, ZenonT(60) DEF ThreadTypes, QueueTypes, HistoryTypes
  <2>2. QED
    BY <1>0, <1>1, <2>1, TypesFrame, ZenonT(60) DEF ThreadTypes
<1>5. BindingOrder'
  BY <1>0, <1>1, OrderFrame, ZenonT(60) DEF BindingOrder
<1>6. QED
  BY <1>1, <1>4, <1>5, ZenonT(60) DEF ThreadsInv, FirstBindingDoesNotRace

(* A session is created. *)
LEMMA CreateInv ==
  ASSUME ThreadsInv, NEW s \in Sessions, CreateSession(s)
  PROVE  ThreadsInv'
<1>0. ThreadTypes /\ BindingOrder
  BY ZenonT(60) DEF ThreadsInv
<1>1. /\ UNCHANGED <<transport, loop, ready, connLoop, nextLoop, callback, reading, listenQ,
                     sockQ, sentCount, queue, main, batch, frames, driven, selected, astray,
                     fault>>
      /\ created' = created \cup {s}
  BY ZenonT(60) DEF CreateSession, kernelVars, netVars, mediaVars, historyVars
<1>2. ThreadTypes'
  <2>1. SessionTypes'
    BY <1>0, <1>1, ZenonT(60) DEF ThreadTypes, SessionTypes
  <2>2. QED
    BY <1>0, <1>1, <2>1, TypesFrame, ZenonT(60) DEF ThreadTypes
<1>3. BindingOrder'
  BY <1>0, <1>1, OrderFrame, ZenonT(60) DEF BindingOrder
<1>4. QED
  BY <1>1, <1>2, <1>3, ZenonT(60) DEF ThreadsInv, FirstBindingDoesNotRace

(* HandlePacket takes a datagram and looks up its session. *)
LEMMA HandlePacketInv ==
  ASSUME ThreadsInv, HandlePacket
  PROVE  ThreadsInv'
<1>0. ThreadTypes /\ BindingOrder
  BY ZenonT(60) DEF ThreadsInv
<1>1. /\ UNCHANGED <<created, transport, loop, ready, connLoop, nextLoop, callback, reading,
                     sockQ, sentCount, queue, batch, frames, driven, selected, astray, fault>>
      /\ listenQ # <<>> /\ listenQ' = Tail(listenQ) /\ fault = "none"
      /\ main' = IF Head(listenQ)[2] \in created
                 THEN [at |-> "connection", peer |-> Head(listenQ)[1],
                       session |-> Head(listenQ)[2]]
                 ELSE IdleMain
  BY ZenonT(60) DEF HandlePacket, At, Running, sessionVars, netVars, mediaVars, historyVars
<1>2. listenQ' \in Seq(Contacts) /\ Head(listenQ) \in Contacts
  BY <1>0, <1>1, TailItems, ZenonT(60) DEF ThreadTypes, QueueTypes
<1>3. /\ main' \in [at : Steps, peer : Peers \cup {NoPeer}, session : Sessions \cup {NoSession}]
      /\ main'.at \in {"idle", "connection"}
      /\ main'.at # "idle" => <<main'.peer, main'.session>> \in Contacts
  BY <1>1, <1>2, NoneFacts, ZenonT(60) DEF IdleMain, Steps
<1>4. ThreadTypes'
  <2>1. QueueTypes' /\ MainTypes'
    BY <1>0, <1>1, <1>2, <1>3, ZenonT(60) DEF ThreadTypes, QueueTypes, MainTypes
  <2>2. QED
    BY <1>0, <1>1, <2>1, TypesFrame, ZenonT(60) DEF ThreadTypes
<1>5. BindingOrder'
  <2>1. MainOrder'
    BY <1>0, <1>1, <1>3, ZenonT(60) DEF BindingOrder, MainOrder, HasConnection, HasTransport,
       HasCallback, HasLoop
  <2>2. QED
    BY <1>0, <1>1, <2>1, OrderFrame, ZenonT(60) DEF BindingOrder
<1>6. QED
  BY <1>1, <1>4, <1>5, ZenonT(60) DEF ThreadsInv, FirstBindingDoesNotRace

(* GetOrCreatConnection: a connection is found, or a socket is made. *)
LEMMA GetOrCreatInv ==
  ASSUME ThreadsInv, GetOrCreatConnection
  PROVE  ThreadsInv'
<1>0. ThreadTypes /\ BindingOrder
  BY ZenonT(60) DEF ThreadsInv
<1>1. /\ UNCHANGED <<created, transport, loop, ready, connLoop, nextLoop, callback, reading,
                     listenQ, sockQ, sentCount, queue, batch, frames, driven, selected, astray,
                     fault>>
      /\ fault = "none" /\ main.at = "connection"
      /\ main' = [main EXCEPT !.at = IF connLoop[main.peer] # NoLoop THEN NextStep("connect")
                                                                     ELSE "connect"]
  BY ZenonT(60) DEF GetOrCreatConnection, At, Running, sessionVars, netVars, kernelVars,
     mediaVars,
         historyVars
<1>2. NextStep("connect") = "transport"
  BY ZenonT(60) DEF NextStep
<1>3. /\ main' \in [at : Steps, peer : Peers \cup {NoPeer}, session : Sessions \cup {NoSession}]
      /\ main'.at = (IF connLoop[main.peer] # NoLoop THEN "transport" ELSE "connect")
      /\ main'.peer = main.peer /\ main'.session = main.session
  BY <1>0, <1>1, <1>2, ZenonT(60) DEF ThreadTypes, MainTypes, Steps
<1>4. ThreadTypes'
  <2>1. MainTypes'
    BY <1>0, <1>1, <1>3, ZenonT(60) DEF ThreadTypes, MainTypes
  <2>2. QED
    BY <1>0, <1>1, <2>1, TypesFrame, ZenonT(60) DEF ThreadTypes
<1>5. BindingOrder'
  <2>1. MainOrder'
    BY <1>0, <1>1, <1>3, ZenonT(60) DEF BindingOrder, MainOrder, HasConnection, HasTransport,
       HasCallback, HasLoop
  <2>2. QED
    BY <1>0, <1>1, <2>1, OrderFrame, ZenonT(60) DEF BindingOrder
<1>6. QED
  BY <1>1, <1>4, <1>5, ZenonT(60) DEF ThreadsInv, FirstBindingDoesNotRace

(* The connection is made on the next loop of the pool. *)
LEMMA ConnectInv ==
  ASSUME ThreadsInv, Connect
  PROVE  ThreadsInv'
<1>0. ThreadTypes /\ BindingOrder
  BY ZenonT(60) DEF ThreadsInv
<1>1. /\ UNCHANGED <<created, transport, loop, ready, callback, reading, listenQ, sockQ,
                     sentCount, queue, batch, frames, driven, selected, astray, fault>>
      /\ fault = "none" /\ main.at = "connect" /\ Advance
      /\ connLoop' = [connLoop EXCEPT ![main.peer] = nextLoop]
      /\ nextLoop' = (nextLoop % NumLoops) + 1
  BY ZenonT(60) DEF Connect, At, Running, sessionVars, kernelVars, mediaVars, historyVars
<1>2. /\ main' \in [at : Steps, peer : Peers \cup {NoPeer}, session : Sessions \cup {NoSession}]
      /\ main'.peer = main.peer /\ main'.session = main.session /\ main'.at = "transport"
      /\ main.peer \in Peers
  BY <1>0, <1>1, AdvanceFacts, ZenonT(60) DEF Steps
<1>3. nextLoop' \in Loops
  BY <1>0, <1>1, NoneFacts DEF ThreadTypes, NetTypes, Loops
<1>4. ThreadTypes'
  <2>1. NetTypes' /\ MainTypes'
    BY <1>0, <1>1, <1>2, <1>3, ZenonT(60) DEF ThreadTypes, NetTypes, MainTypes
  <2>2. QED
    BY <1>0, <1>1, <2>1, TypesFrame, ZenonT(60) DEF ThreadTypes
<1>5. connLoop'[main.peer] # NoLoop
  BY <1>0, <1>1, <1>2, NoneFacts, ZenonT(60) DEF ThreadTypes, NetTypes
<1>6. BindingOrder'
  <2>1. MainOrder'
    BY <1>0, <1>1, <1>2, <1>5, ZenonT(60) DEF BindingOrder, MainOrder, HasConnection,
       HasTransport, HasCallback, HasLoop
  <2>2. QED
    BY <1>0, <1>1, <2>1, OrderFrame, ZenonT(60) DEF BindingOrder
<1>7. QED
  BY <1>1, <1>4, <1>6, ZenonT(60) DEF ThreadsInv, FirstBindingDoesNotRace

(* The session gets the connection. *)
LEMMA SetTransportInv ==
  ASSUME ThreadsInv, SetTransport
  PROVE  ThreadsInv'
<1>0. ThreadTypes /\ BindingOrder
  BY ZenonT(60) DEF ThreadsInv
<1>1. /\ UNCHANGED <<created, loop, ready, connLoop, nextLoop, callback, reading, listenQ,
                     sockQ, sentCount, queue, batch, frames, driven, selected, astray, fault>>
      /\ fault = "none" /\ main.at = "transport" /\ Advance
      /\ transport' = [transport EXCEPT ![main.session] = main.peer]
  BY ZenonT(60) DEF SetTransport, At, Running, netVars, kernelVars, mediaVars, historyVars
<1>2. /\ main' \in [at : Steps, peer : Peers \cup {NoPeer}, session : Sessions \cup {NoSession}]
      /\ main'.peer = main.peer /\ main'.session = main.session /\ main'.at = "callback"
      /\ main.peer \in Peers /\ main.session \in Sessions
  BY <1>0, <1>1, AdvanceFacts, ZenonT(60) DEF Steps
<1>3. ThreadTypes'
  <2>1. SessionTypes' /\ MainTypes'
    BY <1>0, <1>1, <1>2, ZenonT(60) DEF ThreadTypes, SessionTypes, MainTypes
  <2>2. QED
    BY <1>0, <1>1, <2>1, TypesFrame, ZenonT(60) DEF ThreadTypes
<1>4. /\ transport'[main.session] # NoPeer
      /\ \A s \in Sessions : transport[s] # NoPeer => transport'[s] # NoPeer
  BY <1>0, <1>1, <1>2, NoneFacts, ZenonT(60) DEF ThreadTypes, SessionTypes
<1>5. \A l \in Loops : \A f \in Items(queue[l]) : f.session \in Sessions /\ Runnable(f)
  BY <1>0, ItemsTyped, ZenonT(60) DEF BindingOrder, QueueOrder
<1>6. \A l \in Loops : \A f \in Items(queue[l]) : Runnable(f)'
  BY <1>1, <1>4, <1>5, ZenonT(60) DEF Runnable
<1>7. BindingOrder'
  <2>1. /\ HasConnection' => connLoop'[main'.peer] # NoLoop
        /\ HasTransport' => transport'[main'.session] # NoPeer
        /\ ~HasCallback' /\ ~HasLoop'
    BY <1>0, <1>1, <1>2, <1>4, ZenonT(60) DEF BindingOrder, MainOrder, HasConnection,
       HasTransport, HasCallback, HasLoop
  <2>2. /\ \A s \in Sessions : loop'[s] # NoLoop => transport'[s] # NoPeer
        /\ \A p \in Peers : callback'[p] # NoSession => transport'[callback'[p]] # NoPeer
        /\ \A s \in ready' \cup batch' : loop'[s] # NoLoop
        /\ \A p \in reading' : callback'[p] # NoSession
    BY <1>0, <1>1, <1>4, ZenonT(60) DEF BindingOrder, SessionOrder, ConnOrder, ThreadTypes,
       NetTypes
  <2>3. QED
    BY <1>1, <1>6, <2>1, <2>2, ZenonT(60) DEF BindingOrder, MainOrder, SessionOrder, ConnOrder,
       QueueOrder
<1>8. QED
  BY <1>1, <1>3, <1>7, ZenonT(60) DEF ThreadsInv, FirstBindingDoesNotRace

(* The connection gets the session. *)
LEMMA SetPacketCallbackInv ==
  ASSUME ThreadsInv, SetPacketCallback
  PROVE  ThreadsInv'
<1>0. ThreadTypes /\ BindingOrder
  BY ZenonT(60) DEF ThreadsInv
<1>1. /\ UNCHANGED <<created, transport, loop, ready, connLoop, nextLoop, reading, listenQ,
                     sockQ, sentCount, queue, batch, frames, driven, selected, astray, fault>>
      /\ fault = "none" /\ main.at = "callback" /\ Advance
      /\ callback' = [callback EXCEPT ![main.peer] = main.session]
  BY ZenonT(60) DEF SetPacketCallback, At, Running, sessionVars, kernelVars, mediaVars,
     historyVars
<1>2. /\ main' \in [at : Steps, peer : Peers \cup {NoPeer}, session : Sessions \cup {NoSession}]
      /\ main'.peer = main.peer /\ main'.session = main.session /\ main'.at = "start"
      /\ main.peer \in Peers /\ main.session \in Sessions
  BY <1>0, <1>1, AdvanceFacts, ZenonT(60) DEF Steps
<1>3. ThreadTypes'
  <2>1. NetTypes' /\ MainTypes'
    BY <1>0, <1>1, <1>2, ZenonT(60) DEF ThreadTypes, NetTypes, MainTypes
  <2>2. QED
    BY <1>0, <1>1, <2>1, TypesFrame, ZenonT(60) DEF ThreadTypes
<1>4. /\ callback'[main.peer] # NoSession
      /\ \A p \in Peers : callback[p] # NoSession => callback'[p] # NoSession
      /\ \A p \in Peers : callback'[p] \in {callback[p], main.session}
  BY <1>0, <1>1, <1>2, NoneFacts, ZenonT(60) DEF ThreadTypes, NetTypes
<1>5. \A l \in Loops : \A f \in Items(queue[l]) : Runnable(f)'
  BY <1>0, <1>1, <1>4, ZenonT(60) DEF BindingOrder, QueueOrder, Runnable
<1>6. BindingOrder'
  <2>1. /\ HasConnection' => connLoop'[main'.peer] # NoLoop
        /\ HasTransport' => transport'[main'.session] # NoPeer
        /\ HasCallback' => callback'[main'.peer] # NoSession
        /\ ~HasLoop'
    BY <1>0, <1>1, <1>2, <1>4, ZenonT(60) DEF BindingOrder, MainOrder, HasConnection,
       HasTransport, HasCallback, HasLoop
  <2>2. transport[main.session] # NoPeer
    BY <1>0, <1>1, ZenonT(60) DEF BindingOrder, MainOrder, HasTransport
  <2>3. /\ \A s \in Sessions : loop'[s] # NoLoop => transport'[s] # NoPeer
        /\ \A p \in Peers : callback'[p] # NoSession => transport'[callback'[p]] # NoPeer
        /\ \A s \in ready' \cup batch' : loop'[s] # NoLoop
        /\ \A p \in reading' : callback'[p] # NoSession
    BY <1>0, <1>1, <1>4, <2>2, ZenonT(60) DEF BindingOrder, SessionOrder, ConnOrder,
       ThreadTypes, NetTypes
  <2>4. QED
    BY <1>1, <1>5, <2>1, <2>3, ZenonT(60) DEF BindingOrder, MainOrder, SessionOrder, ConnOrder,
       QueueOrder
<1>7. QED
  BY <1>1, <1>3, <1>6, ZenonT(60) DEF ThreadsInv, FirstBindingDoesNotRace

(* The queues hold what they held, and f on loop k. *)
Posts(k, f) ==
  \A l \in Loops : \A g \in Items(queue'[l]) : g \in Items(queue[l]) \/ (l = k /\ g = f)

(* A functor is posted: runInLoop. *)
LEMMA Posted ==
  ASSUME ThreadTypes, NEW l \in Loops, NEW f \in Functors,
         queue' = [queue EXCEPT ![l] = Append(@, f)]
  PROVE  /\ queue' \in [Loops -> Seq(Functors)]
         /\ Posts(l, f)
<1>1. queue \in [Loops -> Seq(Functors)]
  BY ZenonT(60) DEF ThreadTypes, QueueTypes
<1>2. Append(queue[l], f) \in Seq(Functors) /\ Items(Append(queue[l], f)) = Items(queue[l]) \cup {f}
  BY <1>1, AppendItems
<1>3. QED
  BY <1>1, <1>2, ZenonT(60) DEF Posts

(* UdpConnection::Start. *)
LEMMA StartInv ==
  ASSUME ThreadsInv, Start
  PROVE  ThreadsInv'
<1> DEFINE f == Functor("enable", main.peer, main.session)
<1>0. ThreadTypes /\ BindingOrder
  BY ZenonT(60) DEF ThreadsInv
<1>1. /\ UNCHANGED <<created, transport, loop, ready, connLoop, nextLoop, callback, reading,
                     listenQ, sockQ, sentCount, batch, frames, driven, selected, astray, fault>>
      /\ fault = "none" /\ main.at = "start" /\ Advance
      /\ queue' = [queue EXCEPT ![connLoop[main.peer]] = Append(@, f)]
  BY ZenonT(60) DEF Start, At, Running, sessionVars, netVars, kernelVars, mediaVars, historyVars
<1>2. /\ main' \in [at : Steps, peer : Peers \cup {NoPeer}, session : Sessions \cup {NoSession}]
      /\ main'.peer = main.peer /\ main'.session = main.session /\ main'.at = "loop"
      /\ main.peer \in Peers /\ main.session \in Sessions
  BY <1>0, <1>1, AdvanceFacts, ZenonT(60) DEF Steps
<1>3. connLoop[main.peer] \in Loops /\ callback[main.peer] # NoSession
  BY <1>0, <1>1, <1>2, ZenonT(60) DEF BindingOrder, MainOrder, HasConnection, HasCallback,
     ThreadTypes, NetTypes
<1>4. f \in Functors /\ f.kind = "enable" /\ f.peer = main.peer
  BY <1>2, ZenonT(60) DEF Functor, Functors, Kinds
<1> HIDE DEF f
<1>5. /\ queue' \in [Loops -> Seq(Functors)]
      /\ \A k \in Loops : \A g \in Items(queue'[k]) : g \in Items(queue[k]) \/ g = f
  BY <1>0, <1>1, <1>3, <1>4, Posted, ZenonT(60) DEF Posts
<1>6. ThreadTypes'
  <2>1. QueueTypes' /\ MainTypes'
    BY <1>0, <1>1, <1>2, <1>5, ZenonT(60) DEF ThreadTypes, QueueTypes, MainTypes
  <2>2. QED
    BY <1>0, <1>1, <2>1, TypesFrame, ZenonT(60) DEF ThreadTypes
<1>7. \A k \in Loops : \A g \in Items(queue'[k]) : Runnable(g)'
  BY <1>0, <1>1, <1>2, <1>3, <1>4, <1>5, ZenonT(60) DEF BindingOrder, QueueOrder, Runnable
<1>8. BindingOrder'
  <2>1. MainOrder'
    BY <1>0, <1>1, <1>2, <1>7, ZenonT(60) DEF BindingOrder, MainOrder, HasConnection,
       HasTransport, HasCallback, HasLoop
  <2>2. QueueOrder'
    BY <1>0, <1>1, <1>2, <1>7, ZenonT(60) DEF BindingOrder, QueueOrder
  <2>3. QED
    BY <1>0, <1>1, <2>1, <2>2, OrderFrame, ZenonT(60) DEF BindingOrder
<1>9. QED
  BY <1>1, <1>6, <1>8, ZenonT(60) DEF ThreadsInv, FirstBindingDoesNotRace

(* loop_ is stored. *)
LEMMA SetLoopInv ==
  ASSUME ThreadsInv, SetLoop
  PROVE  ThreadsInv'
<1>0. ThreadTypes /\ BindingOrder
  BY ZenonT(60) DEF ThreadsInv
<1>1. /\ UNCHANGED <<created, transport, ready, connLoop, nextLoop, callback, reading, listenQ,
                     sockQ, sentCount, queue, batch, frames, driven, selected, astray, fault>>
      /\ fault = "none" /\ main.at = "loop" /\ Advance
      /\ loop' = [loop EXCEPT ![main.session] = connLoop[main.peer]]
  BY ZenonT(60) DEF SetLoop, At, Running, netVars, kernelVars, mediaVars, historyVars
<1>2. /\ main' \in [at : Steps, peer : Peers \cup {NoPeer}, session : Sessions \cup {NoSession}]
      /\ main'.peer = main.peer /\ main'.session = main.session /\ main'.at = "ready"
      /\ main.peer \in Peers /\ main.session \in Sessions
  BY <1>0, <1>1, AdvanceFacts, ZenonT(60) DEF Steps
<1>3. connLoop[main.peer] \in Loops /\ connLoop[main.peer] # NoLoop
      /\ transport[main.session] # NoPeer
  BY <1>0, <1>1, <1>2, ZenonT(60) DEF BindingOrder, MainOrder, HasConnection, HasTransport,
     ThreadTypes, NetTypes
<1>4. ThreadTypes'
  <2>1. SessionTypes' /\ MainTypes'
    BY <1>0, <1>1, <1>2, <1>3, ZenonT(60) DEF ThreadTypes, SessionTypes, MainTypes
  <2>2. QED
    BY <1>0, <1>1, <2>1, TypesFrame, ZenonT(60) DEF ThreadTypes
<1>5. /\ loop'[main.session] # NoLoop
      /\ \A s \in Sessions : loop[s] # NoLoop => loop'[s] # NoLoop
      /\ \A s \in Sessions : loop'[s] # NoLoop => loop[s] # NoLoop \/ s = main.session
  BY <1>0, <1>1, <1>2, <1>3, ZenonT(60) DEF ThreadTypes, SessionTypes
<1>6. BindingOrder'
  <2>1. /\ HasConnection' => connLoop'[main'.peer] # NoLoop
        /\ HasTransport' => transport'[main'.session] # NoPeer
        /\ HasCallback' => callback'[main'.peer] # NoSession
        /\ HasLoop' => loop'[main'.session] # NoLoop
    BY <1>0, <1>1, <1>2, <1>5, ZenonT(60) DEF BindingOrder, MainOrder, HasConnection,
       HasTransport, HasCallback, HasLoop
  <2>2. /\ \A s \in Sessions : loop'[s] # NoLoop => transport'[s] # NoPeer
        /\ \A s \in ready' \cup batch' : loop'[s] # NoLoop
    BY <1>0, <1>1, <1>3, <1>5, ZenonT(60) DEF BindingOrder, SessionOrder, ThreadTypes,
       SessionTypes
  <2>3. QED
    BY <1>0, <1>1, <2>1, <2>2, OrderFrame, ZenonT(60) DEF BindingOrder, MainOrder, SessionOrder
<1>7. QED
  BY <1>1, <1>4, <1>6, ZenonT(60) DEF ThreadsInv, FirstBindingDoesNotRace

(* is_ready_ is stored, after loop_. *)
LEMMA StoreReadyInv ==
  ASSUME ThreadsInv, StoreReady
  PROVE  ThreadsInv'
<1>0. ThreadTypes /\ BindingOrder
  BY ZenonT(60) DEF ThreadsInv
<1>1. /\ UNCHANGED <<created, transport, loop, connLoop, nextLoop, callback, reading, listenQ,
                     sockQ, sentCount, queue, batch, frames, driven, selected, astray, fault>>
      /\ fault = "none" /\ main.at = "ready" /\ Advance
      /\ ready' = ready \cup {main.session}
  BY ZenonT(60) DEF StoreReady, At, Running, netVars, kernelVars, mediaVars, historyVars
<1>2. /\ main' \in [at : Steps, peer : Peers \cup {NoPeer}, session : Sessions \cup {NoSession}]
      /\ main'.peer = main.peer /\ main'.session = main.session /\ main'.at = "post"
      /\ main.peer \in Peers /\ main.session \in Sessions
  BY <1>0, <1>1, AdvanceFacts, ZenonT(60) DEF Steps
<1>3. ThreadTypes'
  <2>1. SessionTypes' /\ MainTypes'
    BY <1>0, <1>1, <1>2, ZenonT(60) DEF ThreadTypes, SessionTypes, MainTypes
  <2>2. QED
    BY <1>0, <1>1, <2>1, TypesFrame, ZenonT(60) DEF ThreadTypes
<1>4. loop[main.session] # NoLoop
  BY <1>0, <1>1, ZenonT(60) DEF BindingOrder, MainOrder, HasLoop
<1>5. BindingOrder'
  <2>1. MainOrder'
    BY <1>0, <1>1, <1>2, <1>4, ZenonT(60) DEF BindingOrder, MainOrder, HasConnection,
       HasTransport, HasCallback, HasLoop
  <2>2. SessionOrder'
    BY <1>0, <1>1, <1>2, <1>4, ZenonT(60) DEF BindingOrder, SessionOrder
  <2>3. QED
    BY <1>0, <1>1, <2>1, <2>2, OrderFrame, ZenonT(60) DEF BindingOrder
<1>6. QED
  BY <1>1, <1>3, <1>5, ZenonT(60) DEF ThreadsInv, FirstBindingDoesNotRace

(* The datagram that made the connection goes to the session's loop. *)
LEMMA PostFirstPacketInv ==
  ASSUME ThreadsInv, PostFirstPacket
  PROVE  ThreadsInv'
<1> DEFINE f == Functor("input", main.peer, main.session)
<1>0. ThreadTypes /\ BindingOrder
  BY ZenonT(60) DEF ThreadsInv
<1>1. /\ UNCHANGED <<created, transport, loop, ready, connLoop, nextLoop, callback, reading,
                     listenQ, sockQ, sentCount, batch, frames, driven, selected, astray, fault>>
      /\ fault = "none" /\ main.at = "post" /\ main' = IdleMain
      /\ queue' = [queue EXCEPT ![loop[main.session]] = Append(@, f)]
  BY ZenonT(60) DEF PostFirstPacket, At, Running, sessionVars, netVars, kernelVars, mediaVars,
     historyVars
<1>2. main.peer \in Peers /\ main.session \in Sessions
  BY <1>0, <1>1, AtFacts, ZenonT(60)
<1>3. loop[main.session] \in Loops /\ transport[main.session] # NoPeer
  BY <1>0, <1>1, <1>2, ZenonT(60) DEF BindingOrder, MainOrder, HasLoop, HasTransport,
     ThreadTypes, SessionTypes
<1>4. f \in Functors /\ f.kind = "input" /\ f.peer = main.peer /\ f.session = main.session
  BY <1>2, ZenonT(60) DEF Functor, Functors, Kinds
<1> HIDE DEF f
<1>5. /\ queue' \in [Loops -> Seq(Functors)]
      /\ \A k \in Loops : \A g \in Items(queue'[k]) : g \in Items(queue[k]) \/ g = f
  BY <1>0, <1>1, <1>3, <1>4, Posted, ZenonT(60) DEF Posts
<1>6. /\ main' \in [at : Steps, peer : Peers \cup {NoPeer}, session : Sessions \cup {NoSession}]
      /\ main'.at = "idle"
  BY <1>1, ZenonT(60) DEF IdleMain, Steps
<1>7. ThreadTypes'
  <2>1. QueueTypes' /\ MainTypes'
    BY <1>0, <1>1, <1>5, <1>6, ZenonT(60) DEF ThreadTypes, QueueTypes, MainTypes
  <2>2. QED
    BY <1>0, <1>1, <2>1, TypesFrame, ZenonT(60) DEF ThreadTypes
<1>8. \A k \in Loops : \A g \in Items(queue'[k]) : Runnable(g)'
  BY <1>0, <1>1, <1>2, <1>3, <1>4, <1>5, ZenonT(60) DEF BindingOrder, QueueOrder, Runnable
<1>9. BindingOrder'
  <2>1. MainOrder'
    BY <1>0, <1>1, <1>6, <1>8, ZenonT(60) DEF BindingOrder, MainOrder, HasConnection,
       HasTransport, HasCallback, HasLoop
  <2>2. QueueOrder'
    BY <1>0, <1>1, <1>6, <1>8, ZenonT(60) DEF BindingOrder, QueueOrder
  <2>3. QED
    BY <1>0, <1>1, <2>1, <2>2, OrderFrame, ZenonT(60) DEF BindingOrder
<1>10. QED
  BY <1>1, <1>7, <1>9, ZenonT(60) DEF ThreadsInv, FirstBindingDoesNotRace

(* A WebRtcTransport has run: the history, and how the process may end. *)
Ran(s, l, racing) ==
  /\ driven' \in [Sessions -> SUBSET Loops]
  /\ driven' = [driven EXCEPT ![s] = @ \cup {l}]
  /\ fault' \in {"none", "assert", "race"}
  /\ fault' = "race" => racing
  /\ fault' = "assert" => transport[s] # NoPeer /\ connLoop[transport[s]] # l

(* A request from p has been answered. *)
Answered(s, p) ==
  /\ selected' \in [Sessions -> Peers \cup {NoPeer}] /\ astray' \subseteq Sessions
  /\ astray' = astray \/ (astray' = astray \cup {s} /\ transport[s] # p)

(* Drive. *)
LEMMA DriveFacts ==
  ASSUME ThreadTypes, Running, NEW s \in Sessions, NEW l \in Loops, NEW racing \in BOOLEAN,
         Drive(s, l, racing)
  PROVE  Ran(s, l, racing)
<1>1. driven \in [Sessions -> SUBSET Loops] /\ fault = "none"
  BY ZenonT(60) DEF ThreadTypes, HistoryTypes, Running
<1>2. driven' = [driven EXCEPT ![s] = @ \cup {l}]
  BY ZenonT(60) DEF Drive
<1>3. fault' \in IF transport[s] # NoPeer /\ connLoop[transport[s]] # l THEN {"assert"}
                 ELSE {fault} \cup (IF racing THEN {"race"} ELSE {})
  BY ZenonT(60) DEF Drive
<1>4. QED
  BY <1>1, <1>2, <1>3, ZenonT(60) DEF Ran

(* OnInputDataPacket. *)
LEMMA InputFacts ==
  ASSUME ThreadTypes, Running, NEW s \in Sessions, NEW l \in Loops, NEW p \in Peers, NEW t,
         NEW racing \in BOOLEAN, OnInputDataPacket(s, l, p, t, racing)
  PROVE  Ran(s, l, racing) /\ Answered(s, p)
<1>1. Drive(s, l, racing)
  BY ZenonT(60) DEF OnInputDataPacket
<1>2. Answered(s, p)
  BY ZenonT(60) DEF OnInputDataPacket, ThreadTypes, HistoryTypes, Answered
<1>3. QED
  BY <1>1, <1>2, DriveFacts, ZenonT(60)

(* One functor of a loop. *)
LEMMA RunFunctorFacts ==
  ASSUME ThreadsInv, NEW l \in Loops, RunFunctor(l)
  PROVE  /\ UNCHANGED <<created, transport, loop, ready, connLoop, nextLoop, callback, listenQ,
                        sockQ, sentCount, main, batch, frames>>
         /\ queue[l] \in Seq(Functors) /\ queue[l] # <<>> /\ Head(queue[l]) \in Functors
         /\ Head(queue[l]) \in Items(queue[l]) /\ Runnable(Head(queue[l]))
         /\ queue' \in [Loops -> Seq(Functors)]
         /\ \A k \in Loops : Items(queue'[k]) \subseteq Items(queue[k])
<1>0. ThreadTypes /\ BindingOrder
  BY ZenonT(60) DEF ThreadsInv
<1>1. /\ UNCHANGED <<created, transport, loop, ready, connLoop, nextLoop, callback, listenQ,
                     sockQ, sentCount, main, batch, frames>>
      /\ queue[l] # <<>> /\ queue' = [queue EXCEPT ![l] = Tail(@)]
  BY ZenonT(60) DEF RunFunctor, sessionVars, kernelVars, mediaVars
<1>2. queue \in [Loops -> Seq(Functors)] /\ queue[l] \in Seq(Functors)
  BY <1>0, ZenonT(60) DEF ThreadTypes, QueueTypes
<1>3. /\ Tail(queue[l]) \in Seq(Functors) /\ Items(Tail(queue[l])) \subseteq Items(queue[l])
      /\ Head(queue[l]) \in Functors /\ Head(queue[l]) \in Items(queue[l])
  BY <1>1, <1>2, TailItems, ZenonT(60)
<1>4. Runnable(Head(queue[l]))
  BY <1>0, <1>3, ZenonT(60) DEF BindingOrder, QueueOrder
<1>5. queue' \in [Loops -> Seq(Functors)]
      /\ \A k \in Loops : Items(queue'[k]) \subseteq Items(queue[k])
  BY <1>1, <1>2, <1>3, ZenonT(60)
<1>6. QED
  BY <1>1, <1>2, <1>3, <1>4, <1>5, ZenonT(60)

(* The functor finds what it needs, whatever HandlePacket is doing. *)
LEMMA RunFunctorInv ==
  ASSUME ThreadsInv, NEW l \in Loops, RunFunctor(l)
  PROVE  ThreadsInv'
<1> DEFINE f == Head(queue[l])
<1>0. ThreadTypes /\ BindingOrder /\ Running
  BY ZenonT(60) DEF ThreadsInv, RunFunctor
<1>1. /\ UNCHANGED <<created, transport, loop, ready, connLoop, nextLoop, callback, listenQ,
                     sockQ, sentCount, main, batch, frames>>
      /\ f \in Functors /\ Runnable(f) /\ queue' \in [Loops -> Seq(Functors)]
      /\ \A k \in Loops : Items(queue'[k]) \subseteq Items(queue[k])
  BY RunFunctorFacts, ZenonT(60)
<1>2. f.kind \in Kinds /\ f.session \in Sessions
  BY <1>1, ZenonT(60) DEF Functors
<1>3. \/ f.kind = "enable" /\ reading' = reading \cup {f.peer} /\ UNCHANGED historyVars
      \/ /\ f.kind = "input" /\ UNCHANGED reading
         /\ OnInputDataPacket(f.session, l, f.peer, f.session, ReplacesTransport(f.session))
      \/ /\ f.kind = "rtp" /\ UNCHANGED <<reading, selected, astray>>
         /\ Drive(f.session, l, ReplacesTransport(f.session))
  BY ZenonT(60) DEF RunFunctor
<1> HIDE DEF f
<1>4. ReplacesTransport(f.session) \in BOOLEAN
  BY ZenonT(60) DEF ReplacesTransport
<1>5. /\ driven' \in [Sessions -> SUBSET Loops] /\ astray' \subseteq Sessions
      /\ selected' \in [Sessions -> Peers \cup {NoPeer}]
      /\ fault' \in {"none", "assert", "race"}
      /\ fault' = "race" => f.kind # "enable" /\ ReplacesTransport(f.session)
  <2>1. CASE f.kind = "enable"
    BY <1>0, <1>3, <2>1, ZenonT(60) DEF historyVars, ThreadTypes, HistoryTypes, Running
  <2>2. CASE f.kind = "input"
    <3>1. OnInputDataPacket(f.session, l, f.peer, f.session, ReplacesTransport(f.session))
      BY <1>3, <2>2, ZenonT(60)
    <3>2. f.peer \in Peers
      BY <1>1, <2>2, ZenonT(60) DEF Runnable
    <3>3. /\ Ran(f.session, l, ReplacesTransport(f.session))
          /\ Answered(f.session, f.peer)
      BY <1>0, <1>2, <1>4, <3>1, <3>2, InputFacts, ZenonT(60)
    <3>4. QED
      BY <2>2, <3>3, ZenonT(60) DEF Ran, Answered
  <2>3. CASE f.kind = "rtp"
    <3>1. Drive(f.session, l, ReplacesTransport(f.session)) /\ UNCHANGED <<selected, astray>>
      BY <1>3, <2>3, ZenonT(60)
    <3>2. Ran(f.session, l, ReplacesTransport(f.session))
      BY <1>0, <1>2, <1>4, <3>1, DriveFacts, ZenonT(60)
    <3>3. QED
      BY <1>0, <2>3, <3>1, <3>2, ZenonT(60) DEF Ran, ThreadTypes, HistoryTypes
  <2>4. QED
    BY <1>2, <2>1, <2>2, <2>3, ZenonT(60) DEF Kinds
<1>6. reading' \subseteq Peers /\ \A p \in reading' : callback[p] # NoSession
  BY <1>0, <1>1, <1>3, ZenonT(60) DEF ThreadTypes, NetTypes, BindingOrder, ConnOrder, Runnable
<1>7. ThreadTypes'
  <2>1. QueueTypes' /\ NetTypes' /\ HistoryTypes'
    BY <1>0, <1>1, <1>5, <1>6, ZenonT(60) DEF ThreadTypes, QueueTypes, NetTypes, HistoryTypes,
       Faults
  <2>2. QED
    BY <1>0, <1>1, <2>1, TypesFrame, ZenonT(60) DEF ThreadTypes
<1>8. \A k \in Loops : \A g \in Items(queue'[k]) : Runnable(g)'
  BY <1>0, <1>1, ZenonT(60) DEF BindingOrder, QueueOrder, Runnable
<1>9. BindingOrder'
  <2>1. ConnOrder'
    BY <1>0, <1>1, <1>6, <1>8, ZenonT(60) DEF BindingOrder, ConnOrder
  <2>2. QueueOrder'
    BY <1>0, <1>1, <1>6, <1>8, ZenonT(60) DEF BindingOrder, QueueOrder
  <2>3. QED
    BY <1>0, <1>1, <2>1, <2>2, OrderFrame, ZenonT(60) DEF BindingOrder
<1>10. FirstBindingDoesNotRace'
  BY <1>1, <1>5, ZenonT(60) DEF FirstBindingDoesNotRace, ReplacesTransport, Runnable
<1>11. QED
  BY <1>5, <1>7, <1>9, <1>10, ZenonT(60) DEF ThreadsInv

(* A read event of a connection. *)
LEMMA HandleReadFacts ==
  ASSUME ThreadsInv, NEW l \in Loops, NEW p \in Peers, HandleRead(l, p)
  PROVE  /\ UNCHANGED <<created, transport, loop, ready, connLoop, nextLoop, callback, reading,
                        listenQ, sentCount, queue, main, batch, frames>>
         /\ sockQ' \in [Peers -> Seq(Contacts)] /\ Head(sockQ[p]) \in Contacts
         /\ callback[p] \in Sessions /\ transport[callback[p]] # NoPeer /\ connLoop[p] = l
         /\ OnInputDataPacket(callback[p], l, Head(sockQ[p])[1], Head(sockQ[p])[2],
                              ReplacesTransport(callback[p]) \/ ReplacesCallback(p))
<1>0. ThreadTypes /\ BindingOrder
  BY ZenonT(60) DEF ThreadsInv
<1>1. /\ UNCHANGED <<created, transport, loop, ready, connLoop, nextLoop, callback, reading,
                     listenQ, sentCount, queue, main, batch, frames>>
      /\ sockQ[p] # <<>> /\ sockQ' = [sockQ EXCEPT ![p] = Tail(@)]
      /\ p \in reading /\ connLoop[p] = l
  BY ZenonT(60) DEF HandleRead, sessionVars, netVars, mediaVars
<1>2. sockQ \in [Peers -> Seq(Contacts)] /\ sockQ[p] \in Seq(Contacts)
  BY <1>0, ZenonT(60) DEF ThreadTypes, QueueTypes
<1>3. Tail(sockQ[p]) \in Seq(Contacts) /\ Head(sockQ[p]) \in Contacts
  BY <1>1, <1>2, TailItems, ZenonT(60)
<1>4. callback[p] # NoSession /\ callback[p] \in Sessions /\ transport[callback[p]] # NoPeer
  BY <1>0, <1>1, ZenonT(60) DEF BindingOrder, ConnOrder, ThreadTypes, NetTypes
<1>5. OnInputDataPacket(callback[p], l, Head(sockQ[p])[1], Head(sockQ[p])[2],
                        ReplacesTransport(callback[p]) \/ ReplacesCallback(p))
  BY <1>4, ZenonT(60) DEF HandleRead
<1>6. QED
  BY <1>1, <1>2, <1>3, <1>4, <1>5, ZenonT(60)

(* So does the read event. *)
LEMMA HandleReadInv ==
  ASSUME ThreadsInv, NEW l \in Loops, NEW p \in Peers, HandleRead(l, p)
  PROVE  ThreadsInv'
<1> DEFINE s == callback[p]
           c == Head(sockQ[p])
           racing == ReplacesTransport(s) \/ ReplacesCallback(p)
<1>0. ThreadTypes /\ BindingOrder /\ Running
  BY ZenonT(60) DEF ThreadsInv, HandleRead
<1>1. /\ UNCHANGED <<created, transport, loop, ready, connLoop, nextLoop, callback, reading,
                     listenQ, sentCount, queue, main, batch, frames>>
      /\ sockQ' \in [Peers -> Seq(Contacts)] /\ c \in Contacts
      /\ s \in Sessions /\ transport[s] # NoPeer
      /\ OnInputDataPacket(s, l, c[1], c[2], racing)
  BY HandleReadFacts, ZenonT(60)
<1> HIDE DEF c
<1>2. c[1] \in Peers
  BY <1>1, NoneFacts, ZenonT(60)
<1>3. racing \in BOOLEAN
  BY ZenonT(60) DEF ReplacesTransport, ReplacesCallback
<1> HIDE DEF racing
<1>4. /\ driven' \in [Sessions -> SUBSET Loops] /\ astray' \subseteq Sessions
      /\ selected' \in [Sessions -> Peers \cup {NoPeer}]
      /\ fault' \in {"none", "assert", "race"} /\ (fault' = "race" => racing)
  <2>1. Ran(s, l, racing) /\ Answered(s, c[1])
    BY <1>0, <1>1, <1>2, <1>3, InputFacts, ZenonT(60)
  <2>2. QED
    BY <2>1, ZenonT(60) DEF Ran, Answered
<1>5. ThreadTypes'
  <2>1. QueueTypes' /\ HistoryTypes'
    BY <1>0, <1>1, <1>4, ZenonT(60) DEF ThreadTypes, QueueTypes, HistoryTypes, Faults
  <2>2. QED
    BY <1>0, <1>1, <2>1, TypesFrame, ZenonT(60) DEF ThreadTypes
<1>6. BindingOrder'
  BY <1>0, <1>1, OrderFrame, ZenonT(60) DEF BindingOrder
<1>7. FirstBindingDoesNotRace'
  BY <1>1, <1>4, NoneFacts, ZenonT(60) DEF FirstBindingDoesNotRace, racing, ReplacesTransport,
     ReplacesCallback
<1>8. QED
  BY <1>4, <1>5, <1>6, <1>7, ZenonT(60) DEF ThreadsInv

(* The media thread asks for the ready sessions. *)
LEMMA CollectReadyInv ==
  ASSUME ThreadsInv, CollectReady
  PROVE  ThreadsInv'
<1>0. ThreadTypes /\ BindingOrder
  BY ZenonT(60) DEF ThreadsInv
<1>1. /\ UNCHANGED <<created, transport, loop, ready, connLoop, nextLoop, callback, reading,
                     listenQ, sockQ, sentCount, queue, main, driven, selected, astray, fault>>
      /\ frames < MaxFrames /\ frames' = frames + 1 /\ batch' = created \cap ready
  BY ZenonT(60) DEF CollectReady, sessionVars, netVars, kernelVars, historyVars
<1>2. frames' \in 0 .. MaxFrames
  BY <1>0, <1>1, NoneFacts, SMTT(60) DEF ThreadTypes, HistoryTypes
<1>3. ThreadTypes'
  <2>1. SessionTypes' /\ HistoryTypes'
    BY <1>0, <1>1, <1>2, ZenonT(60) DEF ThreadTypes, SessionTypes, HistoryTypes
  <2>2. QED
    BY <1>0, <1>1, <2>1, TypesFrame, ZenonT(60) DEF ThreadTypes
<1>4. BindingOrder'
  <2>1. SessionOrder'
    BY <1>0, <1>1, ZenonT(60) DEF BindingOrder, SessionOrder
  <2>2. QED
    BY <1>0, <1>1, <2>1, OrderFrame, ZenonT(60) DEF BindingOrder
<1>5. QED
  BY <1>1, <1>3, <1>4, ZenonT(60) DEF ThreadsInv, FirstBindingDoesNotRace

(* The media thread posts a packet to a session's loop, which it finds. *)
LEMMA PostRtpInv ==
  ASSUME ThreadsInv, NEW s \in Sessions, PostRtp(s)
  PROVE  ThreadsInv'
<1> DEFINE f == Functor("rtp", NoPeer, s)
<1>0. ThreadTypes /\ BindingOrder
  BY ZenonT(60) DEF ThreadsInv
<1>1. loop[s] # NoLoop /\ loop[s] \in Loops /\ transport[s] # NoPeer
  BY <1>0, ZenonT(60) DEF PostRtp, BindingOrder, SessionOrder, ThreadTypes, SessionTypes
<1>2. /\ UNCHANGED <<created, transport, loop, ready, connLoop, nextLoop, callback, reading,
                     listenQ, sockQ, sentCount, main, frames, driven, selected, astray, fault>>
      /\ batch' = batch \ {s}
      /\ queue' = [queue EXCEPT ![loop[s]] = Append(@, f)]
  BY <1>1, ZenonT(60) DEF PostRtp, sessionVars, netVars, kernelVars
<1>3. f \in Functors /\ f.kind = "rtp" /\ f.session = s
  BY ZenonT(60) DEF Functor, Functors, Kinds
<1> HIDE DEF f
<1>4. /\ queue' \in [Loops -> Seq(Functors)]
      /\ \A k \in Loops : \A g \in Items(queue'[k]) : g \in Items(queue[k]) \/ g = f
  BY <1>0, <1>1, <1>2, <1>3, Posted, ZenonT(60) DEF Posts
<1>5. ThreadTypes'
  <2>1. SessionTypes' /\ QueueTypes'
    BY <1>0, <1>2, <1>4, ZenonT(60) DEF ThreadTypes, SessionTypes, QueueTypes
  <2>2. QED
    BY <1>0, <1>2, <2>1, TypesFrame, ZenonT(60) DEF ThreadTypes
<1>6. \A k \in Loops : \A g \in Items(queue'[k]) : Runnable(g)'
  BY <1>0, <1>1, <1>2, <1>3, <1>4, ZenonT(60) DEF BindingOrder, QueueOrder, Runnable
<1>7. BindingOrder'
  <2>1. SessionOrder'
    BY <1>0, <1>2, <1>6, ZenonT(60) DEF BindingOrder, SessionOrder
  <2>2. QueueOrder'
    BY <1>0, <1>2, <1>6, ZenonT(60) DEF BindingOrder, QueueOrder
  <2>3. QED
    BY <1>0, <1>2, <2>1, <2>2, OrderFrame, ZenonT(60) DEF BindingOrder
<1>8. QED
  BY <1>2, <1>5, <1>7, ZenonT(60) DEF ThreadsInv, FirstBindingDoesNotRace

(* The start of the server. *)
LEMMA ThreadsInitInv ==
  ASSUME Init
  PROVE  ThreadsInv
<1>1. /\ main \in [at : Steps, peer : Peers \cup {NoPeer}, session : Sessions \cup {NoSession}]
      /\ main.at = "idle"
  BY ZenonT(60) DEF Init, IdleMain, Steps
<1>2. \A l \in Loops : Items(queue[l]) = {}
  BY SMTT(60) DEF Init, Items
<1>3. ThreadTypes
  BY <1>1, NoneFacts, SMTT(60) DEF Init, ThreadTypes, SessionTypes, NetTypes, QueueTypes,
     MainTypes, HistoryTypes, Loops, Faults
<1>4. BindingOrder
  BY <1>1, <1>2, ZenonT(60) DEF Init, BindingOrder, MainOrder, SessionOrder, ConnOrder,
     QueueOrder,
     HasConnection, HasTransport, HasCallback, HasLoop
<1>5. QED
  BY <1>3, <1>4, ZenonT(60) DEF Init, ThreadsInv, FirstBindingDoesNotRace

(* A step of any thread. *)
LEMMA ThreadsStepInv ==
  ASSUME ThreadsInv, [Next]_vars
  PROVE  ThreadsInv'
<1>1. CASE Arrive
  BY <1>1, ArriveInv, ZenonT(60)
<1>2. CASE \E s \in Sessions : CreateSession(s)
  BY <1>2, CreateInv, ZenonT(60)
<1>3. CASE MainStep
  BY ZenonT(60), <1>3, HandlePacketInv, GetOrCreatInv, ConnectInv, SetTransportInv,
     SetPacketCallbackInv,
     StartInv, SetLoopInv, StoreReadyInv, PostFirstPacketInv DEF MainStep
<1>4. CASE \E l \in Loops : LoopStep(l)
  BY <1>4, RunFunctorInv, HandleReadInv, ZenonT(60) DEF LoopStep
<1>5. CASE MediaStep
  BY <1>5, CollectReadyInv, PostRtpInv, ZenonT(60) DEF MediaStep
<1>6. CASE UNCHANGED vars
  <2>1. UNCHANGED <<created, transport, loop, ready, connLoop, nextLoop, callback, reading,
                    listenQ, sockQ, sentCount, queue, main, batch, frames, driven, selected,
                    astray, fault>>
    BY <1>6, ZenonT(60) DEF vars, sessionVars, netVars, kernelVars, mediaVars, historyVars
  <2>2. ThreadTypes' /\ FirstBindingDoesNotRace' /\ fault' # "loop"
    BY <2>1, TypesFrame, ZenonT(60) DEF ThreadsInv, ThreadTypes, FirstBindingDoesNotRace
  <2>3. BindingOrder'
    BY <2>1, OrderFrame, ZenonT(60) DEF ThreadsInv, BindingOrder
  <2>4. QED
    BY <2>2, <2>3, ZenonT(60) DEF ThreadsInv
<1>7. QED
  BY <1>1, <1>2, <1>3, <1>4, <1>5, <1>6, ZenonT(60) DEF Next

(* The invariant holds for any number of sessions, peers, loops and        *)
(* datagrams, whoever contacts which session from where.                   *)
THEOREM ThreadsInvariance == Spec => []ThreadsInv
<1>1. Init => ThreadsInv
  BY ThreadsInitInv, ZenonT(60)
<1>2. ThreadsInv /\ [Next]_vars => ThreadsInv'
  BY ThreadsStepInv, ZenonT(60)
<1>3. QED
  BY <1>1, <1>2, PTL DEF Spec

(* SetNetworkTransport never races when a session is given its first       *)
(* connection, nor a connection its first session: only a replacement can. *)
THEOREM ThreadsFirstBindingDoesNotRace == Spec => []FirstBindingDoesNotRace
<1>1. ThreadsInv => FirstBindingDoesNotRace
  BY ZenonT(60) DEF ThreadsInv
<1>2. QED
  BY <1>1, ThreadsInvariance, PTL

----------------------------------------------------------------------------
(* What a session is given: whichever addresses its username comes from,   *)
(* all that happens to it happens on the loops of connections that it has  *)
(* been given.                                                             *)

(* Loop l serves a connection that session s has been given. *)
Given(l, s) == \E p \in bound[s] : connLoop[p] = l

(* An answer of session s may have missed the one who asked. *)
Excused(s) == (\E p, q \in bound[s] : p # q) \/ bound[s] \cap strays # {}

(* The session's connection, its loop_ and the loops that ran it. *)
Attached(s) ==
  /\ \A p \in bound[s] : connLoop[p] # NoLoop
  /\ transport[s] # NoPeer => transport[s] \in bound[s]
  /\ loop[s] # NoLoop => Given(loop[s], s)
  /\ \A l \in driven[s] : Given(l, s)

BoundTypes == bound \in [Sessions -> SUBSET Peers] /\ strays \subseteq Peers

SessionsBound == \A s \in Sessions : Attached(s)

MainBound ==
  /\ main.at = "connect" => connLoop[main.peer] = NoLoop
  /\ HasTransport => main.peer \in bound[main.session]

CallbacksBound == \A p \in Peers : callback[p] # NoSession => p \in bound[callback[p]]

(* A functor that waits on loop l. *)
Allowed(l, f) ==
  /\ f.kind # "enable" => Given(l, f.session)
  /\ f.kind = "input" => f.peer \in bound[f.session]

FunctorsBound == \A l \in Loops : \A f \in Items(queue[l]) : Allowed(l, f)

DatagramsBound == \A p \in Peers : \A c \in Items(sockQ[p]) : c[1] = p \/ p \in strays

OutcomesBound ==
  /\ fault = "assert" => \E s \in Sessions : Moved(s)
  /\ \A s \in astray : Excused(s)

BoundInv ==
  /\ BoundTypes /\ SessionsBound /\ MainBound /\ CallbacksBound /\ FunctorsBound
  /\ DatagramsBound /\ OutcomesBound

(* A session is never deprived of a connection, and a connection stays on  *)
(* its loop.                                                               *)
Grows ==
  /\ \A s \in Sessions : bound[s] \subseteq bound'[s]
  /\ \A p \in Peers : connLoop[p] # NoLoop => connLoop'[p] = connLoop[p]
  /\ strays \subseteq strays'

(* What a session has been given stays given. *)
LEMMA GivenStays ==
  ASSUME BoundInv, Grows, NEW s \in Sessions
  PROVE  /\ bound[s] \subseteq Peers
         /\ \A p \in bound[s] : p \in bound'[s] /\ connLoop'[p] = connLoop[p]
         /\ \A p \in bound[s] : connLoop'[p] # NoLoop
         /\ \A l : Given(l, s) => Given(l, s)'
         /\ Moved(s) => Moved(s)'
         /\ Excused(s) => Excused(s)'
<1>1. bound[s] \subseteq Peers
  BY ZenonT(60) DEF BoundInv, BoundTypes
<1>2. \A p \in bound[s] : connLoop[p] # NoLoop
  BY ZenonT(60) DEF BoundInv, SessionsBound, Attached
<1>3. bound[s] \subseteq bound'[s] /\ strays \subseteq strays'
  BY ZenonT(60) DEF Grows
<1>4. \A p \in bound[s] : p \in bound'[s] /\ connLoop'[p] = connLoop[p]
  BY <1>1, <1>2, <1>3, ZenonT(60) DEF Grows
<1>5. \A l : Given(l, s) => Given(l, s)'
  BY <1>4, ZenonT(60) DEF Given
<1>6. Moved(s) => Moved(s)'
  BY <1>4, ZenonT(60) DEF Moved
<1>7. Excused(s) => Excused(s)'
  BY <1>3, ZenonT(60) DEF Excused
<1>8. QED
  BY <1>1, <1>2, <1>4, <1>5, <1>6, <1>7, ZenonT(60)

(* What an action leaves alone stays bound. *)
LEMMA BoundFrame ==
  ASSUME ThreadTypes, BoundInv, Grows
  PROVE  /\ UNCHANGED <<transport, loop, driven, bound>> => SessionsBound'
         /\ UNCHANGED callback => CallbacksBound'
         /\ (\A l \in Loops : Items(queue'[l]) \subseteq Items(queue[l])) => FunctorsBound'
         /\ (\A p \in Peers : Items(sockQ'[p]) \subseteq Items(sockQ[p])) => DatagramsBound'
         /\ UNCHANGED <<fault, astray>> => OutcomesBound'
<1>1. ASSUME UNCHANGED <<transport, loop, driven, bound>> PROVE SessionsBound'
  <2> SUFFICES ASSUME NEW s \in Sessions PROVE Attached(s)'
    BY ZenonT(60) DEF SessionsBound
  <2>1. Attached(s)
    BY ZenonT(60) DEF BoundInv, SessionsBound
  <2>2. /\ \A p \in bound[s] : connLoop'[p] # NoLoop
        /\ \A l : Given(l, s) => Given(l, s)'
    BY GivenStays, ZenonT(60)
  <2>3. QED
    BY <1>1, <2>1, <2>2, ZenonT(60) DEF Attached
<1>2. ASSUME UNCHANGED callback PROVE CallbacksBound'
  <2> SUFFICES ASSUME NEW p \in Peers, callback[p] # NoSession PROVE p \in bound'[callback[p]]
    BY <1>2, ZenonT(60) DEF CallbacksBound
  <2>1. callback[p] \in Sessions
    BY ZenonT(60) DEF ThreadTypes, NetTypes
  <2>2. p \in bound[callback[p]]
    BY ZenonT(60) DEF BoundInv, CallbacksBound
  <2>3. QED
    BY <2>1, <2>2, GivenStays, ZenonT(60)
<1>3. ASSUME \A l \in Loops : Items(queue'[l]) \subseteq Items(queue[l]) PROVE FunctorsBound'
  <2> SUFFICES ASSUME NEW l \in Loops, NEW f \in Items(queue[l]) PROVE Allowed(l, f)'
    BY <1>3, ZenonT(60) DEF FunctorsBound
  <2>1. f.session \in Sessions
    BY ItemsTyped, ZenonT(60)
  <2>2. Allowed(l, f)
    BY ZenonT(60) DEF BoundInv, FunctorsBound
  <2>3. QED
    BY <2>1, <2>2, GivenStays, ZenonT(60) DEF Allowed
<1>4. ASSUME \A p \in Peers : Items(sockQ'[p]) \subseteq Items(sockQ[p]) PROVE DatagramsBound'
  BY <1>4, ZenonT(60) DEF BoundInv, DatagramsBound, Grows
<1>5. ASSUME UNCHANGED <<fault, astray>> PROVE OutcomesBound'
  <2>1. astray \subseteq Sessions
    BY ZenonT(60) DEF ThreadTypes, HistoryTypes
  <2>2. \A s \in astray : Excused(s)'
    BY <2>1, GivenStays, ZenonT(60) DEF BoundInv, OutcomesBound
  <2>3. fault = "assert" => \E s \in Sessions : Moved(s)'
    BY GivenStays, ZenonT(60) DEF BoundInv, OutcomesBound
  <2>4. QED
    BY <1>5, <2>2, <2>3, ZenonT(60) DEF OutcomesBound
<1>6. QED
  BY <1>1, <1>2, <1>3, <1>4, <1>5, ZenonT(60)

(* The steps that give a session nothing new and take no packet. *)
LEMMA BoundSame ==
  ASSUME ThreadTypes, BoundInv,
         UNCHANGED <<transport, bound, loop, driven, connLoop, callback, queue, sockQ, strays,
                     fault, astray>>,
         MainBound'
  PROVE  BoundInv'
<1>1. Grows
  BY ZenonT(60) DEF Grows
<1>2. BoundTypes'
  BY ZenonT(60) DEF BoundInv, BoundTypes
<1>3. SessionsBound' /\ CallbacksBound' /\ FunctorsBound' /\ DatagramsBound' /\ OutcomesBound'
  BY <1>1, BoundFrame, ZenonT(60)
<1>4. QED
  BY <1>2, <1>3, ZenonT(60) DEF BoundInv

(* A datagram arrives: at the socket of its sender, or at one that is not  *)
(* connected yet.                                                          *)
LEMMA BoundArrive ==
  ASSUME ThreadsInv, BoundInv, Arrive
  PROVE  BoundInv'
<1>0. ThreadTypes
  BY ZenonT(60) DEF ThreadsInv
<1>1. UNCHANGED <<transport, bound, loop, driven, connLoop, callback, queue, main, fault, astray>>
  BY ZenonT(60) DEF Arrive, sessionVars, netVars, historyVars
<1>2. PICK c \in Contacts :
        \/ UNCHANGED <<sockQ, strays>>
        \/ \E p \in Peers : /\ sockQ' = [sockQ EXCEPT ![p] = Append(@, c)]
                            /\ strays' = strays \cup ({p} \ {c[1]})
  BY ZenonT(60) DEF Arrive
<1>3. BoundTypes' /\ Grows
  BY <1>1, <1>2, ZenonT(60) DEF BoundInv, BoundTypes, Grows
<1>4. DatagramsBound'
  <2>1. CASE UNCHANGED <<sockQ, strays>>
    BY <2>1, ZenonT(60) DEF BoundInv, DatagramsBound
  <2>2. ASSUME NEW p \in Peers, sockQ' = [sockQ EXCEPT ![p] = Append(@, c)],
               strays' = strays \cup ({p} \ {c[1]})
        PROVE  DatagramsBound'
    <3>1. sockQ \in [Peers -> Seq(Contacts)]
      BY <1>0, ZenonT(60) DEF ThreadTypes, QueueTypes
    <3>2. Items(Append(sockQ[p], c)) = Items(sockQ[p]) \cup {c}
      BY <3>1, AppendItems, ZenonT(60)
    <3>3. \A q \in Peers : \A e \in Items(sockQ'[q]) : e \in Items(sockQ[q]) \/ (q = p /\ e = c)
      BY <2>2, <3>1, <3>2, ZenonT(60)
    <3>4. c[1] = p \/ p \in strays'
      BY <2>2, ZenonT(60)
    <3>5. \A q \in Peers : \A e \in Items(sockQ[q]) : e[1] = q \/ q \in strays'
      BY <2>2, ZenonT(60) DEF BoundInv, DatagramsBound
    <3>6. QED
      BY <3>3, <3>4, <3>5, ZenonT(60) DEF DatagramsBound
  <2>3. QED
    BY <1>2, <2>1, <2>2, ZenonT(60)
<1>5. MainBound'
  BY <1>1, ZenonT(60) DEF BoundInv, MainBound, HasTransport
<1>6. SessionsBound' /\ CallbacksBound' /\ FunctorsBound' /\ OutcomesBound'
  BY <1>0, <1>1, <1>3, BoundFrame, ZenonT(60)
<1>7. QED
  BY <1>3, <1>4, <1>5, <1>6, ZenonT(60) DEF BoundInv

(* A connection is made where there was none. *)
LEMMA BoundConnect ==
  ASSUME ThreadsInv, BoundInv, Connect
  PROVE  BoundInv'
<1>0. ThreadTypes
  BY ZenonT(60) DEF ThreadsInv
<1>1. /\ UNCHANGED <<transport, bound, loop, driven, callback, queue, sockQ, strays, fault, astray>>
      /\ main.at = "connect" /\ Advance
      /\ connLoop' = [connLoop EXCEPT ![main.peer] = nextLoop]
  BY ZenonT(60) DEF Connect, At, sessionVars, kernelVars, historyVars
<1>2. main'.at = "transport"
  BY <1>0, <1>1, AdvanceFacts, ZenonT(60) DEF Steps
<1>3. connLoop[main.peer] = NoLoop
  BY <1>1, ZenonT(60) DEF BoundInv, MainBound
<1>4. \A p \in Peers : connLoop[p] # NoLoop => connLoop'[p] = connLoop[p]
  BY <1>0, <1>1, <1>3, ZenonT(60) DEF ThreadTypes, NetTypes
<1>5. Grows
  BY <1>1, <1>4, ZenonT(60) DEF Grows
<1>6. BoundTypes' /\ MainBound'
  BY <1>1, <1>2, ZenonT(60) DEF BoundInv, BoundTypes, MainBound, HasTransport
<1>7. SessionsBound' /\ CallbacksBound' /\ FunctorsBound' /\ DatagramsBound' /\ OutcomesBound'
  BY <1>0, <1>1, <1>5, BoundFrame, ZenonT(60)
<1>8. QED
  BY <1>6, <1>7, ZenonT(60) DEF BoundInv

(* SetNetworkTransport gives a session a connection. *)
LEMMA BoundTransport ==
  ASSUME ThreadsInv, BoundInv, SetTransport
  PROVE  BoundInv'
<1>0. ThreadTypes /\ BindingOrder
  BY ZenonT(60) DEF ThreadsInv
<1>1. /\ UNCHANGED <<loop, driven, connLoop, callback, queue, sockQ, strays, fault, astray>>
      /\ main.at = "transport" /\ Advance
      /\ transport' = [transport EXCEPT ![main.session] = main.peer]
      /\ bound' = [bound EXCEPT ![main.session] = @ \cup {main.peer}]
  BY ZenonT(60) DEF SetTransport, At, netVars, kernelVars, historyVars
<1>2. /\ main'.at = "callback" /\ main'.peer = main.peer /\ main'.session = main.session
      /\ main.peer \in Peers /\ main.session \in Sessions
  BY <1>0, <1>1, AdvanceFacts, ZenonT(60) DEF Steps
<1>3. connLoop[main.peer] # NoLoop
  BY <1>0, <1>1, ZenonT(60) DEF BindingOrder, MainOrder, HasConnection
<1>4. \A s \in Sessions :
        /\ bound'[s] = IF s = main.session THEN bound[s] \cup {main.peer} ELSE bound[s]
        /\ transport'[s] = IF s = main.session THEN main.peer ELSE transport[s]
  <2>1. transport \in [Sessions -> Peers \cup {NoPeer}] /\ bound \in [Sessions -> SUBSET Peers]
    BY <1>0, ZenonT(60) DEF ThreadTypes, SessionTypes, BoundInv, BoundTypes
  <2>2. QED
    BY <1>1, <1>2, <2>1, ZenonT(60)
<1>4a. \A s \in Sessions : /\ bound[s] \subseteq bound'[s]
                           /\ \A p \in bound'[s] : p \in bound[s] \/ p = main.peer
  <2> SUFFICES ASSUME NEW s \in Sessions
               PROVE  /\ bound[s] \subseteq bound'[s]
                      /\ \A p \in bound'[s] : p \in bound[s] \/ p = main.peer
    OBVIOUS
  <2>1. bound'[s] = bound[s] \cup {main.peer} \/ bound'[s] = bound[s]
    BY <1>4, ZenonT(60)
  <2>2. QED
    BY <2>1, ZenonT(60)
<1>5. Grows
  BY <1>1, <1>4a, ZenonT(60) DEF Grows
<1>6. BoundTypes'
  BY <1>1, <1>2, ZenonT(60) DEF BoundInv, BoundTypes
<1>7. MainBound'
  BY <1>2, <1>4, ZenonT(60) DEF MainBound
<1>8. SessionsBound'
  <2> SUFFICES ASSUME NEW s \in Sessions PROVE Attached(s)'
    BY ZenonT(60) DEF SessionsBound
  <2>1. Attached(s)
    BY ZenonT(60) DEF BoundInv, SessionsBound
  <2>2. \A l : Given(l, s) => Given(l, s)'
    BY <1>5, GivenStays, ZenonT(60)
  <2>3. \A p \in bound'[s] : connLoop'[p] # NoLoop
    BY <1>1, <1>3, <1>4a, <2>1, ZenonT(60) DEF Attached
  <2>4. transport'[s] # NoPeer => transport'[s] \in bound'[s]
    BY <1>4, <2>1, ZenonT(60) DEF Attached
  <2>5. QED
    BY <1>1, <2>1, <2>2, <2>3, <2>4, ZenonT(60) DEF Attached
<1>9. CallbacksBound' /\ FunctorsBound' /\ DatagramsBound' /\ OutcomesBound'
  BY <1>0, <1>1, <1>5, BoundFrame, ZenonT(60)
<1>10. QED
  BY <1>6, <1>7, <1>8, <1>9, ZenonT(60) DEF BoundInv

(* The connection gets a session that has been given it. *)
LEMMA BoundCallback ==
  ASSUME ThreadsInv, BoundInv, SetPacketCallback
  PROVE  BoundInv'
<1>0. ThreadTypes
  BY ZenonT(60) DEF ThreadsInv
<1>1. /\ UNCHANGED <<transport, bound, loop, driven, connLoop, queue, sockQ, strays, fault, astray>>
      /\ main.at = "callback" /\ Advance
      /\ callback' = [callback EXCEPT ![main.peer] = main.session]
  BY ZenonT(60) DEF SetPacketCallback, At, sessionVars, kernelVars, historyVars
<1>2. main'.at = "start" /\ main'.peer = main.peer /\ main'.session = main.session
  BY <1>0, <1>1, AdvanceFacts, ZenonT(60) DEF Steps
<1>3. main.peer \in bound[main.session]
  BY <1>1, ZenonT(60) DEF BoundInv, MainBound, HasTransport
<1>4. \A p \in Peers : callback'[p] = IF p = main.peer THEN main.session ELSE callback[p]
  BY <1>0, <1>1, ZenonT(60) DEF ThreadTypes, NetTypes
<1>5. Grows
  BY <1>1, ZenonT(60) DEF Grows
<1>6. BoundTypes' /\ MainBound'
  BY <1>1, <1>2, <1>3, ZenonT(60) DEF BoundInv, BoundTypes, MainBound
<1>7. CallbacksBound'
  BY <1>1, <1>3, <1>4, ZenonT(60) DEF BoundInv, CallbacksBound
<1>8. SessionsBound' /\ FunctorsBound' /\ DatagramsBound' /\ OutcomesBound'
  BY <1>0, <1>1, <1>5, BoundFrame, ZenonT(60)
<1>9. QED
  BY <1>6, <1>7, <1>8, ZenonT(60) DEF BoundInv

(* loop_ is the loop of a connection that the session has been given. *)
LEMMA BoundLoop ==
  ASSUME ThreadsInv, BoundInv, SetLoop
  PROVE  BoundInv'
<1>0. ThreadTypes
  BY ZenonT(60) DEF ThreadsInv
<1>1. /\ UNCHANGED <<transport, bound, driven, connLoop, callback, queue, sockQ, strays, fault,
                     astray>>
      /\ main.at = "loop" /\ Advance
      /\ loop' = [loop EXCEPT ![main.session] = connLoop[main.peer]]
  BY ZenonT(60) DEF SetLoop, At, netVars, kernelVars, historyVars
<1>2. main'.at = "ready" /\ main'.peer = main.peer /\ main'.session = main.session
  BY <1>0, <1>1, AdvanceFacts, ZenonT(60) DEF Steps
<1>3. main.peer \in bound[main.session]
  BY <1>1, ZenonT(60) DEF BoundInv, MainBound, HasTransport
<1>4. Grows
  BY <1>1, ZenonT(60) DEF Grows
<1>5. BoundTypes' /\ MainBound'
  BY <1>1, <1>2, <1>3, ZenonT(60) DEF BoundInv, BoundTypes, MainBound
<1>6. SessionsBound'
  <2> SUFFICES ASSUME NEW s \in Sessions PROVE Attached(s)'
    BY ZenonT(60) DEF SessionsBound
  <2>1. Attached(s)
    BY ZenonT(60) DEF BoundInv, SessionsBound
  <2>2. loop'[s] = IF s = main.session THEN connLoop[main.peer] ELSE loop[s]
    BY <1>0, <1>1, ZenonT(60) DEF ThreadTypes, SessionTypes
  <2>3. loop'[s] # NoLoop => Given(loop'[s], s)
    BY <1>3, <2>1, <2>2, ZenonT(60) DEF Attached, Given
  <2>4. \A l : Given(l, s) => Given(l, s)'
    BY <1>4, GivenStays, ZenonT(60)
  <2>5. QED
    BY <1>1, <2>1, <2>3, <2>4, ZenonT(60) DEF Attached
<1>7. CallbacksBound' /\ FunctorsBound' /\ DatagramsBound' /\ OutcomesBound'
  BY <1>0, <1>1, <1>4, BoundFrame, ZenonT(60)
<1>8. QED
  BY <1>5, <1>6, <1>7, ZenonT(60) DEF BoundInv

(* The steps that post one functor, to a loop that may run it. *)
LEMMA BoundPost ==
  ASSUME ThreadTypes, BoundInv,
         UNCHANGED <<transport, bound, loop, driven, connLoop, callback, sockQ, strays, fault,
                     astray>>,
         MainBound', NEW k \in Loops, NEW f, Posts(k, f), Allowed(k, f)
  PROVE  BoundInv'
<1>1. Grows
  BY ZenonT(60) DEF Grows
<1>2. BoundTypes'
  BY ZenonT(60) DEF BoundInv, BoundTypes
<1>3. SessionsBound' /\ CallbacksBound' /\ DatagramsBound' /\ OutcomesBound'
  BY <1>1, BoundFrame, ZenonT(60)
<1>4. \A l \in Loops : \A g \in Items(queue'[l]) : Allowed(l, g)
  BY ZenonT(60) DEF BoundInv, FunctorsBound, Posts
<1>5. \A l, g : Allowed(l, g)' <=> Allowed(l, g)
  BY ZenonT(60) DEF Allowed, Given
<1>6. FunctorsBound'
  BY <1>4, <1>5, ZenonT(60) DEF FunctorsBound
<1>7. QED
  BY <1>2, <1>3, <1>6, ZenonT(60) DEF BoundInv

(* The channel of the connection is enabled on its loop. *)
LEMMA BoundStart ==
  ASSUME ThreadsInv, BoundInv, Start
  PROVE  BoundInv'
<1> DEFINE f == Functor("enable", main.peer, main.session)
<1>0. ThreadTypes /\ BindingOrder
  BY ZenonT(60) DEF ThreadsInv
<1>1. /\ UNCHANGED <<transport, bound, loop, driven, connLoop, callback, sockQ, strays, fault,
                     astray>>
      /\ main.at = "start" /\ Advance
      /\ queue' = [queue EXCEPT ![connLoop[main.peer]] = Append(@, f)]
  BY ZenonT(60) DEF Start, At, sessionVars, netVars, kernelVars, historyVars
<1>2. /\ main'.at = "loop" /\ main'.peer = main.peer /\ main'.session = main.session
      /\ main.peer \in Peers /\ main.session \in Sessions
  BY <1>0, <1>1, AdvanceFacts, ZenonT(60) DEF Steps
<1>3. connLoop[main.peer] \in Loops
  BY <1>0, <1>1, <1>2, ZenonT(60) DEF BindingOrder, MainOrder, HasConnection, ThreadTypes,
     NetTypes
<1>4. f \in Functors /\ f.kind = "enable"
  BY <1>2, ZenonT(60) DEF Functor, Functors, Kinds
<1>5. MainBound'
  BY <1>1, <1>2, ZenonT(60) DEF BoundInv, MainBound, HasTransport
<1> HIDE DEF f
<1>6. Posts(connLoop[main.peer], f) /\ Allowed(connLoop[main.peer], f)
  BY <1>0, <1>1, <1>3, <1>4, Posted, ZenonT(60) DEF Allowed
<1>7. QED
  BY <1>0, <1>1, <1>3, <1>5, <1>6, BoundPost, ZenonT(60)

(* The first packet goes to the loop_ of its session. *)
LEMMA BoundFirstPacket ==
  ASSUME ThreadsInv, BoundInv, PostFirstPacket
  PROVE  BoundInv'
<1> DEFINE f == Functor("input", main.peer, main.session)
<1>0. ThreadTypes /\ BindingOrder
  BY ZenonT(60) DEF ThreadsInv
<1>1. /\ UNCHANGED <<transport, bound, loop, driven, connLoop, callback, sockQ, strays, fault,
                     astray>>
      /\ main.at = "post" /\ main' = IdleMain
      /\ queue' = [queue EXCEPT ![loop[main.session]] = Append(@, f)]
  BY ZenonT(60) DEF PostFirstPacket, At, sessionVars, netVars, kernelVars, historyVars
<1>2. main.peer \in Peers /\ main.session \in Sessions
  BY <1>0, <1>1, AtFacts, ZenonT(60)
<1>3. loop[main.session] \in Loops /\ loop[main.session] # NoLoop
  BY <1>0, <1>1, <1>2, ZenonT(60) DEF BindingOrder, MainOrder, HasLoop, ThreadTypes,
     SessionTypes
<1>4. Given(loop[main.session], main.session) /\ main.peer \in bound[main.session]
  BY <1>1, <1>2, <1>3, ZenonT(60) DEF BoundInv, SessionsBound, Attached, MainBound, HasTransport
<1>5. f \in Functors /\ f.kind = "input" /\ f.peer = main.peer /\ f.session = main.session
  BY <1>2, ZenonT(60) DEF Functor, Functors, Kinds
<1>6. MainBound'
  BY <1>1, ZenonT(60) DEF IdleMain, MainBound, HasTransport
<1> HIDE DEF f
<1>7. Posts(loop[main.session], f) /\ Allowed(loop[main.session], f)
  BY <1>0, <1>1, <1>3, <1>4, <1>5, Posted, ZenonT(60) DEF Allowed
<1>8. QED
  BY <1>0, <1>1, <1>3, <1>6, <1>7, BoundPost, ZenonT(60)

(* The main loop. *)
LEMMA BoundMain ==
  ASSUME ThreadsInv, BoundInv, MainStep
  PROVE  BoundInv'
<1>0. ThreadTypes
  BY ZenonT(60) DEF ThreadsInv
<1>1. CASE HandlePacket
  <2>1. /\ UNCHANGED <<transport, bound, loop, driven, connLoop, callback, queue, sockQ, strays,
                       fault, astray>>
        /\ main'.at \in {"idle", "connection"}
    BY <1>1, ZenonT(60) DEF HandlePacket, sessionVars, netVars, historyVars, IdleMain
  <2>2. MainBound'
    BY <2>1, ZenonT(60) DEF MainBound, HasTransport
  <2>3. QED
    BY <1>0, <2>1, <2>2, BoundSame, ZenonT(60)
<1>2. CASE GetOrCreatConnection
  <2>1. /\ UNCHANGED <<transport, bound, loop, driven, connLoop, callback, queue, sockQ, strays,
                       fault, astray>>
        /\ main' = [main EXCEPT !.at = IF connLoop[main.peer] # NoLoop THEN NextStep("connect")
                                                                       ELSE "connect"]
    BY <1>2, ZenonT(60) DEF GetOrCreatConnection, sessionVars, netVars, kernelVars, historyVars
  <2>2. NextStep("connect") = "transport"
    BY ZenonT(60) DEF NextStep
  <2>3. /\ connLoop[main.peer] # NoLoop => main'.at = "transport"
        /\ connLoop[main.peer] = NoLoop => main'.at = "connect"
        /\ main'.peer = main.peer
    <3>1. DOMAIN main = {"at", "peer", "session"}
      BY <1>0, ZenonT(60) DEF ThreadTypes, MainTypes
    <3>2. QED
      BY <2>1, <2>2, <3>1
  <2>4. MainBound'
    BY <2>1, <2>3, ZenonT(60) DEF MainBound, HasTransport
  <2>5. QED
    BY <1>0, <2>1, <2>4, BoundSame, ZenonT(60)
<1>3. CASE StoreReady
  <2>1. /\ UNCHANGED <<transport, bound, loop, driven, connLoop, callback, queue, sockQ, strays,
                       fault, astray>>
        /\ main.at = "ready" /\ Advance
    BY <1>3, ZenonT(60) DEF StoreReady, At, netVars, kernelVars, historyVars
  <2>2. main'.at = "post" /\ main'.peer = main.peer /\ main'.session = main.session
    BY <1>0, <2>1, AdvanceFacts, ZenonT(60) DEF Steps
  <2>3. MainBound'
    BY <2>1, <2>2, ZenonT(60) DEF BoundInv, MainBound, HasTransport
  <2>4. QED
    BY <1>0, <2>1, <2>3, BoundSame, ZenonT(60)
<1>4. QED
  BY <1>1, <1>2, <1>3, BoundConnect, BoundTransport, BoundCallback, BoundStart, BoundLoop,
     BoundFirstPacket, ZenonT(60) DEF MainStep

(* A loop of a connection that the session has been given runs its         *)
(* WebRtcTransport.                                                        *)
LEMMA BoundDrive ==
  ASSUME ThreadTypes, BoundInv, NEW s \in Sessions, NEW l \in Loops, NEW racing, Given(l, s),
         UNCHANGED <<transport, bound, loop, connLoop, callback, main, strays>>,
         \A k \in Loops : Items(queue'[k]) \subseteq Items(queue[k]),
         \A p \in Peers : Items(sockQ'[p]) \subseteq Items(sockQ[p]),
         Ran(s, l, racing), astray' = astray \/ (astray' = astray \cup {s} /\ Excused(s))
  PROVE  BoundInv'
<1>1. Grows
  BY ZenonT(60) DEF Grows
<1>2. BoundTypes' /\ MainBound'
  BY ZenonT(60) DEF BoundInv, BoundTypes, MainBound, HasTransport
<1>3. CallbacksBound' /\ FunctorsBound' /\ DatagramsBound'
  BY <1>1, BoundFrame, ZenonT(60)
<1>4. Attached(s)
  BY ZenonT(60) DEF BoundInv, SessionsBound
<1>5. SessionsBound'
  <2> SUFFICES ASSUME NEW t \in Sessions PROVE Attached(t)'
    BY ZenonT(60) DEF SessionsBound
  <2>1. Attached(t)
    BY ZenonT(60) DEF BoundInv, SessionsBound
  <2>2. \A k \in driven'[t] : k \in driven[t] \/ (t = s /\ k = l)
    BY ZenonT(60) DEF ThreadTypes, HistoryTypes, Ran
  <2>3. \A k \in driven'[t] : Given(k, t)
    BY <2>1, <2>2, ZenonT(60) DEF Attached
  <2>4. \A k : Given(k, t) => Given(k, t)'
    BY <1>1, GivenStays, ZenonT(60)
  <2>5. QED
    BY <2>1, <2>3, <2>4, ZenonT(60) DEF Attached
<1>6. OutcomesBound'
  <2>1. fault' = "assert" => Moved(s)
    <3> SUFFICES ASSUME fault' = "assert" PROVE Moved(s)
      OBVIOUS
    <3>1. transport[s] # NoPeer /\ connLoop[transport[s]] # l
      BY ZenonT(60) DEF Ran
    <3>2. transport[s] \in bound[s]
      BY <1>4, <3>1, ZenonT(60) DEF Attached
    <3>3. PICK p \in bound[s] : connLoop[p] = l
      BY ZenonT(60) DEF Given
    <3>4. QED
      BY <3>1, <3>2, <3>3, ZenonT(60) DEF Moved
  <2>2. Moved(s) => Moved(s)'
    BY <1>1, GivenStays, ZenonT(60)
  <2>3. \A t \in astray' : Excused(t)
    BY ZenonT(60) DEF BoundInv, OutcomesBound
  <2>4. \A t : Excused(t)' <=> Excused(t)
    BY ZenonT(60) DEF Excused
  <2>5. QED
    BY <2>1, <2>2, <2>3, <2>4, ZenonT(60) DEF OutcomesBound
<1>7. QED
  BY <1>2, <1>3, <1>5, <1>6, ZenonT(60) DEF BoundInv

(* An answer sent through a connection the session has been given, to      *)
(* whoever asked through another or was not the peer of the socket.        *)
LEMMA MissedAnswer ==
  ASSUME ThreadTypes, BoundInv, NEW s \in Sessions, NEW p \in bound[s], NEW q,
         q = p \/ p \in strays, transport[s] # NoPeer, transport[s] # q
  PROVE  Excused(s)
<1>1. transport[s] \in bound[s]
  BY ZenonT(60) DEF BoundInv, SessionsBound, Attached
<1>2. QED
  BY <1>1, ZenonT(60) DEF Excused

(* A functor runs on a loop that may run it. *)
LEMMA BoundFunctor ==
  ASSUME ThreadsInv, BoundInv, NEW l \in Loops, RunFunctor(l)
  PROVE  BoundInv'
<1> DEFINE f == Head(queue[l])
           s == f.session
<1>0. ThreadTypes /\ Running
  BY ZenonT(60) DEF ThreadsInv, RunFunctor
<1>1. /\ UNCHANGED <<transport, loop, connLoop, callback, main, sockQ>>
      /\ f \in Functors /\ Runnable(f) /\ f \in Items(queue[l])
      /\ \A k \in Loops : Items(queue'[k]) \subseteq Items(queue[k])
  BY RunFunctorFacts, ZenonT(60)
<1>2. UNCHANGED <<bound, strays>>
  BY ZenonT(60) DEF RunFunctor, sessionVars, kernelVars
<1>3. \/ f.kind = "enable" /\ UNCHANGED historyVars
      \/ f.kind = "input" /\ OnInputDataPacket(s, l, f.peer, s, ReplacesTransport(s))
      \/ f.kind = "rtp" /\ UNCHANGED astray /\ Drive(s, l, ReplacesTransport(s))
  BY ZenonT(60) DEF RunFunctor
<1> HIDE DEF f
<1>4. f.kind \in Kinds /\ s \in Sessions /\ Allowed(l, f)
  BY <1>0, <1>1, ItemsTyped, ZenonT(60) DEF BoundInv, FunctorsBound
<1>5. ReplacesTransport(s) \in BOOLEAN
  BY ZenonT(60) DEF ReplacesTransport
<1>6. \A p \in Peers : Items(sockQ'[p]) \subseteq Items(sockQ[p])
  BY <1>1, ZenonT(60)
<1>7. CASE f.kind = "enable"
  <2>1. UNCHANGED <<driven, astray, fault>>
    BY <1>3, <1>7, ZenonT(60) DEF historyVars
  <2>2. Grows
    BY <1>1, <1>2, ZenonT(60) DEF Grows
  <2>3. BoundTypes' /\ MainBound'
    BY <1>1, <1>2, ZenonT(60) DEF BoundInv, BoundTypes, MainBound, HasTransport
  <2>4. SessionsBound' /\ CallbacksBound' /\ FunctorsBound' /\ DatagramsBound' /\ OutcomesBound'
    BY <1>0, <1>1, <1>2, <1>6, <2>1, <2>2, BoundFrame, ZenonT(60)
  <2>5. QED
    BY <2>3, <2>4, ZenonT(60) DEF BoundInv
<1>8. CASE f.kind = "input"
  <2>1. /\ OnInputDataPacket(s, l, f.peer, s, ReplacesTransport(s))
        /\ f.peer \in Peers /\ transport[s] # NoPeer
    BY <1>1, <1>3, <1>8, ZenonT(60) DEF Runnable
  <2>2. Given(l, s) /\ f.peer \in bound[s]
    BY <1>4, <1>8, ZenonT(60) DEF Allowed
  <2> HIDE DEF s
  <2>3. Ran(s, l, ReplacesTransport(s)) /\ Answered(s, f.peer)
    BY <1>0, <1>4, <1>5, <2>1, InputFacts, ZenonT(60)
  <2>4. transport[s] # f.peer => Excused(s)
    BY <1>0, <1>4, <2>1, <2>2, MissedAnswer, ZenonT(60)
  <2>5. astray' = astray \/ (astray' = astray \cup {s} /\ Excused(s))
    BY <2>3, <2>4, ZenonT(60) DEF Answered
  <2>6. QED
    BY <1>0, <1>1, <1>2, <1>4, <1>6, <2>2, <2>3, <2>5, BoundDrive, ZenonT(60)
<1>9. CASE f.kind = "rtp"
  <2>1. Drive(s, l, ReplacesTransport(s)) /\ astray' = astray /\ Given(l, s)
    BY <1>3, <1>4, <1>9, ZenonT(60) DEF Allowed
  <2> HIDE DEF s
  <2>2. Ran(s, l, ReplacesTransport(s))
    BY <1>0, <1>4, <1>5, <2>1, DriveFacts, ZenonT(60)
  <2>3. QED
    BY <1>0, <1>1, <1>2, <1>4, <1>6, <2>1, <2>2, BoundDrive, ZenonT(60)
<1>10. QED
  BY <1>4, <1>7, <1>8, <1>9, ZenonT(60) DEF Kinds

(* A read event runs the session that has the connection, also when the    *)
(* datagram is another peer's.                                             *)
LEMMA BoundRead ==
  ASSUME ThreadsInv, BoundInv, NEW l \in Loops, NEW p \in Peers, HandleRead(l, p)
  PROVE  BoundInv'
<1> DEFINE s == callback[p]
           c == Head(sockQ[p])
           racing == ReplacesTransport(s) \/ ReplacesCallback(p)
<1>0. ThreadTypes /\ Running
  BY ZenonT(60) DEF ThreadsInv, HandleRead
<1>1. /\ UNCHANGED <<transport, loop, connLoop, callback, queue, main>>
      /\ c \in Contacts /\ s \in Sessions /\ transport[s] # NoPeer /\ connLoop[p] = l
      /\ OnInputDataPacket(s, l, c[1], c[2], racing)
  BY HandleReadFacts, ZenonT(60)
<1>2. /\ UNCHANGED <<bound, strays>>
      /\ sockQ[p] # <<>> /\ sockQ' = [sockQ EXCEPT ![p] = Tail(@)]
  BY ZenonT(60) DEF HandleRead, sessionVars
<1>3. /\ c \in Items(sockQ[p])
      /\ \A q \in Peers : Items(sockQ'[q]) \subseteq Items(sockQ[q])
  <2>1. sockQ \in [Peers -> Seq(Contacts)] /\ sockQ[p] \in Seq(Contacts)
    BY <1>0, ZenonT(60) DEF ThreadTypes, QueueTypes
  <2>2. Items(Tail(sockQ[p])) \subseteq Items(sockQ[p]) /\ Head(sockQ[p]) \in Items(sockQ[p])
    BY <1>2, <2>1, TailItems, ZenonT(60)
  <2>3. QED
    BY <1>2, <2>1, <2>2, ZenonT(60)
<1> HIDE DEF c
<1>4. c[1] \in Peers
  BY <1>1, NoneFacts, ZenonT(60)
<1>5. racing \in BOOLEAN
  BY ZenonT(60) DEF ReplacesTransport, ReplacesCallback
<1>6. p \in bound[s] /\ (c[1] = p \/ p \in strays)
  BY <1>1, <1>3, NoneFacts, ZenonT(60) DEF BoundInv, CallbacksBound, DatagramsBound
<1> HIDE DEF racing, s
<1>7. Given(l, s)
  BY <1>1, <1>6, ZenonT(60) DEF Given
<1>8. Ran(s, l, racing) /\ Answered(s, c[1])
  BY <1>0, <1>1, <1>4, <1>5, InputFacts, ZenonT(60)
<1>9. transport[s] # c[1] => Excused(s)
  BY <1>0, <1>1, <1>6, MissedAnswer, ZenonT(60)
<1>10. astray' = astray \/ (astray' = astray \cup {s} /\ Excused(s))
  BY <1>8, <1>9, ZenonT(60) DEF Answered
<1>11. \A k \in Loops : Items(queue'[k]) \subseteq Items(queue[k])
  BY <1>1, ZenonT(60)
<1>12. QED
  BY <1>0, <1>1, <1>2, <1>3, <1>7, <1>8, <1>10, <1>11, BoundDrive, ZenonT(60)

(* The media thread posts to the loop_ of the session. *)
LEMMA BoundMedia ==
  ASSUME ThreadsInv, BoundInv, MediaStep
  PROVE  BoundInv'
<1>0. ThreadTypes /\ BindingOrder
  BY ZenonT(60) DEF ThreadsInv
<1>1. CASE CollectReady
  <2>1. UNCHANGED <<transport, bound, loop, driven, connLoop, callback, queue, sockQ, strays, fault,
                    astray, main>>
    BY <1>1, ZenonT(60) DEF CollectReady, sessionVars, netVars, kernelVars, historyVars
  <2>2. MainBound'
    BY <2>1, ZenonT(60) DEF BoundInv, MainBound, HasTransport
  <2>3. QED
    BY <1>0, <2>1, <2>2, BoundSame, ZenonT(60)
<1>2. ASSUME NEW s \in Sessions, PostRtp(s) PROVE BoundInv'
  <2> DEFINE f == Functor("rtp", NoPeer, s)
  <2>1. loop[s] # NoLoop /\ loop[s] \in Loops
    BY <1>0, <1>2, ZenonT(60) DEF PostRtp, BindingOrder, SessionOrder, ThreadTypes, SessionTypes
  <2>2. /\ UNCHANGED <<transport, bound, loop, driven, connLoop, callback, sockQ, strays, fault,
                       astray, main>>
        /\ queue' = [queue EXCEPT ![loop[s]] = Append(@, f)]
    BY <1>2, <2>1, ZenonT(60) DEF PostRtp, sessionVars, netVars, kernelVars
  <2>3. f \in Functors /\ f.kind = "rtp" /\ f.session = s
    BY ZenonT(60) DEF Functor, Functors, Kinds
  <2> HIDE DEF f
  <2>4. Posts(loop[s], f)
    BY <1>0, <2>1, <2>2, <2>3, Posted, ZenonT(60)
  <2>5. Given(loop[s], s)
    BY <2>1, ZenonT(60) DEF BoundInv, SessionsBound, Attached
  <2>6. Allowed(loop[s], f)
    BY <2>3, <2>5, ZenonT(60) DEF Allowed
  <2>7. MainBound'
    BY <2>2, ZenonT(60) DEF BoundInv, MainBound, HasTransport
  <2>8. QED
    BY <1>0, <2>1, <2>2, <2>4, <2>6, <2>7, BoundPost, ZenonT(60)
<1>3. QED
  BY <1>1, <1>2, ZenonT(60) DEF MediaStep

(* A step of any thread. *)
LEMMA BoundStep ==
  ASSUME ThreadsInv, BoundInv, [Next]_vars
  PROVE  BoundInv'
<1>0. ThreadTypes
  BY ZenonT(60) DEF ThreadsInv
<1>1. CASE Arrive
  BY <1>1, BoundArrive, ZenonT(60)
<1>2. CASE (\E s \in Sessions : CreateSession(s)) \/ UNCHANGED vars
  <2>1. UNCHANGED <<transport, bound, loop, driven, connLoop, callback, queue, sockQ, strays, fault,
                    astray, main>>
    BY <1>2, ZenonT(60) DEF CreateSession, vars, sessionVars, netVars, kernelVars, historyVars
  <2>2. MainBound'
    BY <2>1, ZenonT(60) DEF BoundInv, MainBound, HasTransport
  <2>3. QED
    BY <1>0, <2>1, <2>2, BoundSame, ZenonT(60)
<1>3. CASE MainStep
  BY <1>3, BoundMain, ZenonT(60)
<1>4. CASE \E l \in Loops : LoopStep(l)
  BY <1>4, BoundFunctor, BoundRead, ZenonT(60) DEF LoopStep
<1>5. CASE MediaStep
  BY <1>5, BoundMedia, ZenonT(60)
<1>6. QED
  BY <1>1, <1>2, <1>3, <1>4, <1>5, ZenonT(60) DEF Next

(* The start of the server. *)
LEMMA BoundInit ==
  ASSUME Init
  PROVE  BoundInv
<1>1. main.at = "idle"
  BY ZenonT(60) DEF Init, IdleMain
<1>2. (\A l \in Loops : Items(queue[l]) = {}) /\ (\A p \in Peers : Items(sockQ[p]) = {})
  BY DEF Init, Items
<1>3. SessionsBound
  BY ZenonT(60) DEF Init, SessionsBound, Attached
<1>4. BoundTypes /\ MainBound /\ OutcomesBound
  BY <1>1, ZenonT(60) DEF Init, BoundTypes, MainBound, OutcomesBound, HasTransport
<1>5. CallbacksBound
  BY ZenonT(60) DEF Init, CallbacksBound
<1>6. FunctorsBound /\ DatagramsBound
  BY <1>2, ZenonT(60) DEF FunctorsBound, DatagramsBound
<1>7. QED
  BY <1>3, <1>4, <1>5, <1>6, ZenonT(60) DEF BoundInv

(* Whoever contacts which session from where, all that happens to a        *)
(* session happens on the loops of the connections it has been given.      *)
THEOREM ThreadsBound == Spec => [](ThreadsInv /\ BoundInv)
<1>1. Init => ThreadsInv /\ BoundInv
  BY ThreadsInitInv, BoundInit, ZenonT(60)
<1>2. (ThreadsInv /\ BoundInv) /\ [Next]_vars => (ThreadsInv /\ BoundInv)'
  BY ThreadsStepInv, BoundStep, ZenonT(60)
<1>3. QED
  BY <1>1, <1>2, PTL DEF Spec

(* The media thread never reads an uninitialised loop_: SetNetworkTransport *)
(* stores it before is_ready_ (LoopKnownWhenReady).                        *)
THEOREM ThreadsLoopKnownWhenReady == Spec => []LoopKnownWhenReady
<1>1. ThreadsInv /\ BoundInv => TypeOK
  BY ZenonT(60) DEF ThreadsInv, ThreadTypes, SessionTypes, NetTypes, QueueTypes, MainTypes,
     HistoryTypes, BoundInv, BoundTypes, TypeOK, Functors, Kinds, Steps, Faults
<1>2. ThreadsInv => (\A s \in ready : loop[s] # NoLoop) /\ fault # "loop"
  BY ZenonT(60) DEF ThreadsInv, BindingOrder, SessionOrder
<1>3. QED
  BY <1>1, <1>2, ThreadsBound, PTL DEF LoopKnownWhenReady

(* The assertion of UdpConnection::Send fails only after a session has     *)
(* moved to a connection of another loop (AssertsOnlyWhenMoved).           *)
THEOREM ThreadsAssertsOnlyWhenMoved == Spec => []AssertsOnlyWhenMoved
<1>1. BoundInv => AssertsOnlyWhenMoved
  BY ZenonT(60) DEF BoundInv, OutcomesBound, AssertsOnlyWhenMoved
<1>2. QED
  BY <1>1, ThreadsBound, PTL

(* The threads that drive a WebRtcTransport, and the loop_ that the media  *)
(* thread posts to, are loops of connections that its session has been     *)
(* given (SingleDriver): one thread, as long as it has not moved.          *)
THEOREM ThreadsSingleDriver == Spec => []SingleDriver
<1>1. BoundInv => SingleDriver
  <2> SUFFICES ASSUME BoundInv, NEW s \in Sessions,
                      NEW l \in driven[s] \cup ({loop[s]} \ {NoLoop})
               PROVE  l \in {connLoop[p] : p \in bound[s]}
    BY ZenonT(60) DEF SingleDriver
  <2>1. Given(l, s)
    BY ZenonT(60) DEF BoundInv, SessionsBound, Attached
  <2>2. QED
    BY <2>1, ZenonT(60) DEF Given
<1>2. QED
  BY <1>1, ThreadsBound, PTL

(* Although SendPacket ignores the address, an answer goes to the one who  *)
(* asked, unless its session has been given the connections of two         *)
(* addresses or the socket of one held another peer's datagram             *)
(* (AnswersGoToSender).                                                    *)
THEOREM ThreadsAnswersGoToSender == Spec => []AnswersGoToSender
<1>1. BoundInv => AnswersGoToSender
  BY ZenonT(60) DEF BoundInv, OutcomesBound, Excused, AnswersGoToSender
<1>2. QED
  BY <1>1, ThreadsBound, PTL
=============================================================================
