--------------------------- MODULE ChatRoomProofs ---------------------------
(***************************************************************************)
(* Theorems about ChatRoom, for every set of connections and processes and *)
(* every size of the pool: what clients have seen is in the history, and a *)
(* broadcast misses nobody who is there.                                   *)
(***************************************************************************)
EXTENDS ChatRoom, FiniteSetTheorems, TLAPS

---------------------------------------------------------------------------
(* Types                                                                   *)

LEMMA InitTypes == Init => TypeOK
BY DEF Init, TypeOK, Outbound, Nothing

(* A part of what one handler sends is replaced.                           *)
LEMMA OutboundPart ==
  ASSUME NEW out \in [Sockets -> Outbound], NEW s \in Sockets,
         NEW m \in Message \cup {None}, NEW p
  PROVE  /\ [out EXCEPT ![s].message = m] \in [Sockets -> Outbound]
         /\ [out EXCEPT ![s].left = @ \ {p}] \in [Sockets -> Outbound]
<1>1. [out[s] EXCEPT !.message = m] \in Outbound
  <2>1. out[s] \in Outbound
    OBVIOUS
  <2> QED BY <2>1 DEF Outbound
<1>2. [out[s] EXCEPT !.left = out[s].left \ {p}] \in Outbound
  <2>1. out[s] \in Outbound
    OBVIOUS
  <2> QED BY <2>1 DEF Outbound
<1>3. [out EXCEPT ![s] = [out[s] EXCEPT !.message = m]]
        \in [Sockets -> Outbound]
  BY <1>1
<1>4. [out EXCEPT ![s] = [out[s] EXCEPT !.left = out[s].left \ {p}]]
        \in [Sockets -> Outbound]
  BY <1>2
<1> QED BY <1>3, <1>4

LEMMA EndTypes ==
  ASSUME TypeOK, NEW s \in Sockets, NEW place \in SUBSET Sockets, End(s, place)
  PROVE  TypeOK'
BY DEF End, TypeOK, Outbound, Nothing

LEMMA BroadcastTypes ==
  ASSUME TypeOK, NEW s \in Sockets, NEW message \in Message \cup {None},
         Broadcast(s, message)
  PROVE  /\ pc' \in [Sockets -> {"absent", "waiting", "flushed", "sending",
                                 "ended"}]
         /\ outbound' \in [Sockets -> Outbound]
BY DEF Broadcast, TypeOK, Outbound, Peers

(* What the author had received when he sent a message is stored and older. *)
Grounded(n) ==
  \A t \in n.seen : \E m \in messages : m.at = t /\ ListedBefore(m, n)

(* The message of a session that has flushed it.                           *)
Stamped(s) ==
  /\ outbound[s].message \in Message
  /\ outbound[s].message.via = s
  /\ outbound[s].message.at <= clock
  /\ Grounded(outbound[s].message)

(* What Flush makes.                                                       *)
Draft(s) ==
  [author |-> User[s], via |-> s, at |-> clock + 1, seen |-> Received(User[s])]

LEMMA DraftTypes ==
  ASSUME TypeOK, NEW s \in Sockets
  PROVE  Draft(s) \in Message
<1>1. User[s] \in Users /\ clock + 1 \in Nat
  BY ChatAssumption DEF TypeOK
<1>2. ASSUME NEW t \in Sockets, NEW i \in DOMAIN inbox[t]
      PROVE  inbox[t][i].at \in Nat
  <2>1. inbox[t] \in Seq(Message)
    BY DEF TypeOK
  <2>2. inbox[t][i] \in Message
    BY <2>1
  <2> QED BY <2>2 DEF Message
<1>3. Received(User[s]) \in SUBSET Nat
  BY <1>2 DEF Received
<1> QED BY <1>1, <1>3 DEF Draft, Message

LEMMA TypeStep ==
  ASSUME TypeOK, \A s \in Sockets : pc[s] = "flushed" => Stamped(s),
         [Next]_vars
  PROVE  TypeOK'
<1>1. ASSUME NEW s \in Sockets, Connect(s) \/ Refuse(s) \/ Drop(s)
      PROVE  TypeOK'
  BY <1>1 DEF Connect, Refuse, Drop, TypeOK
<1>2. ASSUME NEW s \in Sockets, Typing(s)
      PROVE  TypeOK'
  BY <1>2, BroadcastTypes DEF Typing, TypeOK
<1>3. ASSUME NEW s \in Sockets, Flush(s)
      PROVE  TypeOK'
  <2>1. PICK m : m \in Message /\ m = Draft(s)
    BY DraftTypes
  <2>2. /\ outbound' = [outbound EXCEPT ![s].message = m]
        /\ pc' = [pc EXCEPT ![s] = "flushed"]
        /\ clock' = clock + 1
        /\ holding' = holding \cup {s}
        /\ UNCHANGED <<up, room, messages, inbox>>
    BY <1>3, <2>1 DEF Flush, FlushAt, Draft
  <2>3. outbound' \in [Sockets -> Outbound]
    <3>1. outbound \in [Sockets -> Outbound] /\ m \in Message \cup {None}
      BY <2>1 DEF TypeOK
    <3> QED BY <2>2, <3>1, OutboundPart
  <2> QED BY <2>2, <2>3 DEF TypeOK
<1>4. ASSUME NEW s \in Sockets, Commit(s)
      PROVE  TypeOK'
  <2>1. outbound[s].message \in Message
    BY <1>4 DEF Commit, Stamped
  <2> QED BY <1>4, <2>1, BroadcastTypes DEF Commit, TypeOK
<1>5. ASSUME NEW s \in Sockets, NEW p \in outbound[s].left, SendTo(s, p)
      PROVE  TypeOK'
  <2>1. CASE Deliver(s, p)
    <3>1. p \in Sockets
      BY DEF TypeOK, Outbound
    <3>2. outbound' \in [Sockets -> Outbound]
      BY <2>1, OutboundPart DEF Deliver, Served, TypeOK
    <3>3. inbox' \in [Sockets -> Seq(Message)]
      <4>1. CASE outbound[s].message = None
        BY <2>1, <4>1 DEF Deliver, TypeOK
      <4>2. CASE outbound[s].message # None
        <5>1. outbound[s].message \in Message
          BY <4>2 DEF TypeOK, Outbound
        <5>2. inbox' = [inbox EXCEPT ![p] =
                          Append(inbox[p], outbound[s].message)]
          BY <2>1, <4>2 DEF Deliver
        <5>3. Append(inbox[p], outbound[s].message) \in Seq(Message)
          BY <3>1, <5>1 DEF TypeOK
        <5> QED BY <5>2, <5>3 DEF TypeOK
      <4> QED BY <4>1, <4>2
    <3> QED BY <2>1, <3>2, <3>3 DEF Deliver, TypeOK
  <2>2. CASE Lose(s, p)
    BY <2>2, OutboundPart DEF Lose, Served, TypeOK
  <2>3. CASE SendFails(s, p)
    <3>1. PICK place \in {room, room \ {s}} : End(s, place)
      BY <2>3 DEF SendFails
    <3>2. place \in SUBSET Sockets
      BY DEF TypeOK
    <3> QED BY <3>1, <3>2, EndTypes
  <2> QED BY <1>5, <2>1, <2>2, <2>3 DEF SendTo
<1>6. ASSUME NEW s \in Sockets, Done(s)
      PROVE  TypeOK'
  BY <1>6 DEF Done, TypeOK, Outbound, Nothing
<1>7. ASSUME NEW s \in Sockets, Disconnect(s) \/ Fail(s)
      PROVE  TypeOK'
  <2>1. room \in SUBSET Sockets /\ room \ {s} \in SUBSET Sockets
    BY DEF TypeOK
  <2> QED BY <1>7, <2>1, EndTypes DEF Disconnect, Fail
<1>8. ASSUME NEW p \in Processes, Restart(p)
      PROVE  TypeOK'
  BY <1>8 DEF Restart, TypeOK, Outbound, Nothing
<1>9. CASE UNCHANGED vars
  BY <1>9 DEF vars, TypeOK
<1> QED
  BY <1>1, <1>2, <1>3, <1>4, <1>5, <1>6, <1>7, <1>8, <1>9
  DEF Next, Handle, Send

---------------------------------------------------------------------------
(* What clients see                                                        *)

(* A message is not stored before its commit, and nobody it is still to be *)
(* sent to has received it.                                                *)
Ordered(s) ==
  /\ pc[s] = "flushed" => Stamped(s) /\ outbound[s].message \notin messages
  /\ pc[s] = "sending" /\ outbound[s].message # None =>
       /\ Stamped(s)
       /\ outbound[s].message \in messages
       /\ \A p \in outbound[s].left : \A i \in DOMAIN inbox[p] :
            inbox[p][i] # outbound[s].message

SeenInv ==
  /\ \A s \in Sockets : Ordered(s)
  /\ \A m \in messages : m.at <= clock
  /\ SeenInHistory

(* Steps that store and deliver nothing: a handler goes on with the        *)
(* message it has, or has none.                                            *)
Retreat(s) ==
  \/ /\ pc'[s] = pc[s]
     /\ outbound'[s].message = outbound[s].message
     /\ outbound'[s].left \subseteq outbound[s].left
  \/ /\ pc'[s] # "flushed"
     /\ ~(pc'[s] = "sending" /\ outbound'[s].message # None)

LEMMA QuietSeen ==
  ASSUME SeenInv, UNCHANGED <<messages, inbox, clock>>,
         \A s \in Sockets : Retreat(s)
  PROVE  SeenInv'
<1>1. \A s \in Sockets : Ordered(s)'
  BY DEF SeenInv, Ordered, Stamped, Retreat, Grounded
<1> QED BY <1>1 DEF SeenInv, SeenInHistory, ListedBefore

LEMMA EndSeen ==
  ASSUME TypeOK, SeenInv, NEW s \in Sockets, NEW place, End(s, place)
  PROVE  SeenInv'
<1>1. /\ pc' = [pc EXCEPT ![s] = "ended"]
      /\ outbound' = [outbound EXCEPT ![s] = Nothing]
      /\ UNCHANGED <<messages, inbox, clock>>
  BY DEF End
<1>2. \A q \in Sockets : Retreat(q)
  BY <1>1 DEF Retreat, TypeOK
<1> QED BY <1>1, <1>2, QuietSeen

LEMMA FlushSeen ==
  ASSUME TypeOK, SeenInv, NEW s \in Sockets, Flush(s)
  PROVE  SeenInv'
<1>1. PICK m : m = Draft(s)
  OBVIOUS
<1>2. /\ outbound' = [outbound EXCEPT ![s].message = m]
      /\ pc' = [pc EXCEPT ![s] = "flushed"]
      /\ clock' = clock + 1
      /\ UNCHANGED <<messages, inbox>>
  BY <1>1 DEF Flush, FlushAt, Draft
<1>3. clock \in Nat /\ m \in Message /\ m.via = s /\ m.at = clock + 1
  <2>1. clock \in Nat /\ m \in Message
    BY <1>1, DraftTypes DEF TypeOK
  <2> QED BY <1>1, <2>1 DEF Draft
<1>4. /\ pc'[s] = "flushed" /\ outbound'[s].message = m
      /\ \A q \in Sockets : q # s => pc'[q] = pc[q] /\ outbound'[q] = outbound[q]
  BY <1>2 DEF TypeOK, Outbound
<1>5. \A n \in messages : n.at \in Nat /\ n.at <= clock
  BY DEF TypeOK, Message, SeenInv
<1>6. Ordered(s)'
  <2>1. m \notin messages
    BY <1>3, <1>5
  <2>2. ASSUME NEW t \in m.seen
        PROVE  \E n \in messages : n.at = t /\ ListedBefore(n, m)
    <3>1. t \in Received(User[s])
      BY <1>1, <2>2 DEF Draft
    <3>2. PICK q \in Sockets : \E i \in DOMAIN inbox[q] : t = inbox[q][i].at
      BY <3>1 DEF Received
    <3>3. PICK i \in DOMAIN inbox[q] : t = inbox[q][i].at
      BY <3>2
    <3>4. inbox[q][i] \in messages
      BY DEF SeenInv, SeenInHistory
    <3>5. inbox[q][i].at < m.at
      BY <1>3, <1>5, <3>4
    <3> QED BY <3>3, <3>4, <3>5 DEF ListedBefore
  <2>3. Grounded(m)'
    BY <1>2, <2>2 DEF Grounded, ListedBefore
  <2>4. m.at <= clock'
    BY <1>2, <1>3
  <2> QED BY <1>2, <1>3, <1>4, <2>1, <2>3, <2>4 DEF Ordered, Stamped, Grounded
<1>7. \A q \in Sockets : q # s => Ordered(q)'
  <2> TAKE q \in Sockets
  <2> HAVE q # s
  <2>1. pc'[q] = pc[q] /\ outbound'[q] = outbound[q] /\ Ordered(q)
    BY <1>4 DEF SeenInv
  <2>2. Stamped(q) => Stamped(q)'
    <3> SUFFICES ASSUME Stamped(q)
                 PROVE  Stamped(q)'
      OBVIOUS
    <3>1. outbound[q].message.at \in Nat
      BY DEF Stamped, Message
    <3>2. Grounded(outbound[q].message)'
      BY <1>2, <2>1 DEF Stamped, Grounded, ListedBefore
    <3>3. outbound[q].message.at <= clock'
      BY <1>2, <1>3, <3>1 DEF Stamped
    <3> QED BY <2>1, <3>2, <3>3 DEF Stamped
  <2> QED BY <1>2, <2>1, <2>2 DEF Ordered
<1>8. \A n \in messages' : n.at <= clock'
  BY <1>2, <1>3, <1>5
<1> QED
  BY <1>2, <1>6, <1>7, <1>8 DEF SeenInv, SeenInHistory, ListedBefore

LEMMA CommitSeen ==
  ASSUME TypeOK, SeenInv, NEW s \in Sockets, Commit(s)
  PROVE  SeenInv'
<1>1. PICK m : m = outbound[s].message
  OBVIOUS
<1>2. /\ pc[s] = "flushed" /\ pc' = [pc EXCEPT ![s] = "sending"]
      /\ outbound' = [outbound EXCEPT ![s] =
           [message |-> m, audience |-> Peers(s), left |-> Peers(s)]]
      /\ messages' = messages \cup {m}
      /\ UNCHANGED <<inbox, clock>>
  BY <1>1 DEF Commit, Broadcast
<1>3. /\ pc'[s] = "sending" /\ outbound'[s].message = m
      /\ outbound'[s].left = Peers(s)
      /\ \A q \in Sockets : q # s => pc'[q] = pc[q] /\ outbound'[q] = outbound[q]
  BY <1>2 DEF TypeOK
<1>4. Stamped(s) /\ m \notin messages
  BY <1>1, <1>2 DEF SeenInv, Ordered
<1>5. ASSUME NEW n, Grounded(n)
      PROVE  \A t \in n.seen : \E x \in messages' : x.at = t /\ x.at < n.at
  BY <1>2, <1>5 DEF Grounded, ListedBefore
<1>6. Ordered(s)'
  <2>1. Peers(s) \subseteq Sockets
    BY DEF Peers, TypeOK
  <2>2. \A p \in Peers(s) : \A i \in DOMAIN inbox[p] : inbox[p][i] \in messages
    BY <2>1 DEF SeenInv, SeenInHistory
  <2>3. Stamped(s)'
    BY <1>1, <1>2, <1>3, <1>4, <1>5 DEF Stamped, Grounded, ListedBefore
  <2> QED BY <1>2, <1>3, <1>4, <2>2, <2>3 DEF Ordered
<1>7. \A q \in Sockets : q # s => Ordered(q)'
  <2> TAKE q \in Sockets
  <2> HAVE q # s
  <2>1. pc'[q] = pc[q] /\ outbound'[q] = outbound[q] /\ Ordered(q)
    BY <1>3 DEF SeenInv
  <2>2. Stamped(q) => Stamped(q)'
    BY <1>2, <1>5, <2>1 DEF Stamped, Grounded, ListedBefore
  <2>3. pc[q] = "flushed" => outbound[q].message \notin messages'
    BY <1>1, <1>2, <1>4, <2>1 DEF Ordered, Stamped
  <2> QED BY <1>2, <2>1, <2>2, <2>3 DEF Ordered
<1>8. \A n \in messages' : n.at <= clock'
  BY <1>1, <1>2, <1>4 DEF SeenInv, Stamped
<1>9. SeenInHistory'
  <2>1. \A n \in messages : Grounded(n)
    BY DEF SeenInv, SeenInHistory, Grounded
  <2>2. \A n \in messages' :
          \A t \in n.seen : \E x \in messages' : x.at = t /\ x.at < n.at
    BY <1>1, <1>2, <1>4, <1>5, <2>1 DEF Stamped
  <2> QED BY <1>2, <2>2 DEF SeenInv, SeenInHistory, ListedBefore
<1> QED
  BY <1>6, <1>7, <1>8, <1>9 DEF SeenInv

(* A delivery: the peer is sent to for the first and the last time.        *)
LEMMA DeliverSeen ==
  ASSUME TypeOK, SeenInv, NEW s \in Sockets, pc[s] = "sending",
         NEW p \in outbound[s].left, outbound[s].message # None,
         Deliver(s, p)
  PROVE  SeenInv'
<1>1. PICK m : m = outbound[s].message
  OBVIOUS
<1>2. p \in Sockets /\ inbox[p] \in Seq(Message) /\ m \in Message
  BY <1>1 DEF TypeOK, Outbound
<1>3. /\ outbound' = [outbound EXCEPT ![s].left = @ \ {p}]
      /\ inbox' = [inbox EXCEPT ![p] = Append(inbox[p], m)]
      /\ UNCHANGED <<pc, messages, clock>>
  BY <1>1 DEF Deliver, Served
<1>4. /\ outbound'[s].message = m /\ outbound'[s].left = outbound[s].left \ {p}
      /\ \A q \in Sockets : q # s => outbound'[q] = outbound[q]
  BY <1>1, <1>3 DEF TypeOK, Outbound
<1>5. /\ inbox'[p] = Append(inbox[p], m)
      /\ \A q \in Sockets : q # p => inbox'[q] = inbox[q]
  BY <1>2, <1>3 DEF TypeOK
<1>6. /\ m.via = s /\ m \in messages
      /\ \A i \in DOMAIN inbox[p] : inbox[p][i] # m
  BY <1>1 DEF SeenInv, Ordered, Stamped
<1>7. /\ \A i \in DOMAIN inbox'[p] :
           \/ i \in DOMAIN inbox[p] /\ inbox'[p][i] = inbox[p][i]
           \/ i = Len(inbox[p]) + 1 /\ inbox'[p][i] = m
      /\ DOMAIN inbox[p] = 1..Len(inbox[p])
      /\ Len(inbox[p]) \in Nat
  BY <1>2, <1>5
<1>8. Ordered(s)'
  <2>1. \A q \in outbound'[s].left : inbox'[q] = inbox[q]
    BY <1>4, <1>5 DEF TypeOK, Outbound
  <2>2. Ordered(s)
    BY DEF SeenInv
  <2> QED BY <1>1, <1>3, <1>4, <2>1, <2>2 DEF Ordered, Stamped, Grounded
<1>9. \A q \in Sockets : q # s => Ordered(q)'
  <2> TAKE q \in Sockets
  <2> HAVE q # s
  <2>1. Ordered(q) /\ outbound'[q] = outbound[q]
    BY <1>4 DEF SeenInv
  <2>2. outbound[q].left \subseteq Sockets
    BY DEF TypeOK, Outbound
  <2>3. Stamped(q) => outbound[q].message # m
    BY <1>6 DEF Stamped
  <2>4. ASSUME Stamped(q), NEW x \in outbound[q].left,
               \A i \in DOMAIN inbox[x] : inbox[x][i] # outbound[q].message,
               NEW i \in DOMAIN inbox'[x]
        PROVE  inbox'[x][i] # outbound[q].message
    BY <1>5, <1>7, <2>2, <2>3, <2>4
  <2>5. Stamped(q) => Stamped(q)'
    BY <1>3, <2>1 DEF Stamped, Grounded
  <2> QED BY <1>3, <2>1, <2>4, <2>5 DEF Ordered
<1>10. SeenInHistory'
  <2>1. ASSUME NEW q \in Sockets, NEW i \in DOMAIN inbox'[q]
        PROVE  /\ inbox'[q][i] \in messages
               /\ \A j \in DOMAIN inbox'[q] : inbox'[q][i] = inbox'[q][j] => i = j
    <3>1. CASE q # p
      BY <1>5, <3>1 DEF SeenInv, SeenInHistory
    <3>2. CASE q = p
      <4>1. \A k \in DOMAIN inbox[p] : inbox[p][k] \in messages
        BY <1>2 DEF SeenInv, SeenInHistory
      <4>2. \A k, j \in DOMAIN inbox[p] : inbox[p][k] = inbox[p][j] => k = j
        BY <1>2 DEF SeenInv, SeenInHistory
      <4>3. inbox'[q][i] \in messages
        BY <1>6, <1>7, <3>2, <4>1
      <4>4. ASSUME NEW j \in DOMAIN inbox'[q], inbox'[q][i] = inbox'[q][j]
            PROVE  i = j
        BY <1>6, <1>7, <3>2, <4>2, <4>4
      <4> QED BY <4>3, <4>4
    <3> QED BY <3>1, <3>2
  <2>2. \A n \in messages : \A t \in n.seen :
          \E x \in messages : x.at = t /\ ListedBefore(x, n)
    BY DEF SeenInv, SeenInHistory
  <2> QED BY <1>3, <2>1, <2>2 DEF SeenInHistory, ListedBefore
<1> QED BY <1>3, <1>8, <1>9, <1>10 DEF SeenInv

LEMMA SeenStep ==
  ASSUME TypeOK, SeenInv, [Next]_vars
  PROVE  SeenInv'
<1>1. ASSUME NEW s \in Sockets,
             Connect(s) \/ Refuse(s) \/ Typing(s) \/ Done(s) \/ Drop(s)
      PROVE  SeenInv'
  <2>1. UNCHANGED <<messages, inbox, clock>>
    BY <1>1 DEF Connect, Refuse, Typing, Done, Drop
  <2>2. \A q \in Sockets : q # s => pc'[q] = pc[q] /\ outbound'[q] = outbound[q]
    BY <1>1 DEF Connect, Refuse, Typing, Broadcast, Done, Drop, TypeOK
  <2>3. Retreat(s)
    BY <1>1 DEF Connect, Refuse, Typing, Broadcast, Done, Drop, Retreat, TypeOK
  <2>4. \A q \in Sockets : Retreat(q)
    BY <2>2, <2>3 DEF Retreat
  <2> QED BY <2>1, <2>4, QuietSeen
<1>2. ASSUME NEW s \in Sockets, NEW p \in outbound[s].left,
             pc[s] = "sending", SendTo(s, p)
      PROVE  SeenInv'
  <2>1. ASSUME UNCHANGED <<pc, messages, inbox, clock>>, Served(s, p)
        PROVE  SeenInv'
    <3>1. \A q \in Sockets : Retreat(q)
      BY <2>1 DEF Served, Retreat, TypeOK, Outbound
    <3> QED BY <2>1, <3>1, QuietSeen
  <2>2. CASE Deliver(s, p)
    <3>1. CASE outbound[s].message # None
      BY <1>2, <2>2, <3>1, DeliverSeen
    <3>2. CASE outbound[s].message = None
      BY <2>1, <2>2, <3>2 DEF Deliver
    <3> QED BY <3>1, <3>2
  <2>3. CASE Lose(s, p)
    BY <2>1, <2>3 DEF Lose
  <2>4. CASE SendFails(s, p)
    BY <2>4, EndSeen DEF SendFails
  <2> QED BY <1>2, <2>2, <2>3, <2>4 DEF SendTo
<1>3. ASSUME NEW s \in Sockets, Disconnect(s) \/ Fail(s)
      PROVE  SeenInv'
  BY <1>3, EndSeen DEF Disconnect, Fail
<1>4. ASSUME NEW p \in Processes, Restart(p)
      PROVE  SeenInv'
  <2>1. UNCHANGED <<messages, inbox, clock>>
    BY <1>4 DEF Restart
  <2>2. \A q \in Sockets : Retreat(q)
    BY <1>4 DEF Restart, Retreat
  <2> QED BY <2>1, <2>2, QuietSeen
<1>5. CASE UNCHANGED vars
  BY <1>5, QuietSeen DEF vars, Retreat
<1> QED
  BY <1>1, <1>2, <1>3, <1>4, <1>5, FlushSeen, CommitSeen
  DEF Next, Handle, Send

---------------------------------------------------------------------------
(* Whom a broadcast reaches                                                *)

(* Whoever is in a room or is sent to has connected, and so will not       *)
(* connect again.                                                          *)
Audience(s) ==
  /\ outbound[s].left \subseteq outbound[s].audience
  /\ \A p \in outbound[s].audience : pc[p] # "absent"

ReachInv ==
  /\ \A p \in room : pc[p] # "absent"
  /\ \A s \in Sockets : Audience(s)
  /\ BroadcastReaches

(* What a step makes of the broadcast of a handler: it is over, it begins  *)
(* with everybody in the room, or it goes on, and whoever is not left any  *)
(* more is down or has the message.                                        *)
Forward(s) ==
  \/ outbound'[s].audience = {} /\ outbound'[s].left = {}
  \/ outbound'[s].left = outbound'[s].audience
       /\ outbound'[s].audience \subseteq room
  \/ /\ outbound'[s].audience = outbound[s].audience
     /\ outbound'[s].left \subseteq outbound[s].left
     /\ pc'[s] = "sending" =>
          /\ pc[s] = "sending"
          /\ outbound'[s].message = outbound[s].message
          /\ \A p \in outbound[s].left \ outbound'[s].left :
               \/ p \notin up
               \/ outbound[s].message = None
               \/ \E i \in DOMAIN inbox'[p] : inbox'[p][i] = outbound[s].message

(* Nobody who has connected comes up again or loses what he received.      *)
Onward ==
  /\ \A p \in Sockets : pc[p] # "absent" => pc'[p] # "absent"
  /\ \A p \in up' : pc[p] = "absent" \/ p \in up
  /\ \A p \in Sockets : \A i \in DOMAIN inbox[p] :
       i \in DOMAIN inbox'[p] /\ inbox'[p][i] = inbox[p][i]

RoomKept ==
  /\ \A p \in room' : pc'[p] # "absent"
  /\ \A s \in Sockets : pc'[s] \notin {"absent", "ended"} => s \in room'

LEMMA ForwardReaches ==
  ASSUME TypeOK, ReachInv, Onward, RoomKept, \A s \in Sockets : Forward(s)
  PROVE  ReachInv'
<1>1. \A s \in Sockets : /\ outbound[s].audience \subseteq Sockets
                         /\ outbound[s].left \subseteq Sockets
  BY DEF TypeOK, Outbound
<1>2. room \subseteq Sockets
  BY DEF TypeOK
<1>3. \A s \in Sockets : Audience(s)'
  BY <1>1, <1>2 DEF Forward, Onward, ReachInv, Audience
<1>4. ASSUME NEW s \in Sockets, pc'[s] = "sending", outbound'[s].message # None,
             NEW p \in (outbound'[s].audience \cap up') \ outbound'[s].left
      PROVE  \E i \in DOMAIN inbox'[p] : inbox'[p][i] = outbound'[s].message
  <2>1. /\ outbound'[s].audience = outbound[s].audience
        /\ pc[s] = "sending"
        /\ outbound'[s].message = outbound[s].message
        /\ \A q \in outbound[s].left \ outbound'[s].left :
             \/ q \notin up
             \/ outbound[s].message = None
             \/ \E i \in DOMAIN inbox'[q] : inbox'[q][i] = outbound[s].message
    BY <1>4 DEF Forward
  <2>2. p \in outbound[s].audience /\ p \in up /\ p \in Sockets
    BY <1>1, <1>4, <2>1 DEF Onward, ReachInv, Audience
  <2>3. CASE p \in outbound[s].left
    BY <1>4, <2>1, <2>2, <2>3
  <2>4. CASE p \notin outbound[s].left
    <3>1. PICK i \in DOMAIN inbox[p] : inbox[p][i] = outbound[s].message
      BY <1>4, <2>1, <2>2, <2>4 DEF ReachInv, BroadcastReaches
    <3> QED BY <2>1, <2>2, <3>1 DEF Onward
  <2> QED BY <2>3, <2>4
<1> QED BY <1>3, <1>4 DEF RoomKept, ReachInv, BroadcastReaches

LEMMA EndReach ==
  ASSUME TypeOK, ReachInv, NEW s \in Sockets,
         NEW place \in {room, room \ {s}}, End(s, place), pc[s] # "absent"
  PROVE  ReachInv'
<1>1. /\ pc' = [pc EXCEPT ![s] = "ended"] /\ up' = up \ {s} /\ room' = place
      /\ outbound' = [outbound EXCEPT ![s] = Nothing] /\ inbox' = inbox
  BY DEF End
<1>2. Onward
  BY <1>1 DEF Onward, TypeOK
<1>3. RoomKept
  BY <1>1 DEF RoomKept, TypeOK, ReachInv, BroadcastReaches
<1>4. \A q \in Sockets : Forward(q)
  <2>1. Forward(s)
    BY <1>1 DEF Forward, Nothing, TypeOK
  <2>2. \A q \in Sockets : q # s => Forward(q)
    BY <1>1 DEF Forward, TypeOK
  <2> QED BY <2>1, <2>2
<1> QED BY <1>2, <1>3, <1>4, ForwardReaches

LEMMA SendReach ==
  ASSUME TypeOK, ReachInv, NEW s \in Sockets, NEW p \in outbound[s].left,
         pc[s] = "sending", Deliver(s, p) \/ Lose(s, p)
  PROVE  ReachInv'
<1>1. p \in Sockets
  BY DEF TypeOK, Outbound
<1>2. /\ UNCHANGED <<pc, up, room>>
      /\ outbound' = [outbound EXCEPT ![s].left = @ \ {p}]
  BY DEF Deliver, Lose, Served
<1>3. /\ outbound'[s].left = outbound[s].left \ {p}
      /\ outbound'[s].audience = outbound[s].audience
      /\ outbound'[s].message = outbound[s].message
      /\ \A q \in Sockets : q # s => outbound'[q] = outbound[q]
  BY <1>2 DEF TypeOK, Outbound
<1>4. /\ \A q \in Sockets : \A i \in DOMAIN inbox[q] :
           i \in DOMAIN inbox'[q] /\ inbox'[q][i] = inbox[q][i]
      /\ \/ p \notin up
         \/ outbound[s].message = None
         \/ \E i \in DOMAIN inbox'[p] : inbox'[p][i] = outbound[s].message
  <2>1. CASE inbox' = inbox /\ (p \notin up \/ outbound[s].message = None)
    BY <2>1
  <2>2. CASE /\ outbound[s].message # None
             /\ inbox' = [inbox EXCEPT ![p] =
                            Append(inbox[p], outbound[s].message)]
    <3>1. PICK m \in Message : m = outbound[s].message
      BY <2>2 DEF TypeOK, Outbound
    <3>2. inbox[p] \in Seq(Message) /\ inbox'[p] = Append(inbox[p], m)
            /\ \A q \in Sockets : q # p => inbox'[q] = inbox[q]
      BY <1>1, <2>2, <3>1 DEF TypeOK
    <3>3. /\ \A i \in DOMAIN inbox[p] :
               i \in DOMAIN inbox'[p] /\ inbox'[p][i] = inbox[p][i]
          /\ Len(inbox[p]) + 1 \in DOMAIN inbox'[p]
          /\ inbox'[p][Len(inbox[p]) + 1] = m
      BY <3>2
    <3> QED BY <3>1, <3>2, <3>3
  <2>3. CASE Lose(s, p)
    BY <2>1, <2>3 DEF Lose
  <2>4. CASE Deliver(s, p)
    BY <2>1, <2>2, <2>4 DEF Deliver
  <2> QED BY <2>3, <2>4
<1>5. Onward
  BY <1>2, <1>4 DEF Onward
<1>6. RoomKept
  BY <1>2 DEF RoomKept, ReachInv, BroadcastReaches
<1>7. \A q \in Sockets : Forward(q)
  <2>1. Forward(s)
    BY <1>2, <1>3, <1>4 DEF Forward
  <2>2. \A q \in Sockets : q # s => Forward(q)
    BY <1>2, <1>3 DEF Forward
  <2> QED BY <2>1, <2>2
<1> QED BY <1>5, <1>6, <1>7, ForwardReaches

LEMMA ReachStep ==
  ASSUME TypeOK, ReachInv, [Next]_vars
  PROVE  ReachInv'
<1>1. ASSUME NEW s \in Sockets, Connect(s) \/ Refuse(s) \/ Drop(s)
      PROVE  ReachInv'
  <2>1. Onward /\ RoomKept
    BY <1>1
    DEF Connect, Refuse, Drop, Onward, RoomKept, TypeOK, ReachInv,
        BroadcastReaches
  <2>2. \A q \in Sockets : Forward(q)
    BY <1>1 DEF Connect, Refuse, Drop, Forward, TypeOK
  <2> QED BY <2>1, <2>2, ForwardReaches
<1>2. ASSUME NEW s \in Sockets, NEW message, Broadcast(s, message),
             pc[s] \in {"waiting", "flushed"}, UNCHANGED <<up, room, inbox>>
      PROVE  ReachInv'
  <2>1. Onward /\ RoomKept
    BY <1>2 DEF Broadcast, Onward, RoomKept, TypeOK, ReachInv, BroadcastReaches
  <2>2. \A q \in Sockets : Forward(q)
    <3>1. Forward(s)
      BY <1>2 DEF Broadcast, Peers, Forward, TypeOK
    <3>2. \A q \in Sockets : q # s => Forward(q)
      BY <1>2 DEF Broadcast, Forward, TypeOK
    <3> QED BY <3>1, <3>2
  <2> QED BY <2>1, <2>2, ForwardReaches
<1>3. ASSUME NEW s \in Sockets, Flush(s)
      PROVE  ReachInv'
  <2>1. /\ pc[s] = "waiting" /\ pc' = [pc EXCEPT ![s] = "flushed"]
        /\ \E m : outbound' = [outbound EXCEPT ![s].message = m]
        /\ UNCHANGED <<up, room, inbox>>
    BY <1>3 DEF Flush, FlushAt, Receiving
  <2>2. Onward /\ RoomKept
    BY <2>1 DEF Onward, RoomKept, TypeOK, ReachInv, BroadcastReaches
  <2>3. \A q \in Sockets : Forward(q)
    BY <2>1 DEF Forward, TypeOK, Outbound
  <2> QED BY <2>2, <2>3, ForwardReaches
<1>4. ASSUME NEW s \in Sockets, NEW p \in outbound[s].left,
             pc[s] = "sending", SendTo(s, p)
      PROVE  ReachInv'
  BY <1>4, SendReach, EndReach DEF SendTo, SendFails
<1>5. ASSUME NEW s \in Sockets, Done(s)
      PROVE  ReachInv'
  <2>1. /\ pc[s] = "sending" /\ pc' = [pc EXCEPT ![s] = "waiting"]
        /\ outbound' = [outbound EXCEPT ![s] = Nothing]
        /\ UNCHANGED <<up, room, inbox>>
    BY <1>5 DEF Done
  <2>2. Onward /\ RoomKept
    BY <2>1 DEF Onward, RoomKept, TypeOK, ReachInv, BroadcastReaches
  <2>3. Forward(s)
    BY <2>1 DEF Forward, Nothing, TypeOK
  <2>4. \A q \in Sockets : q # s => Forward(q)
    BY <2>1 DEF Forward, TypeOK
  <2> QED BY <2>2, <2>3, <2>4, ForwardReaches
<1>6. ASSUME NEW s \in Sockets, Disconnect(s) \/ Fail(s)
      PROVE  ReachInv'
  BY <1>6, EndReach DEF Disconnect, Fail
<1>7. ASSUME NEW p \in Processes, Restart(p)
      PROVE  ReachInv'
  <2> DEFINE old == {s \in ServedBy(p) : pc[s] # "absent"}
  <2>1. /\ pc' = [s \in Sockets |-> IF s \in old THEN "ended" ELSE pc[s]]
        /\ up' = up \ old /\ room' = room \ old /\ inbox' = inbox
        /\ outbound' = [s \in Sockets |->
                          IF s \in old THEN Nothing ELSE outbound[s]]
    BY <1>7 DEF Restart
  <2> HIDE DEF old
  <2>2. Onward /\ RoomKept
    BY <2>1 DEF Onward, RoomKept, TypeOK, ReachInv, BroadcastReaches
  <2>3. \A q \in Sockets : Forward(q)
    BY <2>1 DEF Forward, Nothing
  <2> QED BY <2>2, <2>3, ForwardReaches
<1>8. CASE UNCHANGED vars
  BY <1>8 DEF vars, ReachInv, Audience, BroadcastReaches
<1>9. ASSUME NEW s \in Sockets, Typing(s) \/ Commit(s)
      PROVE  ReachInv'
  BY <1>2, <1>9 DEF Typing, Receiving, Commit
<1> QED
  BY <1>1, <1>3, <1>4, <1>5, <1>6, <1>7, <1>8, <1>9 DEF Next, Handle, Send

---------------------------------------------------------------------------
(* Database connections                                                    *)

Bounded(held) ==
  \A p \in Processes : Cardinality(held \cap ServedBy(p)) <= PoolSize

PoolInv ==
  /\ \A m \in messages : pc[m.via] # "absent"
  /\ ConnectionsReturned

LEMMA FewerBounded ==
  ASSUME NEW held \in SUBSET Sockets, NEW fewer \in SUBSET held, Bounded(held)
  PROVE  Bounded(fewer)
<1> SUFFICES ASSUME NEW p \in Processes
             PROVE  Cardinality(fewer \cap ServedBy(p)) <= PoolSize
  BY DEF Bounded
<1> DEFINE T == fewer \cap ServedBy(p)
           S == held \cap ServedBy(p)
<1>1. IsFiniteSet(S)
  BY FS_Subset, ChatAssumption
<1>2. T \in SUBSET S
  OBVIOUS
<1>3. Cardinality(T) <= Cardinality(S) /\ IsFiniteSet(T)
  BY <1>1, <1>2, FS_Subset
<1>4. Cardinality(T) \in Nat /\ Cardinality(S) \in Nat
  BY <1>1, <1>3, FS_CardinalityType
<1>5. Cardinality(S) <= PoolSize
  BY DEF Bounded
<1> HIDE DEF S, T
<1>6. Cardinality(T) <= PoolSize
  BY <1>3, <1>4, <1>5, ChatAssumption
<1> QED BY <1>6 DEF T

LEMMA TakenBounded ==
  ASSUME NEW s \in Sockets, holding \in SUBSET Sockets, Bounded(holding),
         ConnectionFree(s)
  PROVE  Bounded(holding \cup {s})
<1> SUFFICES ASSUME NEW p \in Processes
             PROVE  Cardinality((holding \cup {s}) \cap ServedBy(p)) <= PoolSize
  BY DEF Bounded
<1>1. Cardinality(holding \cap ServedBy(p)) <= PoolSize
  BY DEF Bounded
<1>2. CASE s \in holding \/ s \notin ServedBy(p)
  <2>1. (holding \cup {s}) \cap ServedBy(p) = holding \cap ServedBy(p)
    BY <1>2
  <2> QED BY <1>1, <2>1
<1>3. CASE s \notin holding /\ s \in ServedBy(p)
  <2> DEFINE S == holding \cap ServedBy(p)
  <2>1. Cardinality(S) < PoolSize
    BY <1>3 DEF ConnectionFree, ServedBy
  <2>2. IsFiniteSet(S) /\ s \notin S
    BY <1>3, FS_Subset, ChatAssumption
  <2>3. (holding \cup {s}) \cap ServedBy(p) = S \cup {s}
    BY <1>3
  <2> HIDE DEF S
  <2>4. Cardinality(S \cup {s}) = Cardinality(S) + 1 /\ Cardinality(S) \in Nat
    BY <2>2, FS_AddElement, FS_CardinalityType
  <2> QED BY <2>1, <2>3, <2>4, ChatAssumption
<1> QED BY <1>2, <1>3

(* A step that stores nothing: who holds a connection held it before and   *)
(* has not ended, or takes it now.                                         *)
LEMMA QuietPool ==
  ASSUME TypeOK, PoolInv, messages' = messages, Bounded(holding'),
         \A s \in Sockets : pc[s] # "absent" => pc'[s] # "absent",
         \A s \in holding' : /\ pc'[s] \notin {"absent", "ended"}
                             /\ \/ pc'[s] = "flushed"
                                \/ pc[s] = "absent"
                                \/ s \in holding /\ pc[s] # "flushed"
  PROVE  PoolInv'
<1>1. \A m \in messages : m.via \in Sockets
  BY DEF TypeOK, Message
<1>2. \A m \in messages' : pc'[m.via] # "absent"
  BY <1>1 DEF PoolInv
<1>3. ASSUME NEW s \in holding', pc'[s] # "flushed"
      PROVE  \A m \in messages : m.via # s
  BY <1>1, <1>3 DEF PoolInv, ConnectionsReturned
<1> QED BY <1>2, <1>3 DEF PoolInv, ConnectionsReturned, Bounded, ServedBy

LEMMA EndPool ==
  ASSUME TypeOK, PoolInv, NEW s \in Sockets, NEW place, End(s, place)
  PROVE  PoolInv'
<1>1. /\ pc' = [pc EXCEPT ![s] = "ended"] /\ holding' = holding \ {s}
      /\ messages' = messages
  BY DEF End
<1>2. Bounded(holding) /\ holding \in SUBSET Sockets
  BY DEF PoolInv, ConnectionsReturned, Bounded, TypeOK
<1>3. Bounded(holding \ {s})
  BY <1>2, FewerBounded
<1>4. \A q \in Sockets : q # s => pc'[q] = pc[q]
  BY <1>1 DEF TypeOK
<1>5. \A q \in holding' : pc'[q] = pc[q] /\ q \in holding
  BY <1>1, <1>2, <1>4
<1> QED BY <1>1, <1>3, <1>4, <1>5, QuietPool DEF PoolInv, ConnectionsReturned

LEMMA PoolStep ==
  ASSUME TypeOK, TypeOK', SeenInv, PoolInv, [Next]_vars
  PROVE  PoolInv'
<1>1. Bounded(holding) /\ holding \in SUBSET Sockets
  BY DEF PoolInv, ConnectionsReturned, Bounded, TypeOK
<1>2. \A s \in holding : pc[s] \notin {"absent", "ended"}
  BY DEF PoolInv, ConnectionsReturned
<1>3. ASSUME NEW s \in Sockets, Connect(s)
      PROVE  PoolInv'
  <2>1. /\ pc[s] = "absent" /\ pc' = [pc EXCEPT ![s] = "waiting"]
        /\ holding' = holding \cup {s} /\ messages' = messages
        /\ ConnectionFree(s)
    BY <1>3 DEF Connect
  <2>2. Bounded(holding')
    BY <1>1, <2>1, TakenBounded
  <2>3. pc'[s] = "waiting" /\ \A q \in Sockets : q # s => pc'[q] = pc[q]
    BY <2>1 DEF TypeOK
  <2> QED BY <1>1, <1>2, <2>1, <2>2, <2>3, QuietPool
<1>4. ASSUME NEW s \in Sockets, Flush(s)
      PROVE  PoolInv'
  <2>1. /\ pc[s] = "waiting" /\ pc' = [pc EXCEPT ![s] = "flushed"]
        /\ holding' = holding \cup {s} /\ messages' = messages
        /\ ConnectionFree(s)
    BY <1>4 DEF Flush, FlushAt, Receiving
  <2>2. Bounded(holding')
    BY <1>1, <2>1, TakenBounded
  <2>3. pc'[s] = "flushed" /\ \A q \in Sockets : q # s => pc'[q] = pc[q]
    BY <2>1 DEF TypeOK
  <2> QED BY <1>1, <1>2, <2>1, <2>2, <2>3, QuietPool
<1>5. ASSUME NEW s \in Sockets, Commit(s)
      PROVE  PoolInv'
  <2>1. PICK m : m = outbound[s].message
    OBVIOUS
  <2>2. /\ pc[s] = "flushed" /\ pc' = [pc EXCEPT ![s] = "sending"]
        /\ holding' = holding \ {s} /\ messages' = messages \cup {m}
    BY <1>5, <2>1 DEF Commit, Broadcast
  <2>3. m.via = s
    BY <2>1, <2>2 DEF SeenInv, Ordered, Stamped
  <2>4. pc'[s] = "sending" /\ \A q \in Sockets : q # s => pc'[q] = pc[q]
    BY <2>2 DEF TypeOK
  <2>5. \A n \in messages : n.via \in Sockets
    BY DEF TypeOK, Message
  <2>6. \A n \in messages' : pc'[n.via] # "absent"
    BY <2>2, <2>3, <2>4, <2>5 DEF PoolInv
  <2>7. Bounded(holding')
    BY <1>1, <2>2, FewerBounded
  <2>8. ASSUME NEW q \in holding'
        PROVE  /\ pc'[q] \notin {"absent", "ended"}
               /\ pc'[q] # "flushed" => \A n \in messages' : n.via # q
    BY <1>1, <1>2, <2>2, <2>3, <2>4 DEF PoolInv, ConnectionsReturned
  <2> QED BY <2>6, <2>7, <2>8
          DEF PoolInv, ConnectionsReturned, Bounded, ServedBy
<1>6. ASSUME NEW s \in Sockets, NEW p \in outbound[s].left,
             pc[s] = "sending", SendTo(s, p)
      PROVE  PoolInv'
  <2>1. CASE UNCHANGED <<pc, holding, messages>>
    BY <1>1, <1>2, <2>1, QuietPool
  <2>2. CASE SendFails(s, p)
    BY <2>2, EndPool DEF SendFails
  <2>3. CASE Deliver(s, p) \/ Lose(s, p)
    BY <2>1, <2>3 DEF Deliver, Lose
  <2> QED BY <1>6, <2>2, <2>3 DEF SendTo
<1>7. ASSUME NEW s \in Sockets, Refuse(s) \/ Typing(s) \/ Done(s) \/ Drop(s)
      PROVE  PoolInv'
  <2>1. UNCHANGED <<holding, messages>>
    BY <1>7 DEF Refuse, Typing, Done, Drop
  <2>2. /\ \A q \in Sockets : pc[q] # "absent" => pc'[q] # "absent"
        /\ \A q \in holding : /\ pc'[q] \notin {"absent", "ended"}
                              /\ pc[q] = "flushed" => pc'[q] = "flushed"
    BY <1>1, <1>2, <1>7
    DEF Refuse, Typing, Receiving, Broadcast, Done, Drop, TypeOK
  <2> QED BY <1>1, <2>1, <2>2, QuietPool
<1>8. ASSUME NEW s \in Sockets, Disconnect(s) \/ Fail(s)
      PROVE  PoolInv'
  BY <1>8, EndPool DEF Disconnect, Fail
<1>9. ASSUME NEW p \in Processes, Restart(p)
      PROVE  PoolInv'
  <2> DEFINE old == {s \in ServedBy(p) : pc[s] # "absent"}
  <2>1. /\ pc' = [s \in Sockets |-> IF s \in old THEN "ended" ELSE pc[s]]
        /\ holding' = holding \ old /\ messages' = messages
    BY <1>9 DEF Restart
  <2> HIDE DEF old
  <2>2. Bounded(holding')
    BY <1>1, <2>1, FewerBounded
  <2>3. /\ \A q \in Sockets : pc[q] # "absent" => pc'[q] # "absent"
        /\ \A q \in holding' : q \in holding /\ pc'[q] = pc[q]
    BY <1>1, <2>1
  <2> QED BY <1>2, <2>1, <2>2, <2>3, QuietPool
<1>10. CASE UNCHANGED vars
  BY <1>10, <1>1, <1>2, QuietPool DEF vars
<1> QED
  BY <1>3, <1>4, <1>5, <1>6, <1>7, <1>8, <1>9, <1>10 DEF Next, Handle, Send

---------------------------------------------------------------------------
(* The theorems                                                            *)

ChatInv == TypeOK /\ SeenInv /\ ReachInv /\ PoolInv

LEMMA InitChatInv == Init => ChatInv
<1> SUFFICES ASSUME Init
             PROVE  ChatInv
  OBVIOUS
<1>1. TypeOK
  BY InitTypes
<1>2. SeenInv
  BY DEF Init, SeenInv, Ordered, SeenInHistory
<1>3. ReachInv
  BY DEF Init, ReachInv, Audience, BroadcastReaches, Nothing
<1>4. PoolInv
  <2>1. \A p \in Processes : holding \cap ServedBy(p) = {}
    BY DEF Init
  <2>2. Cardinality({}) = 0
    BY FS_EmptySet
  <2> QED BY <2>1, <2>2, ChatAssumption DEF Init, PoolInv, ConnectionsReturned
<1> QED BY <1>1, <1>2, <1>3, <1>4 DEF ChatInv

LEMMA ChatStep == ChatInv /\ [Next]_vars => ChatInv'
<1> SUFFICES ASSUME ChatInv, [Next]_vars
             PROVE  ChatInv'
  OBVIOUS
<1>1. TypeOK'
  BY TypeStep DEF ChatInv, SeenInv, Ordered
<1> QED BY <1>1, SeenStep, ReachStep, PoolStep DEF ChatInv

(* However connections come, go and break, and however many of them a user *)
(* has, what a client has seen live is in the history, nobody sees a       *)
(* message twice, and the history lists every message after all that its   *)
(* author had seen when he sent it.                                        *)
THEOREM SeenStaysInHistory == Spec => []SeenInHistory
<1>1. ChatInv => SeenInHistory
  BY DEF ChatInv, SeenInv
<1> QED BY <1>1, InitChatInv, ChatStep, PTL DEF Spec

(* A broadcast that comes to its end has reached every peer that was there *)
(* when it began and still is.                                             *)
THEOREM BroadcastsReach == Spec => []BroadcastReaches
<1>1. ChatInv => BroadcastReaches
  BY DEF ChatInv, ReachInv
<1> QED BY <1>1, InitChatInv, ChatStep, PTL DEF Spec

(* No process takes more connections than its pool has, and a handler that *)
(* has ended, or that waits after having stored a message, holds none.     *)
THEOREM PoolHolds == Spec => []ConnectionsReturned
<1>1. ChatInv => ConnectionsReturned
  BY DEF ChatInv, PoolInv
<1> QED BY <1>1, InitChatInv, ChatStep, PTL DEF Spec

(* Every variable of the chat keeps its type.                              *)
THEOREM ChatTypeCorrect == Spec => []TypeOK
<1>1. ChatInv => TypeOK
  BY DEF ChatInv
<1> QED BY <1>1, InitChatInv, ChatStep, PTL DEF Spec
==========================================================================
