----------------------------- MODULE ChatRoom -----------------------------
(***************************************************************************)
(* The chat of one deal: deal_socket of chat/websocket.py, one coroutine   *)
(* for each connection of a client, on the event loops of the gunicorn     *)
(* processes, and the history that list_messages reads.                    *)
(*                                                                         *)
(*   absent  -- Connect --> waiting              accepted, in the room     *)
(*   waiting -- Typing --> sending                                         *)
(*   waiting -- Flush --> flushed -- Commit --> sending                    *)
(*   sending -- SendTo each peer of the room --> waiting                   *)
(*   waiting -- Disconnect --> ended             leaves the room           *)
(*   any     -- Fail --> ended                   stays in the room         *)
(*                                                                         *)
(* A handler loops over a copy of the room and awaits every peer in turn,  *)
(* so connections come, go and break in between.  What a client sends that *)
(* is neither a message nor "typing" is answered or skipped without a      *)
(* change of state.                                                        *)
(***************************************************************************)
EXTENDS Integers, Sequences, FiniteSets

CONSTANTS
  Users,        \* the parties of the deal
  Sockets,      \* connections that their clients open, each once
  User,         \* whose connection each is; one user may have several
  Processes,    \* the processes of the server
  Process,      \* which of them serves each connection
  PoolSize,     \* database connections of a process
  MaxMessages,  \* bound: messages sent
  None

ASSUME ChatAssumption ==
  /\ IsFiniteSet(Sockets)
  /\ User \in [Sockets -> Users]
  /\ Process \in [Sockets -> Processes]
  /\ PoolSize \in Nat
  /\ MaxMessages \in Nat

VARIABLES
  pc,        \* how far the handler of each connection is
  up,        \* the connections that are up
  room,      \* rooms[deal_id] of every process
  holding,   \* the handlers whose session holds a database connection
  outbound,  \* what each handler sends, to whom, and who is left
  messages,  \* the rows of deal_messages, each with its first revision
  inbox,     \* what each client has received
  clock      \* the last instant stamped

vars == <<pc, up, room, holding, outbound, messages, inbox, clock>>

(* via and seen are no columns: they remember which connection the message *)
(* came through, and the instants of all its author had received, on       *)
(* whatever connection, when he sent it.                                   *)
Message  == [author : Users, via : Sockets, at : Nat, seen : SUBSET Nat]
Outbound == [message : Message \cup {None}, audience : SUBSET Sockets,
             left : SUBSET Sockets]

Nothing == [message |-> None, audience |-> {}, left |-> {}]

Init ==
  /\ pc = [s \in Sockets |-> "absent"]
  /\ up = {}
  /\ room = {}
  /\ holding = {}
  /\ outbound = [s \in Sockets |-> Nothing]
  /\ messages = {}
  /\ inbox = [s \in Sockets |-> <<>>]
  /\ clock = 0

ServedBy(p) == {s \in Sockets : Process[s] = p}

(* list(rooms[deal_id]) in the process of s.                               *)
Peers(s) == room \cap ServedBy(Process[s])

(* A session takes a connection with its first statement and returns it    *)
(* with the commit or when it is closed.                                   *)
ConnectionFree(s) ==
  \/ s \in holding
  \/ Cardinality(holding \cap ServedBy(Process[s])) < PoolSize

---------------------------------------------------------------------------
(* Connecting.  The membership SELECT opens a transaction that lasts until *)
(* the first message is committed.                                         *)

Connect(s) ==
  /\ pc[s] = "absent"
  /\ ConnectionFree(s)
  /\ pc' = [pc EXCEPT ![s] = "waiting"]
  /\ up' = up \cup {s}
  /\ room' = room \cup {s}
  /\ holding' = holding \cup {s}
  /\ UNCHANGED <<outbound, messages, inbox, clock>>

(* No session, no party of the deal, or no connection in time.             *)
Refuse(s) ==
  /\ pc[s] = "absent"
  /\ pc' = [pc EXCEPT ![s] = "ended"]
  /\ UNCHANGED <<up, room, holding, outbound, messages, inbox, clock>>

---------------------------------------------------------------------------
(* A turn of the receive loop                                              *)

Broadcast(s, message) ==
  /\ pc' = [pc EXCEPT ![s] = "sending"]
  /\ outbound' = [outbound EXCEPT ![s] =
       [message |-> message, audience |-> Peers(s), left |-> Peers(s)]]

Receiving(s) == pc[s] = "waiting" /\ s \in up

Typing(s) ==
  /\ Receiving(s)
  /\ Broadcast(s, None)
  /\ UNCHANGED <<up, room, holding, messages, inbox, clock>>

Received(u) ==
  UNION {{inbox[t][i].at : i \in DOMAIN inbox[t]} :
           t \in {x \in Sockets : User[x] = u}}

FlushAt(s, instant) ==
  /\ Receiving(s)
  /\ clock < MaxMessages
  /\ ConnectionFree(s)
  /\ clock' = clock + 1
  /\ holding' = holding \cup {s}
  /\ pc' = [pc EXCEPT ![s] = "flushed"]
  /\ outbound' = [outbound EXCEPT ![s].message =
       [author |-> User[s], via |-> s, at |-> instant,
        seen |-> Received(User[s])]]
  /\ UNCHANGED <<up, room, messages, inbox>>

(* MUTANT of Flush: created_at is left to a default that is not there.     *)
FlushUnstamped(s) == FlushAt(s, None)

(* The message is stamped before its INSERT, and so before its commit.      *)
Flush(s) == FlushAt(s, clock + 1)

(* MUTANT of Commit: the commit is left to the end of the handler.         *)
CommitLater(s) ==
  /\ pc[s] = "flushed"
  /\ holding' = holding \ {s}
  /\ Broadcast(s, outbound[s].message)
  /\ UNCHANGED <<up, room, messages, inbox, clock>>

(* The message and its revision are committed together, and nothing is     *)
(* awaited before the room is copied.                                      *)
Commit(s) ==
  /\ pc[s] = "flushed"
  /\ messages' = messages \cup {outbound[s].message}
  /\ holding' = holding \ {s}
  /\ Broadcast(s, outbound[s].message)
  /\ UNCHANGED <<up, room, inbox, clock>>

---------------------------------------------------------------------------
(* The broadcast                                                           *)

(* MUTANT of End: the session is not closed on the way out.                *)
EndUnclosed(s, place) ==
  /\ pc' = [pc EXCEPT ![s] = "ended"]
  /\ up' = up \ {s}
  /\ room' = place
  /\ outbound' = [outbound EXCEPT ![s] = Nothing]
  /\ UNCHANGED <<holding, messages, inbox, clock>>

(* The handler returns or raises: the server closes its connection, the    *)
(* session rolls back and the room becomes place.                          *)
End(s, place) ==
  /\ pc' = [pc EXCEPT ![s] = "ended"]
  /\ up' = up \ {s}
  /\ room' = place
  /\ holding' = holding \ {s}
  /\ outbound' = [outbound EXCEPT ![s] = Nothing]
  /\ UNCHANGED <<messages, inbox, clock>>

Served(s, p) == outbound' = [outbound EXCEPT ![s].left = @ \ {p}]

Deliver(s, p) ==
  /\ p \in up
  /\ Served(s, p)
  /\ inbox' = IF outbound[s].message = None THEN inbox
              ELSE [inbox EXCEPT ![p] = Append(@, outbound[s].message)]
  /\ UNCHANGED <<pc, up, room, holding, messages, clock>>

(* Nobody has noticed that the peer is gone.                               *)
Lose(s, p) ==
  /\ p \notin up
  /\ Served(s, p)
  /\ UNCHANGED <<pc, up, room, holding, messages, inbox, clock>>

(* send_json raises: WebSocketDisconnect, which takes the SENDER out of    *)
(* the room, or, of a connection closed before, an error nothing catches.  *)
SendFails(s, p) == p \notin up /\ \E place \in {room, room \ {s}} : End(s, place)

(* MUTANT of SendTo: an error ends the loop, and not the handler.          *)
SendOrBreak(s, p) ==
  \/ Deliver(s, p)
  \/ Lose(s, p)
  \/ /\ p \notin up
     /\ outbound' = [outbound EXCEPT ![s].left = {}]
     /\ UNCHANGED <<pc, up, room, holding, messages, inbox, clock>>

(* MUTANT of SendTo: a peer that does not answer is waited for.            *)
SendOrWait(s, p) == Deliver(s, p)

SendTo(s, p) == Deliver(s, p) \/ Lose(s, p) \/ SendFails(s, p)

Send(s) == pc[s] = "sending" /\ \E p \in outbound[s].left : SendTo(s, p)

Done(s) ==
  /\ pc[s] = "sending"
  /\ outbound[s].left = {}
  /\ pc' = [pc EXCEPT ![s] = "waiting"]
  /\ outbound' = [outbound EXCEPT ![s] = Nothing]
  /\ UNCHANGED <<up, room, holding, messages, inbox, clock>>

---------------------------------------------------------------------------
(* Ends and failures                                                       *)

Disconnect(s) == pc[s] = "waiting" /\ s \notin up /\ End(s, room \ {s})

(* Text that is not a JSON object, no connection in time, an error of the  *)
(* database: not a WebSocketDisconnect, so the socket stays in the room.   *)
Fail(s) == pc[s] \in {"waiting", "flushed"} /\ End(s, room)

(* A client goes, or its network does.                                     *)
Drop(s) ==
  /\ s \in up
  /\ up' = up \ {s}
  /\ UNCHANGED <<pc, room, holding, outbound, messages, inbox, clock>>

(* A process is killed and started again; its memory is lost.              *)
Restart(p) ==
  LET old == {s \in ServedBy(p) : pc[s] # "absent"} IN
  /\ pc' = [s \in Sockets |-> IF s \in old THEN "ended" ELSE pc[s]]
  /\ up' = up \ old
  /\ room' = room \ old
  /\ holding' = holding \ old
  /\ outbound' = [s \in Sockets |-> IF s \in old THEN Nothing ELSE outbound[s]]
  /\ UNCHANGED <<messages, inbox, clock>>

Handle(s) ==
  \/ Connect(s) \/ Refuse(s) \/ Typing(s) \/ Flush(s) \/ Commit(s)
  \/ Send(s) \/ Done(s) \/ Disconnect(s) \/ Fail(s) \/ Drop(s)

Next == (\E s \in Sockets : Handle(s)) \/ (\E p \in Processes : Restart(p))

Spec == Init /\ [][Next]_vars

(* The event loop runs every handler; statements and sends end, the latter *)
(* because pings find out a peer that takes nothing.  Nobody has to write, *)
(* leave, fail or restart.                                                 *)
Fairness ==
  \A s \in Sockets :
    WF_vars(Commit(s)) /\ WF_vars(Send(s)) /\ WF_vars(Done(s))
      /\ WF_vars(Disconnect(s))

FairSpec == Spec /\ Fairness

---------------------------------------------------------------------------
(* Properties                                                              *)

(* Every variable keeps its type; the phases of a handler are those above. *)
TypeOK ==
  /\ pc \in [Sockets -> {"absent", "waiting", "flushed", "sending", "ended"}]
  /\ up \subseteq Sockets
  /\ room \subseteq Sockets
  /\ holding \subseteq Sockets
  /\ outbound \in [Sockets -> Outbound]
  /\ messages \subseteq Message
  /\ inbox \in [Sockets -> Seq(Message)]
  /\ clock \in Nat

(* list_messages orders by created_at.                                     *)
ListedBefore(m, n) == m.at < n.at

(* Whatever a client has received live, the history shows too: nothing is  *)
(* broadcast that a rollback or a restart could still take back.  Nobody   *)
(* receives a message twice, and the history lists a message after all     *)
(* that its author had received when he sent it.  (Two messages that one   *)
(* user sends through two connections may be received in the one order and *)
(* listed in the other: the second stamped may be the first broadcast.)    *)
SeenInHistory ==
  /\ \A s \in Sockets : \A i \in DOMAIN inbox[s] :
       /\ inbox[s][i] \in messages
       /\ \A j \in DOMAIN inbox[s] : inbox[s][i] = inbox[s][j] => i = j
  /\ \A n \in messages : \A t \in n.seen :
       \E m \in messages : m.at = t /\ ListedBefore(m, n)

(* A handler that runs is in its room, and a broadcast that comes to its   *)
(* end has reached everybody who was in the room when it began and is      *)
(* still there, whoever broke down or joined meanwhile.                    *)
BroadcastReaches ==
  \A s \in Sockets :
    /\ pc[s] \notin {"absent", "ended"} => s \in room
    /\ pc[s] = "sending" /\ outbound[s].message # None =>
         \A p \in (outbound[s].audience \cap up) \ outbound[s].left :
           \E i \in DOMAIN inbox[p] : inbox[p][i] = outbound[s].message

(* The sockets of a process never hold more connections than its pool has, *)
(* one that has ended holds none, and neither does one that waits for its  *)
(* client after having stored a message.                                   *)
ConnectionsReturned ==
  /\ \A p \in Processes : Cardinality(holding \cap ServedBy(p)) <= PoolSize
  /\ \A s \in holding :
       /\ pc[s] \notin {"absent", "ended"}
       /\ pc[s] # "flushed" => \A m \in messages : m.via # s

(* A turn that began comes to its end and the handler of a client that is  *)
(* gone ends, whatever peers the room still holds.                         *)
TurnsEnd ==
  \A s \in Sockets :
    /\ pc[s] \in {"flushed", "sending"} ~> pc[s] \in {"waiting", "ended"}
    /\ pc[s] # "absent" /\ s \notin up ~> pc[s] = "ended"
==========================================================================
