---------------------------- MODULE MCChatRoom ----------------------------
(***************************************************************************)
(* Two connections to one process, which compete for its one database      *)
(* connection, and one to another process.  One user has a connection to   *)
(* each.                                                                   *)
(***************************************************************************)
EXTENDS ChatRoom

CONSTANTS s1, s2, s3, p1, p2, u1, u2

MCUser    == [s \in Sockets |-> IF s = s2 THEN u2 ELSE u1]
MCProcess == [s \in Sockets |-> IF s = s3 THEN p2 ELSE p1]
==========================================================================
