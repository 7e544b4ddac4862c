---------------------------- MODULE ChainReader ----------------------------
(***************************************************************************)
(* How one request reads the chain: read_contract_status ("Status") and    *)
(* verify_contract_event ("Verify") of chain/service.py.  Both post a      *)
(* batch of questions to the configured endpoints in turn, until one gives *)
(* answers that stand.                                                     *)
(*                                                                         *)
(*   asking  -- Post --> posted -- Receive --> replied -- Accept --> done  *)
(*   posted, replied -- TryNext --> asking                                 *)
(*   asking  -- GiveUp --> done                                            *)
(*                                                                         *)
(* Endpoints are external: a reply may be lost, from another chain, or     *)
(* hold errors, and its items may come in any order, incomplete, twice, or *)
(* under ids that nobody asked: the code sorts them by id and asks nothing *)
(* more of the ids.  Addresses are compared as the code compares them, in  *)
(* lower case; amounts and hashes are left out.                            *)
(***************************************************************************)
EXTENDS Integers, Sequences, FiniteSets

CONSTANTS
  Settings,   \* endpoints and contract addresses an operator may configure
  Deal, Signature,  \* the deal and the event that are looked for
  Positions,  \* the milestones they may be looked for at
  OurChain,   \* the configured chain id
  Words,      \* the strings an answer may hold
  Recipients, \* the addresses transactions may be sent to
  Logs,       \* the logs they may have
  Replies,    \* per operation, the lists an endpoint may reply with
  None

(* A batch: 1 is the receipt, 2 the transaction and 3 the chain of Verify; *)
(* 1 is the chain, 2 the code and 3 to 6 the settings of Status.           *)
Asked(op) == IF op = "Status" THEN 6 ELSE 3

(* An item of a reply: its id, and an object, of which a receipt has a     *)
(* status, the recipient and logs and a transaction the recipient; or a    *)
(* string; or null; or an error, or no result at all.                      *)
Answers ==
  [kind : {"object", "text", "null", "error"}, word : Words,
   to : Recipients \cup {""}, logs : Seq(Logs)]

Items == [id : Int, answer : Answers]

ASSUME ReaderAssumption ==
  /\ \A c \in Settings : DOMAIN c.urls = 1..Len(c.urls) /\ Len(c.urls) \in Nat
  /\ "" \notin Recipients
  /\ \A op \in {"Status", "Verify"} : Replies[op] \subseteq Seq(Items)

VARIABLES
  request,  \* the operation, its milestone and the settings it runs under
  pc,
  tried,    \* the endpoints posted to, in order
  reply,    \* the items of the last reply, as they arrived
  values,   \* and what _rpc_batch makes of them
  outcome

vars == <<request, pc, tried, reply, values, outcome>>

Text(word) == [kind |-> "text", word |-> word, to |-> "", logs |-> <<>>]

Null  == [Text("") EXCEPT !.kind = "null"]
Error == [Text("") EXCEPT !.kind = "error"]

Requests ==
  [op : {"Status"}, position : {None}, settings : Settings]
    \cup [op : {"Verify"}, position : Positions \cup {None},
          settings : Settings]

Pending == [kind |-> "Pending", log |-> 0]
Refused == [Pending EXCEPT !.kind = "Refused"]   \* ChainReadError
Raised  == [Pending EXCEPT !.kind = "Raised"]    \* another exception

Init ==
  /\ request \in Requests
  /\ pc = "asking"
  /\ tried = <<>>
  /\ reply = <<>>
  /\ values = <<>>
  /\ outcome = Pending

---------------------------------------------------------------------------
(* The endpoints in turn                                                   *)

Urls == request.settings.urls

Tried(url) == \E i \in DOMAIN tried : tried[i] = url

(* dict.fromkeys: every endpoint once, at its first place.                 *)
NextUrl(i) == ~Tried(Urls[i]) /\ \A j \in 1..(i - 1) : Tried(Urls[j])

Configured ==
  request.op = "Status" =>
    request.settings.escrow # "" /\ request.settings.registry # ""

Post ==
  /\ pc = "asking"
  /\ Configured
  /\ \E i \in DOMAIN Urls : NextUrl(i) /\ tried' = Append(tried, Urls[i])
  /\ pc' = "posted"
  /\ UNCHANGED <<request, reply, values, outcome>>

(* _rpc_batch: sorted by id, those under one id as they arrived.  This is  *)
(* the place of item i,                                                    *)
Place(items, i) ==
  Cardinality({j \in DOMAIN items :
    items[j].id < items[i].id \/ (items[j].id = items[i].id /\ j <= i)})

(* MUTANT of Ordered: the items are taken as they arrive.                  *)
OrderedAsArrived(items) == [k \in 1..Len(items) |-> k]

(* and this the item at place k.                                           *)
Ordered(items) ==
  [k \in 1..Len(items) |->
     CHOOSE i \in DOMAIN items : Place(items, i) = k]

Sorted(items) ==
  LET order == Ordered(items) IN
  [k \in 1..Len(items) |-> items[order[k]].answer]

Receive ==
  /\ pc = "posted"
  /\ reply' \in Replies[request.op]
  /\ values' = Sorted(reply')
  /\ pc' = "replied"
  /\ UNCHANGED <<request, tried, outcome>>

---------------------------------------------------------------------------
(* Answers that stand                                                      *)

(* calls[index], of an error beyond the questions: an IndexError, which    *)
(* nothing catches.                                                        *)
ErrorBeyond ==
  \E k \in DOMAIN values :
    /\ k > Asked(request.op)
    /\ values[k] = Error
    /\ \A j \in 1..(k - 1) : values[j] # Error

(* No item is an error and there are as many as were asked for: the tuple  *)
(* assignment of verify_contract_event, the length test of _read_endpoint. *)
Complete ==
  /\ \A k \in DOMAIN values : values[k] # Error
  /\ Len(values) = Asked(request.op)

Matches(log) ==
  /\ log.address = request.settings.escrow
  /\ log.signature = Signature
  /\ log.deal = Deal
  /\ request.position # None => log.position = request.position

FirstMatch(logs, i) ==
  Matches(logs[i]) /\ \A j \in 1..(i - 1) : ~Matches(logs[j])

Confirmed ==
  /\ values[3] = Text(OurChain)
  /\ values[1].kind = "object" /\ values[1].word = "0x1"
  /\ values[2].kind = "object" /\ values[2].to = request.settings.escrow

(* A string in the place of the receipt or the transaction has no get; an  *)
(* empty one is taken for null.                                            *)
Misread ==
  /\ values[3] = Text(OurChain)
  /\ values[1] \notin {Null, Text("")}
  /\ values[2] \notin {Null, Text("")}
  /\ \/ values[1].kind = "text"
     \/ values[1].word = "0x1" /\ values[2].kind = "text"

Finish(result) ==
  /\ pc' = "done"
  /\ outcome' = result
  /\ UNCHANGED <<request, tried, reply, values>>

AcceptEvent ==
  /\ pc = "replied"
  /\ request.op = "Verify"
  /\ Complete
  /\ Confirmed
  /\ \E i \in DOMAIN values[1].logs :
       /\ FirstMatch(values[1].logs, i)
       /\ Finish([kind |-> "Answer", log |-> i])

Readable == Complete /\ \A k \in DOMAIN values : values[k].kind = "text"

(* What int(value, 16) reads; a contract without the function that is      *)
(* called may return "0x".                                                 *)
IsNumber(word) == word \notin {"0x", ""}

OnOurContract ==
  values[1].word = OurChain /\ values[2].word \notin {"0x", "0x0", ""}

Decodable == \A k \in 4..6 : IsNumber(values[k].word)

AcceptStatus ==
  /\ pc = "replied"
  /\ request.op = "Status"
  /\ Readable
  /\ OnOurContract
  /\ Decodable
  /\ Finish([kind |-> "Answer", log |-> 0])

(* The chain and the code are tested after the loop: no other endpoint is  *)
(* asked.                                                                  *)
RefuseStatus ==
  /\ pc = "replied"
  /\ request.op = "Status"
  /\ Readable
  /\ IsNumber(values[1].word)
  /\ ~OnOurContract
  /\ Finish(Refused)

BreakStatus ==
  /\ pc = "replied"
  /\ request.op = "Status"
  /\ Readable
  /\ ~IsNumber(values[1].word) \/ (OnOurContract /\ ~Decodable)
  /\ Finish(Raised)

---------------------------------------------------------------------------
(* Failures                                                                *)

(* MUTANT of TryNext: it is not remembered which endpoints have failed.    *)
TryAgain ==
  /\ pc' = "asking"
  /\ tried' = <<>>
  /\ reply' = <<>>
  /\ values' = <<>>
  /\ UNCHANGED <<request, outcome>>

TryNext ==
  /\ pc' = "asking"
  /\ reply' = <<>>
  /\ values' = <<>>
  /\ UNCHANGED <<request, tried, outcome>>

(* No reply in ten seconds, an HTTP error, or no JSON list.                *)
LoseReply == pc = "posted" /\ TryNext

(* MUTANT of Reject: refused without asking another endpoint.              *)
RejectForGood ==
  /\ pc = "replied"
  /\ request.op = "Verify"
  /\ ~(Complete /\ Confirmed)
  /\ Finish(Refused)

Reject ==
  /\ pc = "replied"
  /\ ~ErrorBeyond
  /\ IF request.op = "Status" THEN ~Readable
     ELSE ~(Complete /\ (\/ Misread
                         \/ /\ Confirmed
                            /\ \E i \in DOMAIN values[1].logs :
                                 Matches(values[1].logs[i])))
  /\ TryNext

(* Exceptions that are not caught: of items that are no objects, of an     *)
(* "error" that is null, of an error beyond the questions, of a string in  *)
(* the place of an object.                                                 *)
Break ==
  /\ \/ pc = "posted"
     \/ pc = "replied" /\ ErrorBeyond
     \/ /\ pc = "replied"
        /\ request.op = "Verify"
        /\ Complete
        /\ Misread
  /\ Finish(Raised)

(* MUTANT of GiveUp: the loop ends without a word.                         *)
GiveUpSilently ==
  /\ pc = "asking"
  /\ \A i \in DOMAIN Urls : Tried(Urls[i])
  /\ Finish(None)

GiveUp ==
  /\ pc = "asking"
  /\ Configured => \A i \in DOMAIN Urls : Tried(Urls[i])
  /\ Finish(Refused)

Next ==
  \/ Post \/ Receive \/ LoseReply \/ Break
  \/ AcceptEvent \/ AcceptStatus \/ RefuseStatus \/ BreakStatus
  \/ Reject \/ GiveUp

Spec == Init /\ [][Next]_vars

(* The event loop runs the request, and every post ends: the timeouts of   *)
(* httpx are ten seconds for each operation on the connection, and a reply *)
(* has an end.                                                             *)
FairSpec == Spec /\ WF_vars(Next)

---------------------------------------------------------------------------
(* Properties                                                              *)

(* Every variable keeps its type.                                          *)
TypeOK ==
  /\ request \in Requests
  /\ pc \in {"asking", "posted", "replied", "done"}
  /\ tried \in Seq({Urls[i] : i \in DOMAIN Urls})
  /\ reply \in Seq(Items)
  /\ values \in Seq(Answers)
  /\ outcome \in [kind : {"Pending", "Refused", "Raised", "Answer"},
                  log : Nat]

(* The reply has one item under each id that was asked, and no other.      *)
Conforming ==
  /\ Len(reply) = Asked(request.op)
  /\ \A q \in 1..Asked(request.op) : \E i \in DOMAIN reply : reply[i].id = q

(* What the caller is told is what one endpoint said in one batch: as many *)
(* answers as questions, none an error, every item under some question,    *)
(* and, of a batch with the ids that were asked, in whatever order it      *)
(* came, each answer under its own question.  (Of a batch with other ids   *)
(* the code takes them in the order of the ids.)  What is taken for the    *)
(* chain and the contract is ours; and a verified event is the first log   *)
(* of what is taken for a successful call of the escrow that names the     *)
(* deal, the event and the milestone.                                      *)
AnswersHold ==
  outcome.kind = "Answer" =>
    /\ Len(reply) = Asked(request.op) /\ Len(values) = Asked(request.op)
    /\ \A i \in DOMAIN reply :
         /\ reply[i].answer # Error
         /\ \E k \in DOMAIN values : values[k] = reply[i].answer
         /\ Conforming => values[reply[i].id] = reply[i].answer
    /\ request.op = "Status" => OnOurContract /\ Decodable
    /\ request.op = "Verify" =>
         /\ Confirmed
         /\ outcome.log \in DOMAIN values[1].logs
         /\ FirstMatch(values[1].logs, outcome.log)

(* No endpoint is asked twice, and a read is refused only when every one   *)
(* has failed or, of the status, one has spoken of another chain or of a   *)
(* contract that is not there.                                             *)
RefusedWhenAllFailed ==
  /\ \A i, j \in DOMAIN tried : tried[i] = tried[j] => i = j
  /\ outcome.kind = "Refused" =>
       \/ \A i \in DOMAIN Urls : Tried(Urls[i])
       \/ ~Configured
       \/ request.op = "Status" /\ reply # <<>> /\ ~OnOurContract

(* Every read comes to an end.                                             *)
ReadEnds == <>(pc = "done")
==========================================================================
