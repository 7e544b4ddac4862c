--------------------------- MODULE MCChainReader ---------------------------
(***************************************************************************)
(* Two endpoints, one of them configured twice, or a contract address that *)
(* is missing.  The logs differ from the one that is looked for in one     *)
(* field each.  The three items about a transaction arrive in every order, *)
(* with any of them missing, one under another's id or under one nobody    *)
(* asked, and one more than asked; the six about the contract in order,    *)
(* reversed, with the settings rotated, with the last one missing or sent  *)
(* twice, with an id in another's place, and counted from 0.               *)
(***************************************************************************)
EXTENDS ChainReader, TLC, SequencesExt

MCSettings ==
  {[urls |-> <<"a", "b", "a">>, escrow |-> "e", registry |-> "t"],
   [urls |-> <<"a">>, escrow |-> "", registry |-> "t"]}

Log(address, signature, deal, position) ==
  [address |-> address, signature |-> signature, deal |-> deal,
   position |-> position]

MCLogs ==
  {Log("e", "s", "d", 0), Log("e", "s", "d", None), Log("x", "s", "d", 0),
   Log("e", "x", "d", 0), Log("e", "s", "x", 0)}

LogLists == {<<>>} \cup (MCLogs \X {Log("e", "s", "d", 0)})

---------------------------------------------------------------------------
(* What an endpoint answers to each question                               *)

Object(status, to, logs) ==
  [kind |-> "object", word |-> status, to |-> to, logs |-> logs]

Receipts ==
  {Object("0x1", to, logs) : to \in Recipients, logs \in LogLists}
    \cup {Object("0x0", to, <<>>) : to \in Recipients}

Texts(words) == {Text(w) : w \in words}

Chains == Texts({"ours", "other"}) \cup {Error}

AboutContract ==
  <<Chains, Texts({"0x", "0x0", "0x60"}) \cup {Null, Error}>>
    \o [i \in 1..4 |-> Texts({"0x1", "0x"}) \cup {Error}]

AboutTransaction ==
  <<Receipts \cup {Null, Error},
    {Object("", to, <<>>) : to \in Recipients} \cup {Null, Error},
    Chains>>

(* Under an id that was not asked, an answer to any of the questions.      *)
ItemsUnder(id, about) ==
  {[id |-> id, answer |-> a] :
     a \in IF id \in DOMAIN about THEN about[id] ELSE UNION Range(about)}

RepliesUnder(ids, about) ==
  FoldLeft(LAMBDA replies, id :
             {Append(items, item) : items \in replies,
                                    item \in ItemsUnder(id, about)},
           {<<>>}, ids)

PossibleReplies ==
  [Status |->
     UNION {RepliesUnder(ids, AboutContract) :
       ids \in {<<1, 2, 3, 4, 5, 6>>, <<6, 5, 4, 3, 2, 1>>,
                <<1, 2, 4, 5, 6, 3>>, <<5, 4, 3, 2, 1>>,
                <<1, 2, 3, 3, 5, 6>>, <<0, 1, 2, 3, 4, 5>>,
                <<1, 2, 3, 4, 5, 6, 6>>}},
   Verify |->
     UNION {RepliesUnder(ids, AboutTransaction) :
       ids \in UNION {SetToSeqs(asked) : asked \in SUBSET (1..3)}
                 \cup {<<1, 1, 3>>, <<3, 2, 2>>, <<2, 3, 9>>, <<0, 1, 3>>,
                       <<1, 2, 3, 3>>}}]

(* TLC evaluates PossibleReplies once.                                     *)
MCReplies == PossibleReplies
==========================================================================
