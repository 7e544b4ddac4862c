-------------------------- MODULE SerialLedger --------------------------
(***************************************************************************)
(* What the settlement of a deal promises: every confirmed event of the    *)
(* chain is recorded at most once, in one step, on the deal as it is at    *)
(* that step; the manual transitions, the invitations and the joins are    *)
(* steps of the same row; and the log of evidence only grows at its end.   *)
(***************************************************************************)
EXTENDS DealRules, Sequences

CONSTANTS Parties, Late, Role, Wallet, Milestones, Amount, Total, Bps, Chain,
          Targets, None

VARIABLES deal, parties, accepted, milestone, disputes, events, log

ledger == <<deal, parties, accepted, milestone, disputes, events, log>>

Init ==
  /\ deal = [status |-> "AWAITING_SIGNATURES", version |-> 3, funded |-> 0,
             released |-> 0, disputed |-> 0, registered |-> FALSE]
  /\ parties = Parties \ Late
  /\ accepted = {}
  /\ milestone = [m \in Milestones |-> [status |-> "PENDING", released |-> 0]]
  /\ disputes = [m \in Milestones |-> 0]
  /\ events = {}
  /\ log = <<>>

New(e, name) ==
  /\ e \in Chain \ events
  /\ e.name = name
  /\ events' = events \cup {e}
  /\ UNCHANGED parties

Logged(e) == log' = Append(log, e)

Marked(e, status) ==
  milestone' = [milestone EXCEPT ![e.milestone].status = status]

Registered(e) ==
  /\ New(e, "DealRegistered")
  /\ Logged(e)
  /\ deal' = AfterRegister(deal)
  /\ UNCHANGED <<accepted, milestone, disputes>>

(* Whoever of its parties signs last, in the deal as it is, moves it on.   *)
Accepted(e) ==
  /\ New(e, "PartyAccepted")
  /\ Logged(e)
  /\ \E p \in parties :
       /\ Wallet[p] # None
       /\ Wallet[p] = e.sender
       /\ accepted' = accepted \cup {p}
       /\ deal' = AfterAccept(deal,
            \A q \in parties : Role[q] = "OBSERVER" \/ q \in accepted')
  /\ UNCHANGED <<milestone, disputes>>

Funded(e) ==
  /\ New(e, "DealFunded")
  /\ Logged(e)
  /\ CanFund(deal, Total, e.credited)
  /\ deal' = AfterFunding(deal, Total, Bps, e.credited)
  /\ UNCHANGED <<accepted, milestone, disputes>>

Submitted(e) ==
  /\ New(e, "MilestoneSubmitted")
  /\ Logged(e)
  /\ Marked(e, "SUBMITTED")
  /\ deal' = AfterSubmit(deal)
  /\ UNCHANGED <<accepted, disputes>>

Approved(e) ==
  /\ New(e, "MilestoneApproved")
  /\ Marked(e, "APPROVED")
  /\ deal' = AfterApprove(deal)
  /\ UNCHANGED <<accepted, disputes, log>>

Released(e) ==
  LET amount == Amount[e.milestone] IN
  /\ New(e, "MilestoneReleased")
  /\ Logged(e)
  /\ milestone' = [milestone EXCEPT
       ![e.milestone] = [status |-> "RELEASED", released |-> amount]]
  /\ deal' = AfterRelease(deal, Total, amount)
  /\ UNCHANGED <<accepted, disputes>>

Disputed(e) ==
  /\ New(e, "DisputeOpened")
  /\ Marked(e, "DISPUTED")
  /\ disputes' = [disputes EXCEPT ![e.milestone] = @ + 1]
  /\ deal' = AfterDispute(deal, Amount[e.milestone])
  /\ UNCHANGED <<accepted, log>>

Transition(target) ==
  /\ CanTransition(deal, target)
  /\ deal' = AfterTransition(deal, target)
  /\ UNCHANGED <<parties, accepted, milestone, disputes, events, log>>

(* A first invitation may reopen the deal to its parties.                  *)
Invited(p) ==
  /\ Logged([name |-> "Invite", party |-> p])
  /\ deal' \in {deal, AfterInvite(deal)}
  /\ UNCHANGED <<parties, accepted, milestone, disputes, events>>

(* The last of those invited moves the deal to the signatures, whatever it *)
(* has come to meanwhile.                                                  *)
Joined(p) ==
  /\ Logged([name |-> "Join", party |-> p])
  /\ parties' = parties \cup {p}
  /\ deal' \in {deal, AfterLastJoin(deal)}
  /\ UNCHANGED <<accepted, milestone, disputes, events>>

Next ==
  \/ \E e \in Chain :
       \/ Registered(e) \/ Accepted(e) \/ Funded(e) \/ Submitted(e)
       \/ Approved(e) \/ Released(e) \/ Disputed(e)
  \/ \E target \in Targets : Transition(target)
  \/ \E p \in Late : Invited(p) \/ Joined(p)

Spec == Init /\ [][Next]_ledger
==========================================================================
