---------------------------- MODULE RiskAcceptance ----------------------------
(***************************************************************************)
(* A risk acceptance proposed on an escalation matter and the chain of     *)
(* approvals that gives it effect: escalation/approvals.py and the         *)
(* controller of Risk Acceptance, composed with the matter                 *)
(* (EscalationMatter) whose severity chooses the chain and whose stage and *)
(* owner decide who may take part.                                         *)
(***************************************************************************)
EXTENDS ApprovalSteps, EscalationMatter

CONSTANTS
  Steps,        \* steps of the approval routes
  MaxCycle,     \* bounds the requests for approval
  Chain,        \* the steps of the route a severity selects; the one step of
                \* an acceptance with no route
  Named,        \* the steps that name their approver, and whom
  Raiser,       \* the account that recorded the matter: owner of its row
  Executives    \* those the forms may name as accountable or as having
                \* identified the matter (bounds them)

Cycles == 1..MaxCycle

ASSUME AccountAssumption == Users = People
ASSUME ChainAssumption ==
  /\ MaxCycle \in Nat
  /\ Rows = Steps \X Cycles
  /\ Cycle = [r \in Rows |-> 0]   \* an acceptance has no versions
  /\ Chain \in [Severity -> (SUBSET Steps) \ {{}}]
  /\ DOMAIN Named \subseteq Steps /\ Named \in [DOMAIN Named -> People]
  /\ Raiser \in People /\ Executives \subseteq People

VARIABLES
  acceptance,   \* the row of the acceptance
  answerable,   \* identified_by and accountable_executive of the matter, and
                \* accountable_executive of the acceptance
  independent   \* rows decided by somebody who, then, did not answer for the
                \* matter

avars == <<acceptance, answerable, independent, decision, live>>
vars  == <<mvars, avars>>

-----------------------------------------------------------------------------
Unproposed == "unproposed"

(* Withdrawn stands for Expired too.                                       *)
AcceptanceStatus == {"Draft", "Pending Approval", "Approved", "Withdrawn"}

Acceptance ==
  [status: AcceptanceStatus \cup {Unproposed},
   author: Users \cup {Nobody},     \* owner of the row
   asker: Users \cup {Nobody},      \* owner of the chain's first row
   cycle: 0..MaxCycle,              \* approval_decision: the latest request
   signed: BOOLEAN,                 \* approved_by and approved_on
   motion: BOOLEAN]                 \* approval_motion

(* cycle_steps, chain_status.                                              *)
Current == {r \in Rows : r[2] = acceptance.cycle /\ Raised(r)}

Waiting == Outstanding \cap Current

Objects(rows) == \E r \in Current : rows[r].outcome \in ReviewOutcome

Complete(rows) ==
  /\ Current # {}
  /\ \A r \in Current : rows[r].outcome = "Approved"

(* conflicted: owner, raiser, whoever answers, proposed or asked, as the   *)
(* fields stand when it is asked.                                          *)
Answering == answerable \cup {Raiser, matter.owner}

(* Mutant: whoever owns the matter now is not asked about.                 *)
MutantConflicted(asker) == answerable \cup {Raiser, acceptance.author, asker}

Conflicted(asker) == Answering \cup {acceptance.author, asker}

-----------------------------------------------------------------------------
Init ==
  /\ MInit
  /\ InitSteps
  /\ acceptance = [status |-> Unproposed, author |-> Nobody, asker |-> Nobody,
                   cycle |-> 0, signed |-> FALSE, motion |-> FALSE]
  /\ answerable \in SUBSET Executives
  /\ independent = {}

Propose(u) ==
  /\ matter.status \in Working
  /\ u \in Owners
  /\ acceptance.status = Unproposed
  /\ acceptance' = [acceptance EXCEPT !.status = "Draft", !.author = u]
  /\ UNCHANGED <<mvars, answerable, independent, decision, live>>

(* Every step of the route is raised at once, for people who differ.       *)
(* Mutant: a step may be left without an approver.                         *)
MutantAssignments(u) ==
  [Chain[matter.severity] -> (Users \cup {Nobody}) \ Conflicted(u)]

Assignments(u) ==
  {who \in [Chain[matter.severity] -> Users \ Conflicted(u)] :
     /\ \A s, t \in DOMAIN who : who[s] = who[t] => s = t
     /\ \A s \in DOMAIN who \cap DOMAIN Named : who[s] = Named[s]}

RequestApproval(u) ==
  /\ matter.status \in Working
  /\ u \in Owners
  /\ acceptance.status = "Draft"
  /\ Waiting = {}
  /\ acceptance.cycle < MaxCycle
  /\ acceptance' = [acceptance EXCEPT !.status = "Pending Approval", !.asker = u, !.cycle = @ + 1]
  /\ \E who \in Assignments(u) :
       decision' = [r \in Rows |-> IF r[2] = acceptance'.cycle /\ r[1] \in DOMAIN who
                                   THEN RaisedFor(who[r[1]]) ELSE decision[r]]
  /\ UNCHANGED <<mvars, answerable, independent, live>>

(* _close_unreached: the steps an objection leaves open are settled.       *)
(* Mutant: only those that were waiting for their turn.                    *)
MutantUnreached(r) == r \in Waiting /\ ~IsTurn(r)

Unreached(r) == r \in Waiting

Settled(rows) ==
  IF Objects(rows)
  THEN [r \in Rows |-> IF Unreached(r) /\ rows[r].outcome \in OpenOutcome
                       THEN [rows[r] EXCEPT !.outcome = "Abstained"] ELSE rows[r]]
  ELSE rows

StatusAfter(rows) ==
  IF Objects(rows) THEN "Draft" ELSE IF Complete(rows) THEN "Approved" ELSE acceptance.status

(* decide_risk_acceptance: it asks whether a step is open, not whether the *)
(* acceptance still waits for it.                                          *)
Decide(u, r, outcome) ==
  /\ OpenMatter(matter)
  /\ r \in Waiting
  /\ u \notin Conflicted(acceptance.asker)
  /\ IsTurn(r)
  /\ MayAct(u, r)
  /\ LET rows == Recorded(r, outcome, decision[r].assigned, u)
     IN  /\ decision' = Settled(rows)
         /\ acceptance' = [acceptance EXCEPT !.status = StatusAfter(rows),
                                             !.signed = ~Objects(rows) /\ Complete(rows)]
  /\ independent' = IF u \in Answering THEN independent ELSE independent \cup {r}
  /\ UNCHANGED <<mvars, answerable, live>>

(* The desk form: any status, and the motion of a forum that approved it.  *)
(* validate_approval: Approved needs the motion, or the chain.             *)
(* Mutant: the stamp of an earlier approval will do.                       *)
MutantIsApproved(motion) == motion \/ acceptance.signed

IsApproved(motion) == motion \/ (acceptance.signed /\ Complete(decision))

DeskAcceptance(s, motion) ==
  /\ acceptance.status # Unproposed
  /\ s = "Approved" => IsApproved(motion)
  /\ acceptance' = [acceptance EXCEPT !.status = s, !.motion = motion]
  /\ UNCHANGED <<mvars, answerable, independent, decision, live>>

(* The forms of the matter, where its owner may change in the same save,   *)
(* and of the acceptance: who answers changes at any time, before a step   *)
(* is decided or after.                                                    *)
NameAnswerable(A) ==
  /\ answerable' = A
  /\ (\E o \in People \cup {NoOwner} : DeskOwner(o)) \/ UNCHANGED mvars
  /\ UNCHANGED <<acceptance, independent, decision, live>>

DelegationChanges(pair) ==
  /\ DelegationTurns(pair)
  /\ UNCHANGED <<mvars, acceptance, answerable, independent, decision>>

-----------------------------------------------------------------------------
Next ==
  \/ MNext /\ UNCHANGED avars
  \/ \E u \in Users : Propose(u) \/ RequestApproval(u)
  \/ \E u \in Users, r \in Rows, o \in {"Approved", "Rejected"} : Decide(u, r, o)
  \/ \E s \in AcceptanceStatus, motion \in BOOLEAN : DeskAcceptance(s, motion)
  \/ \E A \in SUBSET Executives : NameAnswerable(A)
  \/ \E pair \in Delegable : DelegationChanges(pair)

Spec == Init /\ [][Next]_vars

-----------------------------------------------------------------------------
TypeOK ==
  /\ MTypeOK
  /\ StepsTypeOK
  /\ acceptance \in Acceptance
  /\ answerable \subseteq Executives /\ independent \subseteq Rows
  /\ \A r \in Rows : Raised(r) => r[2] <= acceptance.cycle /\ decision[r].assigned \in Users

(* While an acceptance is in effect, and no forum motion stands for the    *)
(* approval, every step of its latest request was approved, by nobody who  *)
(* raised the matter, proposed the acceptance or asked for the approval,   *)
(* and by nobody who owned or answered for the matter as its fields stood  *)
(* when they decided, not even for somebody else; whatever is withdrawn,   *)
(* sent back, asked again, handed over or edited on the forms in between.  *)
(* One person may have given two of the approvals, one of them for         *)
(* somebody else: see EachStepByAnother.                                   *)
ApprovedByAll ==
  acceptance.status = "Approved" /\ ~acceptance.motion =>
    /\ Current # {}
    /\ \A r \in Current :
         /\ decision[r].outcome = "Approved"
         /\ r \in independent
         /\ decision[r].by \notin {Raiser, acceptance.author, acceptance.asker}

(* An objection ends its chain: no step of that request waits on anybody,  *)
(* a peer asked in parallel included, and no earlier request does.         *)
ObjectionEndsTheChain ==
  \A r \in Outstanding :
    /\ r[2] = acceptance.cycle
    /\ \A q \in Rows : q[2] = r[2] => decision[q].outcome # "Rejected"

-----------------------------------------------------------------------------
(* What the documents say and the code does not do.                        *)

(* approvals.py:519: nor may one person take two steps of the same chain.  *)
(* It is asked of those the steps are left with, not of who acts for them. *)
EachStepByAnother ==
  \A r, q \in Current :
    decision[r].outcome = "Approved" /\ decision[q].outcome = "Approved"
      /\ decision[r].by = decision[q].by => r = q

(* approvals.py:178: approved by someone who answers for the risk, it was  *)
(* not independently approved.  Whoever approved it may come to answer for *)
(* it, and nothing asks again.                                             *)
StillIndependent ==
  acceptance.status = "Approved" /\ ~acceptance.motion =>
    \A r \in Current : decision[r].by \notin Answering

=============================================================================
