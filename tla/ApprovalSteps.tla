---------------------------- MODULE ApprovalSteps ----------------------------
(***************************************************************************)
(* The Approval Decision rows of one subject and the delegations under     *)
(* which they may be decided: consilium_core/approvals.py and              *)
(* consilium_core/delegation.py.  Formation, PolicyLifecycle and           *)
(* RiskAcceptance extend it.                                               *)
(*                                                                         *)
(* A row is known by its name (step, and the version or round it was       *)
(* raised for); a row not raised yet has the outcome NotRaised.            *)
(***************************************************************************)
EXTENDS Integers, FiniteSets

CONSTANTS
  Users,       \* accounts that decide, raise and authorise
  Rows,        \* names of Approval Decision rows
  Place,       \* step_sequence of a row
  Sequential,  \* the rows whose mode is Sequential; the others are Parallel
  Cycle,       \* based_on_version of a row: its approval cycle
  Delegable    \* pairs <<delegator, delegate>> with a delegation on file that
               \* names the action and covers the subject

ASSUME RowAssumption == /\ Place \in [Rows -> Nat]
                        /\ Sequential \subseteq Rows
                        /\ DOMAIN Cycle = Rows
ASSUME DelegableAssumption == Delegable \subseteq Users \X Users

VARIABLES
  decision,    \* the rows
  live         \* the delegations that are in force today

-----------------------------------------------------------------------------
(* The outcomes and their flags.  Changes Requested leaves the step open.  *)
NotRaised == "not raised"
Outcome   == {NotRaised, "Pending", "Approved", "Rejected", "Changes Requested",
              "Abstained", "Bypassed"}
OpenOutcome    == {"Pending", "Changes Requested"}
ReviewOutcome  == {"Rejected", "Changes Requested", "Bypassed"}

(* assigned_to; acted_by, which for a bypass is whoever authorised it (the *)
(* row itself then names its assignee).                                    *)
Nobody   == "nobody"
Decision == [outcome: Outcome, assigned: Users \cup {Nobody}, by: Users \cup {Nobody}]

Blank        == [outcome |-> NotRaised, assigned |-> Nobody, by |-> Nobody]
RaisedFor(u) == [outcome |-> "Pending", assigned |-> u, by |-> Nobody]

Raised(r) == decision[r].outcome # NotRaised
IsOpen(r) == decision[r].outcome \in OpenOutcome
Closed(r) == Raised(r) /\ ~IsOpen(r)

Outstanding == {r \in Rows : IsOpen(r)}

(* waiting_on: a sequential row waits for the open rows of its own cycle   *)
(* with a lower sequence; a parallel one, and a peer, for nothing.         *)
(* Mutant: whichever row comes next in the list is next.                   *)
MutantWaitingOn(r) ==
  IF r \in Sequential
  THEN {q \in Outstanding : Cycle[q] = Cycle[r] /\ Place[q] + 1 < Place[r]}
  ELSE {}

WaitingOn(r) ==
  IF r \in Sequential
  THEN {q \in Outstanding : Cycle[q] = Cycle[r] /\ Place[q] < Place[r]}
  ELSE {}

IsTurn(r) == WaitingOn(r) = {}

(* resolve_actor: the assignee, or somebody to whom they have a delegation *)
(* in force: its stored flag is set and today lies between its dates.      *)
MayAct(u, r) == u = decision[r].assigned \/ <<decision[r].assigned, u>> \in live

(* record_decision, once its guards have passed.                           *)
Recorded(r, outcome, assignee, by) ==
  [decision EXCEPT ![r] = [outcome |-> outcome, assigned |-> assignee, by |-> by]]

InitSteps ==
  /\ decision = [r \in Rows |-> Blank]
  /\ live = {}

(* A delegation comes into force when it is saved, or when the daily sweep *)
(* finds it in date; it ends with its last day, or when it is withdrawn.   *)
DelegationTurns(pair) ==
  live' = IF pair \in live THEN live \ {pair} ELSE live \cup {pair}

-----------------------------------------------------------------------------
StepsTypeOK ==
  /\ decision \in [Rows -> Decision]
  /\ live \subseteq Delegable

(* The order of a route is part of its control: a sequential step that was *)
(* decided, not bypassed, leaves no earlier step of its cycle open.        *)
InOrder ==
  \A r \in Sequential :
    decision[r].outcome \notin {NotRaised, "Pending", "Bypassed"} =>
      \A q \in Outstanding : Cycle[q] = Cycle[r] => Place[q] >= Place[r]

(* What a row says as evidence: who was asked and who an open step, or one *)
(* whose changes were requested, was last with is not part of it.          *)
OnRecord(row) ==
  CASE row.outcome = NotRaised      -> [outcome |-> "not asked", by |-> Nobody]
    [] row.outcome \in OpenOutcome  -> [outcome |-> "waiting", by |-> Nobody]
    [] OTHER                        -> [outcome |-> row.outcome, by |-> row.by]

(* The rows implement the abstract record: no answer before the question,  *)
(* none undone, none lost, none given for somebody but by an objection.    *)
Record == INSTANCE ApprovalRecord WITH answer <- [r \in Rows |-> OnRecord(decision[r])]

AnswersStand == Record!Spec
=============================================================================
