------------------------------ MODULE Formation ------------------------------
(***************************************************************************)
(* One request to form, modify or retire a forum, from its draft to the    *)
(* forum: governance/formation.py and the controller of Committee          *)
(* Formation Request, with the approval steps of consilium_core and the    *)
(* charter drafted for the request (governance/charters.py).               *)
(*                                                                         *)
(* Every handler reads the request's row and writes it back, so two of     *)
(* them never overlap: the second save fails on the row's timestamp.  A    *)
(* step's decision writes the step's row only, and is two actions here:    *)
(* what the handler checks, and its commit.  The office's own actions are  *)
(* open to any of its members; only who decides and who excuses matters.   *)
(***************************************************************************)
EXTENDS ApprovalSteps

CONSTANTS
  Heads,       \* holders of the Head of Risk Governance role
  Authority,   \* the head of that role's queue
  Exceptions,  \* the rows of exception steps (bounds how many are raised)
  Assignee,    \* whom a route step names, or the head of its role's queue
  Queue,       \* the queue of a role-based route step; {} for a named person
  Routes,      \* active Formation Approval Routes: numbers, by modification
  RouteSteps,  \* the steps of a route
  Narrows,     \* what a route says of each dimension, or RouteAny
  Facts,       \* what the form may say of each dimension
  Criteria,    \* the evaluation criteria
  RouteAny, NoRoute,
  MaxInFlight  \* decisions in flight at once (bounds them)

RouteRows  == Rows \ Exceptions
Dimensions == {"request_type", "forum_type", "change_materiality"}

ASSUME PeopleAssumption == Heads \subseteq Users /\ Authority \in Heads
ASSUME RouteAssumption  == /\ Routes \subseteq Nat /\ IsFiniteSet(Routes)
                           /\ NoRoute \notin Routes
                           /\ RouteSteps \in [Routes -> (SUBSET RouteRows) \ {{}}]
                           /\ \A r \in Routes : DOMAIN Narrows[r] = Dimensions
ASSUME StepAssumption   == /\ Exceptions \subseteq Rows
                           /\ Exceptions \cap Sequential = {}
                           /\ Assignee \in [RouteRows -> Users]
                           /\ Queue \in [RouteRows -> SUBSET Users]
                           \* exception steps come at 99, after those of a route
                           /\ \A e \in Exceptions, r \in Sequential : Place[r] <= Place[e]

VARIABLES
  request,     \* the request's row
  charter,     \* the charter drafted for it: "none", "outstanding", "cleared"
  deciding     \* decisions whose handler has checked and not yet committed

rvars == <<request, charter>>
vars  == <<request, charter, deciding, decision, live>>

-----------------------------------------------------------------------------
(* The states and their flags.                                             *)
State     == {"Draft", "Submitted", "Under Evaluation", "Returned", "Pending Approval",
              "Exception Review", "Approved", "Rejected", "Withdrawn"}
Editable  == {"Draft", "Returned"}

(* stage_of: Submitted and Pending Approval carry the same flags, and what *)
(* tells them apart is whether approval was ever sought.                   *)
Stage ==
  CASE request.state \in {"Submitted", "Pending Approval"} ->
         IF \E r \in Rows : Raised(r) THEN "approval" ELSE "awaiting evaluation"
    [] request.state \in {"Rejected", "Withdrawn"} -> "closed"
    [] OTHER -> request.state

Forum   == {"none", "created", "put under review"}
Request == [state: State, fact: Facts, unassessed: SUBSET Criteria, complete: BOOLEAN,
            route: Routes \cup {NoRoute}, forum: Forum]

(* A change to an existing forum states its materiality before it moves.   *)
HasMateriality(f) == f.request_type = "Modify" => f.change_materiality # "blank"

-----------------------------------------------------------------------------
(* resolve_route: of the routes that fit, the one that names the most      *)
(* dimensions, then forum type over materiality over request type, then    *)
(* the most recently modified.                                             *)
Names(r, d) == IF Narrows[r][d] = RouteAny THEN 0 ELSE 1

Fits(r, f) == \A d \in DOMAIN Narrows[r] : Narrows[r][d] \in {RouteAny, f[d]}

Fit(r) ==
  12 * Names(r, "forum_type") + 10 * Names(r, "change_materiality") + 9 * Names(r, "request_type")

Better(r, q) == Fit(r) > Fit(q) \/ (Fit(r) = Fit(q) /\ r >= q)

MatchingRoutes(f) == {r \in Routes : Fits(r, f)}

ResolvedRoute(f) ==
  CHOOSE r \in MatchingRoutes(f) : \A q \in MatchingRoutes(f) : Better(r, q)

-----------------------------------------------------------------------------
(* What the save of a decision row does to the decisions in flight on it:  *)
(* their own save will find the row newer than the one they read.          *)
(* Mutant: the last one to save wins.                                      *)
MutantOvertaken(R) == {d \in deciding : d.row \in R /\ d.outcome = "Abstained"}

Overtaken(R) == {d \in deciding : d.row \in R}

Init ==
  /\ InitSteps
  /\ request \in {[state |-> "Draft", fact |-> f, unassessed |-> Criteria,
                   complete |-> FALSE, route |-> NoRoute, forum |-> "none"] : f \in Facts}
  /\ charter = "none"
  /\ deciding = {}

(* The form saves anything, the state included, while the request is with  *)
(* its originator.                                                         *)
SaveForm(f, state, unassessed, complete) ==
  /\ request.state \in Editable
  /\ request' = [request EXCEPT !.fact = f, !.state = state,
                                !.unassessed = unassessed, !.complete = complete]
  /\ UNCHANGED <<charter, deciding, decision, live>>

Moves(state) ==
  /\ request' = [request EXCEPT !.state = state]
  /\ UNCHANGED <<charter, deciding, decision, live>>

Submit ==
  /\ Stage = "Draft"
  /\ HasMateriality(request.fact)
  /\ Moves("Submitted")

StartEvaluation == Stage = "awaiting evaluation" /\ Moves("Under Evaluation")

ReturnToOriginator ==
  /\ Stage \in {"awaiting evaluation", "Under Evaluation"}
  /\ Moves("Returned")

RespondToReturn == Stage = "Returned" /\ Moves("Under Evaluation")

RecordFindings(unassessed, complete) ==
  /\ Stage = "Under Evaluation"
  /\ request' = [request EXCEPT !.unassessed = unassessed, !.complete = complete]
  /\ UNCHANGED <<charter, deciding, decision, live>>

Reject ==
  /\ Stage \notin {"Draft", "Approved", "closed"}
  /\ Moves("Rejected")

Withdraw == Stage \notin {"Approved", "closed"} /\ Moves("Withdrawn")

-----------------------------------------------------------------------------
(* raise_approval_steps: from evaluation, or after an exception settled    *)
(* before the route was raised.  A step whose title is on file is kept.    *)
(* Mutant: the route need not be asked again for what the form now says.   *)
MutantMayRaise ==
  /\ Stage = "Under Evaluation" \/ (Stage = "approval" /\ request.route = NoRoute)
  /\ request.unassessed = {}
  /\ MatchingRoutes(request.fact) # {}

MayRaise ==
  /\ Stage = "Under Evaluation" \/ (Stage = "approval" /\ request.route = NoRoute)
  /\ request.unassessed = {}
  /\ request.complete
  /\ HasMateriality(request.fact)
  /\ MatchingRoutes(request.fact) # {}

RaiseApprovalSteps ==
  /\ MayRaise
  /\ LET route == ResolvedRoute(request.fact)
     IN  /\ request' = [request EXCEPT !.state = "Pending Approval", !.route = route]
         /\ decision' = [r \in Rows |-> IF r \in RouteSteps[route] /\ ~Raised(r)
                                        THEN RaisedFor(Assignee[r]) ELSE decision[r]]
  /\ UNCHANGED <<charter, deciding, live>>

(* queued_role: the queue may decide a role-based step of the request's    *)
(* route; an exception step belongs to the one authority it names.         *)
QueueOf(r) ==
  IF request.route # NoRoute /\ r \in RouteSteps[request.route] THEN Queue[r] ELSE {}

MayDecide(u, r) == MayAct(u, r) \/ u \in QueueOf(r)

(* A member of the queue takes the step by deciding it; the assignee and   *)
(* their delegate leave it where it is.                                    *)
(* Mutant: taken from the queue, the step is left without an assignee.     *)
MutantClaimed(u, r) == IF MayAct(u, r) THEN decision[r].assigned ELSE Nobody

Claimed(u, r) == IF MayAct(u, r) THEN decision[r].assigned ELSE u

MayBeginDecision(u, r) ==
  /\ Stage = "approval"
  /\ IsOpen(r)
  /\ MayDecide(u, r)
  /\ IsTurn(r)

StepDecisions == {"Approved", "Rejected", "Changes Requested", "Abstained"}

BeginDecision(u, r, outcome) ==
  /\ Cardinality(deciding) < MaxInFlight
  /\ MayBeginDecision(u, r)
  /\ deciding' = deciding \cup
       {[user |-> u, row |-> r, outcome |-> outcome, assigned |-> Claimed(u, r)]}
  /\ UNCHANGED <<request, charter, decision, live>>

CommitDecision(d) ==
  /\ decision' = Recorded(d.row, d.outcome, d.assigned, d.user)
  /\ deciding' = (deciding \ {d}) \ Overtaken({d.row})
  /\ UNCHANGED <<request, charter, live>>

(* authorise_bypass: by a head, out of turn if need be, of a step that is  *)
(* not theirs to decide.                                                   *)
(* Mutant: only the assignee is kept from excusing the step.               *)
MutantMayBypass(u, r) ==
  /\ Stage = "approval" /\ u \in Heads /\ IsOpen(r) /\ u # decision[r].assigned

MayBypass(u, r) ==
  /\ Stage = "approval"
  /\ u \in Heads
  /\ IsOpen(r)
  /\ ~MayDecide(u, r)

AuthoriseBypass(u, r) ==
  /\ MayBypass(u, r)
  /\ decision' = Recorded(r, "Bypassed", decision[r].assigned, u)
  /\ deciding' = deciding \ Overtaken({r})
  /\ UNCHANGED <<request, charter, live>>

-----------------------------------------------------------------------------
(* The dispute path.                                                       *)
RaiseException(r) ==
  /\ Stage \in {"Under Evaluation", "approval"}
  /\ r \in Exceptions
  /\ ~Raised(r)
  /\ request' = [request EXCEPT !.state = "Exception Review"]
  /\ decision' = [decision EXCEPT ![r] = RaisedFor(Authority)]
  /\ UNCHANGED <<charter, deciding, live>>

(* resolve_exception: any open step of the request may be named.  Without  *)
(* a name it is the last one the caller may decide, so with none of those  *)
(* the exception ends and no step is decided.  Nobody claims a step here.  *)
ResolveException(u, r, outcome) ==
  /\ Stage = "Exception Review"
  /\ u \in Heads
  /\ IsOpen(r)
  /\ MayAct(u, r)
  /\ IsTurn(r)
  /\ request' = [request EXCEPT !.state = "Pending Approval"]
  /\ decision' = Recorded(r, outcome, decision[r].assigned, u)
  /\ deciding' = deciding \ Overtaken({r})
  /\ UNCHANGED <<charter, live>>

EndException(u) ==
  /\ Stage = "Exception Review"
  /\ u \in Heads
  /\ \A r \in Outstanding : ~MayDecide(u, r)
  /\ Moves("Pending Approval")

-----------------------------------------------------------------------------
(* approval_blockers: what is not assessed or confirmed, steps still open, *)
(* steps refused and not excused, and a charter not cleared.               *)
Refused(r) ==
  Closed(r) /\ decision[r].outcome \in ReviewOutcome /\ decision[r].outcome # "Bypassed"

(* Mutant: one bypass on the request excuses every step still open.        *)
MutantBlocked ==
  \/ request.unassessed # {}
  \/ ~request.complete
  \/ Outstanding # {} /\ \A r \in Rows : decision[r].outcome # "Bypassed"
  \/ \E r \in Rows : Refused(r)
  \/ charter = "outstanding"

Blocked ==
  \/ request.unassessed # {}
  \/ ~request.complete
  \/ Outstanding # {}
  \/ \E r \in Rows : Refused(r)
  \/ charter = "outstanding"

(* approve and create_forum in one request.                                *)
Approve ==
  /\ Stage = "approval"
  /\ ~Blocked
  /\ request' = [request EXCEPT
       !.state = "Approved",
       !.forum = IF request.fact.request_type = "Create" THEN "created" ELSE "put under review"]
  /\ UNCHANGED <<charter, deciding, decision, live>>

(* A charter is drafted for the request and published: the new text puts   *)
(* the challenge back to not reviewed, unless the office records what it   *)
(* says of the text with it.  The office records its outcome on a version. *)
PublishCharter(cleared) ==
  /\ charter' = IF cleared THEN "cleared" ELSE "outstanding"
  /\ UNCHANGED <<request, deciding, decision, live>>

RecordChallenge(cleared) ==
  /\ charter # "none"
  /\ charter' = IF cleared THEN "cleared" ELSE "outstanding"
  /\ UNCHANGED <<request, deciding, decision, live>>

DelegationChanges(pair) == DelegationTurns(pair) /\ UNCHANGED <<request, charter, deciding, decision>>

-----------------------------------------------------------------------------
Next ==
  \/ \E f \in Facts, s \in State, C \in SUBSET Criteria, b \in BOOLEAN : SaveForm(f, s, C, b)
  \/ Submit \/ StartEvaluation \/ ReturnToOriginator \/ RespondToReturn \/ Reject \/ Withdraw
  \/ \E C \in SUBSET Criteria, b \in BOOLEAN : RecordFindings(C, b)
  \/ RaiseApprovalSteps
  \/ \E u \in Users, r \in Rows, o \in StepDecisions : BeginDecision(u, r, o)
  \/ \E d \in deciding : CommitDecision(d)
  \/ \E u \in Users, r \in Rows : AuthoriseBypass(u, r)
  \/ \E r \in Exceptions : RaiseException(r)
  \/ \E u \in Users, r \in Rows, o \in {"Approved", "Rejected"} : ResolveException(u, r, o)
  \/ \E u \in Users : EndException(u)
  \/ Approve
  \/ \E cleared \in BOOLEAN : PublishCharter(cleared) \/ RecordChallenge(cleared)
  \/ \E pair \in Delegable : DelegationChanges(pair)

Spec == Init /\ [][Next]_vars

-----------------------------------------------------------------------------
InFlight == [user: Users, row: Rows, outcome: StepDecisions, assigned: Users]

TypeOK ==
  /\ StepsTypeOK
  /\ request \in Request
  /\ charter \in {"none", "outstanding", "cleared"}
  /\ deciding \subseteq InFlight

(* The approval path is the one the request calls for: no active route     *)
(* that fits what the form says names more of it, and every step of the    *)
(* route was asked for.  The form may change until the route is raised,    *)
(* and an exception may come before it.                                    *)
Specificity(r) == Cardinality({d \in DOMAIN Narrows[r] : Narrows[r][d] # RouteAny})

OnTheRightRoute ==
  request.route # NoRoute =>
    /\ request.route \in MatchingRoutes(request.fact)
    /\ HasMateriality(request.fact)
    /\ \A q \in MatchingRoutes(request.fact) : Specificity(q) <= Specificity(request.route)
    /\ \A r \in RouteSteps[request.route] : Raised(r)

(* There is a forum, or one under review, only after everything was asked: *)
(* each criterion has a finding, the confirmation is given, and each step  *)
(* that was ever raised was decided, none of them against the request,     *)
(* whatever exceptions and bypasses there were on the way.                 *)
ForumThroughGate ==
  request.forum # "none" =>
    /\ request.state = "Approved"
    /\ request.unassessed = {} /\ request.complete
    /\ \A r \in Rows : Raised(r) => decision[r].outcome \in {"Approved", "Abstained", "Bypassed"}

(* Nobody excuses their own check: whoever authorised a bypass was neither *)
(* the person the step was left with, who may have taken it from a queue,  *)
(* nor another member of that queue.                                       *)
NoSelfExcuse ==
  \A r \in Rows : decision[r].outcome = "Bypassed" =>
    /\ decision[r].by # decision[r].assigned
    /\ r \in RouteRows => decision[r].by \notin Queue[r]

(* Two members of a queue, an assignee and their delegate, or one of them  *)
(* and the head who bypasses, may answer a step at once: what the first to *)
(* commit put on the record stays there.                                   *)
DecidedOnce == [][\A r \in Rows : Closed(r) => decision'[r] = decision[r]]_vars
=============================================================================
