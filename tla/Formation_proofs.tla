-------------------------- MODULE Formation_proofs --------------------------
(***************************************************************************)
(* Theorems about Formation, for any routes, people, queues, delegations   *)
(* and number of decisions in flight: the state is well typed, the path of *)
(* approval is the right one and is followed in order, a forum comes after *)
(* everything that was asked, nobody excuses their own check and no answer *)
(* is lost; and the rows of the steps implement ApprovalRecord.            *)
(*                                                                         *)
(* What makes them inductive: a decision in flight is on a step that is    *)
(* open and whose turn it is, a route that was raised is never left, and   *)
(* what is raised outside the dispute path is a step of that route.        *)
(***************************************************************************)
EXTENDS Formation, FiniteSetTheorems, WellFoundedInduction, TLAPS

(* A decision in flight is on an open step whose turn it is.               *)
InFlightStands == \A d \in deciding : IsOpen(d.row) /\ IsTurn(d.row)

(* Before evaluation is over there is no route.                            *)
Early == {"Draft", "Returned", "Submitted", "Under Evaluation"}

RouteSettled == request.route # NoRoute => request.state \notin Early

StepsOfTheRoute ==
  \A r \in RouteRows :
    Raised(r) => request.route # NoRoute /\ r \in RouteSteps[request.route]

(* A step that was raised names somebody.                                  *)
Assigned == \A r \in Rows : Raised(r) => decision[r].assigned \in Users

IInv ==
  /\ TypeOK /\ Assigned /\ InFlightStands /\ RouteSettled /\ StepsOfTheRoute
  /\ OnTheRightRoute /\ ForumThroughGate /\ InOrder /\ NoSelfExcuse

-----------------------------------------------------------------------------
(* Some route fits best.                                                   *)

(* A set of natural numbers that is not empty has a least element: what    *)
(* stands in for induction.                                                *)
LEMMA LeastNatural ==
  ASSUME NEW T \in SUBSET Nat, T # {}
  PROVE  \E x \in T : \A y \in T : x <= y
<1>1. PICK x \in T : \A y \in T : ~(<<y, x>> \in OpToRel(<, Nat))
  BY NatLessThanWellFounded, WFMin
<1>2. \A y \in T : ~(y < x)
  BY <1>1 DEF OpToRel
<1> QED
  BY <1>2

LEMMA FitType == ASSUME NEW r PROVE Fit(r) \in Nat
BY DEF Fit, Names

LEMMA BestOfSome ==
  ASSUME NEW S \in SUBSET Routes, S # {}
  PROVE  \E r \in S : \A q \in S : Better(r, q)
<1> DEFINE Best(U) == \E r \in U : \A q \in U : Better(r, q)
           T == {n \in Nat : \E U \in SUBSET Routes : U # {} /\ Cardinality(U) = n /\ ~Best(U)}
<1>0. IsFiniteSet(Routes) /\ Routes \subseteq Nat
  BY RouteAssumption
<1>1. SUFFICES ASSUME ~Best(S) PROVE FALSE
  OBVIOUS
<1>2. Cardinality(S) \in T
  BY <1>0, <1>1, FS_Subset, FS_CardinalityType
<1>3. PICK n \in T : \A m \in T : n <= m
  <2> HIDE DEF T
  <2>1. T \in SUBSET Nat
    BY DEF T
  <2> QED
    BY <1>2, <2>1, LeastNatural
<1>4. PICK U \in SUBSET Routes : U # {} /\ Cardinality(U) = n /\ ~Best(U)
  BY <1>3
<1>5. PICK a \in U : TRUE
  BY <1>4
<1> DEFINE V == U \ {a}
<1>6. IsFiniteSet(U) /\ IsFiniteSet(V) /\ Cardinality(V) = n - 1 /\ n \in Nat /\ n - 1 \in Nat
  <2>1. IsFiniteSet(U)
    BY <1>0, FS_Subset
  <2>2. IsFiniteSet(V) /\ Cardinality(V) = Cardinality(U) - 1
    BY <1>5, <2>1, FS_RemoveElement
  <2>3. Cardinality(U) \in Nat /\ Cardinality(V) \in Nat
    BY <2>1, <2>2, FS_CardinalityType
  <2> QED
    BY <1>4, <2>1, <2>2, <2>3
<1>7. V \in SUBSET Routes
  BY <1>4
<1>8. n - 1 \notin T
  BY <1>3, <1>6
<1>9. V = {} \/ Best(V)
  BY <1>6, <1>7, <1>8
<1>10. \A r, q \in Routes : Better(r, q) \/ Better(q, r)
  BY <1>0, FitType DEF Better
<1>11. \A r, q, s \in Routes : Better(r, q) /\ Better(q, s) => Better(r, s)
  BY <1>0, FitType DEF Better
<1>12. CASE V = {}
  <2>1. U = {a}
    BY <1>5, <1>12
  <2> QED
    BY <1>4, <1>10, <2>1
<1>13. CASE Best(V)
  <2>1. PICK r \in V : \A q \in V : Better(r, q)
    BY <1>13
  <2>2. CASE Better(r, a)
    BY <1>4, <1>5, <2>1, <2>2
  <2>3. CASE Better(a, r)
    <3>1. \A q \in U : Better(a, q)
      BY <1>4, <1>5, <1>10, <1>11, <2>1, <2>3
    <3> QED
      BY <1>4, <1>5, <3>1
  <2> QED
    BY <1>4, <1>5, <1>10, <2>1, <2>2, <2>3
<1> QED
  BY <1>9, <1>12, <1>13

(* How many dimensions a route names, of the three.                        *)
LEMMA SpecificityIs ==
  ASSUME NEW r \in Routes
  PROVE  Specificity(r) = Names(r, "request_type") + Names(r, "forum_type")
                            + Names(r, "change_materiality")
<1> DEFINE Part(d) == IF Narrows[r][d] = RouteAny THEN {} ELSE {d}
           A == Part("request_type")
           B == A \cup Part("forum_type")
           C == B \cup Part("change_materiality")
<1>1. {d \in DOMAIN Narrows[r] : Narrows[r][d] # RouteAny} = C
  BY RouteAssumption DEF Dimensions
<1>2. IsFiniteSet(A) /\ Cardinality(A) = Names(r, "request_type") /\ A \subseteq {"request_type"}
  BY FS_EmptySet, FS_Singleton DEF Names
<1> HIDE DEF A
<1>3. /\ IsFiniteSet(B) /\ B \subseteq {"request_type", "forum_type"}
      /\ Cardinality(B) = Cardinality(A) + Names(r, "forum_type")
  <2>1. CASE Narrows[r]["forum_type"] = RouteAny
    <3>1. B = A
      BY <2>1
    <3>2. Cardinality(A) \in Nat
      BY <1>2, FS_CardinalityType
    <3> QED
      BY <1>2, <2>1, <3>1, <3>2 DEF Names
  <2>2. CASE Narrows[r]["forum_type"] # RouteAny
    <3>1. B = A \cup {"forum_type"} /\ "forum_type" \notin A
      BY <1>2, <2>2
    <3> QED
      BY <1>2, <2>2, <3>1, FS_AddElement DEF Names
  <2> QED
    BY <2>1, <2>2
<1> HIDE DEF B
<1>4. Cardinality(C) = Cardinality(B) + Names(r, "change_materiality")
  <2>1. CASE Narrows[r]["change_materiality"] = RouteAny
    <3>1. C = B
      BY <2>1
    <3>2. Cardinality(B) \in Nat
      BY <1>3, FS_CardinalityType
    <3> QED
      BY <2>1, <3>1, <3>2 DEF Names
  <2>2. CASE Narrows[r]["change_materiality"] # RouteAny
    <3>1. C = B \cup {"change_materiality"} /\ "change_materiality" \notin B
      BY <1>3, <2>2
    <3> QED
      BY <1>3, <2>2, <3>1, FS_AddElement DEF Names
  <2> QED
    BY <2>1, <2>2
<1> HIDE DEF C
<1> QED
  BY <1>1, <1>2, <1>3, <1>4 DEF Specificity

(* The route that is resolved fits, and none that fits names more.         *)
LEMMA Resolved ==
  ASSUME NEW f, MatchingRoutes(f) # {}
  PROVE  /\ ResolvedRoute(f) \in MatchingRoutes(f)
         /\ \A q \in MatchingRoutes(f) : Specificity(q) <= Specificity(ResolvedRoute(f))
<1>1. MatchingRoutes(f) \in SUBSET Routes
  BY DEF MatchingRoutes
<1>2. \E r \in MatchingRoutes(f) : \A q \in MatchingRoutes(f) : Better(r, q)
  BY <1>1, BestOfSome
<1>3. /\ ResolvedRoute(f) \in MatchingRoutes(f)
      /\ \A q \in MatchingRoutes(f) : Better(ResolvedRoute(f), q)
  BY <1>2 DEF ResolvedRoute
<1>4. ASSUME NEW r \in Routes, NEW q \in Routes, Better(r, q)
      PROVE  Specificity(q) <= Specificity(r)
  <2>1. Fit(q) <= Fit(r)
    BY <1>4, FitType DEF Better
  <2> QED
    BY <2>1, SpecificityIs DEF Fit, Names
<1> QED
  BY <1>1, <1>3, <1>4

-----------------------------------------------------------------------------
(* What a step does to one approval step.                                  *)
AnsweredAs(r, o, a, u) == decision'[r] = [outcome |-> o, assigned |-> a, by |-> u]

Asked(r) ==
  /\ ~Raised(r)
  /\ \E a \in Users : decision'[r] = RaisedFor(a)
  /\ \/ r \in Exceptions
     \/ /\ r \in RouteRows /\ request.route = NoRoute
        /\ request'.route \in Routes /\ r \in RouteSteps[request'.route]

Decided(r) ==
  /\ IsOpen(r) /\ IsTurn(r)
  /\ \E u \in Users, a \in Users, o \in StepDecisions : AnsweredAs(r, o, a, u)

Excused(r) ==
  /\ IsOpen(r)
  /\ \E u \in Users : /\ u # decision[r].assigned
                      /\ r \in RouteRows => u \notin Queue[r]
                      /\ AnsweredAs(r, "Bypassed", decision[r].assigned, u)

RowChange(r) == decision'[r] = decision[r] \/ Asked(r) \/ Decided(r) \/ Excused(r)

(* And to the decisions in flight.                                         *)
FlightChange(d) ==
  \/ d \in deciding /\ decision'[d.row] = decision[d.row]
  \/ d \in InFlight /\ IsOpen(d.row) /\ IsTurn(d.row) /\ UNCHANGED decision

Changes ==
  /\ decision' \in [Rows -> Decision]
  /\ \A r \in Rows : RowChange(r)
  /\ deciding' \subseteq InFlight
  /\ \A d \in deciding' : FlightChange(d)

LEMMA OpenIsAssigned ==
  ASSUME Assigned, NEW r \in Rows, IsOpen(r)
  PROVE  decision[r].assigned \in Users
BY DEF Assigned, IsOpen, Raised, OpenOutcome, NotRaised

(* One row is written, and what is in flight on it is overtaken.           *)
LEMMA OneRow ==
  ASSUME TypeOK, NEW q \in Rows, NEW x \in Decision,
         decision' = [decision EXCEPT ![q] = x],
         deciding' \subseteq deciding \ Overtaken({q}),
         RowChange(q)
  PROVE  Changes
<1>1. decision' \in [Rows -> Decision]
  BY DEF TypeOK, StepsTypeOK
<1>2. \A r \in Rows : r # q => decision'[r] = decision[r]
  BY DEF TypeOK, StepsTypeOK
<1>3. \A d \in deciding' : d \in deciding /\ d.row \in Rows /\ d.row # q
  BY DEF TypeOK, InFlight, Overtaken
<1> QED
  BY <1>1, <1>2, <1>3 DEF Changes, RowChange, FlightChange, TypeOK

LEMMA RowStep ==
  ASSUME IInv, [Next]_vars
  PROVE  Changes
<1> USE DEF IInv
<1>1. CASE UNCHANGED <<decision, deciding>>
  BY <1>1 DEF Changes, RowChange, FlightChange, TypeOK, StepsTypeOK
<1>2. CASE RaiseApprovalSteps
  <2> DEFINE route == ResolvedRoute(request.fact)
  <2>1. MayRaise /\ UNCHANGED deciding
    BY <1>2 DEF RaiseApprovalSteps
  <2>2. request.route = NoRoute
    BY <2>1 DEF MayRaise, Stage, RouteSettled, Early
  <2>3. route \in Routes
    BY <2>1, Resolved DEF MayRaise, MatchingRoutes
  <2>4. request'.route = route
    BY <1>2 DEF RaiseApprovalSteps, TypeOK, Request
  <2>5. decision' = [r \in Rows |-> IF r \in RouteSteps[route] /\ ~Raised(r)
                                    THEN RaisedFor(Assignee[r]) ELSE decision[r]]
    BY <1>2 DEF RaiseApprovalSteps
  <2> HIDE DEF route
  <2>6. RouteSteps[route] \subseteq RouteRows
    BY <2>3, RouteAssumption
  <2>7. \A r \in RouteRows : Assignee[r] \in Users /\ RaisedFor(Assignee[r]) \in Decision
    BY StepAssumption DEF RaisedFor, Decision, Outcome
  <2>8. decision' \in [Rows -> Decision]
    BY <2>5, <2>6, <2>7 DEF TypeOK, StepsTypeOK
  <2>9. \A r \in Rows : RowChange(r)
    BY <2>2, <2>3, <2>4, <2>5, <2>6, <2>7 DEF RowChange, Asked
  <2>10. \A d \in deciding : d \in InFlight /\ d.row \in Rows /\ IsOpen(d.row)
    BY DEF InFlightStands, TypeOK, InFlight
  <2>11. \A d \in deciding : decision'[d.row] = decision[d.row]
    BY <2>5, <2>10 DEF Raised, IsOpen, OpenOutcome, NotRaised
  <2> QED
    BY <2>1, <2>8, <2>9, <2>10, <2>11 DEF Changes, FlightChange
<1>3. ASSUME NEW u \in Users, NEW r \in Rows, NEW o \in StepDecisions, BeginDecision(u, r, o)
      PROVE  Changes
  <2> DEFINE d == [user |-> u, row |-> r, outcome |-> o, assigned |-> Claimed(u, r)]
  <2>1. /\ deciding' = deciding \cup {d} /\ UNCHANGED decision
        /\ IsOpen(r) /\ IsTurn(r)
    BY <1>3 DEF BeginDecision, MayBeginDecision
  <2>2. Claimed(u, r) \in Users
    BY <2>1, OpenIsAssigned DEF Claimed
  <2>3. d \in InFlight
    BY <2>2 DEF InFlight
  <2> QED
    BY <2>1, <2>3 DEF Changes, RowChange, FlightChange, TypeOK, StepsTypeOK
<1>4. ASSUME NEW d \in deciding, CommitDecision(d)
      PROVE  Changes
  <2>1. d \in InFlight /\ IsOpen(d.row) /\ IsTurn(d.row)
    BY DEF TypeOK, InFlightStands
  <2> DEFINE x == [outcome |-> d.outcome, assigned |-> d.assigned, by |-> d.user]
  <2>2. d.row \in Rows /\ x \in Decision
    BY <2>1 DEF InFlight, Decision, Outcome, StepDecisions
  <2>3. /\ decision' = [decision EXCEPT ![d.row] = x]
        /\ deciding' \subseteq deciding \ Overtaken({d.row})
    BY <1>4 DEF CommitDecision, Recorded
  <2>4. RowChange(d.row)
    BY <2>1, <2>2, <2>3 DEF RowChange, Decided, AnsweredAs, InFlight, TypeOK, StepsTypeOK
  <2> HIDE DEF x
  <2> QED
    BY <2>2, <2>3, <2>4, OneRow
<1>5. ASSUME NEW u \in Users, NEW r \in Rows, AuthoriseBypass(u, r)
      PROVE  Changes
  <2> DEFINE x == [outcome |-> "Bypassed", assigned |-> decision[r].assigned, by |-> u]
  <2>1. IsOpen(r) /\ ~MayDecide(u, r)
    BY <1>5 DEF AuthoriseBypass, MayBypass
  <2>2. x \in Decision
    BY DEF TypeOK, StepsTypeOK, Decision, Outcome
  <2>3. /\ decision' = [decision EXCEPT ![r] = x]
        /\ deciding' \subseteq deciding \ Overtaken({r})
    BY <1>5 DEF AuthoriseBypass, Recorded
  <2>4. u # decision[r].assigned /\ u \notin QueueOf(r)
    BY <2>1 DEF MayDecide, MayAct
  <2>5. r \in RouteRows => QueueOf(r) = Queue[r]
    BY <2>1 DEF QueueOf, StepsOfTheRoute, Raised, IsOpen, OpenOutcome, NotRaised
  <2>6. RowChange(r)
    BY <2>1, <2>3, <2>4, <2>5 DEF RowChange, Excused, AnsweredAs, TypeOK, StepsTypeOK
  <2> HIDE DEF x
  <2> QED
    BY <2>2, <2>3, <2>6, OneRow
<1>6. ASSUME NEW r \in Exceptions, RaiseException(r)
      PROVE  Changes
  <2>1. /\ r \in Rows /\ ~Raised(r) /\ deciding' = deciding
        /\ decision' = [decision EXCEPT ![r] = RaisedFor(Authority)]
    BY <1>6, StepAssumption DEF RaiseException
  <2>2. Authority \in Users /\ RaisedFor(Authority) \in Decision
    BY PeopleAssumption DEF RaisedFor, Decision, Outcome
  <2>3. RowChange(r)
    BY <2>1, <2>2 DEF RowChange, Asked, TypeOK, StepsTypeOK
  <2>4. Overtaken({r}) = {}
    BY <2>1 DEF Overtaken, InFlightStands, Raised, IsOpen, OpenOutcome, NotRaised
  <2> QED
    BY <2>1, <2>2, <2>3, <2>4, OneRow
<1>7. ASSUME NEW u \in Users, NEW r \in Rows, NEW o \in {"Approved", "Rejected"},
             ResolveException(u, r, o)
      PROVE  Changes
  <2> DEFINE x == [outcome |-> o, assigned |-> decision[r].assigned, by |-> u]
  <2>1. IsOpen(r) /\ IsTurn(r)
    BY <1>7 DEF ResolveException
  <2>2. decision[r].assigned \in Users
    BY <2>1, OpenIsAssigned
  <2>3. x \in Decision
    BY <2>2 DEF Decision, Outcome
  <2>4. /\ decision' = [decision EXCEPT ![r] = x]
        /\ deciding' \subseteq deciding \ Overtaken({r})
    BY <1>7 DEF ResolveException, Recorded
  <2>5. RowChange(r)
    BY <2>1, <2>2, <2>4 DEF RowChange, Decided, AnsweredAs, StepDecisions, TypeOK, StepsTypeOK
  <2> HIDE DEF x
  <2> QED
    BY <2>3, <2>4, <2>5, OneRow
<1>8. \/ UNCHANGED <<decision, deciding>> \/ RaiseApprovalSteps
      \/ \E u \in Users, r \in Rows, o \in StepDecisions : BeginDecision(u, r, o)
      \/ \E d \in deciding : CommitDecision(d)
      \/ \E u \in Users, r \in Rows : AuthoriseBypass(u, r)
      \/ \E r \in Exceptions : RaiseException(r)
      \/ \E u \in Users, r \in Rows, o \in {"Approved", "Rejected"} : ResolveException(u, r, o)
  BY DEF Next, vars, SaveForm, Moves, Submit, StartEvaluation, ReturnToOriginator, RespondToReturn,
         Reject, Withdraw, RecordFindings, EndException, Approve, PublishCharter, RecordChallenge,
         DelegationChanges
<1> QED
  BY <1>1, <1>2, <1>3, <1>4, <1>5, <1>6, <1>7, <1>8

-----------------------------------------------------------------------------
(* What a step does to the request.                                        *)
LEMMA StageState ==
  ASSUME TypeOK
  PROVE  /\ Stage = "approval" <=> /\ request.state \in {"Submitted", "Pending Approval"}
                                  /\ \E r \in Rows : Raised(r)
         /\ Stage = "awaiting evaluation" <=> /\ request.state \in {"Submitted", "Pending Approval"}
                                             /\ \A r \in Rows : ~Raised(r)
         /\ \A s \in {"Draft", "Returned", "Under Evaluation", "Exception Review", "Approved"} :
              Stage = s <=> request.state = s
         /\ Stage = "closed" <=> request.state \in {"Rejected", "Withdrawn"}
<1>1. request.state \in State
  BY DEF TypeOK, Request
<1>2. CASE request.state \in {"Submitted", "Pending Approval"}
  BY <1>2 DEF Stage
<1>3. CASE request.state \in {"Rejected", "Withdrawn"}
  BY <1>3 DEF Stage
<1>4. CASE request.state \in {"Draft", "Returned", "Under Evaluation", "Exception Review", "Approved"}
  BY <1>4 DEF Stage
<1> QED
  BY <1>1, <1>2, <1>3, <1>4 DEF State

LEMMA RouteHasSteps ==
  ASSUME NEW q \in Routes
  PROVE  RouteSteps[q] \subseteq RouteRows /\ RouteSteps[q] # {}
<1>1. RouteSteps \in [Routes -> (SUBSET RouteRows) \ {{}}]
  BY RouteAssumption
<1>2. RouteSteps[q] \in (SUBSET RouteRows) \ {{}}
  BY <1>1
<1> QED
  BY <1>2

(* With a route, the request is past evaluation for good.                  *)
LEMMA PastEvaluation ==
  ASSUME IInv, request.route # NoRoute
  PROVE  /\ request.state \in {"Pending Approval", "Exception Review", "Approved",
                               "Rejected", "Withdrawn"}
         /\ Stage \notin {"Draft", "Returned", "Under Evaluation", "awaiting evaluation"}
         /\ ~(Stage = "approval" /\ request.route = NoRoute)
<1>1. request.state \in State /\ request.route \in Routes
  BY DEF IInv, TypeOK, Request
<1>2. request.state \in {"Pending Approval", "Exception Review", "Approved", "Rejected", "Withdrawn"}
  BY <1>1 DEF IInv, RouteSettled, Early, State
<1>3. \E r \in Rows : Raised(r)
  <2> DEFINE route == request.route
  <2>1. RouteSteps[route] \subseteq RouteRows /\ RouteSteps[route] # {}
    BY <1>1, RouteHasSteps
  <2> HIDE DEF route
  <2>2. PICK r \in RouteSteps[route] : TRUE
    BY <2>1
  <2>3. r \in Rows
    BY <2>1, <2>2 DEF RouteRows
  <2>4. Raised(r)
    BY <2>2 DEF IInv, OnTheRightRoute, route
  <2> QED
    BY <2>3, <2>4
<1> QED
  BY <1>2, <1>3, StageState DEF IInv

(* Everything but the route and what it was resolved from.                 *)
StaysOnRoute ==
  /\ request' \in Request
  /\ request'.route = request.route
  /\ request.route # NoRoute => request'.fact = request.fact /\ request'.state \notin Early
  /\ request.forum # "none" => request' = request /\ decision' = decision
  /\ request.forum = "none" /\ request'.forum # "none" => Approve

(* A forum on record: nothing of the request moves any more.               *)
LEMMA Final ==
  ASSUME IInv, [Next]_vars, request.forum # "none"
  PROVE  request' = request /\ decision' = decision
<1>1. request.state = "Approved" /\ \A r \in Rows : ~IsOpen(r)
  BY DEF IInv, ForumThroughGate, IsOpen, Raised, OpenOutcome, NotRaised
<1>2. Stage = "Approved"
  BY <1>1, StageState DEF IInv
<1>3. deciding = {}
  BY <1>1 DEF IInv, InFlightStands, TypeOK, InFlight
<1> QED
  BY <1>1, <1>2, <1>3
  DEF Next, vars, SaveForm, Editable, Submit, StartEvaluation, ReturnToOriginator, RespondToReturn,
      Reject, Withdraw, RecordFindings, RaiseApprovalSteps, MayRaise, BeginDecision, CommitDecision,
      AuthoriseBypass, MayBypass, RaiseException, ResolveException, EndException, Approve,
      PublishCharter, RecordChallenge, DelegationChanges

LEMMA RequestStep ==
  ASSUME IInv, [Next]_vars
  PROVE  StaysOnRoute \/ RaiseApprovalSteps
<1> USE DEF IInv
<1>1. request \in Request
  BY DEF TypeOK
<1>2. CASE request' = request
  BY <1>1, <1>2, Final DEF StaysOnRoute, RouteSettled
<1>3. ASSUME NEW s \in State, Moves(s), s \notin Early \/ request.route = NoRoute
      PROVE  StaysOnRoute
  <2>1. request' = [request EXCEPT !.state = s]
    BY <1>3 DEF Moves
  <2> QED
    BY <1>1, <1>3, <2>1, Final DEF StaysOnRoute, Request
<1>4. CASE Submit \/ StartEvaluation \/ ReturnToOriginator \/ RespondToReturn \/ Reject \/ Withdraw
           \/ \E u \in Users : EndException(u)
  BY <1>3, <1>4, PastEvaluation DEF Submit, StartEvaluation, ReturnToOriginator, RespondToReturn,
     Reject, Withdraw, EndException, State, Early
<1>5. ASSUME NEW f \in Facts, NEW s \in State, NEW C \in SUBSET Criteria, NEW b \in BOOLEAN,
             SaveForm(f, s, C, b)
      PROVE  StaysOnRoute
  <2>1. request' = [request EXCEPT !.fact = f, !.state = s, !.unassessed = C, !.complete = b]
    BY <1>5 DEF SaveForm
  <2>2. request.route = NoRoute
    BY <1>5 DEF SaveForm, Editable, RouteSettled, Early
  <2> QED
    BY <1>1, <2>1, <2>2, Final DEF StaysOnRoute, Request
<1>6. ASSUME NEW C \in SUBSET Criteria, NEW b \in BOOLEAN, RecordFindings(C, b)
      PROVE  StaysOnRoute
  <2>1. request' = [request EXCEPT !.unassessed = C, !.complete = b]
    BY <1>6 DEF RecordFindings
  <2>2. request.route = NoRoute
    BY <1>6, PastEvaluation DEF RecordFindings
  <2> QED
    BY <1>1, <2>1, <2>2, Final DEF StaysOnRoute, Request
<1>7. ASSUME NEW r \in Exceptions, RaiseException(r)
      PROVE  StaysOnRoute
  <2>1. request' = [request EXCEPT !.state = "Exception Review"]
    BY <1>7 DEF RaiseException
  <2> QED
    BY <1>1, <2>1, Final DEF StaysOnRoute, Request, State, Early
<1>8. ASSUME NEW u \in Users, NEW r \in Rows, NEW o \in {"Approved", "Rejected"},
             ResolveException(u, r, o)
      PROVE  StaysOnRoute
  <2>1. request' = [request EXCEPT !.state = "Pending Approval"]
    BY <1>8 DEF ResolveException
  <2> QED
    BY <1>1, <2>1, Final DEF StaysOnRoute, Request, State, Early
<1>9. CASE Approve
  <2>1. PICK n \in {"created", "put under review"} :
          request' = [request EXCEPT !.state = "Approved", !.forum = n]
    BY <1>9 DEF Approve
  <2> QED
    BY <1>1, <1>9, <2>1, Final DEF StaysOnRoute, Request, Forum, State, Early
<1>10. CASE RaiseApprovalSteps
  BY <1>10
<1>11. \/ request' = request \/ Approve \/ RaiseApprovalSteps
       \/ Submit \/ StartEvaluation \/ ReturnToOriginator \/ RespondToReturn \/ Reject \/ Withdraw
       \/ \E u \in Users : EndException(u)
       \/ \E f \in Facts, s \in State, C \in SUBSET Criteria, b \in BOOLEAN : SaveForm(f, s, C, b)
       \/ \E C \in SUBSET Criteria, b \in BOOLEAN : RecordFindings(C, b)
       \/ \E r \in Exceptions : RaiseException(r)
       \/ \E u \in Users, r \in Rows, o \in {"Approved", "Rejected"} : ResolveException(u, r, o)
  BY DEF Next, vars, BeginDecision, CommitDecision, AuthoriseBypass, PublishCharter,
         RecordChallenge, DelegationChanges
<1> QED
  BY <1>2, <1>4, <1>5, <1>6, <1>7, <1>8, <1>9, <1>10, <1>11

(* The route is raised once, resolved from what the form says then.        *)
LEMMA RaisedOnRoute ==
  ASSUME IInv, RaiseApprovalSteps
  PROVE  /\ request.route = NoRoute /\ request.forum = "none" /\ request'.forum = "none"
         /\ request' \in Request /\ request'.state \notin Early
         /\ request'.fact = request.fact /\ HasMateriality(request.fact)
         /\ request'.route \in MatchingRoutes(request.fact)
         /\ \A q \in MatchingRoutes(request.fact) : Specificity(q) <= Specificity(request'.route)
         /\ \A r \in RouteSteps[request'.route] : Raised(r)'
<1> DEFINE route == ResolvedRoute(request.fact)
<1>1. MayRaise /\ request \in Request
  BY DEF RaiseApprovalSteps, IInv, TypeOK
<1>2. /\ route \in MatchingRoutes(request.fact)
      /\ \A q \in MatchingRoutes(request.fact) : Specificity(q) <= Specificity(route)
  BY <1>1, Resolved DEF MayRaise
<1>3. request' = [request EXCEPT !.state = "Pending Approval", !.route = route]
  BY DEF RaiseApprovalSteps
<1>4. decision' = [r \in Rows |-> IF r \in RouteSteps[route] /\ ~Raised(r)
                                  THEN RaisedFor(Assignee[r]) ELSE decision[r]]
  BY DEF RaiseApprovalSteps
<1> HIDE DEF route
<1>5. route \in Routes /\ RouteSteps[route] \subseteq Rows
  BY <1>2, RouteAssumption DEF MatchingRoutes, RouteRows
<1>6. \A r \in RouteSteps[route] : Raised(r)'
  BY <1>4, <1>5 DEF Raised, RaisedFor, NotRaised
<1>7. request' \in Request /\ request'.state \notin Early
  BY <1>1, <1>3, <1>5 DEF Request, State, Early
<1>8. request.route = NoRoute
  BY <1>1, PastEvaluation DEF MayRaise
<1>9. request.forum = "none"
  <2>1. Stage # "Approved"
    BY <1>1 DEF MayRaise
  <2>2. request.state # "Approved"
    BY <2>1, StageState DEF IInv
  <2> QED
    BY <2>2 DEF IInv, ForumThroughGate
<1> QED
  BY <1>1, <1>2, <1>3, <1>6, <1>7, <1>8, <1>9 DEF MayRaise, Request

-----------------------------------------------------------------------------
(* The invariant is inductive: one lemma a conjunct.                       *)
LEMMA TypeStep ==
  ASSUME IInv, [Next]_vars
  PROVE  TypeOK' /\ Assigned'
<1>1. Changes
  BY RowStep
<1>2. request' \in Request
  BY RequestStep, RaisedOnRoute DEF StaysOnRoute
<1>3. charter' \in {"none", "outstanding", "cleared"} /\ live' \subseteq Delegable
  BY DEF IInv, TypeOK, StepsTypeOK, Next, vars, SaveForm, Moves, Submit, StartEvaluation,
         ReturnToOriginator, RespondToReturn, Reject, Withdraw, RecordFindings, RaiseApprovalSteps,
         BeginDecision, CommitDecision, AuthoriseBypass, RaiseException, ResolveException,
         EndException, Approve, PublishCharter, RecordChallenge, DelegationChanges, DelegationTurns
<1>4. ASSUME NEW r \in Rows, Raised(r)'
      PROVE  decision'[r].assigned \in Users
  <2>1. RowChange(r)
    BY <1>1 DEF Changes
  <2>2. CASE decision'[r] = decision[r]
    BY <1>4, <2>2 DEF IInv, Assigned, Raised
  <2>3. CASE Asked(r)
    BY <2>3 DEF Asked, RaisedFor
  <2>4. CASE Decided(r)
    BY <2>4 DEF Decided, AnsweredAs
  <2>5. CASE Excused(r)
    BY <2>5, OpenIsAssigned DEF Excused, AnsweredAs, IInv
  <2> QED
    BY <2>1, <2>2, <2>3, <2>4, <2>5 DEF RowChange
<1> QED
  BY <1>1, <1>2, <1>3, <1>4 DEF TypeOK, StepsTypeOK, Assigned, Changes

(* Nobody gets in before a step whose turn has come.                       *)
LEMMA NothingEarlier ==
  ASSUME IInv, Changes, NEW r \in Sequential, Raised(r), IsTurn(r),
         NEW q \in Rows, IsOpen(q)', Cycle[q] = Cycle[r]
  PROVE  Place[q] >= Place[r]
<1>1. r \in Rows /\ r \in RouteRows
  BY RowAssumption, StepAssumption DEF RouteRows
<1>2. Place[q] \in Nat /\ Place[r] \in Nat
  BY <1>1, RowAssumption
<1>3. request.route # NoRoute
  BY <1>1 DEF IInv, StepsOfTheRoute
<1>4. CASE IsOpen(q)
  BY <1>2, <1>4 DEF IsTurn, WaitingOn, Outstanding
<1>5. CASE q \in Exceptions
  BY <1>2, <1>5, StepAssumption
<1>6. IsOpen(q) \/ q \in Exceptions
  <2>1. RowChange(q)
    BY DEF Changes
  <2> QED
    BY <1>3, <2>1 DEF RowChange, Asked, Decided, Excused, IsOpen
<1> QED
  BY <1>4, <1>5, <1>6

LEMMA OrderStep ==
  ASSUME IInv, [Next]_vars
  PROVE  InOrder' /\ InFlightStands'
<1>1. Changes
  BY RowStep
<1>2. ASSUME NEW r \in Sequential, NEW q \in Outstanding', Cycle[q] = Cycle[r],
             decision'[r].outcome \notin {NotRaised, "Pending", "Bypassed"}
      PROVE  Place[q] >= Place[r]
  <2>1. r \in Rows /\ q \in Rows /\ IsOpen(q)'
    BY <1>2, RowAssumption DEF Outstanding
  <2>2. RowChange(r)
    BY <1>1, <2>1 DEF Changes
  <2>3. CASE decision'[r] = decision[r]
    <3>1. Raised(r)
      BY <1>2, <2>3 DEF Raised
    <3>2. \A p \in Outstanding : Cycle[p] = Cycle[r] => Place[p] >= Place[r]
      BY <1>2, <2>3 DEF IInv, InOrder
    <3>3. IsTurn(r)
      BY <2>1, <3>2, RowAssumption DEF IsTurn, WaitingOn, Outstanding
    <3> QED
      BY <1>1, <1>2, <2>1, <3>1, <3>3, NothingEarlier
  <2>4. CASE Asked(r)
    BY <1>2, <2>4 DEF Asked, RaisedFor
  <2>5. CASE Decided(r)
    <3>1. Raised(r) /\ IsTurn(r)
      BY <2>5 DEF Decided, IsOpen, OpenOutcome, Raised, NotRaised
    <3> QED
      BY <1>1, <1>2, <2>1, <3>1, NothingEarlier
  <2>6. CASE Excused(r)
    BY <1>2, <2>6 DEF Excused, AnsweredAs
  <2> QED
    BY <2>2, <2>3, <2>4, <2>5, <2>6 DEF RowChange
<1>3. ASSUME NEW d \in deciding'
      PROVE  IsOpen(d.row)' /\ IsTurn(d.row)'
  <2>1. FlightChange(d) /\ d \in InFlight
    BY <1>1 DEF Changes
  <2>2. decision'[d.row] = decision[d.row] /\ IsOpen(d.row) /\ IsTurn(d.row) /\ d.row \in Rows
    BY <2>1 DEF FlightChange, IInv, InFlightStands, InFlight
  <2>3. IsOpen(d.row)'
    BY <2>2 DEF IsOpen
  <2>4. CASE d.row \in Sequential
    <3>1. Raised(d.row)
      BY <2>2 DEF IsOpen, OpenOutcome, Raised, NotRaised
    <3>2. \A q \in Rows : IsOpen(q)' /\ Cycle[q] = Cycle[d.row] => Place[q] >= Place[d.row]
      BY <1>1, <2>2, <2>4, <3>1, NothingEarlier
    <3>3. \A q \in Rows : Place[q] \in Nat
      BY RowAssumption
    <3> QED
      BY <2>2, <2>3, <3>2, <3>3 DEF IsTurn, WaitingOn, Outstanding
  <2>5. CASE d.row \notin Sequential
    BY <2>3, <2>5 DEF IsTurn, WaitingOn
  <2> QED
    BY <2>3, <2>4, <2>5
<1> QED
  BY <1>2, <1>3 DEF InOrder, InFlightStands

LEMMA RouteStep ==
  ASSUME IInv, [Next]_vars
  PROVE  RouteSettled' /\ StepsOfTheRoute' /\ OnTheRightRoute'
<1>1. Changes
  BY RowStep
<1>2. \A r \in Rows : Raised(r) => Raised(r)'
  <2> SUFFICES ASSUME NEW r \in Rows, Raised(r) PROVE Raised(r)'
    OBVIOUS
  <2>1. RowChange(r)
    BY <1>1 DEF Changes
  <2>2. CASE decision'[r] = decision[r]
    BY <2>2 DEF Raised
  <2>3. CASE Asked(r)
    BY <2>3 DEF Asked
  <2>4. CASE Decided(r)
    <3>1. decision'[r].outcome \in StepDecisions
      BY <2>4 DEF Decided, AnsweredAs
    <3> QED
      BY <3>1 DEF Raised, StepDecisions, NotRaised
  <2>5. CASE Excused(r)
    <3>1. decision'[r].outcome = "Bypassed"
      BY <2>5 DEF Excused, AnsweredAs
    <3> QED
      BY <3>1 DEF Raised, NotRaised
  <2> QED
    BY <2>1, <2>2, <2>3, <2>4, <2>5 DEF RowChange
<1>3. ASSUME NEW r \in RouteRows, Raised(r)'
      PROVE  request'.route # NoRoute /\ r \in RouteSteps[request'.route]
  <2>1. RowChange(r)
    BY <1>1 DEF Changes, RouteRows
  <2>2. CASE Asked(r)
    BY <2>2, RouteAssumption DEF Asked, RouteRows
  <2>3. CASE Raised(r)
    <3>1. request.route # NoRoute /\ r \in RouteSteps[request.route]
      BY <2>3 DEF IInv, StepsOfTheRoute
    <3> QED
      BY <3>1, RequestStep, RaisedOnRoute DEF StaysOnRoute
  <2>4. Asked(r) \/ Raised(r)
    BY <1>3, <2>1 DEF RowChange, Asked, Decided, Excused, Raised, IsOpen, OpenOutcome, NotRaised
  <2> QED
    BY <2>2, <2>3, <2>4
<1>4. ASSUME request'.route # NoRoute
      PROVE  request'.state \notin Early
  BY <1>4, RequestStep, RaisedOnRoute DEF StaysOnRoute
<1>5. ASSUME request'.route # NoRoute
      PROVE  OnTheRightRoute'
  <2>1. CASE RaiseApprovalSteps
    BY <2>1, RaisedOnRoute DEF OnTheRightRoute
  <2>2. CASE StaysOnRoute
    <3>1. request'.route = request.route /\ request'.fact = request.fact
      BY <1>5, <2>2 DEF StaysOnRoute
    <3>2. \A r \in RouteSteps[request.route] : r \in Rows
      <4>1. request.route \in Routes
        BY <1>5, <3>1 DEF IInv, TypeOK, Request
      <4> QED
        BY <4>1, RouteAssumption DEF RouteRows
    <3> QED
      BY <1>2, <1>5, <3>1, <3>2 DEF IInv, OnTheRightRoute
  <2> QED
    BY <2>1, <2>2, RequestStep
<1> QED
  BY <1>3, <1>4, <1>5 DEF RouteSettled, StepsOfTheRoute, OnTheRightRoute

LEMMA GateStep ==
  ASSUME IInv, [Next]_vars
  PROVE  ForumThroughGate'
<1>1. CASE request.forum # "none"
  BY <1>1, Final DEF IInv, ForumThroughGate, Raised
<1>2. CASE Approve /\ request.forum = "none"
  <2>1. /\ request'.state = "Approved" /\ decision' = decision
        /\ request'.unassessed = request.unassessed /\ request'.complete = request.complete
    BY <1>2 DEF Approve, IInv, TypeOK, Request
  <2>2. request.unassessed = {} /\ request.complete
    BY <1>2 DEF Approve, Blocked
  <2>3. ASSUME NEW r \in Rows, Raised(r)
        PROVE  decision[r].outcome \in {"Approved", "Abstained", "Bypassed"}
    <3>1. ~IsOpen(r) /\ ~Refused(r)
      BY <1>2, <2>3 DEF Approve, Blocked, Outstanding
    <3>2. decision[r].outcome \in Outcome
      BY DEF IInv, TypeOK, StepsTypeOK, Decision
    <3> QED
      BY <2>3, <3>1, <3>2 DEF Refused, Closed, IsOpen, OpenOutcome, ReviewOutcome, Outcome, Raised
  <2> QED
    BY <2>1, <2>2, <2>3 DEF ForumThroughGate, Raised
<1>3. CASE request'.forum = "none"
  BY <1>3 DEF ForumThroughGate
<1> QED
  BY <1>1, <1>2, <1>3, RequestStep, RaisedOnRoute DEF StaysOnRoute

LEMMA ExcuseStep ==
  ASSUME IInv, [Next]_vars
  PROVE  NoSelfExcuse'
<1> SUFFICES ASSUME NEW r \in Rows, decision'[r].outcome = "Bypassed"
             PROVE  /\ decision'[r].by # decision'[r].assigned
                    /\ r \in RouteRows => decision'[r].by \notin Queue[r]
  BY DEF NoSelfExcuse
<1>1. RowChange(r)
  BY RowStep DEF Changes
<1>2. CASE decision'[r] = decision[r]
  BY <1>2 DEF IInv, NoSelfExcuse
<1>3. CASE Asked(r)
  BY <1>3 DEF Asked, RaisedFor
<1>4. CASE Decided(r)
  BY <1>4 DEF Decided, AnsweredAs, StepDecisions
<1>5. CASE Excused(r)
  BY <1>5 DEF Excused, AnsweredAs
<1> QED
  BY <1>1, <1>2, <1>3, <1>4, <1>5 DEF RowChange

LEMMA Inductive == IInv /\ [Next]_vars => IInv'
BY TypeStep, OrderStep, RouteStep, GateStep, ExcuseStep DEF IInv

LEMMA InitInv == Init => IInv
<1> SUFFICES ASSUME Init PROVE IInv
  OBVIOUS
<1>1. \A r \in Rows : decision[r] = Blank
  BY DEF Init, InitSteps
<1>2. Blank \in Decision
  BY DEF Blank, Decision, Outcome
<1>3. request \in Request /\ request.route = NoRoute /\ request.forum = "none"
  <2>1. PICK f \in Facts :
          request = [state |-> "Draft", fact |-> f, unassessed |-> Criteria,
                     complete |-> FALSE, route |-> NoRoute, forum |-> "none"]
    BY DEF Init
  <2> QED
    BY <2>1 DEF Request, State, Forum
<1>4. TypeOK
  BY <1>2, <1>3 DEF Init, InitSteps, TypeOK, StepsTypeOK
<1>5. \A r \in Rows : decision[r].outcome = NotRaised
  BY <1>1 DEF Blank
<1>6. Assigned /\ StepsOfTheRoute /\ InOrder /\ NoSelfExcuse
  <2>1. Sequential \subseteq Rows
    BY RowAssumption
  <2> QED
    BY <1>5, <2>1 DEF Assigned, StepsOfTheRoute, InOrder, NoSelfExcuse, Raised, RouteRows, NotRaised
<1>7. InFlightStands /\ RouteSettled /\ OnTheRightRoute /\ ForumThroughGate
  BY <1>3 DEF Init, InFlightStands, RouteSettled, OnTheRightRoute, ForumThroughGate
<1> QED
  BY <1>4, <1>6, <1>7 DEF IInv

LEMMA Invariant == Spec => []IInv
BY InitInv, Inductive, PTL DEF Spec

-----------------------------------------------------------------------------
(* The types.                                                              *)
THEOREM TypeCorrect == Spec => []TypeOK
<1>1. IInv => TypeOK
  BY DEF IInv
<1> QED
  BY <1>1, Invariant, PTL

(* The approval path is the one the request calls for, whatever the routes *)
(* say and however the form was edited before it was raised.               *)
THEOREM RightRoute == Spec => []OnTheRightRoute
<1>1. IInv => OnTheRightRoute
  BY DEF IInv
<1> QED
  BY <1>1, Invariant, PTL

(* No sequential step is decided before those that precede it, not even by *)
(* a decision that was checked earlier and is committed now.               *)
THEOREM OrderKept == Spec => []InOrder
<1>1. IInv => InOrder
  BY DEF IInv
<1> QED
  BY <1>1, Invariant, PTL

(* There is a forum only after everything was asked and answered.          *)
THEOREM GateFirst == Spec => []ForumThroughGate
<1>1. IInv => ForumThroughGate
  BY DEF IInv
<1> QED
  BY <1>1, Invariant, PTL

(* Nobody excuses their own check, nor one of a queue they belong to.      *)
THEOREM OthersExcuse == Spec => []NoSelfExcuse
<1>1. IInv => NoSelfExcuse
  BY DEF IInv
<1> QED
  BY <1>1, Invariant, PTL

(* Of two answers to one step given at once, the first to commit stays.    *)
THEOREM AnswersStay == Spec => DecidedOnce
<1>1. IInv /\ [Next]_vars => [\A r \in Rows : Closed(r) => decision'[r] = decision[r]]_vars
  BY RowStep DEF Changes, RowChange, Asked, Decided, Excused, Closed
<1> QED
  BY <1>1, Invariant, PTL DEF Spec, DecidedOnce

-----------------------------------------------------------------------------
(* The rows as evidence.  A step asks for some, or writes one.             *)
Evidence == [r \in Rows |-> OnRecord(decision[r])]

LEMMA OnRecordIs ==
  ASSUME NEW row
  PROVE  /\ row.outcome = NotRaised => OnRecord(row) = [outcome |-> "not asked", by |-> Nobody]
         /\ row.outcome \in OpenOutcome => OnRecord(row) = [outcome |-> "waiting", by |-> Nobody]
         /\ row.outcome \notin OpenOutcome \cup {NotRaised} =>
              OnRecord(row) = [outcome |-> row.outcome, by |-> row.by]
BY DEF OnRecord, OpenOutcome, NotRaised

LEMMA RowsAsked ==
  ASSUME NEW R \in SUBSET Rows,
         \A r \in Rows : IF r \in R THEN ~Raised(r) /\ decision'[r].outcome = "Pending"
                         ELSE decision'[r] = decision[r]
  PROVE  Record!Next
<1>1. \A r \in R : OnRecord(decision[r]) = Record!NotAsked
  BY OnRecordIs DEF Raised, Record!NotAsked
<1>2. \A r \in R : OnRecord(decision'[r]) = Record!Waiting
  BY OnRecordIs DEF OpenOutcome, Record!Waiting
<1>3. Record!Ask(R)
  BY <1>1, <1>2 DEF Record!Ask
<1> QED
  BY <1>3 DEF Record!Next

LEMMA RowAnswered ==
  ASSUME NEW q \in Rows, IsOpen(q),
         \/ decision'[q].outcome \in OpenOutcome
         \/ /\ decision'[q].outcome \in {"Approved", "Rejected", "Abstained", "Bypassed"}
            /\ decision'[q].by \in Users,
         \A r \in Rows : r # q => decision'[r] = decision[r]
  PROVE  [Record!Next]_Evidence
<1>1. OnRecord(decision[q]) = Record!Waiting
  BY OnRecordIs DEF IsOpen, Record!Waiting
<1>2. CASE decision'[q].outcome \in OpenOutcome
  <2>1. OnRecord(decision'[q]) = OnRecord(decision[q])
    BY <1>2, OnRecordIs DEF IsOpen
  <2> QED
    BY <2>1 DEF Evidence
<1>3. CASE decision'[q].outcome \in {"Approved", "Rejected", "Abstained", "Bypassed"}
           /\ decision'[q].by \in Users
  <2> DEFINE a == [outcome |-> decision'[q].outcome, by |-> decision'[q].by]
  <2>1. a \in Record!Given
    BY <1>3 DEF Record!Given
  <2>2. OnRecord(decision'[q]) = a
    BY <1>3, OnRecordIs DEF OpenOutcome, NotRaised
  <2> HIDE DEF a
  <2>3. Record!Give(q, a)
    BY <1>1, <2>2 DEF Record!Give
  <2> QED
    BY <2>1, <2>3 DEF Record!Next
<1> QED
  BY <1>2, <1>3

LEMMA EvidenceStep ==
  ASSUME IInv, [Next]_vars
  PROVE  [Record!Next]_Evidence
<1>1. Changes
  BY RowStep
<1>2. CASE UNCHANGED decision
  BY <1>2 DEF Evidence
<1>3. CASE RaiseApprovalSteps
  <2> DEFINE R == {r \in Rows : r \in RouteSteps[ResolvedRoute(request.fact)] /\ ~Raised(r)}
  <2>1. \A r \in Rows : IF r \in R THEN ~Raised(r) /\ decision'[r].outcome = "Pending"
                        ELSE decision'[r] = decision[r]
    BY <1>3 DEF RaiseApprovalSteps, RaisedFor
  <2> HIDE DEF R
  <2>2. R \in SUBSET Rows
    BY DEF R
  <2> QED
    BY <2>1, <2>2, RowsAsked
<1>4. ASSUME NEW q \in Rows, NEW x, decision' = [decision EXCEPT ![q] = x]
      PROVE  [Record!Next]_Evidence
  <2>1. \A r \in Rows : r # q => decision'[r] = decision[r]
    BY <1>4 DEF IInv, TypeOK, StepsTypeOK
  <2>2. RowChange(q)
    BY <1>1 DEF Changes
  <2>3. CASE decision'[q] = decision[q]
    BY <2>1, <2>3 DEF Evidence
  <2>4. CASE Asked(q)
    <3>1. \A r \in Rows : IF r \in {q} THEN ~Raised(r) /\ decision'[r].outcome = "Pending"
                          ELSE decision'[r] = decision[r]
      BY <2>1, <2>4 DEF Asked, RaisedFor
    <3>2. {q} \in SUBSET Rows
      OBVIOUS
    <3> QED
      BY <3>1, <3>2, RowsAsked
  <2>5. CASE Decided(q)
    <3>1. PICK u \in Users, a \in Users, o \in StepDecisions :
            IsOpen(q) /\ decision'[q] = [outcome |-> o, assigned |-> a, by |-> u]
      BY <2>5 DEF Decided, AnsweredAs
    <3>2. decision'[q].outcome = o /\ decision'[q].by = u
      BY <3>1
    <3> QED
      BY <2>1, <3>1, <3>2, RowAnswered DEF StepDecisions, OpenOutcome
  <2>6. CASE Excused(q)
    BY <2>1, <2>6, RowAnswered DEF Excused, AnsweredAs
  <2> QED
    BY <2>2, <2>3, <2>4, <2>5, <2>6 DEF RowChange
<1>5. \/ UNCHANGED decision \/ RaiseApprovalSteps
      \/ \E q \in Rows : \E x : decision' = [decision EXCEPT ![q] = x]
  <2>1. \A d \in deciding : d.row \in Rows
    BY DEF IInv, TypeOK, InFlight
  <2> QED
    BY <2>1, StepAssumption
    DEF Next, vars, SaveForm, Moves, Submit, StartEvaluation, ReturnToOriginator, RespondToReturn,
        Reject, Withdraw, RecordFindings, EndException, Approve, PublishCharter, RecordChallenge,
        DelegationChanges, BeginDecision, CommitDecision, AuthoriseBypass, RaiseException,
        ResolveException, Recorded
<1> QED
  BY <1>2, <1>3, <1>4, <1>5

(* The steps of a request are the evidence an approval is: asked for,      *)
(* answered once by one person and for good, whoever answers at once,      *)
(* excuses or disputes in between.                                         *)
THEOREM EvidenceKept == Spec => AnswersStand
<1>1. Init => Record!Init
  <2>1. OnRecord(Blank) = Record!NotAsked
    BY OnRecordIs DEF Blank, Record!NotAsked
  <2> QED
    BY <2>1 DEF Init, InitSteps, Record!Init
<1>2. IInv /\ [Next]_vars => [Record!Next]_Evidence
  BY EvidenceStep
<1> QED
  BY <1>1, <1>2, Invariant, PTL DEF Spec, AnswersStand, Record!Spec, Evidence
=============================================================================
