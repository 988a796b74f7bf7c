----------------------- MODULE PolicyLifecycle_proofs -----------------------
(***************************************************************************)
(* Theorems about PolicyLifecycle for any steps, routes, versions, people, *)
(* delegations and exceptions: the state is well typed, what is in force   *)
(* or announced by publish_record came through the gates as that very      *)
(* version, nobody excuses their own check, and the rows implement         *)
(* ApprovalRecord.                                                         *)
(*                                                                         *)
(* The heart is that an answered step stays as it was answered: no handler *)
(* writes a row that is closed, so what the gate saw when a version came   *)
(* into force is what the rows say ever after.                             *)
(***************************************************************************)
EXTENDS PolicyLifecycle, FiniteSetTheorems, TLAPS

(* An authorisation that was granted was asked for.                        *)
GrantedWasAsked ==
  \A e \in Exceptions : exception[e].granted # Nobody => exception[e].asked \in Users

-----------------------------------------------------------------------------
(* Lemmas about one step.                                                  *)

LEMMA UsableByTwo ==
  ASSUME TypeOK, GrantedWasAsked, NEW e \in Exceptions, Usable(e)
  PROVE  /\ exception[e].asked \in Users /\ exception[e].granted \in Users
         /\ exception[e].asked # exception[e].granted
<1>1. exception[e] \in Exception
  BY DEF TypeOK
<1>2. exception[e].granted \in Users /\ exception[e].asked # exception[e].granted
  BY OfficeAssumption DEF Usable
<1>3. CASE exception[e].granted = Nobody
  BY <1>1, <1>2, <1>3 DEF Exception
<1>4. CASE exception[e].granted # Nobody
  BY <1>2, <1>4 DEF GrantedWasAsked
<1> QED
  BY <1>3, <1>4

(* The steps a route calls for are steps.                                  *)
LEMMA NeededType == \A k : Needed(k) \subseteq Steps
BY StepRowAssumption DEF Needed

(* What a step of the system does to one approval step.                    *)
AnsweredAs(r, o, a, u) == decision'[r] = [outcome |-> o, assigned |-> a, by |-> u]

RowChange(r) ==
  \/ decision'[r] = decision[r]
  \/ ~Raised(r) /\ decision'[r] = RaisedFor(Assignee[r[1]])
  \/ /\ IsOpen(r)
     /\ \E u \in Users, a \in Users \cup {Nobody}, o \in Answers : AnsweredAs(r, o, a, u)
  \/ /\ IsOpen(r)
     /\ \E u \in Users : /\ u # decision[r].assigned
                         /\ AnsweredAs(r, "Bypassed", decision[r].assigned, u)

LEMMA RowStep ==
  ASSUME TypeOK, [Next]_vars
  PROVE  decision' \in [Rows -> Decision] /\ \A r \in Rows : RowChange(r)
<1> USE VersionAssumption, StepRowAssumption, OfficeAssumption, AnswerAssumption DEF TypeOK, StepsTypeOK
<1>1. CASE UNCHANGED decision
  BY <1>1 DEF RowChange
<1>2. CASE RaiseSteps
  <2>1. decision' = [q \in Rows |-> IF q[1] \in ResolvedSteps(kind) /\ q[2] = version /\ ~Raised(q)
                                    THEN RaisedFor(Assignee[q[1]]) ELSE decision[q]]
    BY <1>2 DEF RaiseSteps
  <2>2. \A q \in Rows : RaisedFor(Assignee[q[1]]) \in Decision
    BY DEF RaisedFor, Decision, Outcome
  <2> QED
    BY <2>1, <2>2 DEF RowChange
<1>3. ASSUME NEW u \in Users, NEW s \in Steps, NEW o \in Answers, DecideStep(u, s, o)
      PROVE  decision' \in [Rows -> Decision] /\ \A r \in Rows : RowChange(r)
  <2> DEFINE q == <<s, version>>
             a == IF MayAct(u, q) THEN decision[q].assigned ELSE u
  <2>1. q \in Rows /\ IsOpen(q)
    BY <1>3 DEF DecideStep, IsOpenStep
  <2>2. a \in Users \cup {Nobody}
    BY <2>1 DEF Decision
  <2>3. decision' = [decision EXCEPT ![q] = [outcome |-> o, assigned |-> a, by |-> u]]
    BY <1>3 DEF DecideStep, Recorded
  <2> HIDE DEF q, a
  <2>4. [outcome |-> o, assigned |-> a, by |-> u] \in Decision
    BY <2>2 DEF Decision, Outcome
  <2>5. RowChange(q)
    BY <2>1, <2>2, <2>3 DEF RowChange, AnsweredAs
  <2>6. \A r \in Rows : r # q => RowChange(r)
    BY <2>3 DEF RowChange
  <2> QED
    BY <2>1, <2>3, <2>4, <2>5, <2>6
<1>4. ASSUME NEW u \in Users, NEW s \in Steps, NEW e \in Exceptions, BypassStep(u, s, e)
      PROVE  decision' \in [Rows -> Decision] /\ \A r \in Rows : RowChange(r)
  <2> DEFINE q == <<s, version>>
  <2>1. q \in Rows /\ IsOpen(q) /\ decision[q].assigned # u
    BY <1>4 DEF BypassStep, MayBypass, IsOpenStep
  <2>2. decision' = [decision EXCEPT ![q] = [outcome |-> "Bypassed",
                                             assigned |-> decision[q].assigned, by |-> u]]
    BY <1>4 DEF BypassStep, Recorded
  <2> HIDE DEF q
  <2>3. [outcome |-> "Bypassed", assigned |-> decision[q].assigned, by |-> u] \in Decision
    BY <2>1 DEF Decision, Outcome
  <2>4. RowChange(q)
    BY <2>1, <2>2 DEF RowChange, AnsweredAs
  <2>5. \A r \in Rows : r # q => RowChange(r)
    BY <2>2 DEF RowChange
  <2> QED
    BY <2>1, <2>2, <2>3, <2>4, <2>5
<1>5. \/ UNCHANGED decision \/ RaiseSteps
      \/ \E u \in Users, s \in Steps, o \in Answers : DecideStep(u, s, o)
      \/ \E u \in Users, s \in Steps, e \in Exceptions : BypassStep(u, s, e)
  BY DEF Next, vars, doc, Perform, PerformExcused, Enters, UploadVersion, CorrectMetadata,
         RecordPublication, SavePublication, WithdrawPublication, RequestGateException,
         ApproveGateException, ExceptionLapses, DelegationChanges
<1> QED
  BY <1>1, <1>2, <1>3, <1>4, <1>5

(* An answer stays.                                                        *)
LEMMA AnsweredStays ==
  ASSUME TypeOK, [Next]_vars, NEW s \in Steps, NEW v \in Versions, Answered(s, v)
  PROVE  Answered(s, v)'
<1>1. <<s, v>> \in Rows
  BY StepRowAssumption
<1>2. decision'[<<s, v>>] = decision[<<s, v>>]
  BY <1>1, RowStep DEF RowChange, Answered, Closed
<1> QED
  BY <1>2 DEF Answered, Closed, Raised, IsOpen

(* Coming into a phase writes at most the entry of the version at hand.    *)
LEMMA EntersStep ==
  ASSUME TypeOK, NEW p \in Phase, NEW W \in SUBSET Users, Enters(p, W)
  PROVE  /\ phase' = p /\ entry' \in [Versions -> Entry \cup {Never}]
         /\ \A v \in Versions :
              IF p = "Published" /\ v = version
              THEN entry'[v] = [needed |-> IF W = {} THEN Needed(kind) ELSE {}, excusers |-> W]
              ELSE entry'[v] = entry[v]
<1>1. [needed |-> IF W = {} THEN Needed(kind) ELSE {}, excusers |-> W] \in Entry
  BY NeededType DEF Entry
<1> QED
  BY <1>1 DEF Enters, TypeOK

-----------------------------------------------------------------------------
LEMMA NextType ==
  ASSUME TypeOK, GrantedWasAsked, [Next]_vars
  PROVE  (TypeOK /\ GrantedWasAsked)'
<1> USE VersionAssumption, StepRowAssumption, OfficeAssumption, AnswerAssumption DEF TypeOK
<1>2. decision' \in [Rows -> Decision]
  BY RowStep
<1>3. ASSUME UNCHANGED <<exception, entry>>, live' \subseteq Delegable,
             phase' \in Phase, kind' \in Kinds, recorded' \subseteq Recordable,
             version' \in 0..MaxVersion, published' \subseteq Versions, typed' \subseteq Versions
      PROVE  (TypeOK /\ GrantedWasAsked)'
  BY <1>2, <1>3 DEF StepsTypeOK, GrantedWasAsked
<1>4. ASSUME NEW p \in Phase, NEW W \in SUBSET Users, Enters(p, W)
      PROVE  (TypeOK /\ GrantedWasAsked)'
  <2>1. phase' = p /\ entry' \in [Versions -> Entry \cup {Never}]
    BY <1>4, EntersStep
  <2> QED
    BY <1>2, <1>4, <2>1 DEF Enters, StepsTypeOK, GrantedWasAsked
<1>5. ASSUME NEW e \in Exceptions, NEW x \in Exception, exception' = [exception EXCEPT ![e] = x],
             x.granted # Nobody => x.asked \in Users,
             UNCHANGED <<phase, kind, recorded, version, published, typed, entry, live>>
      PROVE  (TypeOK /\ GrantedWasAsked)'
  BY <1>2, <1>5 DEF StepsTypeOK, GrantedWasAsked
<1>6. ASSUME NEW p \in Phase, Perform(p)
      PROVE  (TypeOK /\ GrantedWasAsked)'
  BY <1>4, <1>6 DEF Perform
<1>7. ASSUME NEW p \in Phase, NEW e \in Exceptions, PerformExcused(p, e)
      PROVE  (TypeOK /\ GrantedWasAsked)'
  <2>1. {exception[e].asked, exception[e].granted} \subseteq Users
    BY <1>7, UsableByTwo DEF PerformExcused
  <2> QED
    BY <1>4, <1>7, <2>1 DEF PerformExcused
<1>8. ASSUME NEW u \in Users, NEW s \in Steps, NEW e \in Exceptions, BypassStep(u, s, e)
      PROVE  (TypeOK /\ GrantedWasAsked)'
  <2> DEFINE x == [asked |-> u, granted |-> u]
  <2>1. x \in Exception /\ exception' = [exception EXCEPT ![e] = x]
    BY <1>8 DEF BypassStep, Exception
  <2> QED
    BY <1>5, <1>8, <2>1 DEF BypassStep, doc
<1>9. ASSUME NEW u \in Users, NEW e \in Exceptions, RequestGateException(u, e)
      PROVE  (TypeOK /\ GrantedWasAsked)'
  <2> DEFINE x == [exception[e] EXCEPT !.asked = u]
  <2>1. x \in Exception /\ x.asked \in Users /\ exception' = [exception EXCEPT ![e] = x]
    BY <1>9 DEF RequestGateException, Exception
  <2> QED
    BY <1>5, <1>9, <2>1 DEF RequestGateException, doc
<1>10. ASSUME NEW u \in Users, NEW e \in Exceptions, ApproveGateException(u, e)
       PROVE  (TypeOK /\ GrantedWasAsked)'
  <2> DEFINE x == [exception[e] EXCEPT !.granted = u]
  <2>1. x \in Exception /\ x.asked \in Users /\ exception' = [exception EXCEPT ![e] = x]
    BY <1>10 DEF ApproveGateException, Exception
  <2> QED
    BY <1>5, <1>10, <2>1 DEF ApproveGateException, doc
<1>11. ASSUME NEW e \in Exceptions, ExceptionLapses(e)
       PROVE  (TypeOK /\ GrantedWasAsked)'
  <2>1. Unasked \in Exception
    BY DEF Unasked, Exception
  <2> QED
    BY <1>5, <1>11, <2>1 DEF ExceptionLapses, Unasked, doc
<1>12. CASE UploadVersion
  <2>1. version' \in 0..MaxVersion
    <3>1. /\ version < MaxVersion /\ version' = version + 1
          /\ MaxVersion \in Nat /\ version \in 0..MaxVersion
      BY <1>12 DEF UploadVersion
    <3> HIDE VersionAssumption, StepRowAssumption, OfficeAssumption, AnswerAssumption DEF TypeOK
    <3> QED
      BY <3>1
  <2> QED
    BY <1>3, <1>12, <2>1 DEF UploadVersion, StepsTypeOK
<1>13. ASSUME NEW k \in Kinds, NEW R \in SUBSET Recordable, CorrectMetadata(k, R)
       PROVE  (TypeOK /\ GrantedWasAsked)'
  BY <1>3, <1>13 DEF CorrectMetadata, StepsTypeOK
<1>14. CASE RecordPublication
  BY <1>3, <1>14 DEF RecordPublication, MayPublish, doc, StepsTypeOK
<1>15. ASSUME NEW v \in Versions, WithdrawPublication(v)
       PROVE  (TypeOK /\ GrantedWasAsked)'
  BY <1>3, <1>15 DEF WithdrawPublication, doc, StepsTypeOK
<1>20. ASSUME NEW v \in Typable, NEW P \in SUBSET published, NEW T \in SUBSET typed,
              SavePublication(v, P, T)
       PROVE  (TypeOK /\ GrantedWasAsked)'
  <2>1. v \in Versions
    BY FormAssumption
  <2> QED
    BY <1>3, <1>20, <2>1 DEF SavePublication, doc, StepsTypeOK
<1>16. CASE RaiseSteps
  BY <1>3, <1>16 DEF RaiseSteps, doc, StepsTypeOK
<1>17. ASSUME NEW u \in Users, NEW s \in Steps, NEW o \in Answers, DecideStep(u, s, o)
       PROVE  (TypeOK /\ GrantedWasAsked)'
  BY <1>3, <1>17 DEF DecideStep, doc, StepsTypeOK
<1>18. ASSUME NEW pair \in Delegable, DelegationChanges(pair)
       PROVE  (TypeOK /\ GrantedWasAsked)'
  BY <1>3, <1>18 DEF DelegationChanges, DelegationTurns, doc, StepsTypeOK
<1>19. CASE UNCHANGED vars
  BY <1>3, <1>19 DEF vars, StepsTypeOK
<1> QED
  BY <1>6, <1>7, <1>8, <1>9, <1>10, <1>11, <1>12, <1>13, <1>14, <1>15, <1>16, <1>17, <1>18, <1>19, <1>20
  DEF Next

LEMMA InitType == Init => TypeOK /\ GrantedWasAsked
<1> SUFFICES ASSUME Init PROVE TypeOK /\ GrantedWasAsked
  OBVIOUS
<1> USE VersionAssumption, StepRowAssumption
<1>1. Blank \in Decision
  BY DEF Blank, Decision, Outcome
<1>2. Unasked \in Exception
  BY DEF Unasked, Exception
<1>3. StepsTypeOK
  BY <1>1 DEF Init, InitSteps, StepsTypeOK
<1>4. /\ phase \in Phase /\ kind \in Kinds /\ recorded \subseteq Recordable
      /\ published \subseteq Versions /\ typed \subseteq Versions
  BY DEF Init, Phase
<1>5. version \in 0..MaxVersion
  <2>1. version = 0 /\ MaxVersion \in Nat
    BY DEF Init
  <2> HIDE VersionAssumption, StepRowAssumption
  <2> QED
    BY <2>1
<1>6. exception \in [Exceptions -> Exception] /\ entry \in [Versions -> Entry \cup {Never}]
  BY <1>2 DEF Init
<1>7. GrantedWasAsked
  BY DEF Init, GrantedWasAsked, Unasked
<1> QED
  BY <1>3, <1>4, <1>5, <1>6, <1>7 DEF TypeOK

(* The types, for any routes, people and versions.                         *)
THEOREM TypeCorrect == Spec => []TypeOK
<1>1. Init => TypeOK /\ GrantedWasAsked
  BY InitType
<1>2. (TypeOK /\ GrantedWasAsked) /\ [Next]_vars => (TypeOK /\ GrantedWasAsked)'
  BY NextType
<1> QED
  BY <1>1, <1>2, PTL DEF Spec

-----------------------------------------------------------------------------
(* An entry written now: with every step answered, or with two people's    *)
(* word.                                                                   *)
Fresh(v) ==
  \/ entry'[v].excusers = {} /\ \A s \in entry'[v].needed : Answered(s, v)'
  \/ \E a \in Users, b \in Users : a # b /\ entry'[v].excusers = {a, b}

Gated ==
  /\ \A v \in Versions : entry'[v] = entry[v] \/ Fresh(v)
  /\ phase' \in InForce => /\ version' = version
                           /\ phase \in InForce \/ (version \in Versions => Fresh(version))
  /\ \A v \in published' : v \in published \/ (phase \in InForce /\ v = version /\ v \in Versions)

LEMMA GateStep ==
  ASSUME TypeOK, GrantedWasAsked, [Next]_vars
  PROVE  Gated
<1>1. ASSUME NEW p \in Phase, Perform(p)
      PROVE  Gated
  <2>1. Enters(p, {}) /\ <<phase, p>> \in Transitions /\ Failing(p) = {}
    BY <1>1 DEF Perform
  <2>2. /\ phase' = p
        /\ \A v \in Versions : IF p = "Published" /\ v = version
                              THEN entry'[v] = [needed |-> Needed(kind), excusers |-> {}]
                              ELSE entry'[v] = entry[v]
    BY <2>1, EntersStep
  <2>3. version' = version /\ published' = published /\ decision' = decision
    BY <2>1 DEF Enters
  <2>4. ASSUME p = "Published", version \in Versions
        PROVE  Fresh(version)
    <3>1. ChainComplete
      BY <2>1, <2>4 DEF Failing
    <3>2. \A s \in Needed(kind) : Answered(s, version)
      BY <3>1 DEF ChainComplete
    <3>3. \A s \in Needed(kind) : Answered(s, version)'
      BY <2>3, <3>2 DEF Answered, Closed, Raised, IsOpen
    <3> QED
      BY <2>2, <2>4, <3>3 DEF Fresh
  <2>5. p = "Implemented" => phase = "Published"
    BY <2>1 DEF Transitions
  <2> QED
    BY <2>2, <2>3, <2>4, <2>5 DEF Gated, InForce
<1>2. ASSUME NEW p \in Phase, NEW e \in Exceptions, PerformExcused(p, e)
      PROVE  Gated
  <2> DEFINE a == exception[e].asked
             b == exception[e].granted
  <2>1. a \in Users /\ b \in Users /\ a # b
    BY <1>2, UsableByTwo DEF PerformExcused
  <2>2. Enters(p, {a, b}) /\ <<phase, p>> \in Transitions
    BY <1>2 DEF PerformExcused
  <2> HIDE DEF a, b
  <2>3. /\ phase' = p
        /\ \A v \in Versions : IF p = "Published" /\ v = version
                              THEN entry'[v].excusers = {a, b}
                              ELSE entry'[v] = entry[v]
    <3>1. PICK W \in SUBSET Users : W = {a, b}
      BY <2>1
    <3>2. Enters(p, W)
      BY <2>2, <3>1
    <3>3. phase' = p
      BY <3>2, EntersStep
    <3>4. \A v \in Versions : p = "Published" /\ v = version => entry'[v].excusers = W
      <4> DEFINE n == IF W = {} THEN Needed(kind) ELSE {}
      <4>1. \A v \in Versions :
              p = "Published" /\ v = version => entry'[v] = [needed |-> n, excusers |-> W]
        BY <3>2, EntersStep
      <4> HIDE DEF n
      <4> QED
        BY <4>1
    <3>5. \A v \in Versions : ~(p = "Published" /\ v = version) => entry'[v] = entry[v]
      BY <3>2, EntersStep
    <3> QED
      BY <3>1, <3>3, <3>4, <3>5
  <2>4. version' = version /\ published' = published
    BY <2>2 DEF Enters
  <2>5. p = "Published" /\ version \in Versions => Fresh(version)
    BY <2>1, <2>3 DEF Fresh
  <2>6. p = "Implemented" => phase = "Published"
    BY <2>2 DEF Transitions
  <2> QED
    BY <2>3, <2>4, <2>5, <2>6 DEF Gated, InForce
<1>3. CASE UploadVersion
  BY <1>3 DEF UploadVersion, MayTakeVersion, Editable, InForce, Gated
<1>4. CASE RecordPublication
  BY <1>4 DEF RecordPublication, MayPublish, doc, Gated
<1>5. CASE /\ UNCHANGED <<phase, version, entry>>
           /\ published' \subseteq published
  BY <1>5 DEF Gated
<1>6. \/ \E p \in Phase : Perform(p)
      \/ \E p \in Phase, e \in Exceptions : PerformExcused(p, e)
      \/ UploadVersion
      \/ RecordPublication
      \/ UNCHANGED <<phase, version, entry>> /\ published' \subseteq published
  BY DEF Next, vars, doc, CorrectMetadata, SavePublication, WithdrawPublication, RaiseSteps, DecideStep, BypassStep,
         RequestGateException, ApproveGateException, ExceptionLapses, DelegationChanges
<1> QED
  BY <1>1, <1>2, <1>3, <1>4, <1>5, <1>6

LEMMA CameStays ==
  ASSUME TypeOK, [Next]_vars, NEW v \in Versions,
         (CameThroughTheGate(v) /\ entry'[v] = entry[v]) \/ Fresh(v)
  PROVE  CameThroughTheGate(v)'
<1>1. CASE CameThroughTheGate(v) /\ entry'[v] = entry[v]
  <2>1. entry[v] \in Entry
    BY <1>1 DEF TypeOK, CameThroughTheGate
  <2>2. \A s \in entry[v].needed : s \in Steps
    BY <2>1 DEF Entry
  <2>3. \A s \in entry[v].needed : Answered(s, v) => Answered(s, v)'
    BY <2>2, AnsweredStays
  <2> QED
    BY <1>1, <2>3 DEF CameThroughTheGate
<1>2. CASE Fresh(v)
  <2>1. entry'[v] # Never
    BY <1>2 DEF Fresh, Never
  <2>2. entry'[v].excusers = {} => \A s \in entry'[v].needed : Answered(s, v)'
    BY <1>2 DEF Fresh
  <2> QED
    BY <2>1, <2>2 DEF CameThroughTheGate
<1> QED
  BY <1>1, <1>2

LEMMA ApprovedStep ==
  ASSUME TypeOK, GrantedWasAsked, PublishedWasApproved, [Next]_vars
  PROVE  PublishedWasApproved'
<1>1. Gated
  BY GateStep
<1>2. \A v \in Versions : CameThroughTheGate(v) => CameThroughTheGate(v)'
  BY <1>1, CameStays DEF Gated
<1>3. ASSUME phase' \in InForce, version' # 0
      PROVE  CameThroughTheGate(version)'
  <2>1. version' = version
    BY <1>1, <1>3 DEF Gated
  <2>2. MaxVersion \in Nat /\ Versions = 1..MaxVersion /\ version \in 0..MaxVersion
    BY VersionAssumption DEF TypeOK
  <2>3. PICK v \in Versions : v = version
    BY <1>3, <2>1, <2>2
  <2>4. CASE phase \in InForce
    <3>1. CameThroughTheGate(v)
      BY <1>3, <2>1, <2>3, <2>4 DEF PublishedWasApproved, CameThroughTheGate
    <3> QED
      BY <1>2, <2>1, <2>3, <3>1 DEF CameThroughTheGate
  <2>5. CASE Fresh(v)
    <3>1. CameThroughTheGate(v)'
      BY <2>5, CameStays
    <3> QED
      BY <2>1, <2>3, <3>1 DEF CameThroughTheGate
  <2> QED
    BY <1>1, <1>3, <2>3, <2>4, <2>5 DEF Gated, Fresh
<1>4. ASSUME NEW v \in published'
      PROVE  CameThroughTheGate(v)'
  <2>1. CASE v \in published
    BY <1>2, <2>1 DEF PublishedWasApproved, TypeOK
  <2>2. CASE phase \in InForce /\ v = version /\ v \in Versions
    <3>1. version # 0
      <4>1. MaxVersion \in Nat /\ version \in 1..MaxVersion
        BY <2>2, VersionAssumption
      <4> QED
        BY <4>1
    <3> QED
      BY <1>2, <2>2, <3>1 DEF PublishedWasApproved
  <2> QED
    BY <1>1, <2>1, <2>2 DEF Gated
<1> QED
  BY <1>3, <1>4 DEF PublishedWasApproved

(* What is in force, and whatever publish_record announced, came through   *)
(* the gates as that very version: no approval is carried over to another  *)
(* text by a revision, a revert or a correction of the metadata, whatever  *)
(* is published, re-pointed or withdrawn on the form besides.              *)
THEOREM ApprovedAlways == Spec => []PublishedWasApproved
<1> DEFINE I == TypeOK /\ GrantedWasAsked /\ PublishedWasApproved
<1>1. Init => I
  BY InitType DEF Init, InForce, PublishedWasApproved
<1>2. I /\ [Next]_vars => I'
  BY NextType, ApprovedStep
<1> QED
  BY <1>1, <1>2, PTL DEF Spec

-----------------------------------------------------------------------------
LEMMA TwoStep ==
  ASSUME TypeOK, GrantedWasAsked, TwoToExcuse, [Next]_vars
  PROVE  TwoToExcuse'
<1>1. ASSUME NEW r \in Rows, decision'[r].outcome = "Bypassed"
      PROVE  decision'[r].by # decision'[r].assigned
  <2>1. RowChange(r)
    BY RowStep
  <2>2. CASE decision'[r] = decision[r]
    BY <1>1, <2>2 DEF TwoToExcuse
  <2>3. CASE decision'[r] = RaisedFor(Assignee[r[1]])
    BY <1>1, <2>3 DEF RaisedFor
  <2>4. CASE \E u \in Users, a \in Users \cup {Nobody}, o \in Answers : AnsweredAs(r, o, a, u)
    <3>1. PICK o \in Answers : decision'[r].outcome = o
      BY <2>4 DEF AnsweredAs
    <3> QED
      BY <1>1, <3>1, AnswerAssumption
  <2>5. CASE \E u \in Users : /\ u # decision[r].assigned
                             /\ AnsweredAs(r, "Bypassed", decision[r].assigned, u)
    BY <2>5 DEF AnsweredAs
  <2> QED
    BY <2>1, <2>2, <2>3, <2>4, <2>5 DEF RowChange
<1>2. ASSUME NEW v \in Versions, entry'[v] # Never
      PROVE  Cardinality(entry'[v].excusers) # 1
  <2>1. CASE entry'[v] = entry[v]
    BY <1>2, <2>1 DEF TwoToExcuse
  <2>2. CASE entry'[v].excusers = {}
    BY <2>2, FS_EmptySet
  <2>3. CASE \E a \in Users, b \in Users : a # b /\ entry'[v].excusers = {a, b}
    <3>1. PICK a \in Users, b \in Users : a # b /\ entry'[v].excusers = {a, b}
      BY <2>3
    <3>2. IsFiniteSet({a}) /\ Cardinality({a}) = 1
      BY FS_Singleton
    <3>3. Cardinality({a} \cup {b}) = Cardinality({a}) + 1
      BY <3>1, <3>2, FS_AddElement
    <3>4. {a, b} = {a} \cup {b}
      OBVIOUS
    <3> QED
      BY <3>1, <3>2, <3>3, <3>4
  <2> QED
    BY <2>1, <2>2, <2>3, GateStep DEF Gated, Fresh
<1> QED
  BY <1>1, <1>2 DEF TwoToExcuse

(* Nobody excuses their own check, whoever may act for whom and however    *)
(* many authorisations are on file.                                        *)
THEOREM TwoExcuse == Spec => []TwoToExcuse
<1> DEFINE I == TypeOK /\ GrantedWasAsked /\ TwoToExcuse
<1>1. Init => I
  <2>1. ASSUME Init PROVE TwoToExcuse
    <3>1. \A r \in Rows : decision[r].outcome = NotRaised
      BY <2>1 DEF Init, InitSteps, Blank
    <3>2. \A v \in Versions : entry[v] = Never
      BY <2>1 DEF Init
    <3> QED
      BY <3>1, <3>2 DEF TwoToExcuse, NotRaised
  <2> QED
    BY <2>1, InitType
<1>2. I /\ [Next]_vars => I'
  BY NextType, TwoStep
<1> QED
  BY <1>1, <1>2, PTL DEF Spec

-----------------------------------------------------------------------------
(* The rows as evidence.  A step asks for some, or writes one.             *)
Evidence == [r \in Rows |-> OnRecord(decision[r])]

LEMMA OnRecordIs ==
  ASSUME NEW row
  PROVE  /\ row.outcome = NotRaised => OnRecord(row) = [outcome |-> "not asked", by |-> Nobody]
         /\ row.outcome \in OpenOutcome => OnRecord(row) = [outcome |-> "waiting", by |-> Nobody]
         /\ row.outcome \notin OpenOutcome \cup {NotRaised} =>
              OnRecord(row) = [outcome |-> row.outcome, by |-> row.by]
BY DEF OnRecord, OpenOutcome, NotRaised

LEMMA RowsAsked ==
  ASSUME NEW R \in SUBSET Rows,
         \A r \in Rows : IF r \in R THEN ~Raised(r) /\ decision'[r].outcome = "Pending"
                         ELSE decision'[r] = decision[r]
  PROVE  Record!Next
<1>1. \A r \in R : OnRecord(decision[r]) = Record!NotAsked
  BY OnRecordIs DEF Raised, Record!NotAsked
<1>2. \A r \in R : OnRecord(decision'[r]) = Record!Waiting
  BY OnRecordIs DEF OpenOutcome, Record!Waiting
<1>3. Record!Ask(R)
  BY <1>1, <1>2 DEF Record!Ask
<1> QED
  BY <1>3 DEF Record!Next

LEMMA RowAnswered ==
  ASSUME NEW q \in Rows, IsOpen(q),
         \/ decision'[q].outcome \in OpenOutcome
         \/ /\ decision'[q].outcome \in {"Approved", "Rejected", "Abstained", "Bypassed"}
            /\ decision'[q].by \in Users,
         \A r \in Rows : r # q => decision'[r] = decision[r]
  PROVE  [Record!Next]_Evidence
<1>1. OnRecord(decision[q]) = Record!Waiting
  BY OnRecordIs DEF IsOpen, Record!Waiting
<1>2. CASE decision'[q].outcome \in OpenOutcome
  <2>1. OnRecord(decision'[q]) = OnRecord(decision[q])
    BY <1>2, OnRecordIs DEF IsOpen
  <2> QED
    BY <2>1 DEF Evidence
<1>3. CASE decision'[q].outcome \in {"Approved", "Rejected", "Abstained", "Bypassed"}
           /\ decision'[q].by \in Users
  <2> DEFINE a == [outcome |-> decision'[q].outcome, by |-> decision'[q].by]
  <2>1. a \in Record!Given
    BY <1>3 DEF Record!Given
  <2>2. OnRecord(decision'[q]) = a
    BY <1>3, OnRecordIs DEF OpenOutcome, NotRaised
  <2> HIDE DEF a
  <2>3. Record!Give(q, a)
    BY <1>1, <2>2 DEF Record!Give
  <2> QED
    BY <2>1, <2>3 DEF Record!Next
<1> QED
  BY <1>2, <1>3

LEMMA EvidenceStep ==
  ASSUME TypeOK, [Next]_vars
  PROVE  [Record!Next]_Evidence
<1>1. CASE UNCHANGED decision
  BY <1>1 DEF Evidence
<1>2. CASE RaiseSteps
  <2> DEFINE R == {r \in Rows : r[1] \in ResolvedSteps(kind) /\ r[2] = version /\ ~Raised(r)}
  <2>1. \A r \in Rows : IF r \in R THEN ~Raised(r) /\ decision'[r].outcome = "Pending"
                        ELSE decision'[r] = decision[r]
    BY <1>2 DEF RaiseSteps, RaisedFor
  <2> HIDE DEF R
  <2>2. R \in SUBSET Rows
    BY DEF R
  <2> QED
    BY <2>1, <2>2, RowsAsked
<1>3. ASSUME NEW q \in Rows, NEW o \in Answers \cup {"Bypassed"}, NEW a, NEW u \in Users,
             IsOpen(q), decision' = [decision EXCEPT ![q] = [outcome |-> o, assigned |-> a, by |-> u]]
      PROVE  [Record!Next]_Evidence
  <2>1. \A r \in Rows : r # q => decision'[r] = decision[r]
    BY <1>3 DEF TypeOK, StepsTypeOK
  <2>2. decision'[q].outcome = o /\ decision'[q].by = u
    BY <1>3 DEF TypeOK, StepsTypeOK
  <2>3. o \in OpenOutcome \/ o \in {"Approved", "Rejected", "Abstained", "Bypassed"}
    BY AnswerAssumption DEF OpenOutcome
  <2> QED
    BY <1>3, <2>1, <2>2, <2>3, RowAnswered
<1>4. ASSUME NEW u \in Users, NEW s \in Steps, NEW o \in Answers, DecideStep(u, s, o)
      PROVE  [Record!Next]_Evidence
  <2> DEFINE q == <<s, version>>
             a == IF MayAct(u, q) THEN decision[q].assigned ELSE u
  <2>1. q \in Rows /\ IsOpen(q)
    BY <1>4, StepRowAssumption DEF DecideStep, IsOpenStep
  <2>2. decision' = [decision EXCEPT ![q] = [outcome |-> o, assigned |-> a, by |-> u]]
    BY <1>4 DEF DecideStep, Recorded
  <2> HIDE DEF q, a
  <2> QED
    BY <1>3, <2>1, <2>2
<1>5. ASSUME NEW u \in Users, NEW s \in Steps, NEW e \in Exceptions, BypassStep(u, s, e)
      PROVE  [Record!Next]_Evidence
  <2> DEFINE q == <<s, version>>
             a == decision[q].assigned
  <2>1. q \in Rows /\ IsOpen(q)
    BY <1>5, StepRowAssumption DEF BypassStep, MayBypass, IsOpenStep
  <2>2. decision' = [decision EXCEPT ![q] = [outcome |-> "Bypassed", assigned |-> a, by |-> u]]
    BY <1>5 DEF BypassStep, Recorded
  <2> HIDE DEF q, a
  <2> QED
    BY <1>3, <2>1, <2>2
<1>6. \/ UNCHANGED decision \/ RaiseSteps
      \/ \E u \in Users, s \in Steps, o \in Answers : DecideStep(u, s, o)
      \/ \E u \in Users, s \in Steps, e \in Exceptions : BypassStep(u, s, e)
  BY DEF Next, vars, doc, Perform, PerformExcused, Enters, UploadVersion, CorrectMetadata,
         RecordPublication, SavePublication, WithdrawPublication, RequestGateException,
         ApproveGateException, ExceptionLapses, DelegationChanges
<1> QED
  BY <1>1, <1>2, <1>4, <1>5, <1>6

(* The approval steps of every version are the evidence a publication      *)
(* rests on: asked for, answered once by one person and for good, whatever *)
(* is uploaded, re-routed, sent back or excused in between.                *)
THEOREM EvidenceKept == Spec => AnswersStand
<1>1. Init => Record!Init
  <2>1. OnRecord(Blank) = Record!NotAsked
    BY OnRecordIs DEF Blank, Record!NotAsked
  <2> QED
    BY <2>1 DEF Init, InitSteps, Record!Init
<1>2. TypeOK /\ [Next]_vars => [Record!Next]_Evidence
  BY EvidenceStep
<1> QED
  BY <1>1, <1>2, TypeCorrect, PTL DEF Spec, AnswersStand, Record!Spec, Evidence
=============================================================================
