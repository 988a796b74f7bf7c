--------------------------- MODULE PolicyLifecycle ---------------------------
(***************************************************************************)
(* One governing document: its phases and their gates, its versions, the   *)
(* approval steps of each version and the exceptions that excuse a gate:   *)
(* policy/lifecycle.py, policy/routing.py, policy/publication.py and the   *)
(* controller of Governing Document.                                       *)
(*                                                                         *)
(* Every handler is one action.  All of them write the document's row or   *)
(* one decision's row and check it is the one they read.  A direct save of *)
(* the phase passes the same gates and is the same action.  The policy     *)
(* office's other way to a publication, the Document Publication form, is  *)
(* SavePublication.                                                        *)
(***************************************************************************)
EXTENDS ApprovalSteps

CONSTANTS
  Steps,        \* approval step titles
  Versions,     \* version numbers 1..n (bounds the uploads)
  Officers,     \* users who hold the Enterprise Policy Office role
  Routes,       \* active Approval Routes: numbers, oldest modification first
  RouteSteps,   \* the steps of a route
  Priority,     \* its priority: the lowest is asked first
  Narrows,      \* the kinds of document a route applies to
  NamedBy,      \* how many dimensions a route names
  ParentSteps,  \* steps of the owners of documents above this one
  Mandatory,    \* the steps that are mandatory
  Assignee,     \* whom a step resolves to: named, a field, a queue's head
  Queue,        \* the queue of a queue step
  Kinds,        \* what routing tells apart: type, change, risk, handling
  Exceptions,   \* Exception Authorisation rows (bounds them)
  Answers,      \* the outcomes of a decision that are followed (bounds them)
  Typable,      \* versions the publication form is used for (bounds it)
  Recordable,   \* what may be missing: the metadata, the applicability
  MaxVersion

ASSUME VersionAssumption == MaxVersion \in Nat /\ Versions = 1..MaxVersion
ASSUME StepRowAssumption == /\ Rows = Steps \X Versions
                            /\ Cycle = [r \in Rows |-> r[2]]
                            /\ Mandatory \subseteq Steps /\ ParentSteps \subseteq Mandatory
                            /\ Assignee \in [Steps -> Users]
                            /\ Queue \in [Steps -> SUBSET Users]
ASSUME RouteAssumption   == /\ Routes \subseteq Nat /\ IsFiniteSet(Routes)
                            /\ RouteSteps \in [Routes -> SUBSET Steps]
                            /\ Priority \in [Routes -> Nat] /\ NamedBy \in [Routes -> Nat]
                            /\ Narrows \in [Routes -> SUBSET Kinds]
ASSUME OfficeAssumption  == Officers \subseteq Users
ASSUME AnswerAssumption  == Answers \subseteq {"Approved", "Rejected", "Changes Requested"}
ASSUME FormAssumption    == Typable \subseteq Versions
ASSUME MissingAssumption == Recordable \subseteq {"metadata", "applicability"}

VARIABLES
  phase,        \* lifecycle_phase
  kind,         \* the fields that choose the route
  recorded,     \* which of the metadata and the applicability are recorded
  version,      \* the current version; 0 before the first
  published,    \* versions announced by publish_record, and not withdrawn
  typed,        \* versions with a publication last written on its own form
  exception,    \* the Exception Authorisation rows
  entry         \* of each version, what it last came into force with: the
                \* steps its route called for, who excused it if anyone did

doc  == <<phase, kind, recorded, version>>
vars == <<phase, kind, recorded, version, published, typed, exception, entry, decision, live>>

-----------------------------------------------------------------------------
Phase    == {"Draft", "Review", "Approved", "Published", "Implemented", "Retired"}
InForce  == {"Published", "Implemented"}
Editable == {"Draft", "Review"}

Unasked   == [asked |-> Nobody, granted |-> Nobody]
Exception == [asked: Users \cup {Nobody}, granted: Users \cup {Nobody}]
Entry     == [needed: SUBSET Steps, excusers: SUBSET Users]
Never     == [needed |-> {}, excusers |-> {Nobody}]

-----------------------------------------------------------------------------
(* select_route: by priority, then by how much a route names, then the one *)
(* that has gone longest without a change.                                 *)
Matches(k) == {r \in Routes : k \in Narrows[r]}

Precedes(r, q) ==
  \/ Priority[r] < Priority[q]
  \/ Priority[r] = Priority[q] /\ NamedBy[r] > NamedBy[q]
  \/ Priority[r] = Priority[q] /\ NamedBy[r] = NamedBy[q] /\ r <= q

SelectedSteps(k) ==
  IF Matches(k) = {} THEN {}
  ELSE RouteSteps[CHOOSE r \in Matches(k) : \A q \in Matches(k) : Precedes(r, q)]

ResolvedSteps(k) == SelectedSteps(k) \cup ParentSteps

Needed(k) == ResolvedSteps(k) \cap Mandatory

(* chain_status, for the version now in the chain: an objection is         *)
(* tolerated only on a row that names its own authorisation.               *)
Answered(s, v) ==
  /\ Closed(<<s, v>>)
  /\ decision[<<s, v>>].outcome \in ReviewOutcome => decision[<<s, v>>].outcome = "Bypassed"

(* Mutant: an approval of the document counts, whatever version it was of. *)
MutantChainComplete == \A s \in Needed(kind) : \E v \in Versions : Answered(s, v)

ChainComplete ==
  \A s \in Needed(kind) : version \in Versions /\ Answered(s, version)

(* The gates that fail for entering a phase.                               *)
Failing(p) ==
  (IF p = "Approved" /\ "metadata" \in Recordable \ recorded THEN {"Required Metadata Complete"} ELSE {})
  \cup (IF p \in {"Approved", "Published"} /\ ~ChainComplete THEN {"Complete Approval Chain"} ELSE {})
  \cup (IF p = "Published" /\ version = 0 THEN {"Current Version Required"} ELSE {})
  \cup (IF p = "Published" /\ "applicability" \in Recordable \ recorded THEN {"Applicability Recorded"} ELSE {})
  \cup (IF p = "Implemented" /\ published \cup typed = {} THEN {"Publication Record Required"} ELSE {})

(* The seeded workflow.                                                    *)
Transitions ==
  {<<"Draft", "Review">>, <<"Review", "Draft">>, <<"Review", "Approved">>,
   <<"Approved", "Draft">>, <<"Approved", "Published">>, <<"Published", "Implemented">>,
   <<"Published", "Draft">>, <<"Implemented", "Draft">>, <<"Published", "Retired">>,
   <<"Implemented", "Retired">>, <<"Retired", "Draft">>}

-----------------------------------------------------------------------------
Init ==
  /\ InitSteps
  /\ phase = "Draft"
  /\ kind \in Kinds
  /\ recorded = {}
  /\ version = 0
  /\ published = {} /\ typed = {}
  /\ exception = [e \in Exceptions |-> Unasked]
  /\ entry = [v \in Versions |-> Never]

(* approval_unfit: approved by somebody who holds the office, and not by   *)
(* the one who asked.                                                      *)
(* Mutant: approved is approved.                                           *)
MutantUsable(e) == exception[e].granted \in Officers

Usable(e) ==
  /\ exception[e].granted \in Officers
  /\ exception[e].granted # exception[e].asked

Enters(p, excusers) ==
  /\ phase' = p
  /\ entry' = IF p = "Published" /\ version \in Versions
              THEN [entry EXCEPT ![version] =
                      [needed |-> IF excusers = {} THEN Needed(kind) ELSE {}, excusers |-> excusers]]
              ELSE entry
  /\ UNCHANGED <<kind, recorded, version, published, typed, exception,
                 decision, live>>

Perform(p) ==
  /\ <<phase, p>> \in Transitions
  /\ Failing(p) = {}
  /\ Enters(p, {})

(* An exception excuses every gate that fails, not one of them.            *)
PerformExcused(p, e) ==
  /\ <<phase, p>> \in Transitions
  /\ Failing(p) # {}
  /\ Usable(e)
  /\ Enters(p, {exception[e].asked, exception[e].granted})

-----------------------------------------------------------------------------
MayTakeVersion == phase \in Editable

UploadVersion ==
  /\ MayTakeVersion
  /\ version < MaxVersion
  /\ version' = version + 1
  /\ UNCHANGED <<phase, kind, recorded, published, typed, exception, entry, decision, live>>

CorrectMetadata(k, R) ==
  /\ kind' = k /\ recorded' = R
  /\ UNCHANGED <<phase, version, published, typed, exception, entry, decision, live>>

(* publish_record: always the current version of a document in force.      *)
(* Mutant: a document let into force without a version is announced.       *)
MutantMayPublishNothing == phase \in InForce

MayPublish == phase \in InForce /\ version \in Versions

RecordPublication ==
  /\ MayPublish
  /\ published' = published \cup {version}
  /\ UNCHANGED <<doc, typed, exception, entry, decision, live>>

(* The form of a Document Publication: the office enters one, points one   *)
(* at another version, or takes its withdrawal back, in any phase.  All it *)
(* asks is that the version belongs to the document.                       *)
SavePublication(v, P, T) ==
  /\ v <= version
  /\ P \subseteq published /\ T \subseteq typed
  /\ Cardinality(published \ P) + Cardinality(typed \ T) <= 1
  /\ published' = P
  /\ typed' = T \cup {v}
  /\ UNCHANGED <<doc, exception, entry, decision, live>>

(* The last publication of a version is withdrawn, or deleted.             *)
WithdrawPublication(v) ==
  /\ \/ v \in published /\ published' = published \ {v} /\ typed' = typed
     \/ v \in typed /\ typed' = typed \ {v} /\ published' = published
  /\ UNCHANGED <<doc, exception, entry, decision, live>>

-----------------------------------------------------------------------------
(* The approval steps.                                                     *)
RaiseSteps ==
  /\ phase = "Review"
  /\ version \in Versions
  /\ \E s \in ResolvedSteps(kind) : ~Raised(<<s, version>>)
  /\ decision' = [r \in Rows |-> IF r[1] \in ResolvedSteps(kind) /\ r[2] = version /\ ~Raised(r)
                                 THEN RaisedFor(Assignee[r[1]]) ELSE decision[r]]
  /\ UNCHANGED <<doc, published, typed, exception, entry, live>>

(* The queue of a step is read from the route selected now.                *)
QueueOf(s) == IF s \in SelectedSteps(kind) THEN Queue[s] ELSE {}

IsOpenStep(s) == version \in Versions /\ IsOpen(<<s, version>>)

DecideStep(u, s, outcome) ==
  /\ IsOpenStep(s)
  /\ LET r == <<s, version>>
     IN  /\ IsTurn(r)
         /\ MayAct(u, r) \/ u \in QueueOf(s)
         /\ decision' = Recorded(r, outcome, IF MayAct(u, r) THEN decision[r].assigned ELSE u, u)
  /\ UNCHANGED <<doc, published, typed, exception, entry, live>>

(* The office skips a step in one act, asked for and approved by the same  *)
(* person, who is not its assignee.                                        *)
MayBypass(u, s) ==
  /\ phase \in {"Review", "Approved", "Retired"}
  /\ u \in Officers
  /\ IsOpenStep(s)
  /\ decision[<<s, version>>].assigned # u

BypassStep(u, s, e) ==
  /\ MayBypass(u, s)
  /\ exception[e] = Unasked
  /\ decision' = Recorded(<<s, version>>, "Bypassed", decision[<<s, version>>].assigned, u)
  /\ exception' = [exception EXCEPT ![e] = [asked |-> u, granted |-> u]]
  /\ UNCHANGED <<doc, published, typed, entry, live>>

-----------------------------------------------------------------------------
(* Excusing a gate.                                                        *)
RequestGateException(u, e) ==
  /\ exception[e] = Unasked
  /\ \E p \in Phase : <<phase, p>> \in Transitions /\ Failing(p) # {}
  /\ exception' = [exception EXCEPT ![e].asked = u]
  /\ UNCHANGED <<doc, published, typed, entry, decision, live>>

ApproveGateException(u, e) ==
  /\ exception[e].asked # Nobody
  /\ exception[e].granted = Nobody
  /\ u \in Officers
  /\ u # exception[e].asked
  /\ exception' = [exception EXCEPT ![e].granted = u]
  /\ UNCHANGED <<doc, published, typed, entry, decision, live>>

(* Its valid_to passes: the row excuses nothing any more, and its place    *)
(* here is taken by another.                                               *)
ExceptionLapses(e) ==
  /\ exception[e] # Unasked
  /\ exception' = [exception EXCEPT ![e] = Unasked]
  /\ UNCHANGED <<doc, published, typed, entry, decision, live>>

DelegationChanges(pair) ==
  /\ DelegationTurns(pair)
  /\ UNCHANGED <<doc, published, typed, exception, entry, decision>>

-----------------------------------------------------------------------------
Next ==
  \/ \E p \in Phase : Perform(p)
  \/ \E p \in Phase, e \in Exceptions : PerformExcused(p, e)
  \/ UploadVersion
  \/ \E k \in Kinds, R \in SUBSET Recordable : CorrectMetadata(k, R)
  \/ RecordPublication
  \/ \E v \in Typable, P \in SUBSET published, T \in SUBSET typed : SavePublication(v, P, T)
  \/ \E v \in Versions : WithdrawPublication(v)
  \/ RaiseSteps
  \/ \E u \in Users, s \in Steps, o \in Answers :
       DecideStep(u, s, o)
  \/ \E u \in Users, s \in Steps, e \in Exceptions : BypassStep(u, s, e)
  \/ \E u \in Users, e \in Exceptions : RequestGateException(u, e) \/ ApproveGateException(u, e)
  \/ \E e \in Exceptions : ExceptionLapses(e)
  \/ \E pair \in Delegable : DelegationChanges(pair)

Spec == Init /\ [][Next]_vars

-----------------------------------------------------------------------------
TypeOK ==
  /\ StepsTypeOK
  /\ phase \in Phase /\ kind \in Kinds /\ recorded \subseteq Recordable
  /\ version \in 0..MaxVersion
  /\ published \subseteq Versions /\ typed \subseteq Versions
  /\ exception \in [Exceptions -> Exception]
  /\ entry \in [Versions -> Entry \cup {Never}]

(* What is in force is the version that came into force, and what          *)
(* publish_record announced was in force before: each with every step the  *)
(* route then called for answered on that very version, or excused.  No    *)
(* approval carries over to text nobody approved.  It is no promise about  *)
(* a publication entered on its own form.                                  *)
CameThroughTheGate(v) ==
  /\ entry[v] # Never
  /\ entry[v].excusers = {} => \A s \in entry[v].needed : Answered(s, v)

PublishedWasApproved ==
  /\ phase \in InForce /\ version # 0 => CameThroughTheGate(version)
  /\ \A v \in published : CameThroughTheGate(v)

(* Nobody excuses their own check: a step was bypassed by somebody other   *)
(* than the one it was left with, and a version that came into force past  *)
(* a failing gate had the word of two people, though each step bypass      *)
(* writes an approved authorisation as well.                               *)
TwoToExcuse ==
  /\ \A r \in Rows : decision[r].outcome = "Bypassed" => decision[r].by # decision[r].assigned
  /\ \A v \in Versions : entry[v] # Never => Cardinality(entry[v].excusers) # 1

-----------------------------------------------------------------------------
(* What the documents say and the code does not do.                        *)

(* publication.py:365: what is announced is the version in force, the one  *)
(* whose publication has been earned.  The form announces any version.     *)
AnnouncedWasApproved == \A v \in published \cup typed : CameThroughTheGate(v)

=============================================================================
