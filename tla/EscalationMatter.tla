--------------------------- MODULE EscalationMatter ---------------------------
(***************************************************************************)
(* One escalation matter: its routing by the matrix, its queue and owner,  *)
(* its stages and closure, the clocks it is timed by and the breaches that *)
(* raise it: escalation/routing.py, assignment.py, resolution.py, the      *)
(* controller of Escalation Matter, and the matter's own clocks of         *)
(* consilium_core/sla.py.                                                  *)
(*                                                                         *)
(* Every save runs the matrix again, validates the closure and brings the  *)
(* clock into step, whoever makes it: see Save.  All of it is one          *)
(* transaction, and two that write the matter conflict.                    *)
(***************************************************************************)
EXTENDS Integers, FiniteSets

CONSTANTS
  People,       \* the accounts that work the matter
  Owners,       \* those with the role Escalation Owner
  Reviewers,    \* those with the role Escalation Reviewer
  Facts,        \* what the rules' conditions tell apart, the severity aside
  Rules,        \* rules of the matrix: numbers, in priority order
  Fits,         \* the pairs <<fact, severity>> a rule's condition matches
  Resulting,    \* the severity a rule results in
  Definitions,  \* SLA Definitions: the total open time of a matter
  Imposes,      \* the definition a rule imposes, or NoDefinition
  QueueOf,      \* everybody in the role and the group a rule names
  Target,       \* days a definition gives from the matter's opening
  Closures,     \* what a closure may say: recorded, or referring elsewhere
  Top,          \* the scale of severity: Low, Medium and High if it is 2
  MaxDay,       \* bounds the days
  MaxLate       \* bounds the reopenings: clocks that have breached

Severity == 0..Top
NoRule   == 0
NoOwner  == "no owner"
NoDefinition == "no definition"

ASSUME PeopleAssumption == Owners \subseteq People /\ Reviewers \subseteq People
ASSUME RuleAssumption ==
  /\ Top \in Nat \ {0}
  /\ Rules \subseteq Nat \ {NoRule} /\ IsFiniteSet(Rules)
  /\ Fits \in [Rules -> SUBSET (Facts \X Severity)]
  /\ Resulting \in [Rules -> Severity]
  /\ Imposes \in [Rules -> Definitions \cup {NoDefinition}]
  /\ QueueOf \in [Rules -> SUBSET People]
ASSUME ClosureAssumption == Closures \subseteq {"recorded", "referring"}
ASSUME ClockAssumption ==
  /\ IsFiniteSet(Definitions) /\ NoDefinition \notin Definitions
  /\ Target \in [Definitions -> Nat]
  /\ MaxDay \in Nat /\ MaxLate \in Nat

VARIABLES
  today,
  matter,   \* the row of the matter
  closure,  \* its Escalation Closure: none, recorded, or referring elsewhere
  running,  \* the definitions with a clock that is open (is_open)
  late      \* the clocks that breached, with the order of their breached_on

mvars == <<today, matter, closure, running, late>>

-----------------------------------------------------------------------------
(* Open stands for In Progress and Under Review for Pending Review, whose  *)
(* flags are the same; External for Closed, Tracked Externally.            *)
Working  == {"Open"}
InReview == {"Under Review"}
AtRest   == {"Closed", "External"}
Status   == Working \cup InReview \cup AtRest

Matter ==
  [status: Status, fact: Facts, severity: Severity,
   manual: BOOLEAN,                            \* severity_source is Manual Override
   rule: Rules \cup {NoRule},                  \* matched_matrix_rule
   definition: Definitions \cup {NoDefinition},
   owner: People \cup {NoOwner},               \* response_owner
   auto: BOOLEAN,                              \* auto_escalated
   raised: Nat,                                \* breach_count
   last: Nat]                                  \* last_breach_on

Clock == [definition: Definitions, on: Nat, stopped: BOOLEAN]

OpenMatter(m) == m.status \notin AtRest

Overdue(d) == today > Target[d]

-----------------------------------------------------------------------------
(* apply_routing: the first rule that matches.  With none, what an earlier *)
(* one set stays.                                                          *)
Matching(m) == {r \in Rules : <<m.fact, m.severity>> \in Fits[r]}

MatchedRule(m) == CHOOSE r \in Matching(m) : \A q \in Matching(m) : r <= q

(* Mutant: a pass of the matrix lowers what a breach has raised.           *)
MutantRoutedSeverity(m, r) == IF m.manual THEN m.severity ELSE Resulting[r]

RoutedSeverity(m, r) ==
  IF m.manual \/ (m.auto /\ m.severity > Resulting[r]) THEN m.severity ELSE Resulting[r]

Routed(m) ==
  IF Matching(m) = {} THEN m
  ELSE LET r == MatchedRule(m)
       IN  [m EXCEPT !.rule = r,
                     !.severity = RoutedSeverity(m, r),
                     !.definition = IF Imposes[r] = NoDefinition THEN @ ELSE Imposes[r]]

(* validate_closure; the response template is what the caller says it is.  *)
MayRest(m) ==
  /\ ~OpenMatter(m) => closure # "none"
  /\ m.status = "External" => closure = "referring"

(* sync_clock.  A clock that breached still times the matter.  At rest the *)
(* clocks that are open stop, late or not; those that breached are left.   *)
Breached(d, clocks) == \E c \in clocks : c.definition = d /\ ~c.stopped

(* Mutant: a clock that is not open is over.                               *)
MutantTimed(d, clocks, open) == d \in open

Timed(d, clocks, open) == d \in open \/ Breached(d, clocks)

Running(m, clocks, open) ==
  IF m.definition = NoDefinition \/ (OpenMatter(m) /\ Timed(m.definition, clocks, open)) THEN open
  ELSE IF OpenMatter(m) THEN open \cup {m.definition} ELSE {}

StoppedLate(m) ==
  IF m.definition = NoDefinition \/ OpenMatter(m) THEN {}
  ELSE {[definition |-> d, on |-> Cardinality(late) + 1, stopped |-> TRUE] :
          d \in {e \in running : Overdue(e)}}

(* A save of the matter's row.                                             *)
Save(m) ==
  /\ MayRest(m)
  /\ matter' = Routed(m)
  /\ running' = Running(Routed(m), late, running)
  /\ late' = late \cup StoppedLate(Routed(m))
  /\ UNCHANGED <<today, closure>>

(* As it is raised: of Medium severity unless the matrix says otherwise.   *)
New(f) ==
  [status |-> "Open", fact |-> f, severity |-> 1, manual |-> FALSE, rule |-> NoRule,
   definition |-> NoDefinition, owner |-> NoOwner, auto |-> FALSE, raised |-> 0, last |-> 0]

MInit ==
  /\ today = 0
  /\ closure = "none"
  /\ late = {}
  /\ \E f \in Facts : matter = Routed(New(f))
  /\ running = IF matter.definition = NoDefinition THEN {} ELSE {matter.definition}

-----------------------------------------------------------------------------
(* The portal: the owner moves and closes what is being worked, the        *)
(* reviewer moves what is under review.                                    *)
MoveStatus(u, s) ==
  /\ \/ matter.status \in Working  /\ u \in Owners
     \/ matter.status \in InReview /\ u \in Reviewers
  /\ s \in (Working \cup InReview) \ {matter.status}
  /\ Save([matter EXCEPT !.status = s])

CloseMatter(u, s) ==
  /\ matter.status \in Working
  /\ u \in Owners
  /\ s \in AtRest
  /\ Save([matter EXCEPT !.status = s])

RecordClosure(u, c) ==
  /\ matter.status \in Working
  /\ u \in Owners
  /\ closure' = IF closure = "referring" THEN closure ELSE c
  /\ UNCHANGED <<today, matter, running, late>>

(* is_waiting: open, in a queue, and not owned by anybody of that queue.   *)
Queue(m) == IF m.rule = NoRule THEN {} ELSE QueueOf[m.rule]

TakeOwnership(u) ==
  /\ OpenMatter(matter)
  /\ u \in Owners \cap Queue(matter)
  /\ matter.owner \notin Queue(matter)
  /\ Save([matter EXCEPT !.owner = u])

(* The desk form: any status, which the seeded moves permit; what routes   *)
(* the matter; who answers for it.                                         *)
DeskStatus(s) ==
  /\ s \in AtRest \/ OpenMatter(matter) \/ Cardinality(late) < MaxLate
  /\ Save([matter EXCEPT !.status = s])

DeskSeverity(f, v, byHand) ==
  Save([matter EXCEPT !.fact = f, !.severity = v, !.manual = byHand])

DeskOwner(o) == Save([matter EXCEPT !.owner = o])

-----------------------------------------------------------------------------
(* The daily jobs.  sla.sweep marks the open clocks past their target, one *)
(* after the other.                                                        *)
Marked(order) ==
  late \cup {[definition |-> d, on |-> Cardinality(late) + order[d], stopped |-> FALSE] :
               d \in DOMAIN order}

Orders ==
  LET due == {d \in running : Overdue(d)}
  IN  {f \in [due -> 1..Cardinality(due)] : \A d, e \in due : f[d] = f[e] => d = e}

Sweep ==
  /\ \E order \in Orders : /\ late' = Marked(order)
                           /\ running' = running \ DOMAIN order
  /\ UNCHANGED <<today, matter, closure>>

(* sweep_breaches goes on to record each breach on the matter, in the      *)
(* order of breached_on, reading the matter afresh for each.               *)
(* Mutant: every breached clock of the matter raises it, every day.        *)
MutantRaises(m, clocks, k) ==
  OpenMatter(m) /\ \E c \in clocks : c.on = k /\ c.definition = m.definition

Raises(m, clocks, k) ==
  /\ OpenMatter(m)
  /\ m.last < k
  /\ \E c \in clocks : c.on = k /\ c.definition = m.definition

(* Mutant: the scale has no top.                                           *)
MutantRaisedOne(m, k) ==
  [m EXCEPT !.raised = @ + 1, !.last = k, !.auto = TRUE, !.severity = @ + 1]

RaisedOne(m, k) ==
  [m EXCEPT !.raised = @ + 1, !.last = k, !.auto = TRUE,
            !.severity = IF @ = Top THEN Top ELSE @ + 1]

(* The matter and the open clocks after the first k moments.               *)
AfterMoments(clocks, open) ==
  LET step[k \in Nat] ==
        IF k = 0 THEN [matter |-> matter, running |-> open]
        ELSE LET before == step[k - 1]
             IN  IF Raises(before.matter, clocks, k)
                 THEN LET m == Routed(RaisedOne(before.matter, k))
                      IN  [matter |-> m, running |-> Running(m, clocks, before.running)]
                 ELSE before
  IN  step[Cardinality(clocks)]

SweepBreaches ==
  /\ \E order \in Orders :
       LET after == AfterMoments(Marked(order), running \ DOMAIN order)
       IN  /\ late' = Marked(order)
           /\ matter' = after.matter
           /\ running' = after.running
  /\ UNCHANGED <<today, closure>>

NextDay ==
  /\ today < MaxDay
  /\ today' = today + 1
  /\ UNCHANGED <<matter, closure, running, late>>

-----------------------------------------------------------------------------
ByHand == \E f \in Facts, v \in Severity, h \in BOOLEAN : DeskSeverity(f, v, h)

MNext ==
  \/ \E u \in People, s \in Status : MoveStatus(u, s) \/ CloseMatter(u, s)
  \/ \E u \in People, c \in Closures : RecordClosure(u, c)
  \/ \E u \in People : TakeOwnership(u)
  \/ \E s \in Status : DeskStatus(s)
  \/ ByHand
  \/ \E o \in People \cup {NoOwner} : DeskOwner(o)
  \/ Sweep
  \/ SweepBreaches
  \/ NextDay

MSpec == MInit /\ [][MNext]_mvars

-----------------------------------------------------------------------------
MTypeOK ==
  /\ today \in 0..MaxDay
  /\ matter \in Matter
  /\ closure \in {"none", "recorded", "referring"}
  /\ running \subseteq Definitions
  /\ late \subseteq Clock

(* A matter is timed once: a definition has one clock that is not stopped, *)
(* running or breached, none runs while the matter is at rest, and no      *)
(* breach is counted twice, however often the sweeps run, the matter is    *)
(* re-routed, closed and reopened.                                         *)
TimedOnce ==
  /\ \A d \in Definitions :
       Cardinality({c \in late : c.definition = d /\ ~c.stopped})
         + (IF d \in running THEN 1 ELSE 0) <= 1
  /\ matter.status \in AtRest => running = {}
  /\ matter.raised <= Cardinality(late)

(* A breach raises the matter, and what it raised is lowered by nothing    *)
(* but a person's edit: not by the pass of the matrix that follows in the  *)
(* same save, nor by any later one.                                        *)
BreachRaises ==
  [][/\ matter'.raised > matter.raised =>
          matter'.severity > matter.severity \/ matter'.severity = Top
     /\ matter.auto /\ matter'.severity < matter.severity => ByHand]_mvars
=============================================================================
