------------------------------ MODULE ForumSeats ------------------------------
(***************************************************************************)
(* The seats of one forum, the officer fields derived from them, and the   *)
(* plans that disband the forum: governance/membership.py, the controller  *)
(* of Forum Membership and the disbandment half of governance/lifecycle.py.*)
(*                                                                         *)
(* Every save and every handler is one action: one request, one database   *)
(* transaction; saves that overlap are left out, and so are the raw edits  *)
(* of an administrator.  An approver stands for their delegate as well.    *)
(* The forms of a seat and of a plan also take the row to another forum.   *)
(***************************************************************************)
EXTENDS Naturals, FiniteSets

CONSTANTS
  Seats,      \* names of Forum Membership rows: numbers, in naming order
  Members,    \* users who can hold a seat
  SeatForms,  \* what is typed on the form of a seat (bounds it)
  Roles,      \* Governance Forum Roles
  ChairRoles, \* those flagged is_chair_role
  Cap,        \* max_holders of a role; 0 is no limit
  Officers,   \* the officer fields of the forum
  Field,      \* the officer field a role fills, or NoField
  Plans,      \* names of Disbandment Plan rows (bounds them)
  Typable,    \* the plans whose form is used, or that are raised for another
              \* forum (bounds them)
  Forms,      \* what is typed on the form of a plan (bounds it)
  PlanDates,  \* the effective dates a plan is raised with (bounds them)
  Approvers,  \* REQUIRED_DISBANDMENT_APPROVERS
  MaxDay,     \* last day of the calendar (bounds time)
  Vacant,     \* a by-position seat, or an officer field, with nobody in it
  NoField

Day   == 0..MaxDay
Never == MaxDay + 1      \* a date field left empty: later than every day
Date  == 0..Never

ASSUME SeatAssumption   == Seats \subseteq Nat /\ IsFiniteSet(Seats)
ASSUME DayAssumption    == MaxDay \in Nat
ASSUME RoleAssumption   == /\ Roles # {}
                           /\ ChairRoles \subseteq Roles
                           /\ Field \in [Roles -> Officers \cup {NoField}]
                           /\ NoField \notin Officers
                           /\ Cap \in [Roles -> Nat]
ASSUME VacantAssumption == Vacant \notin Members

VARIABLES
  today,      \* nowdate()
  seat,       \* Forum Membership rows; a start of Never is a name that no
              \* seat of this forum has
  officer,    \* the officer fields stored on the forum
  stale,      \* history: a seat was moved away, and none was saved since
  active,     \* the forum's is_active flag
  plan        \* Disbandment Plan rows with their Approval Decisions

vars == <<today, seat, officer, stale, active, plan>>

-----------------------------------------------------------------------------
(* Rows.                                                                   *)
Holder == Members \cup {Vacant}
Row    == [start: Date, end: Date, member: Holder, role: Roles]

(* A form cannot be saved without a start date.                            *)
SeatRow == {r \in Row : r.start # Never /\ r.start <= r.end}

(* asked: the approvers in a required row that carries their decision.     *)
(* typed: history, the form was used on a plan not executed yet.           *)
Form   == [of: {"this", "other"}, effective: Date, asked: SUBSET Approvers]
Plan   == [of: {"none", "this", "other"}, effective: Date, executed: BOOLEAN,
           asked: SUBSET Approvers,
           decision: [Approvers -> {"Unasked", "Pending", "Approved", "Rejected"}],
           typed: BOOLEAN]

ASSUME FormAssumption ==
  SeatForms \subseteq SeatRow /\ Typable \subseteq Plans /\ Forms \subseteq Form /\ PlanDates \subseteq Date

Unused == [start |-> Never, end |-> Never, member |-> Vacant,
           role |-> CHOOSE r \in Roles : TRUE]

InUse(c, s)     == c[s].start # Never
OpenOn(row, d)  == row.start <= d /\ d <= row.end
MembersAsAt(c, d) == {s \in Seats : InUse(c, s) /\ OpenOn(c[s], d)}

(* derive_officers: the first occupied seat, by start date and name, whose *)
(* role fills the field.                                                   *)
Fills(c, d, f) == {s \in MembersAsAt(c, d) : c[s].member # Vacant /\ Field[c[s].role] = f}

Before(c, s, t) == c[s].start < c[t].start \/ (c[s].start = c[t].start /\ s <= t)

(* Mutant: the seat instead of the person in it.                           *)
MutantDerived(c, d, f) ==
  LET filled == Fills(c, d, f)
  IN  IF filled = {} THEN Vacant
      ELSE CHOOSE s \in filled : \A t \in filled : Before(c, s, t)

Derived(c, d, f) ==
  LET filled == Fills(c, d, f)
  IN  IF filled = {} THEN Vacant
      ELSE c[CHOOSE s \in filled : \A t \in filled : Before(c, s, t)].member

(* sync_officers, after every save of a seat.                              *)
(* Mutant: a field nobody fills any more is not emptied.                   *)
MutantSynced(c) ==
  [f \in Officers |-> IF Fills(c, today, f) = {} THEN officer[f] ELSE Derived(c, today, f)]

Synced(c) == [f \in Officers |-> Derived(c, today, f)]

-----------------------------------------------------------------------------
Init ==
  /\ today = 0
  /\ seat = [s \in Seats |-> Unused]
  /\ officer = [f \in Officers |-> Vacant]
  /\ stale = FALSE
  /\ active = TRUE
  /\ plan = [p \in Plans |-> [of |-> "none", effective |-> Never, executed |-> FALSE,
                              asked |-> {}, decision |-> [a \in Approvers |-> "Unasked"],
                              typed |-> FALSE]]

NextDay ==
  /\ today < MaxDay
  /\ today' = today + 1
  /\ UNCHANGED <<seat, officer, stale, active, plan>>

-----------------------------------------------------------------------------
(* ForumMembership.validate.  Two closed date ranges overlap when each     *)
(* starts by the end of the other.                                         *)

(* Mutant: a seat that starts on the day another ends is let through.      *)
MutantOverlap(a, b) == a.start < b.end /\ b.start < a.end

Overlap(a, b) == a.start <= b.end /\ b.start <= a.end

Overlapping(s, row) == {t \in Seats \ {s} : InUse(seat, t) /\ Overlap(row, seat[t])}

UnderCap(s, row) ==
  Cap[row.role] > 0 =>
    Cardinality({t \in Overlapping(s, row) : seat[t].role = row.role}) < Cap[row.role]

MaySaveSeat(s, row) ==
  /\ row \in SeatRow
  /\ row.member # Vacant => \A t \in Overlapping(s, row) : seat[t].member # row.member
  /\ row.role \in ChairRoles => \A t \in Overlapping(s, row) : seat[t].role \notin ChairRoles
  /\ UnderCap(s, row)

(* A seat is opened, edited or closed on its form, or brought there from   *)
(* another forum.                                                          *)
SaveSeat(s, row) ==
  /\ MaySaveSeat(s, row)
  /\ seat' = [seat EXCEPT ![s] = row]
  /\ officer' = Synced(seat')
  /\ stale' = FALSE
  /\ UNCHANGED <<today, active, plan>>

(* A seat is given another forum on its form: on_update derives the        *)
(* officers of that forum, and this one keeps those it had.                *)
MoveSeat(s) ==
  /\ InUse(seat, s)
  /\ seat' = [seat EXCEPT ![s] = Unused]
  /\ stale' = TRUE
  /\ UNCHANGED <<today, officer, active, plan>>

-----------------------------------------------------------------------------
(* Disbandment.                                                            *)
Open(p)    == {a \in Approvers : plan[p].decision[a] = "Pending"}
Refused(p) == {a \in plan[p].asked : plan[p].decision[a] = "Rejected"}

(* disbandment_outstanding: required rows without a decision count only    *)
(* while no required row has one.                                          *)
Outstanding(p) == plan[p].asked = {} \/ plan[p].asked \cap Open(p) # {}

IsLive(p) == plan[p].of = "this" /\ ~plan[p].executed /\ Refused(p) = {}

(* raise_disbandment, for this forum and for another one.                  *)
(* Mutant: a plan that waits for nobody any more is taken for finished.    *)
MutantMayRaise(p, forum) ==
  /\ plan[p].of = "none"
  /\ forum = "this" => active /\ \A q \in Plans : ~(IsLive(q) /\ Outstanding(q))

MayRaise(p, forum) ==
  /\ plan[p].of = "none"
  /\ forum = "this" => active /\ \A q \in Plans : ~IsLive(q)

RaisePlan(p, forum, effective) ==
  /\ MayRaise(p, forum)
  /\ plan' = [plan EXCEPT ![p] = [@ EXCEPT !.of = forum,
                                           !.effective = effective,
                                           !.asked = Approvers,
                                           !.decision = [a \in Approvers |-> "Pending"]]]
  /\ UNCHANGED <<today, seat, officer, stale, active>>

(* The form of Disbandment Plan: a plan is added or typed over, also an    *)
(* executed one; its forum, date and rows change.  A row is made optional, *)
(* or required again (one that is removed stays as if optional), and the   *)
(* rows that are added have no decision.                                   *)
TypePlan(p, form) ==
  /\ form.asked \subseteq {a \in Approvers : plan[p].decision[a] # "Unasked"}
  /\ plan' = [plan EXCEPT ![p] = [@ EXCEPT !.of = form.of,
                                           !.effective = form.effective,
                                           !.asked = form.asked,
                                           !.typed = plan[p].typed \/ ~plan[p].executed]]
  /\ UNCHANGED <<today, seat, officer, stale, active>>

(* record_disbandment_decision: the approvals are Parallel, so none waits  *)
(* for another; a plan already refused still takes the other decisions,    *)
(* and so does a row that is not required.                                 *)
Decide(p, a, d) ==
  /\ ~plan[p].executed
  /\ a \in Open(p)
  /\ plan' = [plan EXCEPT ![p].decision[a] = d]
  /\ UNCHANGED <<today, seat, officer, stale, active>>

EffectiveDate(p) == IF plan[p].effective = Never THEN today ELSE plan[p].effective

(* close_seat, for every seat open on the effective date.  Each save asks  *)
(* ForumMembership.validate again; the others' closing does not change its *)
(* answer, since all of them still hold the effective date.                *)
(* Mutant: a seat that has an end date is left to end by itself.           *)
MutantClosing(p) == {s \in MembersAsAt(seat, EffectiveDate(p)) : seat[s].end = Never}

Closing(p) == MembersAsAt(seat, EffectiveDate(p))

(* Mutant: the seats of today are closed instead.                          *)
MutantClosed(p, s) ==
  IF s \in MembersAsAt(seat, today) THEN [seat[s] EXCEPT !.end = today] ELSE seat[s]

Closed(p, s) ==
  IF s \in Closing(p) THEN [seat[s] EXCEPT !.end = EffectiveDate(p)] ELSE seat[s]

(* Mutant: a refusal is a decision like any other.                         *)
MutantMayExecute(p) ==
  /\ plan[p].of = "this"
  /\ ~plan[p].executed
  /\ active
  /\ ~Outstanding(p)

MayExecute(p) ==
  /\ plan[p].of = "this"
  /\ ~plan[p].executed
  /\ active
  /\ ~Outstanding(p)
  /\ Refused(p) = {}

(* What becomes of the plans of other forums is left out, but for the      *)
(* decisions taken on them.                                                *)
ExecuteDisbandment(p) ==
  /\ MayExecute(p)
  /\ \A s \in Closing(p) : MaySaveSeat(s, Closed(p, s))
  /\ active' = FALSE
  /\ seat' = [s \in Seats |-> Closed(p, s)]
  /\ officer' = IF Closing(p) = {} THEN officer ELSE Synced(seat')
  /\ stale' = (stale /\ Closing(p) = {})
  /\ plan' = [plan EXCEPT ![p].executed = TRUE]
  /\ UNCHANGED today

(* A compliance review inserted on its own form makes the forum active     *)
(* again (apply_review; see ForumRecord).                                  *)
Reactivate ==
  /\ ~active
  /\ active' = TRUE
  /\ UNCHANGED <<today, seat, officer, stale, plan>>

-----------------------------------------------------------------------------
Next ==
  \/ NextDay
  \/ \E s \in Seats, row \in SeatForms : SaveSeat(s, row)
  \/ \E s \in Seats : MoveSeat(s)
  \/ \E p \in Plans, d \in PlanDates : RaisePlan(p, "this", d)
  \/ \E p \in Typable, d \in PlanDates : RaisePlan(p, "other", d)
  \/ \E p \in Typable, form \in Forms : TypePlan(p, form)
  \/ \E p \in Plans, a \in Approvers, d \in {"Approved", "Rejected"} : Decide(p, a, d)
  \/ \E p \in Plans : ExecuteDisbandment(p)
  \/ Reactivate

Spec == Init /\ [][Next]_vars

-----------------------------------------------------------------------------
TypeOK ==
  /\ today \in Day
  /\ seat \in [Seats -> Row]
  /\ officer \in [Officers -> Holder]
  /\ stale \in BOOLEAN /\ active \in BOOLEAN
  /\ plan \in [Plans -> Plan]

(* However seats are opened, moved, closed or swept away by a disbandment, *)
(* on no day does the forum have two chairs, nor one person two seats.     *)
OneChairAtATime ==
  \A d \in Day : \A s, t \in MembersAsAt(seat, d) :
    s # t => /\ ~(seat[s].role \in ChairRoles /\ seat[t].role \in ChairRoles)
             /\ seat[s].member # Vacant => seat[s].member # seat[t].member

(* The stored officer fields may be out of date, never wrong: all of them  *)
(* are what the seats as they are now say of one day up to today.  Left    *)
(* out is the time from a seat's move to another forum, whose save derives *)
(* the officers of the other forum only, to the next save of a seat of     *)
(* this one, which repairs them.  This is of saves that do not overlap:    *)
(* those that do can leave the fields stale (hooks.py says so).            *)
OfficersWereRight ==
  ~stale => \E d \in 0..today : \A f \in Officers : officer[f] = Derived(seat, d, f)

(* A forum is disbanded by consent only.  However plans are refused,       *)
(* raised again, moved between forums and typed over, a plan that was      *)
(* executed was approved by someone it named; and by everyone the page     *)
(* asks, unless its form was used before it was executed, which can make a *)
(* required row optional, a refused one too.                               *)
DisbandedByConsent ==
  \A p \in Plans : plan[p].executed =>
    /\ \E a \in Approvers : plan[p].decision[a] = "Approved"
    /\ ~plan[p].typed => \A a \in Approvers : plan[p].decision[a] = "Approved"

(* The approvers of a forum never have two plans in play to decide on,     *)
(* however often plans are refused and raised again, executed, and the     *)
(* forum made active again: of two plans in play the form wrote one, since *)
(* it asks for no live plan and revives a refused one.                     *)
OnePlanInPlay ==
  \A p, q \in Plans :
    IsLive(p) /\ IsLive(q) /\ ~plan[p].typed /\ ~plan[q].typed => p = q

(* A disbandment rewrites no past: who sat on the forum on a day up to the *)
(* effective date (or was to sit) is what it was before.                   *)
DisbandmentKeepsHistory ==
  [][\A p \in Plans :
       (~plan[p].executed /\ plan'[p].executed) =>
         \A d \in 0..EffectiveDate(p) : MembersAsAt(seat', d) = MembersAsAt(seat, d)]_vars

(* ... and after it nobody sits there who sat there on it.                 *)
DisbandmentEndsMandates ==
  [][\A p \in Plans :
       (~plan[p].executed /\ plan'[p].executed) =>
         \A s \in MembersAsAt(seat, EffectiveDate(p)), d \in Day :
           d > EffectiveDate(p) => s \notin MembersAsAt(seat', d)]_vars

-----------------------------------------------------------------------------
(* What the documents say and the code does not do.                        *)

(* forum_membership.py: a seat role "allows at most {1} concurrent         *)
(* holder(s)", and "a seat is closed by setting an end date".  So a seat   *)
(* can be closed on any of its days: that adds no holder to any day.       *)
SeatsCanBeClosed ==
  \A s \in Seats : InUse(seat, s) =>
    \A d \in Day : OpenOn(seat[s], d) => MaySaveSeat(s, [seat[s] EXCEPT !.end = d])

(* lifecycle.py: "G-11 names the approvals, and a disbandment without them *)
(* is not a disbandment."                                                  *)
DisbandedByEveryApprover ==
  \A p \in Plans : plan[p].executed => \A a \in Approvers : plan[p].decision[a] = "Approved"

(* hooks.py: the officer fields "are reconciled daily rather than trusted  *)
(* to always be right".  officer_drift returns the differences it finds    *)
(* and writes nothing.                                                     *)
OfficersReconciledDaily == [][today' # today => ~stale']_vars
=============================================================================
