-------------------------- MODULE ForumSeats_proofs --------------------------
(***************************************************************************)
(* Theorems about ForumSeats for any seats, people, roles, caps, approvers *)
(* and days.  The rows are well typed, and each of the other invariants is *)
(* inductive beside that.  That a set of seats has a first one, on which   *)
(* the officer fields rest, is shown by least numbers (FirstSeat).         *)
(***************************************************************************)
EXTENDS ForumSeats, NaturalsInduction, WellFoundedInduction, TLAPS

RowsOK == /\ today \in Day
          /\ seat \in [Seats -> Row]
          /\ stale \in BOOLEAN /\ active \in BOOLEAN
          /\ plan \in [Plans -> Plan]

(* Every approver asked has a decision, and a plan the form has not been   *)
(* used on asks them all.                                                  *)
PlansAsk ==
  \A p \in Plans :
    /\ plan[p].of = "none" => ~plan[p].executed
    /\ \A a \in plan[p].asked : plan[p].decision[a] # "Unasked"
    /\ plan[p].of # "none" /\ ~plan[p].executed /\ ~plan[p].typed => plan[p].asked = Approvers

IInv == RowsOK /\ OneChairAtATime /\ PlansAsk /\ DisbandedByConsent /\ OnePlanInPlay

-----------------------------------------------------------------------------
(* What a step can do to the seats and to the plans.                       *)

SeatSaved == \E s \in Seats, row \in SeatRow :
               /\ MaySaveSeat(s, row)
               /\ seat' = [seat EXCEPT ![s] = row]

SeatMoved == \E s \in Seats : seat' = [seat EXCEPT ![s] = Unused]

SeatsClosed == \E p \in Plans : seat' = [s \in Seats |-> Closed(p, s)]

LEMMA SeatStep ==
  ASSUME [Next]_vars
  PROVE  seat' = seat \/ SeatSaved \/ SeatMoved \/ SeatsClosed
<1>1. ASSUME NEW s \in Seats, NEW row \in SeatForms, SaveSeat(s, row)
      PROVE  SeatSaved
  BY <1>1, FormAssumption DEF SaveSeat, SeatSaved
<1>2. ASSUME NEW s \in Seats, MoveSeat(s)
      PROVE  SeatMoved
  BY <1>2 DEF MoveSeat, SeatMoved
<1> QED
  BY <1>1, <1>2 DEF Next, vars, NextDay, RaisePlan, TypePlan, Decide, ExecuteDisbandment,
                    Reactivate, SeatsClosed

LEMMA DayFacts ==
  /\ Never \in Nat /\ Date \subseteq Nat /\ Day \subseteq Date /\ 0 \in Day
  /\ Never \in Date /\ Never \notin Day
BY DayAssumption DEF Day, Date, Never

LEMMA EffectiveIsDay ==
  ASSUME RowsOK, NEW p \in Plans
  PROVE  EffectiveDate(p) \in Day
<1>1. plan[p] \in Plan
  BY DEF RowsOK
<1>2. plan[p].effective \in Date
  BY <1>1 DEF Plan
<1> QED
  BY <1>2, DayAssumption DEF EffectiveDate, RowsOK, Day, Date, Never

(* Closing the forum's seats only brings ends forward.                     *)
LEMMA ClosedRow ==
  ASSUME RowsOK, NEW p \in Plans, NEW s \in Seats
  PROVE  /\ Closed(p, s) \in Row
         /\ Closed(p, s).start = seat[s].start
         /\ Closed(p, s).member = seat[s].member
         /\ Closed(p, s).role = seat[s].role
         /\ Closed(p, s).end <= seat[s].end
<1>1. seat[s] \in Row
  BY DEF RowsOK
<1>2. EffectiveDate(p) \in Day
  BY EffectiveIsDay
<1>3. CASE s \in Closing(p)
  <2>1. EffectiveDate(p) <= seat[s].end
    BY <1>3 DEF Closing, MembersAsAt, OpenOn
  <2>2. EffectiveDate(p) \in Date
    BY <1>2, DayFacts
  <2> QED
    BY <1>1, <1>3, <2>1, <2>2 DEF Closed, Row
<1>4. CASE s \notin Closing(p)
  BY <1>1, <1>4, DayFacts DEF Closed, Row
<1> QED
  BY <1>3, <1>4

-----------------------------------------------------------------------------
(* What a step can do to the plans.                                        *)
RaisedRow(r, forum, d) ==
  [of |-> forum, effective |-> d, executed |-> r.executed, asked |-> Approvers,
   decision |-> [a \in Approvers |-> "Pending"], typed |-> r.typed]
TypedRow(r, form) ==
  [of |-> form.of, effective |-> form.effective, executed |-> r.executed, asked |-> form.asked,
   decision |-> r.decision, typed |-> r.typed \/ ~r.executed]
DecidedRow(r, a, d) ==
  [of |-> r.of, effective |-> r.effective, executed |-> r.executed, asked |-> r.asked,
   decision |-> [r.decision EXCEPT ![a] = d], typed |-> r.typed]
ExecutedRow(r) ==
  [of |-> r.of, effective |-> r.effective, executed |-> TRUE, asked |-> r.asked,
   decision |-> r.decision, typed |-> r.typed]

PlanRaised   == \E p \in Plans, forum \in {"this", "other"}, d \in Date :
                  /\ MayRaise(p, forum)
                  /\ plan' = [plan EXCEPT ![p] = RaisedRow(plan[p], forum, d)]
PlanTyped    == \E p \in Plans, form \in Form :
                  /\ form.asked \subseteq {a \in Approvers : plan[p].decision[a] # "Unasked"}
                  /\ plan' = [plan EXCEPT ![p] = TypedRow(plan[p], form)]
PlanDecided  == \E p \in Plans, a \in Approvers, d \in {"Approved", "Rejected"} :
                  /\ ~plan[p].executed /\ a \in Open(p)
                  /\ plan' = [plan EXCEPT ![p] = DecidedRow(plan[p], a, d)]
PlanExecuted == \E p \in Plans :
                  MayExecute(p) /\ plan' = [plan EXCEPT ![p] = ExecutedRow(plan[p])]

LEMMA DecidedFields ==
  ASSUME NEW r \in Plan, NEW u
  PROVE  [r EXCEPT !.decision = u]
           = [of |-> r.of, effective |-> r.effective, executed |-> r.executed,
              asked |-> r.asked, decision |-> u, typed |-> r.typed]
<1>1. ASSUME NEW new, new = [r EXCEPT !.decision = u]
      PROVE  new = [of |-> r.of, effective |-> r.effective, executed |-> r.executed,
                    asked |-> r.asked, decision |-> u, typed |-> r.typed]
  BY <1>1 DEF Plan
<1> QED
  BY <1>1

LEMMA ExecutedFields ==
  ASSUME NEW r \in Plan, NEW b \in BOOLEAN
  PROVE  [r EXCEPT !.executed = b]
           = [of |-> r.of, effective |-> r.effective, executed |-> b, asked |-> r.asked,
              decision |-> r.decision, typed |-> r.typed]
<1>1. ASSUME NEW new, new = [r EXCEPT !.executed = b]
      PROVE  new = [of |-> r.of, effective |-> r.effective, executed |-> b,
                    asked |-> r.asked, decision |-> r.decision, typed |-> r.typed]
  BY <1>1 DEF Plan
<1> QED
  BY <1>1

LEMMA RaiseRow ==
  ASSUME plan \in [Plans -> Plan], NEW p \in Plans, NEW f, NEW d, RaisePlan(p, f, d)
  PROVE  plan' = [plan EXCEPT ![p] = RaisedRow(plan[p], f, d)]
<1>1. plan[p] \in Plan
  OBVIOUS
<1>2. PICK u : u = [a \in Approvers |-> "Pending"]
  OBVIOUS
<1>3. PICK new : new = [plan[p] EXCEPT !.of = f, !.effective = d, !.asked = Approvers,
                                       !.decision = u]
  OBVIOUS
<1>4. new = [of |-> f, effective |-> d, executed |-> plan[p].executed, asked |-> Approvers,
             decision |-> u, typed |-> plan[p].typed]
  BY <1>1, <1>3 DEF Plan
<1>5. plan' = [plan EXCEPT ![p] = new]
  BY <1>2, <1>3 DEF RaisePlan
<1> QED
  BY <1>2, <1>4, <1>5, Zenon DEF RaisedRow

LEMMA TypeRow ==
  ASSUME plan \in [Plans -> Plan], NEW p \in Plans, NEW form, TypePlan(p, form)
  PROVE  plan' = [plan EXCEPT ![p] = TypedRow(plan[p], form)]
<1>1. plan[p] \in Plan
  OBVIOUS
<1>2. PICK b \in BOOLEAN : b = (plan[p].typed \/ ~plan[p].executed)
  OBVIOUS
<1>3. PICK new : new = [plan[p] EXCEPT !.of = form.of, !.effective = form.effective,
                                       !.asked = form.asked, !.typed = b]
  OBVIOUS
<1>4. new = [of |-> form.of, effective |-> form.effective, executed |-> plan[p].executed,
             asked |-> form.asked, decision |-> plan[p].decision, typed |-> b]
  BY <1>1, <1>3 DEF Plan
<1>5. new = TypedRow(plan[p], form)
  BY <1>2, <1>4 DEF TypedRow
<1>6. plan' = [plan EXCEPT ![p] = new]
  BY <1>2, <1>3 DEF TypePlan
<1> QED
  BY <1>5, <1>6

LEMMA DecideRow ==
  ASSUME plan \in [Plans -> Plan], NEW p \in Plans, NEW a, NEW d, Decide(p, a, d)
  PROVE  plan' = [plan EXCEPT ![p] = DecidedRow(plan[p], a, d)]
<1>1. plan[p] \in Plan
  OBVIOUS
<1>2. [plan[p] EXCEPT !.decision = [plan[p].decision EXCEPT ![a] = d]]
        = DecidedRow(plan[p], a, d)
  BY <1>1, DecidedFields, Zenon DEF DecidedRow
<1> QED
  BY <1>2, Zenon DEF Decide

LEMMA ExecuteRow ==
  ASSUME plan \in [Plans -> Plan], NEW p \in Plans, ExecuteDisbandment(p)
  PROVE  plan' = [plan EXCEPT ![p] = ExecutedRow(plan[p])]
<1>1. plan[p] \in Plan
  OBVIOUS
<1>2. [plan[p] EXCEPT !.executed = TRUE] = ExecutedRow(plan[p])
  BY <1>1, ExecutedFields, Zenon DEF ExecutedRow
<1> QED
  BY <1>2, Zenon DEF ExecuteDisbandment

LEMMA PlanStep ==
  ASSUME RowsOK, [Next]_vars
  PROVE  plan' = plan \/ PlanRaised \/ PlanTyped \/ PlanDecided \/ PlanExecuted
<1>0. plan \in [Plans -> Plan]
  BY DEF RowsOK
<1>1. ASSUME NEW p \in Plans, NEW f \in {"this", "other"}, NEW d \in PlanDates, RaisePlan(p, f, d)
      PROVE  PlanRaised
  <2>1. d \in Date /\ MayRaise(p, f)
    BY <1>1, FormAssumption DEF RaisePlan
  <2> QED
    BY <1>0, <1>1, <2>1, RaiseRow DEF PlanRaised
<1>2. ASSUME NEW p \in Plans, NEW form \in Forms, TypePlan(p, form)
      PROVE  PlanTyped
  <2>1. form \in Form /\ form.asked \subseteq {a \in Approvers : plan[p].decision[a] # "Unasked"}
    BY <1>2, FormAssumption DEF TypePlan
  <2> QED
    BY <1>0, <1>2, <2>1, TypeRow DEF PlanTyped
<1>3. ASSUME NEW p \in Plans, NEW a \in Approvers, NEW d \in {"Approved", "Rejected"},
             Decide(p, a, d)
      PROVE  PlanDecided
  <2>1. ~plan[p].executed /\ a \in Open(p)
    BY <1>3 DEF Decide
  <2> QED
    BY <1>0, <1>3, <2>1, DecideRow DEF PlanDecided
<1>4. ASSUME NEW p \in Plans, ExecuteDisbandment(p)
      PROVE  PlanExecuted
  <2>1. MayExecute(p)
    BY <1>4 DEF ExecuteDisbandment
  <2> QED
    BY <1>0, <1>4, <2>1, ExecuteRow DEF PlanExecuted
<1> QED
  BY <1>1, <1>2, <1>3, <1>4, FormAssumption
  DEF Next, vars, NextDay, SaveSeat, MoveSeat, Reactivate

-----------------------------------------------------------------------------
(* Types.                                                                  *)
LEMMA UnusedRow == Unused \in Row
BY RoleAssumption, DayFacts DEF Unused, Row, Holder

LEMMA RowsInit == Init => RowsOK
<1> SUFFICES ASSUME Init PROVE RowsOK
  OBVIOUS
<1>2. \A p \in Plans : plan[p] \in Plan
  BY DayFacts DEF Init, Plan
<1> QED
  BY UnusedRow, <1>2, DayFacts DEF Init, RowsOK

LEMMA RowsStep == RowsOK /\ [Next]_vars => RowsOK'
<1> SUFFICES ASSUME RowsOK, [Next]_vars PROVE RowsOK'
  OBVIOUS
<1>1. seat' \in [Seats -> Row]
  <2>1. CASE seat' = seat
    BY <2>1 DEF RowsOK
  <2>2. CASE SeatSaved
    BY <2>2 DEF SeatSaved, RowsOK, SeatRow
  <2>4. CASE SeatMoved
    BY <2>4, UnusedRow DEF SeatMoved, RowsOK
  <2>3. CASE SeatsClosed
    BY <2>3, ClosedRow DEF SeatsClosed
  <2> QED
    BY <2>1, <2>2, <2>3, <2>4, SeatStep
<1>2. today' \in Day /\ active' \in BOOLEAN
  <2>1. CASE NextDay
    BY <2>1, DayAssumption DEF NextDay, RowsOK, Day
  <2>2. CASE Reactivate
    BY <2>2 DEF Reactivate, RowsOK
  <2>3. ASSUME NEW p \in Plans, ExecuteDisbandment(p)
        PROVE  today' \in Day /\ active' \in BOOLEAN
    BY <2>3 DEF ExecuteDisbandment, RowsOK
  <2>4. CASE UNCHANGED <<today, active>>
    BY <2>4 DEF RowsOK
  <2> QED
    BY <2>1, <2>2, <2>3, <2>4, Zenon
    DEF Next, vars, SaveSeat, MoveSeat, RaisePlan, TypePlan, Decide
<1>4. stale' \in BOOLEAN
  <2>1. ASSUME NEW p \in Plans, ExecuteDisbandment(p)
        PROVE  stale' \in BOOLEAN
    BY <2>1 DEF ExecuteDisbandment
  <2>2. CASE UNCHANGED stale
    BY <2>2 DEF RowsOK
  <2>3. ASSUME NEW p \in Typable, NEW form \in Forms, TypePlan(p, form)
        PROVE  stale' \in BOOLEAN
    BY <2>3 DEF TypePlan, RowsOK
  <2> QED
    BY <2>1, <2>2, <2>3
    DEF Next, vars, NextDay, SaveSeat, MoveSeat, RaisePlan, Decide, Reactivate
<1>3. plan' \in [Plans -> Plan]
  <2>1. CASE plan' = plan
    BY <2>1 DEF RowsOK
  <2>2. CASE PlanRaised
    <3>1. PICK p \in Plans, forum \in {"this", "other"}, d \in Date :
            plan' = [plan EXCEPT ![p] = RaisedRow(plan[p], forum, d)]
      BY <2>2 DEF PlanRaised
    <3>2. RaisedRow(plan[p], forum, d) \in Plan
      BY DEF RowsOK, Plan, RaisedRow
    <3> QED
      BY <3>1, <3>2 DEF RowsOK
  <2>3. CASE PlanTyped
    <3>1. PICK p \in Plans, form \in Form :
            plan' = [plan EXCEPT ![p] = TypedRow(plan[p], form)]
      BY <2>3 DEF PlanTyped
    <3>2. TypedRow(plan[p], form) \in Plan
      BY DEF RowsOK, Plan, Form, TypedRow
    <3> QED
      BY <3>1, <3>2 DEF RowsOK
  <2>4. CASE PlanDecided
    <3>1. PICK p \in Plans, a \in Approvers, d \in {"Approved", "Rejected"} :
            plan' = [plan EXCEPT ![p] = DecidedRow(plan[p], a, d)]
      BY <2>4 DEF PlanDecided
    <3>2. DecidedRow(plan[p], a, d) \in Plan
      <4>1. plan[p].decision \in [Approvers -> {"Unasked", "Pending", "Approved", "Rejected"}]
        BY DEF RowsOK, Plan
      <4>2. [plan[p].decision EXCEPT ![a] = d]
              \in [Approvers -> {"Unasked", "Pending", "Approved", "Rejected"}]
        BY <4>1
      <4> QED
        BY <4>2 DEF RowsOK, Plan, DecidedRow
    <3> QED
      BY <3>1, <3>2 DEF RowsOK
  <2>5. CASE PlanExecuted
    <3>1. PICK p \in Plans : plan' = [plan EXCEPT ![p] = ExecutedRow(plan[p])]
      BY <2>5 DEF PlanExecuted
    <3>2. ExecutedRow(plan[p]) \in Plan
      BY DEF RowsOK, Plan, ExecutedRow
    <3> QED
      BY <3>1, <3>2 DEF RowsOK
  <2> QED
    BY <2>1, <2>2, <2>3, <2>4, <2>5, PlanStep
<1> QED
  BY <1>1, <1>2, <1>3, <1>4 DEF RowsOK

-----------------------------------------------------------------------------
(* One chair, and one seat a person, on every day: a saved seat was tested *)
(* against every seat it shares a day with, and closing shortens seats.    *)
Apart(c, s, t) == /\ ~(c[s].role \in ChairRoles /\ c[t].role \in ChairRoles)
                  /\ c[s].member # Vacant => c[s].member # c[t].member

LEMMA SavedApart ==
  ASSUME RowsOK, NEW s \in Seats, NEW row \in SeatRow, MaySaveSeat(s, row),
         NEW d \in Day, NEW t \in MembersAsAt(seat, d), t # s, OpenOn(row, d)
  PROVE  /\ ~(row.role \in ChairRoles /\ seat[t].role \in ChairRoles)
         /\ row.member # Vacant => row.member # seat[t].member
<1>1. t \in Seats /\ InUse(seat, t) /\ OpenOn(seat[t], d)
  BY DEF MembersAsAt
<1>2. seat[t] \in Row /\ row \in Row
  BY <1>1 DEF RowsOK, SeatRow
<1>3. /\ row.start \in Nat /\ row.end \in Nat /\ d \in Nat
      /\ seat[t].start \in Nat /\ seat[t].end \in Nat
  BY <1>2, DayFacts DEF Row
<1>4. Overlap(row, seat[t])
  BY <1>1, <1>3 DEF OpenOn, Overlap
<1>5. t \in Overlapping(s, row)
  BY <1>1, <1>4 DEF Overlapping
<1> QED
  BY <1>5 DEF MaySaveSeat

LEMMA OneChairStep == RowsOK /\ OneChairAtATime /\ [Next]_vars => OneChairAtATime'
<1> SUFFICES ASSUME RowsOK, OneChairAtATime, [Next]_vars PROVE OneChairAtATime'
  OBVIOUS
<1> SUFFICES ASSUME NEW d \in Day,
                    NEW a \in MembersAsAt(seat', d), NEW b \in MembersAsAt(seat', d), a # b
             PROVE  Apart(seat', a, b)
  BY DEF OneChairAtATime, Apart
<1>0. a \in Seats /\ b \in Seats
  BY DEF MembersAsAt
<1>1. CASE seat' = seat
  BY <1>1 DEF OneChairAtATime, Apart
<1>2. CASE SeatSaved
  <2>1. PICK s \in Seats, row \in SeatRow : /\ MaySaveSeat(s, row)
                                            /\ seat' = [seat EXCEPT ![s] = row]
    BY <1>2 DEF SeatSaved
  <2>2. \A t \in Seats : seat'[t] = IF t = s THEN row ELSE seat[t]
    BY <2>1 DEF RowsOK
  <2>3. \A t \in MembersAsAt(seat', d) :
          IF t = s THEN OpenOn(row, d) ELSE t \in MembersAsAt(seat, d)
    BY <2>2 DEF MembersAsAt, InUse
  <2>4. CASE a = s
    <3>1. /\ ~(row.role \in ChairRoles /\ seat[b].role \in ChairRoles)
          /\ row.member # Vacant => row.member # seat[b].member
      BY <2>1, <2>3, <2>4, SavedApart
    <3> QED
      BY <1>0, <2>2, <2>4, <3>1 DEF Apart
  <2>5. CASE b = s
    <3>1. /\ ~(row.role \in ChairRoles /\ seat[a].role \in ChairRoles)
          /\ row.member # Vacant => row.member # seat[a].member
      BY <2>1, <2>3, <2>5, SavedApart
    <3> QED
      BY <1>0, <2>2, <2>5, <3>1 DEF Apart
  <2>6. CASE a # s /\ b # s
    <3>1. a \in MembersAsAt(seat, d) /\ b \in MembersAsAt(seat, d)
      BY <2>3, <2>6
    <3> QED
      BY <1>0, <2>2, <2>6, <3>1 DEF OneChairAtATime, Apart
  <2> QED
    BY <2>4, <2>5, <2>6
<1>4. CASE SeatMoved
  <2>1. PICK s \in Seats : seat' = [seat EXCEPT ![s] = Unused]
    BY <1>4 DEF SeatMoved
  <2>2. Unused.start = Never
    BY DEF Unused
  <2>3. ASSUME NEW t \in MembersAsAt(seat', d)
        PROVE  t \in MembersAsAt(seat, d) /\ seat'[t] = seat[t]
    <3>1. t \in Seats /\ seat'[t].start # Never
      BY <2>3 DEF MembersAsAt, InUse
    <3>2. t # s
      BY <2>1, <2>2, <3>1 DEF RowsOK
    <3>3. seat'[t] = seat[t]
      BY <2>1, <3>1, <3>2 DEF RowsOK
    <3> QED
      BY <2>3, <3>3 DEF MembersAsAt, InUse
  <2> QED
    BY <2>3 DEF OneChairAtATime, Apart
<1>3. CASE SeatsClosed
  <2>1. PICK p \in Plans : seat' = [s \in Seats |-> Closed(p, s)]
    BY <1>3 DEF SeatsClosed
  <2>2. ASSUME NEW t \in MembersAsAt(seat', d)
        PROVE  /\ t \in MembersAsAt(seat, d)
               /\ seat'[t].role = seat[t].role /\ seat'[t].member = seat[t].member
    <3>1. t \in Seats /\ seat'[t] = Closed(p, t)
      BY <2>1, <2>2 DEF MembersAsAt
    <3>2. /\ Closed(p, t).start = seat[t].start /\ Closed(p, t).end <= seat[t].end
          /\ Closed(p, t).role = seat[t].role /\ Closed(p, t).member = seat[t].member
      BY <3>1, ClosedRow
    <3>3. InUse(seat', t) /\ OpenOn(seat'[t], d)
      BY <2>2 DEF MembersAsAt
    <3>4. Closed(p, t).end \in Nat /\ seat[t].end \in Nat /\ d \in Nat
      BY <3>1, ClosedRow, DayFacts DEF RowsOK, Row
    <3>5. InUse(seat, t) /\ OpenOn(seat[t], d)
      BY <3>1, <3>2, <3>3, <3>4 DEF InUse, OpenOn
    <3> QED
      BY <3>1, <3>2, <3>5 DEF MembersAsAt
  <2> QED
    BY <2>2 DEF OneChairAtATime, Apart
<1> QED
  BY <1>1, <1>2, <1>3, <1>4, SeatStep

-----------------------------------------------------------------------------
(* The plans.                                                              *)
LEMMA AskStep == RowsOK /\ PlansAsk /\ [Next]_vars => PlansAsk'
<1> SUFFICES ASSUME RowsOK, PlansAsk, [Next]_vars PROVE PlansAsk'
  OBVIOUS
<1> DEFINE Asks(r) == /\ r.of = "none" => ~r.executed
                      /\ \A a \in r.asked : r.decision[a] # "Unasked"
                      /\ r.of # "none" /\ ~r.executed /\ ~r.typed => r.asked = Approvers
<1>0. \A p \in Plans : plan[p] \in Plan /\ Asks(plan[p])
  BY DEF RowsOK, PlansAsk
<1> SUFFICES \A p \in Plans : Asks(plan'[p])
  BY DEF PlansAsk
<1>1. CASE plan' = plan
  BY <1>0, <1>1
<1>2. CASE PlanRaised
  <2>1. PICK p \in Plans, f \in {"this", "other"}, d \in Date :
          MayRaise(p, f) /\ plan' = [plan EXCEPT ![p] = RaisedRow(plan[p], f, d)]
    BY <1>2 DEF PlanRaised
  <2>2. Asks(RaisedRow(plan[p], f, d))
    BY <1>0, <2>1 DEF MayRaise, RaisedRow
  <2> QED
    BY <1>0, <2>1, <2>2 DEF RowsOK
<1>3. CASE PlanTyped
  <2>1. PICK p \in Plans, form \in Form :
          /\ form.asked \subseteq {a \in Approvers : plan[p].decision[a] # "Unasked"}
          /\ plan' = [plan EXCEPT ![p] = TypedRow(plan[p], form)]
    BY <1>3 DEF PlanTyped
  <2>2. Asks(TypedRow(plan[p], form))
    BY <1>0, <2>1 DEF TypedRow, Form
  <2> QED
    BY <1>0, <2>1, <2>2 DEF RowsOK
<1>4. CASE PlanDecided
  <2>1. PICK p \in Plans, a \in Approvers, d \in {"Approved", "Rejected"} :
          ~plan[p].executed /\ plan' = [plan EXCEPT ![p] = DecidedRow(plan[p], a, d)]
    BY <1>4 DEF PlanDecided
  <2>2. \A b \in Approvers :
          plan[p].decision[b] # "Unasked" => [plan[p].decision EXCEPT ![a] = d][b] # "Unasked"
    BY <1>0 DEF Plan
  <2>3. plan[p].asked \subseteq Approvers
    BY <1>0 DEF Plan
  <2>4. Asks(DecidedRow(plan[p], a, d))
    BY <1>0, <2>2, <2>3 DEF DecidedRow
  <2> QED
    BY <1>0, <2>1, <2>4 DEF RowsOK
<1>5. CASE PlanExecuted
  <2>1. PICK p \in Plans : MayExecute(p) /\ plan' = [plan EXCEPT ![p] = ExecutedRow(plan[p])]
    BY <1>5 DEF PlanExecuted
  <2>2. Asks(ExecutedRow(plan[p]))
    BY <1>0, <2>1 DEF MayExecute, ExecutedRow
  <2> QED
    BY <1>0, <2>1, <2>2 DEF RowsOK
<1> QED
  BY <1>1, <1>2, <1>3, <1>4, <1>5, PlanStep

(* No decision is taken back, an executed plan takes none, and a plan is   *)
(* executed only when whoever it asks has approved it.                     *)
LEMMA ConsentStep ==
  RowsOK /\ PlansAsk /\ DisbandedByConsent /\ [Next]_vars => DisbandedByConsent'
<1> SUFFICES ASSUME RowsOK, PlansAsk, DisbandedByConsent, [Next]_vars PROVE DisbandedByConsent'
  OBVIOUS
<1> DEFINE Consent(r) == r.executed => /\ \E a \in Approvers : r.decision[a] = "Approved"
                                       /\ ~r.typed => \A a \in Approvers : r.decision[a] = "Approved"
<1>0. \A p \in Plans : plan[p] \in Plan /\ Consent(plan[p])
  BY DEF RowsOK, DisbandedByConsent
<1> SUFFICES \A p \in Plans : Consent(plan'[p])
  BY DEF DisbandedByConsent
<1>1. CASE plan' = plan
  BY <1>0, <1>1
<1>2. CASE PlanRaised
  <2>1. PICK p \in Plans, f \in {"this", "other"}, d \in Date :
          MayRaise(p, f) /\ plan' = [plan EXCEPT ![p] = RaisedRow(plan[p], f, d)]
    BY <1>2 DEF PlanRaised
  <2>2. ~RaisedRow(plan[p], f, d).executed
    BY <2>1 DEF MayRaise, RaisedRow, PlansAsk
  <2> QED
    BY <1>0, <2>1, <2>2 DEF RowsOK
<1>3. CASE PlanTyped
  <2>1. PICK p \in Plans, form \in Form : plan' = [plan EXCEPT ![p] = TypedRow(plan[p], form)]
    BY <1>3 DEF PlanTyped
  <2>2. Consent(TypedRow(plan[p], form))
    BY <1>0 DEF TypedRow, Plan
  <2> QED
    BY <1>0, <2>1, <2>2 DEF RowsOK
<1>4. CASE PlanDecided
  <2>1. PICK p \in Plans, a \in Approvers, d \in {"Approved", "Rejected"} :
          ~plan[p].executed /\ plan' = [plan EXCEPT ![p] = DecidedRow(plan[p], a, d)]
    BY <1>4 DEF PlanDecided
  <2>2. Consent(DecidedRow(plan[p], a, d))
    BY <2>1 DEF DecidedRow
  <2> QED
    BY <1>0, <2>1, <2>2 DEF RowsOK
<1>5. CASE PlanExecuted
  <2>1. PICK p \in Plans : MayExecute(p) /\ plan' = [plan EXCEPT ![p] = ExecutedRow(plan[p])]
    BY <1>5 DEF PlanExecuted
  <2>2. plan[p].asked \subseteq Approvers /\ plan[p].asked # {}
    BY <1>0, <2>1 DEF MayExecute, Outstanding, Plan
  <2>3. ASSUME NEW a \in plan[p].asked
        PROVE  plan[p].decision[a] = "Approved"
    <3>1. plan[p].decision[a] \in {"Unasked", "Pending", "Approved", "Rejected"}
      BY <1>0, <2>2 DEF Plan
    <3>2. plan[p].decision[a] # "Unasked"
      BY DEF PlansAsk
    <3>3. a \notin Open(p) /\ a \notin Refused(p)
      BY <2>1 DEF MayExecute, Outstanding
    <3> QED
      BY <2>2, <3>1, <3>2, <3>3 DEF Open, Refused
  <2>4. ~plan[p].typed => plan[p].asked = Approvers
    BY <2>1 DEF PlansAsk, MayExecute
  <2>5. Consent(ExecutedRow(plan[p]))
    BY <2>2, <2>3, <2>4 DEF ExecutedRow
  <2> QED
    BY <1>0, <2>1, <2>5 DEF RowsOK
<1> QED
  BY <1>1, <1>2, <1>3, <1>4, <1>5, PlanStep

(* A plan is raised only when none is live, a refusal is never taken back, *)
(* and what the form revives is marked.                                    *)
LEMMA OnePlanStep == RowsOK /\ OnePlanInPlay /\ [Next]_vars => OnePlanInPlay'
<1> SUFFICES ASSUME RowsOK, OnePlanInPlay, [Next]_vars PROVE OnePlanInPlay'
  OBVIOUS
<1> DEFINE Live(r) == /\ r.of = "this" /\ ~r.executed /\ ~r.typed
                      /\ \A a \in r.asked : r.decision[a] # "Rejected"
<1>0. \A p \in Plans : plan[p] \in Plan
  BY DEF RowsOK
<1>a. /\ \A p \in Plans : IsLive(p) /\ ~plan[p].typed <=> Live(plan[p])
      /\ \A p \in Plans : IsLive(p)' /\ ~plan'[p].typed <=> Live(plan'[p])
  BY DEF IsLive, Refused
<1>b. \A p, q \in Plans : Live(plan[p]) /\ Live(plan[q]) => p = q
  BY <1>a DEF OnePlanInPlay
<1> SUFFICES \A p, q \in Plans : Live(plan'[p]) /\ Live(plan'[q]) => p = q
  BY <1>a DEF OnePlanInPlay
<1>c. ASSUME \A q \in Plans : Live(plan'[q]) => Live(plan[q])
      PROVE  \A p, q \in Plans : Live(plan'[p]) /\ Live(plan'[q]) => p = q
  BY <1>b, <1>c
<1>1. CASE plan' = plan
  BY <1>c, <1>1
<1>2. CASE PlanRaised
  <2>1. PICK p \in Plans, f \in {"this", "other"}, d \in Date :
          MayRaise(p, f) /\ plan' = [plan EXCEPT ![p] = RaisedRow(plan[p], f, d)]
    BY <1>2 DEF PlanRaised
  <2>2. \A q \in Plans : q # p => plan'[q] = plan[q]
    BY <2>1 DEF RowsOK
  <2>3. CASE f = "this"
    <3>1. \A q \in Plans : ~Live(plan[q])
      BY <1>a, <2>1, <2>3 DEF MayRaise
    <3> QED
      BY <2>2, <3>1
  <2>4. CASE f = "other"
    <3>1. plan'[p].of = "other"
      BY <2>1, <2>4 DEF RaisedRow, RowsOK
    <3> QED
      BY <1>c, <2>2, <3>1
  <2> QED
    BY <2>3, <2>4
<1>3. CASE PlanTyped
  <2>1. PICK p \in Plans, form \in Form : plan' = [plan EXCEPT ![p] = TypedRow(plan[p], form)]
    BY <1>3 DEF PlanTyped
  <2>2. \A q \in Plans : q # p => plan'[q] = plan[q]
    BY <2>1 DEF RowsOK
  <2>3. ~Live(plan'[p])
    <3>1. plan'[p] = TypedRow(plan[p], form)
      BY <2>1 DEF RowsOK
    <3>2. TypedRow(plan[p], form).executed \/ TypedRow(plan[p], form).typed
      <4>1. CASE plan[p].executed
        BY <4>1, Zenon DEF TypedRow
      <4>2. CASE ~plan[p].executed
        BY <4>2, Zenon DEF TypedRow
      <4> QED
        BY <4>1, <4>2
    <3> QED
      BY <3>1, <3>2, Zenon
  <2> QED
    BY <1>c, <2>2, <2>3
<1>4. CASE PlanDecided
  <2>1. PICK p \in Plans, a \in Approvers, d \in {"Approved", "Rejected"} :
          a \in Open(p) /\ plan' = [plan EXCEPT ![p] = DecidedRow(plan[p], a, d)]
    BY <1>4 DEF PlanDecided
  <2>2. \A q \in Plans : q # p => plan'[q] = plan[q]
    BY <2>1 DEF RowsOK
  <2>3. plan'[p] = DecidedRow(plan[p], a, d) /\ plan[p].decision[a] = "Pending"
    BY <2>1 DEF RowsOK, Open
  <2>4. \A b \in Approvers :
          plan[p].decision[b] = "Rejected" => [plan[p].decision EXCEPT ![a] = d][b] = "Rejected"
    BY <1>0, <2>3 DEF Plan
  <2>5. plan[p].asked \subseteq Approvers
    BY <1>0 DEF Plan
  <2>6. Live(plan'[p]) => Live(plan[p])
    BY <2>3, <2>4, <2>5 DEF DecidedRow
  <2> QED
    BY <1>c, <2>2, <2>6
<1>5. CASE PlanExecuted
  <2>1. PICK p \in Plans : plan' = [plan EXCEPT ![p] = ExecutedRow(plan[p])]
    BY <1>5 DEF PlanExecuted
  <2>2. \A q \in Plans : q # p => plan'[q] = plan[q]
    BY <2>1 DEF RowsOK
  <2>3. plan'[p].executed
    BY <2>1 DEF ExecutedRow, RowsOK
  <2> QED
    BY <1>c, <2>2, <2>3
<1> QED
  BY <1>1, <1>2, <1>3, <1>4, <1>5, PlanStep

-----------------------------------------------------------------------------
LEMMA IInvInit == Init => IInv
<1> SUFFICES ASSUME Init PROVE IInv
  OBVIOUS
<1>1. \A d \in Day : MembersAsAt(seat, d) = {}
  BY DEF Init, Unused, MembersAsAt, InUse
<1>2. \A p \in Plans : plan[p].of = "none" /\ ~plan[p].executed /\ plan[p].asked = {}
  BY DEF Init
<1> QED
  BY <1>1, <1>2, RowsInit
     DEF IInv, PlansAsk, OneChairAtATime, DisbandedByConsent, OnePlanInPlay, IsLive

(* IInv is an invariant: each conjunct is inductive beside the types.      *)
THEOREM Invariant == Spec => []IInv
<1>1. IInv /\ [Next]_vars => IInv'
  BY RowsStep, OneChairStep, AskStep, ConsentStep, OnePlanStep DEF IInv
<1> QED
  BY <1>1, IInvInit, PTL DEF Spec

(* ForumMembership.validate and close_seat: however seats are saved and    *)
(* closed, no day ever has two chairs or one person in two seats.          *)
THEOREM OneChair == Spec => []OneChairAtATime
<1>1. IInv => OneChairAtATime
  BY DEF IInv
<1> QED
  BY <1>1, Invariant, PTL

(* execute_disbandment: a plan that was executed was approved by somebody  *)
(* whatever its form was used for, and by everyone the page asks when it   *)
(* was not used before, for any approvers and plans.                       *)
THEOREM ByConsent == Spec => []DisbandedByConsent
<1>1. IInv => DisbandedByConsent
  BY DEF IInv
<1> QED
  BY <1>1, Invariant, PTL

(* raise_disbandment: of two plans in play the form wrote one.             *)
THEOREM OneLivePlan == Spec => []OnePlanInPlay
<1>1. IInv => OnePlanInPlay
  BY DEF IInv
<1> QED
  BY <1>1, Invariant, PTL

-----------------------------------------------------------------------------
(* The officer fields: sync_officers writes what derive_officers returns   *)
(* for today, and that is somebody only because some seat comes first.     *)
LEMMA LeastNatural ==
  ASSUME NEW T \in SUBSET Nat, T # {}
  PROVE  \E x \in T : \A y \in T : x <= y
<1>1. PICK x \in T : \A y \in T : ~(<<y, x>> \in OpToRel(<, Nat))
  BY NatLessThanWellFounded, WFMin
<1>2. \A y \in T : ~(y < x)
  BY <1>1 DEF OpToRel
<1> QED
  BY <1>2

LEMMA FirstSeat ==
  ASSUME NEW c \in [Seats -> Row], NEW S \in SUBSET Seats, S # {}
  PROVE  \E s \in S : \A t \in S : Before(c, s, t)
<1>1. \A s \in S : s \in Nat /\ c[s].start \in Nat
  BY SeatAssumption, DayFacts DEF Row
<1> DEFINE T == {c[s].start : s \in S}
<1>2. PICK n \in T : \A m \in T : n <= m
  <2>1. T \in SUBSET Nat /\ T # {}
    BY <1>1
  <2> HIDE DEF T
  <2> QED
    BY <2>1, LeastNatural
<1> DEFINE E == {s \in S : c[s].start = n}
<1>3. PICK s \in E : \A t \in E : s <= t
  <2>1. E \in SUBSET Nat /\ E # {}
    BY <1>1, <1>2
  <2> HIDE DEF E
  <2> QED
    BY <2>1, LeastNatural
<1>4. ASSUME NEW t \in S PROVE Before(c, s, t)
  <2>1. n <= c[t].start /\ n \in Nat /\ c[t].start \in Nat /\ c[s].start = n
    BY <1>1, <1>2, <1>3
  <2>2. c[t].start = n => s <= t
    BY <1>3
  <2> QED
    BY <2>1, <2>2 DEF Before
<1> QED
  BY <1>3, <1>4

LEMMA DerivedHolder ==
  ASSUME NEW c \in [Seats -> Row], NEW d, NEW f
  PROVE  Derived(c, d, f) \in Holder
<1> DEFINE filled == Fills(c, d, f)
           s == CHOOSE s \in filled : \A t \in filled : Before(c, s, t)
<1>1. filled \subseteq Seats
  BY DEF Fills, MembersAsAt
<1>2. CASE filled = {}
  BY <1>2 DEF Derived, Holder
<1>3. CASE filled # {}
  <2> HIDE DEF filled
  <2>1. s \in Seats
    BY <1>1, <1>3, FirstSeat
  <2>2. c[s].member \in Holder
    BY <2>1 DEF Row
  <2> QED
    BY <1>3, <2>2 DEF Derived, filled
<1> QED
  BY <1>2, <1>3

Derivable == officer \in [Officers -> Holder] /\ OfficersWereRight

LEMMA OfficersInit == RowsOK /\ Init => Derivable
<1> SUFFICES ASSUME RowsOK, Init PROVE Derivable
  OBVIOUS
<1>1. \A f \in Officers : Fills(seat, 0, f) = {}
  BY DEF Init, Unused, Fills, MembersAsAt, InUse
<1>2. \A f \in Officers : officer[f] = Derived(seat, 0, f)
  BY <1>1 DEF Init, Derived
<1>3. 0 \in 0..today
  BY DEF Init
<1> QED
  BY <1>2, <1>3 DEF Derivable, OfficersWereRight, Init, Holder

LEMMA OfficersStep == RowsOK /\ Derivable /\ [Next]_vars => Derivable'
<1> SUFFICES ASSUME RowsOK, Derivable, [Next]_vars PROVE Derivable'
  OBVIOUS
<1>0. today \in Nat
  BY DayAssumption DEF RowsOK, Day
<1>1. ASSUME officer' = Synced(seat'), today' = today PROVE Derivable'
  <2>1. seat' \in [Seats -> Row]
    BY RowsStep DEF RowsOK
  <2>2. \A f \in Officers : officer'[f] = Derived(seat', today, f)
    BY <1>1 DEF Synced
  <2>3. officer' \in [Officers -> Holder]
    BY <1>1, <2>1, DerivedHolder DEF Synced
  <2>4. today \in 0..today'
    BY <1>0, <1>1
  <2>5. OfficersWereRight'
    BY <2>2, <2>4 DEF OfficersWereRight
  <2> QED
    BY <2>3, <2>5 DEF Derivable
<1>2. ASSUME seat' = seat, officer' = officer, today' = today, stale' = stale PROVE Derivable'
  BY <1>2 DEF Derivable, OfficersWereRight
<1>3. CASE NextDay
  <2>1. seat' = seat /\ officer' = officer /\ stale' = stale /\ today' = today + 1
    BY <1>3 DEF NextDay
  <2>2. \A d \in 0..today : d \in 0..today'
    BY <1>0, <2>1
  <2> QED
    BY <2>1, <2>2 DEF Derivable, OfficersWereRight
<1>4. ASSUME NEW s \in Seats, NEW row \in SeatForms, SaveSeat(s, row) PROVE Derivable'
  BY <1>1, <1>4 DEF SaveSeat
<1>6. ASSUME NEW s \in Seats, MoveSeat(s) PROVE Derivable'
  BY <1>6 DEF MoveSeat, Derivable, OfficersWereRight
<1>5. ASSUME NEW p \in Plans, ExecuteDisbandment(p) PROVE Derivable'
  <2>1. CASE Closing(p) = {}
    <3>1. seat' = seat /\ stale' = stale
      BY <1>5, <2>1 DEF ExecuteDisbandment, Closed, RowsOK
    <3> QED
      BY <1>2, <1>5, <2>1, <3>1 DEF ExecuteDisbandment
  <2>2. CASE Closing(p) # {}
    BY <1>1, <1>5, <2>2 DEF ExecuteDisbandment
  <2> QED
    BY <2>1, <2>2
<1> QED
  BY <1>2, <1>3, <1>4, <1>5, <1>6 DEF Next, vars, RaisePlan, TypePlan, Decide, Reactivate

(* The types: what sync_officers stores is always a person or nobody.      *)
THEOREM TypeCorrect == Spec => []TypeOK
<1>1. RowsOK /\ Derivable => TypeOK
  BY DEF RowsOK, Derivable, TypeOK
<1> QED
  BY <1>1, RowsInit, RowsStep, OfficersInit, OfficersStep, PTL DEF Spec

(* sync_officers: whatever is opened, edited or swept away, the officers   *)
(* stored were those of the seats as they are now, on one day so far; the  *)
(* next save of a seat repairs them after one has left for another forum.  *)
THEOREM OfficersRight == Spec => []OfficersWereRight
<1>1. Derivable => OfficersWereRight
  BY DEF Derivable
<1> QED
  BY <1>1, RowsInit, RowsStep, OfficersInit, OfficersStep, PTL DEF Spec

-----------------------------------------------------------------------------
(* What the execution of a plan does to the seats.                         *)
LEMMA Execution ==
  ASSUME RowsOK, [Next]_vars, NEW p \in Plans, ~plan[p].executed, plan'[p].executed
  PROVE  ExecuteDisbandment(p)
<1>0. \A q \in Plans : plan[q] \in Plan
  BY DEF RowsOK
<1>1. ASSUME NEW q \in Plans, NEW f \in {"this", "other"}, NEW d \in PlanDates,
             RaisePlan(q, f, d)
      PROVE  FALSE
  <2>1. plan'[p].executed = plan[p].executed
    BY <1>0, <1>1, RaiseRow DEF RowsOK, RaisedRow
  <2> QED
    BY <2>1
<1>2. ASSUME NEW q \in Plans, NEW form \in Forms, TypePlan(q, form)
      PROVE  FALSE
  <2>1. plan'[p].executed = plan[p].executed
    BY <1>0, <1>2, TypeRow DEF RowsOK, TypedRow
  <2> QED
    BY <2>1
<1>3. ASSUME NEW q \in Plans, NEW a \in Approvers, NEW d \in {"Approved", "Rejected"},
             Decide(q, a, d)
      PROVE  FALSE
  <2>1. plan'[p].executed = plan[p].executed
    BY <1>0, <1>3, DecideRow DEF RowsOK, DecidedRow
  <2> QED
    BY <2>1
<1>4. ASSUME NEW q \in Plans, ExecuteDisbandment(q), q # p PROVE FALSE
  <2>1. plan'[p] = plan[p]
    BY <1>4 DEF ExecuteDisbandment, RowsOK
  <2> QED
    BY <2>1
<1>5. plan' # plan
  OBVIOUS
<1> QED
  BY <1>1, <1>2, <1>3, <1>4, <1>5, FormAssumption
  DEF Next, vars, NextDay, SaveSeat, MoveSeat, Reactivate

LEMMA SweptSeat ==
  ASSUME RowsOK, NEW p \in Plans, ExecuteDisbandment(p), NEW s \in Seats
  PROVE  /\ seat'[s].start = seat[s].start
         /\ s \in Closing(p) => seat'[s].end = EffectiveDate(p)
         /\ s \notin Closing(p) => seat'[s].end = seat[s].end
<1>1. seat'[s] = Closed(p, s)
  BY DEF ExecuteDisbandment
<1>2. seat[s] \in Row
  BY DEF RowsOK
<1>3. s \in Closing(p) => Closed(p, s).end = EffectiveDate(p)
  BY <1>2 DEF Closed, Row
<1>4. s \notin Closing(p) => Closed(p, s).end = seat[s].end
  BY DEF Closed
<1> QED
  BY <1>1, <1>3, <1>4, ClosedRow

(* execute_disbandment: who sat on a day up to the effective date is what  *)
(* it was, for whatever seats and dates.                                   *)
THEOREM HistoryKept == Spec => DisbandmentKeepsHistory
<1>1. ASSUME IInv, [Next]_vars, NEW p \in Plans, ~plan[p].executed, plan'[p].executed,
             NEW d \in 0..EffectiveDate(p)
      PROVE  MembersAsAt(seat', d) = MembersAsAt(seat, d)
  <2>1. RowsOK /\ ExecuteDisbandment(p)
    BY <1>1, Execution DEF IInv
  <2>2. EffectiveDate(p) \in Nat /\ d \in Nat /\ d <= EffectiveDate(p)
    <3>1. EffectiveDate(p) \in Day
      BY <2>1, EffectiveIsDay
    <3>2. EffectiveDate(p) \in Nat
      BY <3>1, DayFacts
    <3>3. d \in 0..EffectiveDate(p)
      BY <1>1
    <3> QED
      BY <3>2, <3>3
  <2>3. ASSUME NEW s \in Seats
        PROVE  OpenOn(seat'[s], d) <=> OpenOn(seat[s], d)
    <3>1. CASE s \in Closing(p)
      <4>1. EffectiveDate(p) <= seat[s].end
        BY <3>1 DEF Closing, MembersAsAt, OpenOn
      <4>2. seat[s].end \in Nat
        BY <2>1, DayFacts DEF RowsOK, Row
      <4>3. d <= seat[s].end /\ d <= seat'[s].end
        BY <2>1, <2>2, <3>1, <4>1, <4>2, SweptSeat
      <4> QED
        BY <2>1, <4>3, SweptSeat DEF OpenOn
    <3>2. CASE s \notin Closing(p)
      BY <2>1, <3>2, SweptSeat DEF OpenOn
    <3> QED
      BY <3>1, <3>2
  <2> QED
    BY <2>1, <2>3, SweptSeat DEF MembersAsAt, InUse
<1>2. IInv /\ [Next]_vars =>
        [\A p \in Plans :
           (~plan[p].executed /\ plan'[p].executed) =>
             \A d \in 0..EffectiveDate(p) : MembersAsAt(seat', d) = MembersAsAt(seat, d)]_vars
  BY <1>1
<1> QED
  BY <1>2, Invariant, PTL DEF Spec, DisbandmentKeepsHistory

(* ... and nobody sits on after it who sat there on it.                    *)
THEOREM MandatesEnd == Spec => DisbandmentEndsMandates
<1>1. ASSUME IInv, [Next]_vars, NEW p \in Plans, ~plan[p].executed, plan'[p].executed,
             NEW s \in MembersAsAt(seat, EffectiveDate(p)), NEW d \in Day,
             d > EffectiveDate(p)
      PROVE  s \notin MembersAsAt(seat', d)
  <2>1. RowsOK /\ ExecuteDisbandment(p)
    BY <1>1, Execution DEF IInv
  <2>2. s \in Seats /\ s \in Closing(p)
    BY DEF MembersAsAt, Closing
  <2>3. seat'[s].end = EffectiveDate(p)
    BY <2>1, <2>2, SweptSeat
  <2>4. EffectiveDate(p) \in Nat /\ d \in Nat
    BY <2>1, EffectiveIsDay, DayFacts
  <2> QED
    BY <1>1, <2>3, <2>4 DEF MembersAsAt, OpenOn
<1>2. IInv /\ [Next]_vars =>
        [\A p \in Plans :
           (~plan[p].executed /\ plan'[p].executed) =>
             \A s \in MembersAsAt(seat, EffectiveDate(p)), d \in Day :
               d > EffectiveDate(p) => s \notin MembersAsAt(seat', d)]_vars
  BY <1>1
<1> QED
  BY <1>2, Invariant, PTL DEF Spec, DisbandmentEndsMandates
=============================================================================
