-------------------------- MODULE Disposal_proofs --------------------------
(***************************************************************************)
(* Theorems about Disposal and DisposalConcurrent for every set of         *)
(* records, holds, people, event names, days and requests in flight: the   *)
(* state is well typed, a decision of the records screen takes two people, *)
(* a redacted record is accounted for, and an approved decision is         *)
(* rewritten by its form alone, one request at a time or overlapping.      *)
(*                                                                         *)
(* What a handler may write over the row of an event is said once, of the  *)
(* row (Updated, Inserted).  In Disposal a step writes it; in              *)
(* DisposalConcurrent a request carries it and a commit writes it, and     *)
(* what has to be shown is that it still fits the row it falls on.         *)
(***************************************************************************)
EXTENDS DisposalConcurrent, TLAPS

USE DayAssumption, ClassAssumption, HoldAssumption, NullAssumption, FormAssumption

LEMMA DayFacts == /\ Day \subseteq Date
                  /\ Never \in Date
                  /\ Date \subseteq Nat
  BY DEF Day, Date, Never

LEMMA NewEventType ==
  ASSUME NEW r \in Records \cup {NoRecord}, NEW h \in Holds \cup {NoHold}
  PROVE  NewEvent(r, h) \in Row
  BY DayFacts DEF NewEvent, Row, Statuses, Decisions

LEMMA SavedHoldType ==
  ASSUME today \in Day, NEW p \in Date, NEW q \in Date
  PROVE  SavedHold(p, q) \in Hold
  BY DEF SavedHold, Hold

-----------------------------------------------------------------------------
(* What a handler that has read the row of an event may write over it, and *)
(* what the daily job or a form may put under a name that was free.        *)

Open(old) == old.of # NoRecord /\ old.status \in OpenStatuses

(* Opened by a job, and by nothing else.                                   *)
Ordinary(old) == Open(old) /\ ~old.typed /\ ~old.reopened

Restatused(old, new) ==
  \E s \in Statuses, h \in Holds \cup {NoHold}, b \in BOOLEAN :
    /\ s \in OpenStatuses => Open(old) \/ b
    /\ old.reopened => b
    /\ new = [old EXCEPT !.status = s, !.held_by = h, !.reopened = b]

Reproposed(old, new) ==
  /\ Open(old) /\ old.approved_by = NoOne
  /\ \E d \in Decisions, u \in Date, m \in Managers \cup {NoOne} :
       /\ d = "Dispose" => old.of \notin Permanent
       /\ new = [old EXCEPT !.decision = d, !.until = u, !.proposed_by = m]

Decided(old, new) ==
  /\ Open(old) /\ old.approved_by = NoOne
  /\ old.decision # "None"
  /\ \E m \in Managers, s \in Statuses :
       /\ old.proposed_by \notin {NoOne, m}
       /\ new = [old EXCEPT !.approved_by = m, !.status = s]

Granted(old) == Open(old) /\ old.decision = "Dispose" /\ old.approved_by # NoOne

Done(old, new) == Granted(old) /\ new = [old EXCEPT !.status = "Executed", !.executed = TRUE]

Retyped(old, new) ==
  \E x \in Forms :
    /\ old.executed => x.approved_by # NoOne
    /\ new = [old EXCEPT !.of = x.of, !.status = x.status, !.decision = x.decision,
                         !.until = x.until, !.approved_by = x.approved_by, !.typed = TRUE]

Updated(old, new) ==
  /\ old.of # NoRecord
  /\ \/ Restatused(old, new) \/ Reproposed(old, new) \/ Decided(old, new)
     \/ Done(old, new) \/ Retyped(old, new)

Named(new) == \E r \in Records, h \in Holds \cup {NoHold} : new = NewEvent(r, h)

Handwritten(new) == new \in Row /\ new.of \in Records /\ new.typed /\ ~new.executed

Fresh(new) == Named(new) \/ Handwritten(new)

Inserted(old, new) == old.of = NoRecord /\ Fresh(new)

Changed(e) ==
  event'[e] = event[e] \/ Updated(event[e], event'[e]) \/ Inserted(event[e], event'[e])

(* What is known of the rows: a name not in use carries nothing, and no    *)
(* decision to dispose is ever proposed about a record that is kept for    *)
(* ever.                                                                   *)
FreeIsBlank     == \A e \in Events : ~InUse(e) => event[e] = NewEvent(NoRecord, NoHold)
PermanentIsKept ==
  \A e \in Events : ~event[e].typed /\ event[e].decision = "Dispose" => event[e].of \notin Permanent

RowsInv == FreeIsBlank /\ PermanentIsKept /\ FourEyes

IInv == TypeOK /\ RowsInv /\ RedactionIsAccountedFor

LEMMA UpdatedRow ==
  ASSUME TypeOK, RowsInv, NEW e \in Events, NEW new, Updated(event[e], new)
  PROVE  /\ new \in Row /\ new.of # NoRecord
         /\ event[e].typed => new.typed
         /\ ~new.typed => /\ new.of = event[e].of
                          /\ new.decision = "Dispose" => new.of \notin Permanent
                          /\ new.approved_by # NoOne =>
                               /\ new.decision # "None"
                               /\ new.proposed_by \notin {NoOne, new.approved_by}
         /\ ~new.typed /\ event[e].approved_by # NoOne =>
              /\ new.decision = event[e].decision /\ new.until = event[e].until
              /\ new.proposed_by = event[e].proposed_by
              /\ new.approved_by = event[e].approved_by
         /\ event[e].executed =>
              new.executed /\ (event[e].approved_by # NoOne => new.approved_by # NoOne)
         /\ Ordinary(new) => Ordinary(event[e])
PROOF
<1>1. /\ event[e] \in Row /\ event[e].of # NoRecord
      /\ ~event[e].typed =>
           /\ event[e].decision = "Dispose" => event[e].of \notin Permanent
           /\ event[e].approved_by # NoOne =>
                event[e].decision # "None" /\ event[e].proposed_by \notin {NoOne, event[e].approved_by}
  BY DEF TypeOK, RowsInv, PermanentIsKept, FourEyes, Updated
<1>2. CASE Restatused(event[e], new)
  <2>1. PICK s \in Statuses, h \in Holds \cup {NoHold}, b \in BOOLEAN :
               /\ s \in OpenStatuses => Open(event[e]) \/ b
               /\ event[e].reopened => b
               /\ new = [event[e] EXCEPT !.status = s, !.held_by = h, !.reopened = b]
    BY <1>2 DEF Restatused
  <2>2. new = [of |-> event[e].of, status |-> s, held_by |-> h, decision |-> event[e].decision,
               until |-> event[e].until, proposed_by |-> event[e].proposed_by,
               approved_by |-> event[e].approved_by, executed |-> event[e].executed,
               typed |-> event[e].typed, reopened |-> b]
    BY <1>1, <2>1 DEF Row
  <2>3. new \in Row
    BY <1>1, <2>2 DEF Row
  <2> QED
    BY <1>1, <2>1, <2>2, <2>3 DEF Open, Ordinary
<1>3. CASE Reproposed(event[e], new)
  BY <1>1, <1>3 DEF Reproposed, Row, Open, Ordinary
<1>4. CASE Decided(event[e], new)
  BY <1>1, <1>4 DEF Decided, Row, Open, Ordinary
<1>5. CASE Done(event[e], new)
  BY <1>1, <1>5 DEF Done, Granted, Row, Statuses, Open, Ordinary
<1>6. CASE Retyped(event[e], new)
  <2>1. PICK x \in Forms :
          /\ event[e].executed => x.approved_by # NoOne
          /\ new = [event[e] EXCEPT !.of = x.of, !.status = x.status, !.decision = x.decision,
                                    !.until = x.until, !.approved_by = x.approved_by, !.typed = TRUE]
    BY <1>6 DEF Retyped
  <2>2. x \in FormFields
    BY <2>1
  <2>3. new = [of |-> x.of, status |-> x.status, held_by |-> event[e].held_by,
               decision |-> x.decision, until |-> x.until,
               proposed_by |-> event[e].proposed_by, approved_by |-> x.approved_by,
               executed |-> event[e].executed, typed |-> TRUE, reopened |-> event[e].reopened]
    BY <1>1, <2>1 DEF Row
  <2>4. new \in Row /\ new.of # NoRecord
    BY <1>1, <2>2, <2>3 DEF Row, FormFields
  <2> QED
    BY <2>1, <2>3, <2>4 DEF Ordinary
<1> QED
  BY <1>2, <1>3, <1>4, <1>5, <1>6 DEF Updated

LEMMA FreshRow ==
  ASSUME NEW new, Fresh(new)
  PROVE  /\ new \in Row /\ new.of \in Records /\ ~new.executed
         /\ ~new.typed => new.decision = "None" /\ new.approved_by = NoOne
PROOF
<1>1. CASE Named(new)
  <2>1. PICK r \in Records, h \in Holds \cup {NoHold} : new = NewEvent(r, h)
    BY <1>1 DEF Named
  <2> QED
    BY <2>1, NewEventType DEF NewEvent
<1> QED
  BY <1>1 DEF Fresh, Handwritten

(* What a step keeps that changes the rows in these ways only.             *)
LEMMA RowsStep ==
  ASSUME TypeOK, RowsInv, event' = [e \in Events |-> event'[e]], \A e \in Events : Changed(e)
  PROVE  event' \in [Events -> Row] /\ RowsInv'
PROOF
<1>1. ASSUME NEW e \in Events
      PROVE  /\ event'[e] \in Row
             /\ event'[e].of = NoRecord => event'[e] = NewEvent(NoRecord, NoHold)
             /\ ~event'[e].typed =>
                  /\ event'[e].decision = "Dispose" => event'[e].of \notin Permanent
                  /\ event'[e].approved_by # NoOne =>
                       /\ event'[e].decision # "None"
                       /\ event'[e].proposed_by \notin {NoOne, event'[e].approved_by}
  <2>1. CASE event'[e] = event[e]
    BY <2>1 DEF TypeOK, RowsInv, FreeIsBlank, PermanentIsKept, FourEyes, InUse
  <2>2. CASE Updated(event[e], event'[e])
    BY <2>2, UpdatedRow
  <2>3. CASE Inserted(event[e], event'[e])
    BY <2>3, FreshRow DEF Inserted
  <2> QED
    BY <2>1, <2>2, <2>3 DEF Changed
<1> QED
  BY <1>1 DEF RowsInv, FreeIsBlank, PermanentIsKept, FourEyes, InUse

LEMMA DecidedRowStays ==
  ASSUME TypeOK, RowsInv, NEW e \in Events, Changed(e), event[e].approved_by # NoOne
  PROVE  /\ event[e].typed => event'[e].typed
         /\ ~event'[e].typed =>
              /\ event'[e].of = event[e].of
              /\ event'[e].decision = event[e].decision
              /\ event'[e].until = event[e].until
              /\ event'[e].proposed_by = event[e].proposed_by
              /\ event'[e].approved_by = event[e].approved_by
         /\ event[e].executed => event'[e].executed /\ event'[e].approved_by # NoOne
PROOF
<1>1. InUse(e)
  BY DEF RowsInv, FreeIsBlank, NewEvent
<1>2. CASE event'[e] = event[e]
  BY <1>2
<1>3. CASE Updated(event[e], event'[e])
  BY <1>3, UpdatedRow
<1> QED
  BY <1>1, <1>2, <1>3 DEF Changed, Inserted, InUse

(* A record redacted now was so before, or an event with a granted         *)
(* disposal is executed by the same step.                                  *)
LEMMA RedactionStep ==
  ASSUME IInv, \A e \in Events : Changed(e),
         \A r \in Records :
           \/ content'[r] = content[r]
           \/ content'[r] \in Events /\ event[content'[r]].of = r
              /\ Done(event[content'[r]], event'[content'[r]])
  PROVE  RedactionIsAccountedFor'
PROOF
<1>1. ASSUME NEW r \in Records, content'[r] # Kept
      PROVE  /\ event'[content'[r]].executed
             /\ event'[content'[r]].approved_by # NoOne
             /\ ~event'[content'[r]].typed =>
                  /\ event'[content'[r]].of = r
                  /\ event'[content'[r]].decision = "Dispose"
                  /\ r \notin Permanent
  <2> DEFINE e == content'[r]
  <2>1. CASE content'[r] = content[r]
    <3>1. e \in Events /\ Changed(e) /\ TypeOK /\ RowsInv
      BY <1>1, <2>1 DEF IInv, TypeOK
    <3>2. Accounts(e, r)
      BY <1>1, <2>1 DEF IInv, RedactionIsAccountedFor
    <3> HIDE DEF e
    <3>3. /\ event'[e].executed
          /\ event'[e].approved_by # NoOne
          /\ ~event'[e].typed =>
               /\ event'[e].of = r
               /\ event'[e].decision = "Dispose"
               /\ r \notin Permanent
      BY <3>1, <3>2, DecidedRowStays DEF Accounts
    <3> QED
      BY <3>3 DEF e
  <2>2. CASE content'[r] # content[r]
    <3>1. e \in Events /\ event[e].of = r /\ Done(event[e], event'[e])
      BY <2>2
    <3> HIDE DEF e
    <3>2. event[e] \in Row /\ (~event[e].typed => r \notin Permanent)
      BY <3>1 DEF IInv, TypeOK, RowsInv, PermanentIsKept, Done, Granted
    <3>3. /\ event'[e].executed
          /\ event'[e].approved_by # NoOne
          /\ ~event'[e].typed =>
               /\ event'[e].of = r
               /\ event'[e].decision = "Dispose"
               /\ r \notin Permanent
      BY <3>1, <3>2 DEF Done, Granted, Row
    <3> QED
      BY <3>3 DEF e
  <2> QED
    BY <2>1, <2>2
<1> QED
  BY <1>1 DEF RedactionIsAccountedFor, Accounts

(* What each handler writes.  e is the row it read.                        *)
LEMMA HandlerWrites ==
  ASSUME TypeOK, RowsInv, NEW e \in Events
  PROVE  /\ \A h \in Holds : event[e].held_by = h => Updated(event[e], Released(h)[e])
         /\ \A m \in Managers, d \in {"Dispose", "Retain"}, u \in Date :
              MayPropose(e, d, u) => Updated(event[e], Proposed(e, m, d, u))
         /\ MaySendBack(e) => Updated(event[e], SentBack(e))
         /\ \A m \in Managers : MayApprove(e, m) => Updated(event[e], Approved(e, m))
         /\ MayExecute(e) => Granted(event[e]) /\ Updated(event[e], Executed(e))
         /\ InUse(e) => Updated(event[e], [event[e] EXCEPT !.status = "Cancelled"])
         /\ \A x \in Forms :
              MayType(e, x) => /\ InUse(e) => Updated(event[e], Typed(e, x))
                               /\ ~InUse(e) => Handwritten(Typed(e, x))
PROOF
<1>1. event[e] \in Row
  BY DEF TypeOK
<1>2. ASSUME NEW h \in Holds, event[e].held_by = h PROVE Updated(event[e], Released(h)[e])
  <2> DEFINE b == event[e].reopened \/ ~IsOpen(e)
  <2>1. InUse(e)
    BY <1>2 DEF RowsInv, FreeIsBlank, NewEvent
  <2>2. Released(h)[e] = [event[e] EXCEPT !.status = "Scheduled", !.held_by = NoHold, !.reopened = b]
    BY <1>2 DEF Released
  <2>3. b \in BOOLEAN /\ (event[e].reopened => b) /\ (Open(event[e]) \/ b) /\ "Scheduled" \in Statuses
    BY <1>1, <2>1 DEF Row, Open, IsOpen, InUse, Statuses
  <2> HIDE DEF b
  <2>4. Restatused(event[e], Released(h)[e])
    BY <2>2, <2>3 DEF Restatused
  <2> QED
    BY <2>1, <2>4 DEF Updated, InUse
<1>3. ASSUME NEW m \in Managers, NEW d \in {"Dispose", "Retain"}, NEW u \in Date, MayPropose(e, d, u)
      PROVE  Updated(event[e], Proposed(e, m, d, u))
  BY <1>3 DEF MayPropose, Proposed, Updated, Reproposed, IsOpen, Decisions, Open, InUse
<1>4. ASSUME MaySendBack(e) PROVE Updated(event[e], SentBack(e))
  BY <1>4, DayFacts DEF MaySendBack, SentBack, Updated, Reproposed, IsOpen, Decisions, Open, InUse
<1>5. ASSUME NEW m \in Managers, MayApprove(e, m) PROVE Updated(event[e], Approved(e, m))
  <2>1. (IF event[e].decision = "Dispose" THEN "Approved" ELSE "Retained") \in Statuses
    BY DEF Statuses
  <2>2. Decided(event[e], Approved(e, m))
    BY <1>5, <2>1 DEF MayApprove, Approved, Decided, Open, IsOpen, InUse
  <2> QED
    BY <1>5, <2>2 DEF MayApprove, Updated, IsOpen, Open, InUse
<1>6. ASSUME MayExecute(e) PROVE Granted(event[e]) /\ Updated(event[e], Executed(e))
  BY <1>6 DEF MayExecute, Executed, Updated, Done, Granted, IsOpen, Open, InUse
<1>7. ASSUME InUse(e) PROVE Updated(event[e], [event[e] EXCEPT !.status = "Cancelled"])
  <2>1. /\ [event[e] EXCEPT !.status = "Cancelled"]
             = [event[e] EXCEPT !.status = "Cancelled", !.held_by = event[e].held_by,
                                !.reopened = event[e].reopened]
        /\ event[e].held_by \in Holds \cup {NoHold} /\ event[e].reopened \in BOOLEAN
    BY <1>1 DEF Row
  <2>2. Restatused(event[e], [event[e] EXCEPT !.status = "Cancelled"])
    BY <2>1 DEF Restatused, Statuses, OpenStatuses
  <2> QED
    BY <1>7, <2>2 DEF Updated, InUse
<1>8. ASSUME NEW x \in Forms, MayType(e, x)
      PROVE  /\ InUse(e) => Updated(event[e], Typed(e, x))
             /\ ~InUse(e) => Handwritten(Typed(e, x))
  <2>1. Retyped(event[e], Typed(e, x))
    BY <1>8 DEF Retyped, Typed, MayType
  <2>2. ASSUME ~InUse(e) PROVE Handwritten(Typed(e, x))
    <3>1. event[e] = NewEvent(NoRecord, NoHold)
      BY <2>2 DEF RowsInv, FreeIsBlank
    <3>2. x \in FormFields
      OBVIOUS
    <3>3. event[e] \in Row
      BY DEF TypeOK
    <3>4. PICK new : new = Typed(e, x)
      OBVIOUS
    <3>5. new = [event[e] EXCEPT !.of = x.of, !.status = x.status, !.decision = x.decision,
                                 !.until = x.until, !.approved_by = x.approved_by, !.typed = TRUE]
      BY <3>4 DEF Typed
    <3>6. new = [of |-> x.of, status |-> x.status, held_by |-> event[e].held_by,
                 decision |-> x.decision, until |-> x.until,
                 proposed_by |-> event[e].proposed_by, approved_by |-> x.approved_by,
                 executed |-> event[e].executed, typed |-> TRUE, reopened |-> event[e].reopened]
      BY <3>3, <3>5 DEF Row
    <3>7. event[e].executed = FALSE
      BY <3>1 DEF NewEvent
    <3>8. new \in Row
      BY <3>2, <3>3, <3>6 DEF Row, FormFields
    <3>9. new.of \in Records /\ new.typed /\ ~new.executed
      BY <3>2, <3>6, <3>7 DEF FormFields
    <3> QED
      BY <3>4, <3>8, <3>9 DEF Handwritten
  <2> QED
    BY <2>1, <2>2 DEF Updated, InUse
<1> QED
  BY <1>2, <1>3, <1>4, <1>5, <1>6, <1>7, <1>8

(* What the daily job writes over one event, whichever archives it looks   *)
(* at, names it draws and holds it meets.                                  *)
LEMMA FlagWrites ==
  ASSUME TypeOK, RowsInv, NEW due \in SUBSET Records,
         NEW new \in [due -> {e \in Events : ~InUse(e)}],
         NEW first \in [Records -> Holds \cup {NoHold}], FirstHold(first),
         NEW e \in Events
  PROVE  IF \E r \in due : new[r] = e
         THEN /\ ~InUse(e)
              /\ \E r \in due, h \in Holds \cup {NoHold} :
                   new[r] = e /\ Flagged(e, due, new, first) = NewEvent(r, h)
         ELSE \/ Flagged(e, due, new, first) = event[e]
              \/ Updated(event[e], Flagged(e, due, new, first))
PROOF
<1>1. CASE \E r \in due : new[r] = e
  <2> DEFINE r == CHOOSE s \in due : new[s] = e
  <2>1. r \in due /\ new[r] = e
    BY <1>1
  <2>2. ~InUse(e) /\ first[r] \in Holds \cup {NoHold}
    BY <2>1
  <2>3. Flagged(e, due, new, first) = NewEvent(r, first[r])
    BY <1>1 DEF Flagged
  <2> QED
    BY <1>1, <2>1, <2>2, <2>3
<1>2. CASE /\ ~ \E r \in due : new[r] = e
           /\ IsOpen(e) /\ event[e].held_by = NoHold /\ UnderHold(event[e].of)
  <2>1. event[e].of \in Records
    BY <1>2 DEF IsOpen, InUse, TypeOK, Row
  <2>2. first[event[e].of] \in Holds
    BY <1>2, <2>1 DEF FirstHold, ActiveHolds
  <2>3. Flagged(e, due, new, first)
          = [event[e] EXCEPT !.status = "Held", !.held_by = first[event[e].of]]
    BY <1>2 DEF Flagged
  <2>4. Flagged(e, due, new, first)
          = [event[e] EXCEPT !.status = "Held", !.held_by = first[event[e].of],
                             !.reopened = event[e].reopened]
        /\ event[e].reopened \in BOOLEAN
    BY <2>3 DEF TypeOK, Row
  <2>5. Restatused(event[e], Flagged(e, due, new, first))
    BY <1>2, <2>2, <2>4 DEF Restatused, Statuses, Open, IsOpen, InUse
  <2> QED
    BY <1>2, <2>5 DEF Updated, IsOpen, Open, InUse
<1>3. CASE /\ ~ \E r \in due : new[r] = e
           /\ ~(IsOpen(e) /\ event[e].held_by = NoHold /\ UnderHold(event[e].of))
  BY <1>3 DEF Flagged
<1> QED
  BY <1>1, <1>2, <1>3

-----------------------------------------------------------------------------
(* One request at a time.                                                  *)

(* An event the daily job opens is about a record that has none pending.   *)
FlaggedAfresh(e) ==
  \E r \in Records : /\ ~InUse(e) /\ ~DispositionPending(r)
                     /\ \E h \in Holds \cup {NoHold} : event'[e] = NewEvent(r, h)

LEMMA FlagDueStep ==
  ASSUME TypeOK, RowsInv, NEW arch \in SUBSET Records, FlagDue(arch)
  PROVE  /\ event' = [e \in Events |-> event'[e]]
         /\ \A e \in Events : event'[e] = event[e] \/ Updated(event[e], event'[e]) \/ FlaggedAfresh(e)
PROOF
<1> DEFINE due == DueForDisposal(arch)
<1>1. due \in SUBSET Records /\ \A r \in due : ~DispositionPending(r)
  BY DEF DueForDisposal
<1>2. PICK new \in [due -> {e \in Events : ~InUse(e)}],
           first \in [Records -> Holds \cup {NoHold}] :
             /\ FirstHold(first)
             /\ event' = [e \in Events |-> Flagged(e, due, new, first)]
  BY DEF FlagDue
<1> HIDE DEF due
<1>3. ASSUME NEW e \in Events
      PROVE  event'[e] = event[e] \/ Updated(event[e], event'[e]) \/ FlaggedAfresh(e)
  <2>1. event'[e] = Flagged(e, due, new, first)
    BY <1>2
  <2>2. CASE \E r \in due : new[r] = e
    <3>1. /\ ~InUse(e)
          /\ \E r \in due, h \in Holds \cup {NoHold} : event'[e] = NewEvent(r, h)
      BY <1>1, <1>2, <2>1, <2>2, FlagWrites
    <3> QED
      BY <1>1, <3>1 DEF FlaggedAfresh
  <2>3. CASE ~ \E r \in due : new[r] = e
    BY <1>1, <1>2, <2>1, <2>3, FlagWrites
  <2> QED
    BY <2>2, <2>3
<1> QED
  BY <1>2, <1>3

LEMMA EventStep ==
  ASSUME TypeOK, RowsInv, [Next]_vars
  PROVE  /\ event' = [e \in Events |-> event'[e]]
         /\ \A e \in Events :
              \/ event'[e] = event[e] \/ Updated(event[e], event'[e])
              \/ FlaggedAfresh(e) \/ (~InUse(e) /\ Handwritten(event'[e]))
PROOF
<1>1. event = [e \in Events |-> event[e]]
  BY DEF TypeOK
<1>2. ASSUME UNCHANGED event
      PROVE  event' = [e \in Events |-> event'[e]] /\ \A e \in Events : event'[e] = event[e]
  BY <1>1, <1>2
<1>3. ASSUME NEW x \in Events, NEW new, Updated(event[x], new), event' = [event EXCEPT ![x] = new]
      PROVE  /\ event' = [e \in Events |-> event'[e]]
             /\ \A e \in Events : event'[e] = event[e] \/ Updated(event[e], event'[e])
  <2>1. event' = [e \in Events |-> IF e = x THEN new ELSE event[e]]
    BY <1>1, <1>3
  <2> QED
    BY <1>3, <2>1
<1>4. CASE UNCHANGED event
  BY <1>2, <1>4
<1>5. ASSUME NEW h \in Holds, ReleaseHold(h)
      PROVE  /\ event' = [e \in Events |-> event'[e]]
             /\ \A e \in Events : event'[e] = event[e] \/ Updated(event[e], event'[e])
  <2>1. event' = Released(h)
    BY <1>5 DEF ReleaseHold
  <2>2. \A e \in Events : event[e].held_by # h => Released(h)[e] = event[e]
    BY DEF Released
  <2>3. event' = [e \in Events |-> event'[e]]
    BY <2>1 DEF Released
  <2> QED
    BY <2>1, <2>2, <2>3, HandlerWrites
<1>6. CASE FlagDueForDisposal
  BY <1>6, FlagDueStep DEF FlagDueForDisposal, TypeOK
<1>7. CASE RunCheck
  <2>1. archived \cup TriggerPassed \in SUBSET Records
    BY DEF TypeOK, TriggerPassed
  <2> QED
    BY <1>7, <2>1, FlagDueStep DEF RunCheck
<1>8. CASE \E x \in Events, m \in Managers, d \in {"Dispose", "Retain"}, u \in Date : Propose(x, m, d, u)
  <2>1. PICK x \in Events, m \in Managers, d \in {"Dispose", "Retain"}, u \in Date : Propose(x, m, d, u)
    BY <1>8
  <2>2. Updated(event[x], Proposed(x, m, d, u))
    BY <2>1, HandlerWrites DEF Propose
  <2> QED
    BY <1>3, <2>1, <2>2 DEF Propose
<1>9. CASE \E x \in Events : SendBack(x)
  BY <1>3, <1>9, HandlerWrites DEF SendBack
<1>10. CASE \E x \in Events, m \in Managers : Approve(x, m)
  BY <1>3, <1>10, HandlerWrites DEF Approve
<1>11. CASE \E x \in Events : Execute(x)
  BY <1>3, <1>11, HandlerWrites DEF Execute
<1>12. CASE \E x \in Events : Cancel(x)
  <2>1. PICK x \in Events : Cancel(x)
    BY <1>12
  <2>2. event' = [event EXCEPT ![x] = [event[x] EXCEPT !.status = "Cancelled"]]
    BY <1>1, <2>1 DEF Cancel
  <2> QED
    BY <1>3, <2>1, <2>2, HandlerWrites DEF Cancel
<1>13. ASSUME NEW x \in Events, NEW f \in Forms, SaveForm(x, f)
       PROVE  /\ event' = [e \in Events |-> event'[e]]
              /\ \A e \in Events : \/ event'[e] = event[e] \/ Updated(event[e], event'[e])
                                   \/ (~InUse(e) /\ Handwritten(event'[e]))
  <2>1. MayType(x, f) /\ event' = [event EXCEPT ![x] = Typed(x, f)]
    BY <1>13 DEF SaveForm
  <2>2. event' = [e \in Events |-> IF e = x THEN Typed(x, f) ELSE event[e]]
    BY <1>1, <2>1
  <2>3. /\ InUse(x) => Updated(event[x], Typed(x, f))
        /\ ~InUse(x) => Handwritten(Typed(x, f))
    BY <2>1, HandlerWrites
  <2> QED
    BY <2>2, <2>3
<1>14. CASE \E x \in Events, f \in Forms : SaveForm(x, f)
  BY <1>13, <1>14
<1> QED
  BY <1>4, <1>5, <1>6, <1>7, <1>8, <1>9, <1>10, <1>11, <1>12, <1>14
  DEF Next, vars, NextDay, EndRecord, SaveHold, ArchiveOnTrigger

LEMMA EventsChanged ==
  ASSUME TypeOK, RowsInv, [Next]_vars
  PROVE  \A e \in Events : Changed(e)
BY EventStep DEF Changed, FlaggedAfresh, Inserted, Named, Fresh, InUse

(* Content is removed by the execution of an event of that record.         *)
LEMMA ContentStep ==
  ASSUME TypeOK, [Next]_vars, NEW r \in Records, content'[r] # content[r]
  PROVE  /\ content'[r] \in Events /\ event[content'[r]].of = r
         /\ Done(event[content'[r]], event'[content'[r]])
PROOF
<1>1. PICK x \in Events : Execute(x)
  BY DEF Next, vars, NextDay, EndRecord, SaveHold, ReleaseHold, ArchiveOnTrigger, FlagDueForDisposal,
         RunCheck, Propose, SendBack, Approve, Cancel, SaveForm
<1>2. event[x].of = r /\ content'[r] = x
  BY <1>1 DEF Execute, TypeOK
<1>3. event'[x] = Executed(x)
  BY <1>1 DEF Execute, TypeOK
<1>4. Done(event[x], event'[x])
  BY <1>1, <1>3 DEF Execute, MayExecute, Done, Granted, Executed, Open, IsOpen, InUse
<1> QED
  BY <1>2, <1>4

LEMMA HoldsAndTimes ==
  ASSUME TypeOK, [Next]_vars
  PROVE  /\ today' \in Day /\ hold' \in [Holds -> Hold] /\ ended' \in [Records -> Date]
         /\ archived' \subseteq Records /\ content' \in [Records -> Events \cup {Kept}]
PROOF
<1> USE DEF TypeOK
<1>1. CASE NextDay
  BY <1>1 DEF NextDay, Day
<1>2. CASE \E r \in Records : EndRecord(r)
  BY <1>2, DayFacts DEF EndRecord
<1>3. CASE \E h \in Holds, p \in Day, q \in Date : SaveHold(h, p, q)
  BY <1>3, DayFacts, SavedHoldType DEF SaveHold
<1>4. ASSUME NEW h \in Holds, ReleaseHold(h) PROVE hold' \in [Holds -> Hold]
  <2>1. hold[h].placed \in Date /\ ReleaseDate(h) \in Date
    BY DayFacts DEF Hold, ReleaseDate
  <2> QED
    BY <1>4, <2>1, SavedHoldType DEF ReleaseHold
<1>5. CASE \E h \in Holds : ReleaseHold(h)
  BY <1>4, <1>5 DEF ReleaseHold
<1>6. CASE ArchiveOnTrigger \/ RunCheck
  BY <1>6 DEF ArchiveOnTrigger, RunCheck, TriggerPassed
<1>7. CASE \E e \in Events : Execute(e)
  BY <1>7 DEF Execute
<1>8. CASE UNCHANGED <<today, hold, ended, archived, content>>
  BY <1>8
<1> QED
  BY <1>1, <1>2, <1>3, <1>5, <1>6, <1>7, <1>8
  DEF Next, vars, FlagDueForDisposal, Propose, SendBack, Approve, Cancel, SaveForm

LEMMA InitInv == Init => IInv
PROOF
<1> SUFFICES ASSUME Init PROVE IInv
  OBVIOUS
<1>1. TypeOK
  BY DayFacts, NewEventType DEF Init, TypeOK, Hold, Day
<1> QED
  BY <1>1 DEF Init, IInv, RowsInv, FreeIsBlank, PermanentIsKept, FourEyes,
              RedactionIsAccountedFor, NewEvent

LEMMA Inductive == IInv /\ [Next]_vars => IInv'
PROOF
<1> SUFFICES ASSUME IInv, [Next]_vars PROVE IInv'
  OBVIOUS
<1>1. TypeOK /\ RowsInv
  BY DEF IInv
<1>2. event' \in [Events -> Row] /\ RowsInv'
  BY <1>1, EventStep, EventsChanged, RowsStep
<1>3. TypeOK'
  BY <1>1, <1>2, HoldsAndTimes DEF TypeOK
<1>4. RedactionIsAccountedFor'
  BY <1>1, EventsChanged, ContentStep, RedactionStep
<1> QED
  BY <1>2, <1>3, <1>4 DEF IInv

LEMMA Invariant == Spec => []IInv
  BY InitInv, Inductive, PTL DEF Spec

(* The rows keep their shape through every handler.                        *)
THEOREM TypeCorrect == Spec => []TypeOK
  BY Invariant, PTL DEF IInv

(* A decision in force that no form typed has a proposer and an approver   *)
(* who differ.                                                             *)
THEOREM TwoPeopleDecide == Spec => []FourEyes
  BY Invariant, PTL DEF IInv, RowsInv

(* A redacted record names an event that is executed and approved, for     *)
(* good; what that event decided, if no form rewrote it.                   *)
THEOREM RedactionAccounted == Spec => []RedactionIsAccountedFor
  BY Invariant, PTL DEF IInv

(* Nobody rewrites a decision once it has an approver, but by its form.    *)
THEOREM DecisionFrozen == Spec => ApprovedDecisionFrozen
PROOF
<1> DEFINE A == \A e \in Events :
                  event[e].approved_by # NoOne /\ ~event'[e].typed =>
                    \A f \in {"decision", "until", "proposed_by", "approved_by"} :
                      event'[e][f] = event[e][f]
<1>1. IInv /\ [Next]_vars => [A]_vars
  BY DecidedRowStays, EventsChanged DEF IInv
<1> QED
  BY <1>1, Invariant, PTL DEF Spec, ApprovedDecisionFrozen

(* A redacted record whose event no form rewrote is never flagged again:   *)
(* the only rows that come to be about it are typed.                       *)
THEOREM NeverFlaggedAgain == Spec => DisposedOnce
PROOF
<1> DEFINE A == \A r \in Records :
                  content[r] # Kept /\ ~event[content[r]].typed =>
                    \A e \in Events : event'[e].of = r => event[e].of = r \/ event'[e].typed
<1>1. IInv /\ [Next]_vars => [A]_vars
  <2> SUFFICES ASSUME IInv, [Next]_vars, NEW r \in Records, content[r] # Kept,
                      ~event[content[r]].typed, NEW e \in Events, event'[e].of = r
               PROVE  event[e].of = r \/ event'[e].typed
    OBVIOUS
  <2>1. TypeOK /\ RowsInv
    BY DEF IInv
  <2>2. DispositionPending(r)
    BY DEF IInv, TypeOK, RedactionIsAccountedFor, Accounts, DispositionPending, EventsOf
  <2>3. CASE FlaggedAfresh(e)
    BY <2>2, <2>3 DEF FlaggedAfresh, NewEvent
  <2>4. CASE Updated(event[e], event'[e])
    BY <2>1, <2>4, UpdatedRow
  <2>5. CASE Handwritten(event'[e])
    BY <2>5 DEF Handwritten
  <2> QED
    BY <2>1, <2>3, <2>4, <2>5, EventStep
<1> QED
  BY <1>1, Invariant, PTL DEF Spec, DisposedOnce

-----------------------------------------------------------------------------
(* Requests that overlap.  What one carries is still right for the rows it *)
(* will fall on, unless it is doomed: the rows it updates are those it     *)
(* read, since whoever changes one of them dooms it, and what it inserts   *)
(* is blank but for its record, or comes from a form.                      *)

IsRequest(q) ==
  q = [stage |-> q.stage, holds |-> q.holds, updates |-> q.updates, inserts |-> q.inserts,
       redacts |-> q.redacts, doomed |-> q.doomed]

Fits(q, rows) ==
  /\ \A h \in DOMAIN q.holds : q.holds[h] \in Hold
  /\ \A e \in DOMAIN q.updates : e \in Events /\ Updated(rows[e], q.updates[e])
  /\ \A e \in DOMAIN q.inserts : e \in Events /\ Fresh(q.inserts[e])
  /\ \A r \in DOMAIN q.redacts :
       LET e == q.redacts[r]
       IN  e \in DOMAIN q.updates /\ rows[e].of = r /\ Done(rows[e], q.updates[e])

Gone(q, files) ==
  q.stage = "overwritten" => \A r \in Records \cap DOMAIN q.redacts : files[r] = "overwritten"

RequestOK(q, rows, files) ==
  IsRequest(q) /\ Gone(q, files) /\ (q.stage # "idle" /\ ~q.doomed => Fits(q, rows))

(* What is redacted in the database is gone on disk.                       *)
RedactedIsGone ==
  \A r \in Records : content[r] # Kept => file[r] = "overwritten"

CInv ==
  /\ IInv
  /\ request = [t \in Requests |-> request[t]]
  /\ \A t \in Requests : RequestOK(request[t], event, file)
  /\ RedactedIsGone

(* A request begins.                                                       *)
LEMMA BeginStep ==
  ASSUME CInv, NEW t \in Requests, NEW hs, NEW us, NEW is, NEW rs, Begin(t, hs, us, is, rs),
         Fits(Request("open", hs, us, is, rs), event)
  PROVE  CInv'
PROOF
<1> DEFINE q == Request("open", hs, us, is, rs)
<1>1. /\ request' = [request EXCEPT ![t] = q]
      /\ UNCHANGED <<today, hold, ended, archived, content, event, file>>
  BY DEF Begin
<1>2. RequestOK(q, event, file)
  BY DEF RequestOK, IsRequest, Gone, Request
<1> HIDE DEF q
<1>3. /\ request' = [s \in Requests |-> request'[s]]
      /\ \A s \in Requests : request'[s] = IF s = t THEN q ELSE request[s]
  BY <1>1 DEF CInv
<1>4. \A s \in Requests : RequestOK(request'[s], event', file')
  BY <1>1, <1>2, <1>3 DEF CInv
<1>5. IInv'
  BY <1>1 DEF CInv, IInv, TypeOK, RowsInv, FreeIsBlank, PermanentIsKept, FourEyes,
              RedactionIsAccountedFor, Accounts, InUse
<1> QED
  BY <1>1, <1>3, <1>4, <1>5 DEF CInv, RedactedIsGone

(* What the requests carry when they begin.                                *)
LEMMA OneHold ==
  ASSUME NEW h \in Holds, NEW saved \in Hold
  PROVE  Fits(Request("open", One(h, saved), Nothing, Nothing, Nothing), event)
BY DEF Fits, Request, One, Nothing

LEMMA OneEvent ==
  ASSUME NEW e \in Events, NEW new, Updated(event[e], new)
  PROVE  Fits(Request("open", Nothing, One(e, new), Nothing, Nothing), event)
BY DEF Fits, Request, One, Nothing

LEMMA OneInsert ==
  ASSUME NEW e \in Events, NEW new, Fresh(new)
  PROVE  Fits(Request("open", Nothing, Nothing, One(e, new), Nothing), event)
BY DEF Fits, Request, One, Nothing

LEMMA FlagBegins ==
  ASSUME CInv, NEW t \in Requests, BeginFlag(t)
  PROVE  CInv'
PROOF
<1> DEFINE due == DueForDisposal(archived)
<1>1. TypeOK /\ RowsInv /\ due \in SUBSET Records
  BY DEF CInv, IInv, TypeOK, DueForDisposal
<1>2. PICK new \in [due -> {e \in Events : ~InUse(e)}],
           first \in [Records -> Holds \cup {NoHold}] :
             /\ FirstHold(first)
             /\ LET after    == [e \in Events |-> Flagged(e, due, new, first)]
                    inserted == {new[r] : r \in due}
                    held     == {e \in Events \ inserted : after[e] # event[e]}
                IN  Begin(t, Nothing, [e \in held |-> after[e]], [e \in inserted |-> after[e]], Nothing)
  BY DEF BeginFlag
<1> HIDE DEF due
<1> DEFINE after    == [e \in Events |-> Flagged(e, due, new, first)]
           inserted == {new[r] : r \in due}
           held     == {e \in Events \ inserted : after[e] # event[e]}
           us       == [e \in held |-> after[e]]
           is       == [e \in inserted |-> after[e]]
<1>3. Begin(t, Nothing, us, is, Nothing)
  BY <1>2
<1> HIDE DEF after
<1>4. \A e \in Events : after[e] = Flagged(e, due, new, first)
  BY DEF after
<1>5. ASSUME NEW e \in held PROVE e \in Events /\ Updated(event[e], after[e])
  <2>1. e \in Events /\ ~ (\E r \in due : new[r] = e) /\ after[e] # event[e]
    OBVIOUS
  <2> QED
    BY <1>1, <1>2, <1>4, <2>1, FlagWrites
<1>6. ASSUME NEW e \in inserted PROVE e \in Events /\ Fresh(after[e])
  <2>1. e \in Events /\ \E r \in due : new[r] = e
    OBVIOUS
  <2>2. \E r \in due, h \in Holds \cup {NoHold} : after[e] = NewEvent(r, h)
    BY <1>1, <1>2, <1>4, <2>1, FlagWrites
  <2> QED
    BY <1>1, <2>1, <2>2 DEF Named, Fresh
<1>7. Fits(Request("open", Nothing, us, is, Nothing), event)
  <2> HIDE DEF held, inserted
  <2> QED
    BY <1>5, <1>6 DEF Fits, Request, Nothing
<1> HIDE DEF us, is
<1> QED
  BY <1>3, <1>7, BeginStep

LEMMA RequestsBegin ==
  ASSUME CInv, NEW t \in Requests,
         \/ \E h \in Holds, p \in Day, q \in Date : BeginSaveHold(t, h, p, q)
         \/ \E h \in Holds : BeginReleaseHold(t, h)
         \/ \E e \in Events, m \in Managers, d \in {"Dispose", "Retain"}, u \in Date :
              BeginPropose(t, e, m, d, u)
         \/ \E e \in Events : BeginSendBack(t, e)
         \/ \E e \in Events, m \in Managers : BeginApprove(t, e, m)
         \/ \E e \in Events : BeginExecute(t, e)
         \/ \E e \in Events : BeginCancel(t, e)
         \/ \E e \in Events, x \in Forms : BeginForm(t, e, x)
         \/ BeginFlag(t)
  PROVE  CInv'
PROOF
<1>1. TypeOK /\ RowsInv
  BY DEF CInv, IInv
<1>2. ASSUME NEW h \in Holds, NEW p \in Day, NEW q \in Date, BeginSaveHold(t, h, p, q) PROVE CInv'
  <2>1. SavedHold(p, q) \in Hold
    BY <1>1, DayFacts, SavedHoldType DEF TypeOK
  <2> QED
    BY <1>2, <2>1, OneHold, BeginStep DEF BeginSaveHold
<1>3. ASSUME NEW h \in Holds, BeginReleaseHold(t, h) PROVE CInv'
  <2> DEFINE held == {e \in Events : event[e].held_by = h}
             saved == SavedHold(hold[h].placed, ReleaseDate(h))
             us == [e \in held |-> Released(h)[e]]
  <2>1. hold[h].placed \in Date /\ ReleaseDate(h) \in Date
    BY <1>1, DayFacts DEF TypeOK, Hold, ReleaseDate
  <2>2. saved \in Hold
    BY <1>1, <2>1, SavedHoldType DEF TypeOK
  <2>3. \A e \in held : Updated(event[e], Released(h)[e])
    BY <1>1, HandlerWrites
  <2>4. Fits(Request("open", One(h, saved), us, Nothing, Nothing), event)
    <3> HIDE DEF saved
    <3> QED
      BY <2>2, <2>3 DEF Fits, Request, One, Nothing
  <2>5. Begin(t, One(h, saved), us, Nothing, Nothing)
    BY <1>3 DEF BeginReleaseHold
  <2> QED
    BY <2>4, <2>5, BeginStep
<1>4. ASSUME NEW e \in Events, NEW m \in Managers, NEW d \in {"Dispose", "Retain"}, NEW u \in Date,
             BeginPropose(t, e, m, d, u)
      PROVE  CInv'
  <2>1. Updated(event[e], Proposed(e, m, d, u))
    BY <1>1, <1>4, HandlerWrites DEF BeginPropose
  <2> QED
    BY <1>4, <2>1, OneEvent, BeginStep DEF BeginPropose
<1>5. ASSUME NEW e \in Events, BeginSendBack(t, e) PROVE CInv'
  <2>1. Updated(event[e], SentBack(e))
    BY <1>1, <1>5, HandlerWrites DEF BeginSendBack
  <2> QED
    BY <1>5, <2>1, OneEvent, BeginStep DEF BeginSendBack
<1>6. ASSUME NEW e \in Events, NEW m \in Managers, BeginApprove(t, e, m) PROVE CInv'
  <2>1. Updated(event[e], Approved(e, m))
    BY <1>1, <1>6, HandlerWrites DEF BeginApprove
  <2> QED
    BY <1>6, <2>1, OneEvent, BeginStep DEF BeginApprove
<1>7. ASSUME NEW e \in Events, BeginExecute(t, e) PROVE CInv'
  <2>1. Granted(event[e]) /\ Updated(event[e], Executed(e))
    BY <1>1, <1>7, HandlerWrites DEF BeginExecute
  <2>2. Done(event[e], Executed(e))
    BY <2>1 DEF Done, Executed
  <2>3. Fits(Request("open", Nothing, One(e, Executed(e)), Nothing, One(event[e].of, e)), event)
    BY <2>1, <2>2 DEF Fits, Request, One, Nothing
  <2> QED
    BY <1>7, <2>3, BeginStep DEF BeginExecute
<1>8. ASSUME NEW e \in Events, BeginCancel(t, e) PROVE CInv'
  <2>1. Updated(event[e], [event[e] EXCEPT !.status = "Cancelled"])
    BY <1>1, <1>8, HandlerWrites DEF BeginCancel
  <2> QED
    BY <1>8, <2>1, OneEvent, BeginStep DEF BeginCancel
<1>9. CASE BeginFlag(t)
  BY <1>9, FlagBegins
<1>10. ASSUME NEW e \in Events, NEW x \in Forms, BeginForm(t, e, x) PROVE CInv'
  <2>1. MayType(e, x)
    BY <1>10 DEF BeginForm
  <2>2. CASE InUse(e)
    <3>1. Updated(event[e], Typed(e, x))
      BY <1>1, <2>1, <2>2, HandlerWrites
    <3> QED
      BY <1>10, <2>2, <3>1, OneEvent, BeginStep DEF BeginForm
  <2>3. CASE ~InUse(e)
    <3>1. Fresh(Typed(e, x))
      BY <1>1, <2>1, <2>3, HandlerWrites DEF Fresh
    <3> QED
      BY <1>10, <2>3, <3>1, OneInsert, BeginStep DEF BeginForm
  <2> QED
    BY <2>2, <2>3
<1> QED
  BY <1>2, <1>3, <1>4, <1>5, <1>6, <1>7, <1>8, <1>9, <1>10

(* A request commits.  The rows it changes are changed in the ways a       *)
(* handler changes them, and what another request carries still fits the   *)
(* rows it read, or that request is doomed.                                *)
LEMMA CommitWrites ==
  ASSUME CInv, NEW t \in Requests, Commit(t)
  PROVE  /\ event' = [e \in Events |-> event'[e]]
         /\ \A e \in Events :
              event'[e] = IF e \in DOMAIN request[t].inserts THEN request[t].inserts[e]
                          ELSE IF e \in DOMAIN request[t].updates THEN request[t].updates[e]
                          ELSE event[e]
         /\ \A e \in DOMAIN request[t].inserts : event[e].of = NoRecord
         /\ Fits(request[t], event)
PROOF
<1>1. event = [e \in Events |-> event[e]]
  BY DEF CInv, IInv, TypeOK
<1>2. event' = [e \in Events |->
                 IF e \in DOMAIN request[t].inserts THEN request[t].inserts[e]
                 ELSE IF e \in DOMAIN request[t].updates THEN request[t].updates[e]
                 ELSE event[e]]
  BY <1>1 DEF Commit, Overlay
<1>3. request[t].stage # "idle" /\ ~request[t].doomed
  BY DEF Commit
<1>4. Fits(request[t], event)
  BY <1>3 DEF CInv, RequestOK
<1>5. \A e \in DOMAIN request[t].inserts : event[e].of = NoRecord
  BY DEF Commit, InUse
<1> QED
  BY <1>2, <1>4, <1>5

LEMMA CommitChanges ==
  ASSUME CInv, NEW t \in Requests, Commit(t)
  PROVE  \A e \in Events : Changed(e)
BY CommitWrites DEF Changed, Fits, Inserted

LEMMA AfterKeeps ==
  ASSUME NEW mine, NEW other, IsRequest(other)
  PROVE  /\ IsRequest(After(mine, other))
         /\ After(mine, other).stage = other.stage
         /\ After(mine, other).redacts = other.redacts
PROOF
<1> DEFINE ins == IF DrawsSameSeries(mine, other) THEN Nothing ELSE other.inserts
           dmd == other.doomed \/ Overlaps(mine, other)
<1>1. After(mine, other) = [other EXCEPT !.doomed = dmd, !.inserts = ins]
  BY DEF After
<1> HIDE DEF ins, dmd
<1>2. After(mine, other) = [stage |-> other.stage, holds |-> other.holds,
                            updates |-> other.updates, inserts |-> ins,
                            redacts |-> other.redacts, doomed |-> dmd]
  BY <1>1 DEF IsRequest
<1> QED
  BY <1>2 DEF IsRequest

LEMMA StillFits ==
  ASSUME NEW mine, NEW other, NEW before, NEW after,
         IsRequest(other), Fits(mine, before), Fits(other, before), ~Overlaps(mine, other),
         \A e \in DOMAIN mine.inserts : before[e].of = NoRecord,
         \A e \in Events : e \notin DOMAIN mine.inserts /\ e \notin DOMAIN mine.updates => after[e] = before[e]
  PROVE  Fits(After(mine, other), after)
PROOF
<1>1. /\ After(mine, other).holds = other.holds
      /\ After(mine, other).updates = other.updates
      /\ After(mine, other).redacts = other.redacts
      /\ After(mine, other).inserts \in {Nothing, other.inserts}
  BY DEF After, IsRequest
<1>2. \A e \in DOMAIN other.updates : e \in Events /\ after[e] = before[e]
  BY DEF Fits, Updated, Overlaps
<1>3. \A e \in DOMAIN After(mine, other).inserts :
         e \in Events /\ Fresh(After(mine, other).inserts[e])
  BY <1>1 DEF Fits, Nothing
<1> QED
  BY <1>1, <1>2, <1>3 DEF Fits

LEMMA CommitStep ==
  ASSUME CInv, NEW t \in Requests, Commit(t)
  PROVE  CInv'
PROOF
<1> DEFINE mine == request[t]
<1>1. /\ TypeOK /\ RowsInv
      /\ RequestOK(mine, event, file)
      /\ mine.stage = IF mine.redacts = Nothing THEN "open" ELSE "overwritten"
      /\ hold' = Overlay(hold, mine.holds)
      /\ content' = Overlay(content, mine.redacts)
      /\ request' = [s \in Requests |-> IF s = t THEN Idle
                                        ELSE IF request[s].stage = "idle" THEN Idle
                                        ELSE After(mine, request[s])]
      /\ UNCHANGED <<today, ended, archived, file>>
  BY DEF CInv, IInv, Commit
<1>2. Fits(mine, event)
  BY CommitWrites
<1>3. event' \in [Events -> Row] /\ RowsInv'
  BY <1>1, CommitWrites, CommitChanges, RowsStep
<1>4. hold' \in [Holds -> Hold]
  BY <1>1, <1>2 DEF TypeOK, Overlay, Fits
<1>6. ASSUME NEW r \in Records, r \in DOMAIN mine.redacts
      PROVE  /\ file[r] = "overwritten"
             /\ mine.redacts[r] \in Events /\ event[mine.redacts[r]].of = r
             /\ Done(event[mine.redacts[r]], event'[mine.redacts[r]])
  <2> DEFINE e == mine.redacts[r]
  <2>1. file[r] = "overwritten"
    <3>1. mine.redacts # Nothing
      BY <1>6 DEF Nothing
    <3> QED
      BY <1>1, <1>6, <3>1 DEF RequestOK, Gone
  <2>2. e \in DOMAIN mine.updates /\ e \in Events /\ event[e].of = r /\ Done(event[e], mine.updates[e])
    BY <1>2, <1>6 DEF Fits
  <2> HIDE DEF e
  <2>3. event'[e] = mine.updates[e]
    BY <2>2, CommitWrites DEF Done, Granted, Open
  <2>4. e \in Events /\ event[e].of = r /\ Done(event[e], event'[e])
    BY <2>2, <2>3
  <2> QED
    BY <2>1, <2>4 DEF e
<1>10. \A r \in Records : content'[r] = IF r \in DOMAIN mine.redacts THEN mine.redacts[r] ELSE content[r]
  BY <1>1 DEF TypeOK, Overlay
<1>11. content' = [r \in Records |-> content'[r]]
  BY <1>1 DEF TypeOK, Overlay
<1>5. TypeOK'
  <2>1. content' \in [Records -> Events \cup {Kept}]
    BY <1>1, <1>6, <1>10, <1>11 DEF TypeOK
  <2> QED
    BY <1>1, <1>3, <1>4, <2>1 DEF TypeOK
<1>7. RedactionIsAccountedFor'
  BY <1>6, <1>10, CommitChanges, RedactionStep DEF CInv
<1>8. RedactedIsGone'
  BY <1>1, <1>6, <1>10 DEF CInv, RedactedIsGone
<1>9. ASSUME NEW s \in Requests PROVE RequestOK(request'[s], event', file')
  <2>1. CASE request'[s] = Idle
    BY <2>1 DEF RequestOK, IsRequest, Gone, Idle, Request
  <2>2. CASE request'[s] # Idle
    <3> DEFINE other == request[s]
    <3>1. request'[s] = After(mine, other) /\ other.stage # "idle"
      BY <1>1, <2>2
    <3>2. RequestOK(other, event, file)
      BY DEF CInv
    <3>3. IsRequest(After(mine, other)) /\ Gone(After(mine, other), file)
      BY <3>2, AfterKeeps DEF RequestOK, Gone
    <3>4. ASSUME ~After(mine, other).doomed PROVE Fits(After(mine, other), event')
      <4>1. ~other.doomed /\ ~Overlaps(mine, other)
        BY <3>2, <3>4 DEF After, RequestOK, IsRequest
      <4>2. IsRequest(other) /\ Fits(other, event)
        BY <3>1, <3>2, <4>1 DEF RequestOK
      <4> QED
        BY <1>2, <4>1, <4>2, CommitWrites, StillFits
    <3> QED
      BY <1>1, <3>1, <3>3, <3>4 DEF RequestOK
  <2> QED
    BY <2>1, <2>2
<1> QED
  BY <1>1, <1>3, <1>5, <1>7, <1>8, <1>9 DEF CInv, IInv

(* The other steps.                                                        *)
LEMMA OverwriteStep ==
  ASSUME CInv, NEW t \in Requests, OverwriteFiles(t)
  PROVE  CInv'
PROOF
<1>1. /\ request' = [request EXCEPT ![t].stage = "overwritten"]
      /\ file' = [r \in Records |-> IF r \in DOMAIN request[t].redacts THEN "overwritten" ELSE file[r]]
      /\ UNCHANGED <<today, hold, ended, archived, content, event>>
      /\ request[t].stage = "open"
  BY DEF OverwriteFiles
<1>2. request' = [s \in Requests |-> IF s = t THEN [request[t] EXCEPT !.stage = "overwritten"]
                                    ELSE request[s]]
  BY <1>1 DEF CInv
<1>3. \A r \in Records : file[r] = "overwritten" => file'[r] = "overwritten"
  BY <1>1
<1>4. ASSUME NEW s \in Requests PROVE RequestOK(request'[s], event', file')
  <2>1. RequestOK(request[s], event, file)
    BY DEF CInv
  <2>2. CASE s = t
    BY <1>1, <1>2, <2>1, <2>2 DEF RequestOK, IsRequest, Gone, Fits
  <2>3. CASE s # t
    BY <1>1, <1>2, <1>3, <2>1, <2>3 DEF RequestOK, Gone
  <2> QED
    BY <2>2, <2>3
<1>5. IInv'
  BY <1>1 DEF CInv, IInv, TypeOK, RowsInv, FreeIsBlank, PermanentIsKept, FourEyes,
              RedactionIsAccountedFor, Accounts, InUse
<1> QED
  BY <1>1, <1>2, <1>3, <1>4, <1>5 DEF CInv, RedactedIsGone

LEMMA RollBackStep ==
  ASSUME CInv, NEW t \in Requests, RollBack(t)
  PROVE  CInv'
PROOF
<1>1. /\ request' = [s \in Requests |-> IF s = t THEN Idle ELSE request[s]]
      /\ UNCHANGED <<today, hold, ended, archived, content, event, file>>
  BY DEF RollBack, CInv
<1>2. RequestOK(Idle, event, file)
  BY DEF RequestOK, IsRequest, Gone, Idle, Request
<1>3. \A s \in Requests : RequestOK(request'[s], event', file')
  BY <1>1, <1>2 DEF CInv
<1>4. IInv'
  BY <1>1 DEF CInv, IInv, TypeOK, RowsInv, FreeIsBlank, PermanentIsKept, FourEyes,
              RedactionIsAccountedFor, Accounts, InUse
<1> QED
  BY <1>1, <1>3, <1>4 DEF CInv, RedactedIsGone

LEMMA ElsewhereStep ==
  ASSUME CInv, Elsewhere
  PROVE  CInv' /\ UNCHANGED <<content, event, request, file>>
PROOF
<1>1. UNCHANGED <<content, event, request, file>>
  BY DEF Elsewhere, NextDay, EndRecord, ArchiveOnTrigger
<1>2. [Next]_vars
  BY DEF Elsewhere, Next
<1>3. IInv'
  BY <1>2, Inductive DEF CInv
<1> QED
  BY <1>1, <1>3 DEF CInv, RedactedIsGone

LEMMA CInitInv == CInit => CInv
PROOF
<1> SUFFICES ASSUME CInit PROVE CInv
  OBVIOUS
<1>1. IInv
  BY InitInv DEF CInit
<1>2. \A t \in Requests : RequestOK(request[t], event, file)
  BY DEF CInit, RequestOK, IsRequest, Gone, Idle, Request
<1> QED
  BY <1>1, <1>2 DEF CInit, Init, CInv, RedactedIsGone

LEMMA CInductive == CInv /\ [CNext]_cvars => CInv'
PROOF
<1> SUFFICES ASSUME CInv, [CNext]_cvars PROVE CInv'
  OBVIOUS
<1>1. CASE UNCHANGED cvars
  BY <1>1 DEF cvars, CInv, IInv, TypeOK, RowsInv, FreeIsBlank, PermanentIsKept, FourEyes,
              RedactionIsAccountedFor, Accounts, InUse, RedactedIsGone
<1>2. CASE Elsewhere
  BY <1>2, ElsewhereStep
<1>3. CASE \E t \in Requests : OverwriteFiles(t) \/ Commit(t) \/ RollBack(t)
  BY <1>3, OverwriteStep, CommitStep, RollBackStep
<1> QED
  BY <1>1, <1>2, <1>3, RequestsBegin DEF CNext

LEMMA CInvariant == CSpec => []CInv
  BY CInitInv, CInductive, PTL DEF CSpec

(* The rows are changed by the commits and by nothing else.                *)
LEMMA CEventsChanged ==
  ASSUME CInv, [CNext]_cvars
  PROVE  \A e \in Events : Changed(e)
PROOF
<1>1. CASE UNCHANGED event
  BY <1>1 DEF Changed
<1>2. CASE \E t \in Requests : Commit(t)
  BY <1>2, CommitChanges
<1> QED
  BY <1>1, <1>2, ElsewhereStep
  DEF CNext, cvars, Begin, BeginSaveHold, BeginReleaseHold, BeginPropose, BeginSendBack,
      BeginApprove, BeginExecute, BeginCancel, BeginForm, BeginFlag, OverwriteFiles, RollBack

(* Overlapping requests keep the rows well typed.                          *)
THEOREM TypeCorrectUnderOverlap == CSpec => []TypeOK
  BY CInvariant, PTL DEF CInv, IInv

(* Two people decide on the records screen, however the requests overlap.  *)
THEOREM TwoPeopleDecideUnderOverlap == CSpec => []FourEyes
  BY CInvariant, PTL DEF CInv, IInv, RowsInv

(* However the requests overlap, content is lost only under an event that  *)
(* is executed and approved for good, and unless a form rewrote it decided *)
(* on the disposal of this record, which may be disposed of.               *)
THEOREM RedactionAccountedUnderOverlap == CSpec => []RedactionIsAccountedFor
  BY CInvariant, PTL DEF CInv, IInv

(* A record that reads as redacted has no file left on disk: the reverse   *)
(* of FilesAreAccountedFor, which the code does not keep.                  *)
THEOREM NothingOutlivesRedaction == CSpec => []RedactedIsGone
  BY CInvariant, PTL DEF CInv

(* No overlap rewrites an approved decision, save a form, or takes back an *)
(* execution.                                                              *)
THEOREM DecisionsSurviveOverlap == CSpec => DecidedStays
PROOF
<1> DEFINE A == \A e \in Events :
                  event[e].approved_by # NoOne =>
                    /\ ~event'[e].typed =>
                         \A f \in {"decision", "until", "proposed_by", "approved_by"} :
                           event'[e][f] = event[e][f]
                    /\ event[e].executed => event'[e].executed /\ event'[e].approved_by # NoOne
<1>1. CInv /\ [CNext]_cvars => [A]_cvars
  BY DecidedRowStays, CEventsChanged DEF CInv, IInv
<1> QED
  BY <1>1, CInvariant, PTL DEF CSpec, DecidedStays

-----------------------------------------------------------------------------
(* A record is on the disposal list once: an ordinary event is opened by   *)
(* the job that inserts it, which saw none open about that record, and of  *)
(* two jobs that overlap one inserts.                                      *)

OpensOnce(q, rows) ==
  \A e \in DOMAIN q.inserts :
    ~q.inserts[e].typed =>
      /\ \A f \in DOMAIN q.inserts :
           ~q.inserts[f].typed /\ q.inserts[e].of = q.inserts[f].of => e = f
      /\ \A f \in Events : Ordinary(rows[f]) => rows[f].of # q.inserts[e].of

HandInv ==
  /\ OneInHand
  /\ \A t \in Requests :
       request[t].stage # "idle" /\ ~request[t].doomed => OpensOnce(request[t], event)

LEMMA NoInsertsOpenOnce ==
  ASSUME NEW q, NEW rows, q.inserts = Nothing
  PROVE  OpensOnce(q, rows)
BY DEF OpensOnce, Nothing

LEMMA HandBegins ==
  ASSUME CInv, HandInv, NEW t \in Requests, NEW hs, NEW us, NEW is, NEW rs,
         Begin(t, hs, us, is, rs), OpensOnce(Request("open", hs, us, is, rs), event)
  PROVE  HandInv'
PROOF
<1> DEFINE q == Request("open", hs, us, is, rs)
<1>1. OpensOnce(q, event) /\ event' = event /\ request' = [request EXCEPT ![t] = q]
  BY DEF Begin
<1> HIDE DEF q
<1>2. \A s \in Requests : request'[s] = IF s = t THEN q ELSE request[s]
  BY <1>1 DEF CInv
<1> QED
  BY <1>1, <1>2 DEF HandInv, OneInHand, InHand, IsOpen, InUse

LEMMA HandFlag ==
  ASSUME CInv, HandInv, NEW t \in Requests, BeginFlag(t)
  PROVE  HandInv'
PROOF
<1> DEFINE due == DueForDisposal(archived)
<1>1. /\ TypeOK /\ RowsInv /\ due \in SUBSET Records
      /\ \A r \in due, f \in Events : Ordinary(event[f]) => event[f].of # r
  BY DEF CInv, IInv, TypeOK, DueForDisposal, DispositionPending, EventsOf, Ordinary, Open, IsOpen, InUse
<1>2. PICK new \in [due -> {e \in Events : ~InUse(e)}],
           first \in [Records -> Holds \cup {NoHold}] :
             /\ Injective(new)
             /\ FirstHold(first)
             /\ LET after    == [e \in Events |-> Flagged(e, due, new, first)]
                    inserted == {new[r] : r \in due}
                    held     == {e \in Events \ inserted : after[e] # event[e]}
                IN  Begin(t, Nothing, [e \in held |-> after[e]], [e \in inserted |-> after[e]], Nothing)
  BY DEF BeginFlag
<1> HIDE DEF due
<1> DEFINE after    == [e \in Events |-> Flagged(e, due, new, first)]
           inserted == {new[r] : r \in due}
           held     == {e \in Events \ inserted : after[e] # event[e]}
           us       == [e \in held |-> after[e]]
           is       == [e \in inserted |-> after[e]]
<1>3. Begin(t, Nothing, us, is, Nothing)
  BY <1>2
<1> HIDE DEF after
<1>4. \A e \in Events : after[e] = Flagged(e, due, new, first)
  BY DEF after
<1>5. ASSUME NEW e \in inserted
      PROVE  e \in Events /\ \E r \in due : new[r] = e /\ after[e].of = r
  <2>1. e \in Events /\ \E r \in due : new[r] = e
    OBVIOUS
  <2>2. PICK r \in due, h \in Holds \cup {NoHold} : new[r] = e /\ after[e] = NewEvent(r, h)
    BY <1>1, <1>2, <1>4, <2>1, FlagWrites
  <2> QED
    BY <2>1, <2>2 DEF NewEvent
<1>6. OpensOnce(Request("open", Nothing, us, is, Nothing), event)
  <2> HIDE DEF held, inserted
  <2>1. \A e, f \in inserted : after[e].of = after[f].of => e = f
    BY <1>5
  <2>2. \A e \in inserted, f \in Events : Ordinary(event[f]) => event[f].of # after[e].of
    BY <1>1, <1>5
  <2> QED
    BY <2>1, <2>2 DEF OpensOnce, Request
<1> HIDE DEF us, is
<1> QED
  BY <1>3, <1>6, HandBegins

LEMMA HandCommit ==
  ASSUME CInv, HandInv, NEW t \in Requests, Commit(t)
  PROVE  HandInv'
PROOF
<1> DEFINE mine == request[t]
<1>1. /\ TypeOK /\ RowsInv /\ OneInHand
      /\ mine.stage # "idle" /\ ~mine.doomed
      /\ OpensOnce(mine, event)
      /\ request' = [s \in Requests |-> IF s = t THEN Idle
                                        ELSE IF request[s].stage = "idle" THEN Idle
                                        ELSE After(mine, request[s])]
  BY DEF CInv, IInv, HandInv, Commit
<1>2. ASSUME NEW e \in Events, e \notin DOMAIN mine.inserts, Ordinary(event'[e])
      PROVE  Ordinary(event[e]) /\ event'[e].of = event[e].of
  <2>1. event'[e] = event[e] \/ Updated(event[e], event'[e])
    BY <1>2, CommitWrites DEF Fits
  <2> QED
    BY <1>1, <1>2, <2>1, UpdatedRow DEF Ordinary
<1>3. \A e \in DOMAIN mine.inserts : e \in Events /\ event'[e] = mine.inserts[e]
  BY CommitWrites DEF Fits
<1>4. OneInHand'
  <2> SUFFICES ASSUME NEW e \in Events, NEW f \in Events, Ordinary(event'[e]), Ordinary(event'[f]),
                      event'[e].of = event'[f].of
               PROVE  e = f
    BY DEF OneInHand, InHand, IsOpen, InUse, Open, Ordinary
  <2> QED
    BY <1>1, <1>2, <1>3 DEF OneInHand, InHand, OpensOnce, IsOpen, InUse, Open, Ordinary
<1>5. ASSUME NEW s \in Requests, request'[s].stage # "idle", ~request'[s].doomed
      PROVE  OpensOnce(request'[s], event')
  <2> DEFINE other == request[s]
  <2>1. request'[s] = After(mine, other) /\ other.stage # "idle"
    BY <1>1, <1>5 DEF Idle, Request
  <2>2. IsRequest(other)
    BY DEF CInv, RequestOK
  <2>3. CASE DrawsSameSeries(mine, other)
    BY <2>1, <2>2, <2>3, NoInsertsOpenOnce DEF After, IsRequest
  <2>4. CASE ~DrawsSameSeries(mine, other)
    <3>1. ~other.doomed /\ request'[s].inserts = other.inserts
      BY <1>5, <2>1, <2>2, <2>4 DEF After, IsRequest
    <3>2. OpensOnce(other, event)
      BY <2>1, <3>1 DEF HandInv
    <3>3. CASE other.inserts = Nothing
      BY <3>1, <3>3, NoInsertsOpenOnce
    <3>4. CASE mine.inserts = Nothing
      BY <1>2, <3>1, <3>2, <3>4 DEF OpensOnce, Nothing
    <3> QED
      BY <2>4, <3>3, <3>4 DEF DrawsSameSeries
  <2> QED
    BY <2>3, <2>4
<1> QED
  BY <1>4, <1>5 DEF HandInv

LEMMA HandInductive == CInv /\ HandInv /\ [CNext]_cvars => HandInv'
PROOF
<1> SUFFICES ASSUME CInv, HandInv, [CNext]_cvars PROVE HandInv'
  OBVIOUS
<1>1. ASSUME UNCHANGED <<event, request>> PROVE HandInv'
  BY <1>1 DEF HandInv, OneInHand, InHand, IsOpen, InUse
<1>2. ASSUME NEW t \in Requests, NEW hs, NEW us, NEW rs, Begin(t, hs, us, Nothing, rs) PROVE HandInv'
  <2>1. OpensOnce(Request("open", hs, us, Nothing, rs), event)
    BY NoInsertsOpenOnce DEF Request
  <2> QED
    BY <1>2, <2>1, HandBegins
<1>3. CASE \E t \in Requests :
             \/ \E h \in Holds, p \in Day, q \in Date : BeginSaveHold(t, h, p, q)
             \/ \E h \in Holds : BeginReleaseHold(t, h)
             \/ \E e \in Events, m \in Managers, d \in {"Dispose", "Retain"}, u \in Date :
                  BeginPropose(t, e, m, d, u)
             \/ \E e \in Events : BeginSendBack(t, e)
             \/ \E e \in Events, m \in Managers : BeginApprove(t, e, m)
             \/ \E e \in Events : BeginExecute(t, e)
             \/ \E e \in Events : BeginCancel(t, e)
  BY <1>2, <1>3 DEF BeginSaveHold, BeginReleaseHold, BeginPropose, BeginSendBack, BeginApprove,
                    BeginExecute, BeginCancel
<1>6. ASSUME NEW t \in Requests, NEW e \in Events, NEW x \in Forms, BeginForm(t, e, x) PROVE HandInv'
  <2>1. CASE InUse(e)
    BY <1>2, <1>6, <2>1 DEF BeginForm
  <2>2. CASE ~InUse(e)
    <3>1. event[e] \in Row
      BY DEF CInv, IInv, TypeOK
    <3>2. Typed(e, x).typed
      BY <3>1 DEF Typed, Row
    <3>3. OpensOnce(Request("open", Nothing, Nothing, One(e, Typed(e, x)), Nothing), event)
      BY <3>2 DEF OpensOnce, Request, One
    <3> QED
      BY <1>6, <2>2, <3>3, HandBegins DEF BeginForm
  <2> QED
    BY <2>1, <2>2
<1>4. ASSUME NEW t \in Requests, OverwriteFiles(t) PROVE HandInv'
  <2>1. event' = event /\ request' = [s \in Requests |-> IF s = t THEN [request[t] EXCEPT !.stage = "overwritten"]
                                                        ELSE request[s]]
    BY <1>4 DEF OverwriteFiles, CInv
  <2>2. request[t].stage = "open" /\ IsRequest(request[t])
    BY <1>4 DEF OverwriteFiles, CInv, RequestOK
  <2> QED
    BY <2>1, <2>2 DEF HandInv, OneInHand, InHand, OpensOnce, IsOpen, InUse, IsRequest
<1>5. ASSUME NEW t \in Requests, RollBack(t) PROVE HandInv'
  <2>1. event' = event /\ request' = [s \in Requests |-> IF s = t THEN Idle ELSE request[s]]
    BY <1>5 DEF RollBack, CInv
  <2> QED
    BY <2>1 DEF HandInv, OneInHand, InHand, OpensOnce, IsOpen, InUse, Idle, Request
<1> QED
  BY <1>1, <1>3, <1>4, <1>5, <1>6, ElsewhereStep, HandFlag, HandCommit DEF CNext, cvars

LEMMA HandInit == CInit => HandInv
BY DEF CInit, Init, HandInv, OneInHand, InHand, IsOpen, InUse, NewEvent, Idle, Request

(* However many jobs and requests overlap, no two open events are about    *)
(* the same record, of those that no form typed and no release reopened.   *)
THEOREM OnceInHand == CSpec => []OneInHand
PROOF
<1>1. CInit => CInv /\ HandInv
  BY CInitInv, HandInit
<1>2. CInv /\ HandInv /\ [CNext]_cvars => CInv' /\ HandInv'
  BY CInductive, HandInductive
<1> QED
  BY <1>1, <1>2, PTL DEF CSpec, HandInv
=============================================================================
