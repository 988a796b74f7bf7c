------------------------------ MODULE Disposal ------------------------------
(***************************************************************************)
(* Legal holds, archives and the disposal of records past their retention  *)
(* period: consilium_core/retention.py, consilium_core/records.py and the  *)
(* controllers of Legal Hold and Disposition Event.                        *)
(*                                                                         *)
(* Every handler is one action: a request or a scheduled job is one        *)
(* database transaction.  What happens when two of them overlap is the     *)
(* subject of DisposalConcurrent, which reuses the guards and effects      *)
(* defined here.                                                           *)
(***************************************************************************)
EXTENDS Naturals, FiniteSets

CONSTANTS
  Records,    \* the records a retention assignment covers
  Permanent,  \* those whose class says "Archive Permanently"
  Period,     \* retention_period_months of a record's class, in days here
  Holds,      \* names of legal holds
  Covers,     \* the records a hold's scope_doctype and scope_filter select
  Managers,   \* users with a records role
  Forms,      \* what may be typed into the form of a Disposition Event (bounds it)
  Events,     \* names available to Disposition Event rows (bounds them)
  MaxDay,     \* last day of the calendar (bounds time)
  NoRecord,   \* an event name not yet in use
  NoHold,     \* an empty held_by_legal_hold
  NoOne,      \* an empty proposed_by or approved_by
  Kept        \* the content of a record not disposed of

Day   == 0..MaxDay
Never == MaxDay + 1     \* a date field left empty: later than every day
Date  == 0..Never

ASSUME DayAssumption   == MaxDay \in Nat
ASSUME ClassAssumption == /\ Permanent \subseteq Records
                          /\ Period \in [Records -> Nat]
ASSUME HoldAssumption  == Covers \in [Holds -> SUBSET Records]
ASSUME NullAssumption  == /\ NoRecord \notin Records
                          /\ NoHold \notin Holds
                          /\ NoOne \notin Managers
                          /\ Kept \notin Events

VARIABLES
  today,     \* nowdate()
  hold,      \* Legal Hold rows
  ended,     \* the date of a record's terminal event (retired_on, closed_on...)
  archived,  \* the records that have an Archive Record
  content,   \* a record's content: Kept, or the event its redaction marker names
  event      \* Disposition Event rows

vars == <<today, hold, ended, archived, content, event>>

-----------------------------------------------------------------------------
(* The rows.                                                               *)

Hold == [placed: Date, released: Date, active: BOOLEAN]

Statuses  == {"Scheduled", "Held", "Approved", "Executed", "Cancelled", "Retained"}
Decisions == {"None", "Dispose", "Retain"}

Row == [of: Records \cup {NoRecord}, status: Statuses,
        held_by: Holds \cup {NoHold}, decision: Decisions, until: Date,
        proposed_by: Managers \cup {NoOne}, approved_by: Managers \cup {NoOne},
        executed: BOOLEAN, typed: BOOLEAN, reopened: BOOLEAN]

(* The last two are no fields of the DocType but observations, which no    *)
(* guard reads: the form wrote more than a status of Cancelled into this   *)
(* row; the release of a hold set it back to Scheduled after it was closed.*)

(* The editable fields of disposition_event.json.                          *)
FormFields == [of: Records, status: Statuses, decision: Decisions, until: Date,
               approved_by: Managers \cup {NoOne}]

ASSUME FormAssumption == Forms \subseteq FormFields

(* The semantic flag is_open of a status (setup/state_flag_seed.py), which *)
(* DispositionEvent.validate applies on every save.                        *)
OpenStatuses == {"Scheduled", "Held", "Approved"}

InUse(e)  == event[e].of # NoRecord
IsOpen(e) == InUse(e) /\ event[e].status \in OpenStatuses
EventsOf(r) == {e \in Events : event[e].of = r}

NewEvent(r, h) ==
  [of |-> r, status |-> IF h = NoHold THEN "Scheduled" ELSE "Held", held_by |-> h,
   decision |-> "None", until |-> Never, proposed_by |-> NoOne,
   approved_by |-> NoOne, executed |-> FALSE, typed |-> FALSE, reopened |-> FALSE]

(* LegalHold.validate: the flag is computed when the row is saved.         *)
SavedHold(p, q) == [placed |-> p, released |-> q, active |-> p <= today /\ ~(q <= today)]

(* active_legal_hold: any hold whose flag is set and whose scope matches.  *)
ActiveHolds(r) == {h \in Holds : hold[h].active /\ r \in Covers[h]}
UnderHold(r)   == ActiveHolds(r) # {}

DueOn(r) == ended[r] + Period[r]

-----------------------------------------------------------------------------
Init ==
  /\ today = 0
  /\ hold = [h \in Holds |-> [placed |-> Never, released |-> Never, active |-> FALSE]]
  /\ ended = [r \in Records |-> Never]
  /\ archived = {}
  /\ content = [r \in Records |-> Kept]
  /\ event = [e \in Events |-> NewEvent(NoRecord, NoHold)]

(* Time, and the record's own lifecycle, which belongs to other modules.   *)
NextDay ==
  /\ today < MaxDay
  /\ today' = today + 1
  /\ UNCHANGED <<hold, ended, archived, content, event>>

EndRecord(r) ==
  /\ ended[r] = Never
  /\ ended' = [ended EXCEPT ![r] = today]
  /\ UNCHANGED <<today, hold, archived, content, event>>

-----------------------------------------------------------------------------
(* Legal holds.                                                            *)

(* The Legal Hold form: a hold is placed, or its dates are edited.         *)
SaveHold(h, p, q) ==
  /\ p <= q
  /\ hold' = [hold EXCEPT ![h] = SavedHold(p, q)]
  /\ UNCHANGED <<today, ended, archived, content, event>>

(* records.release_legal_hold and retention.release_hold: the row is saved *)
(* with a release date, and every event that names the hold, open or not,  *)
(* goes back to Scheduled.                                                 *)
ReleaseDate(h) == IF hold[h].released = Never THEN today ELSE hold[h].released

Released(h) ==
  [e \in Events |->
     IF event[e].held_by = h
     THEN [event[e] EXCEPT !.status = "Scheduled", !.held_by = NoHold,
                           !.reopened = @ \/ ~IsOpen(e)]
     ELSE event[e]]

ReleaseHold(h) ==
  /\ hold[h].placed # Never
  /\ hold[h].placed <= ReleaseDate(h)
  /\ hold' = [hold EXCEPT ![h] = SavedHold(hold[h].placed, ReleaseDate(h))]
  /\ event' = Released(h)
  /\ UNCHANGED <<today, ended, archived, content>>

-----------------------------------------------------------------------------
(* The scheduled jobs.                                                     *)

(* records.archive_on_trigger: every record whose terminal event has come. *)
TriggerPassed == {r \in Records : ended[r] <= today}

ArchiveOnTrigger ==
  /\ archived' = archived \cup TriggerPassed
  /\ UNCHANGED <<today, hold, ended, content, event>>

(* retention._retained and retention._disposition_pending.                 *)
Retained(e) == /\ event[e].decision = "Retain"
               /\ event[e].approved_by # NoOne
               /\ event[e].until >= today

(* Mutants: an executed event forgotten; a record due today left for       *)
(* tomorrow, which never comes on the last day.                            *)
MutantDispositionPending(r) ==
  \E e \in EventsOf(r) : IsOpen(e) \/ Retained(e)

DispositionPending(r) ==
  \E e \in EventsOf(r) : IsOpen(e) \/ event[e].executed \/ Retained(e)

MutantDueForDisposal(arch) ==
  {r \in arch : DueOn(r) < today /\ ~DispositionPending(r)}

DueForDisposal(arch) ==
  {r \in arch : DueOn(r) <= today /\ ~DispositionPending(r)}

(* retention.flag_due_for_disposal over the archives in arch.  "new" names *)
(* the inserted rows; "first" is the hold active_legal_hold happens to     *)
(* return where more than one is active.                                   *)
Injective(f) == \A x, y \in DOMAIN f : f[x] = f[y] => x = y

FirstHold(first) ==
  \A r \in Records : IF UnderHold(r) THEN first[r] \in ActiveHolds(r) ELSE first[r] = NoHold

(* Mutant: the sweep over the events already scheduled is left out.        *)
MutantFlagged(e, due, new, first) ==
  IF \E r \in due : new[r] = e
  THEN LET r == CHOOSE s \in due : new[s] = e IN NewEvent(r, first[r])
  ELSE event[e]

Flagged(e, due, new, first) ==
  IF \E r \in due : new[r] = e
  THEN LET r == CHOOSE s \in due : new[s] = e IN NewEvent(r, first[r])
  ELSE IF IsOpen(e) /\ event[e].held_by = NoHold /\ UnderHold(event[e].of)
       THEN [event[e] EXCEPT !.status = "Held", !.held_by = first[event[e].of]]
       ELSE event[e]

FlagDue(arch) ==
  LET due == DueForDisposal(arch)
  IN  \E new \in [due -> {e \in Events : ~InUse(e)}],
         first \in [Records -> Holds \cup {NoHold}] :
        /\ Injective(new)
        /\ FirstHold(first)
        /\ event' = [e \in Events |-> Flagged(e, due, new, first)]

FlagDueForDisposal ==
  /\ FlagDue(archived)
  /\ UNCHANGED <<today, hold, ended, archived, content>>

(* records.run_check: both jobs, now, in one request.                      *)
RunCheck ==
  /\ archived' = archived \cup TriggerPassed
  /\ FlagDue(archived \cup TriggerPassed)
  /\ UNCHANGED <<today, hold, ended, content>>

-----------------------------------------------------------------------------
(* The records manager's screen.  For each action: the guard the handler   *)
(* evaluates and the row it writes.                                        *)

MayPropose(e, decision, until) ==
  /\ IsOpen(e)
  /\ event[e].approved_by = NoOne
  /\ IF decision = "Dispose"
     THEN /\ ~UnderHold(event[e].of)
          /\ event[e].of \notin Permanent
          /\ until = Never
     ELSE /\ until > today
          /\ until = Never => event[e].of \in Permanent

(* Mutant: the record is kept one day longer than was asked.               *)
MutantProposed(e, m, decision, until) ==
  [event[e] EXCEPT !.decision = decision, !.until = until + 1, !.proposed_by = m]

Proposed(e, m, decision, until) ==
  [event[e] EXCEPT !.decision = decision, !.until = until, !.proposed_by = m]

MaySendBack(e) ==
  /\ IsOpen(e)
  /\ event[e].approved_by = NoOne
  /\ event[e].decision # "None"

SentBack(e) ==
  [event[e] EXCEPT !.decision = "None", !.until = Never, !.proposed_by = NoOne]

(* Mutant: the proposer approves.                                          *)
MutantMayApprove(e, m) ==
  /\ IsOpen(e)
  /\ event[e].decision # "None"
  /\ event[e].approved_by = NoOne
  /\ event[e].decision = "Dispose" => ~UnderHold(event[e].of)

MayApprove(e, m) ==
  /\ IsOpen(e)
  /\ event[e].decision # "None"
  /\ event[e].proposed_by # NoOne
  /\ event[e].approved_by = NoOne
  /\ event[e].proposed_by # m
  /\ event[e].decision = "Dispose" => ~UnderHold(event[e].of)

Approved(e, m) ==
  [event[e] EXCEPT !.approved_by = m,
                   !.status = IF event[e].decision = "Dispose" THEN "Approved" ELSE "Retained"]

MayExecute(e) ==
  /\ IsOpen(e)
  /\ event[e].decision = "Dispose"
  /\ ~UnderHold(event[e].of)
  /\ event[e].approved_by # NoOne

Executed(e) ==
  [event[e] EXCEPT !.status = "Executed", !.executed = TRUE]

Propose(e, m, decision, until) ==
  /\ MayPropose(e, decision, until)
  /\ event' = [event EXCEPT ![e] = Proposed(e, m, decision, until)]
  /\ UNCHANGED <<today, hold, ended, archived, content>>

SendBack(e) ==
  /\ MaySendBack(e)
  /\ event' = [event EXCEPT ![e] = SentBack(e)]
  /\ UNCHANGED <<today, hold, ended, archived, content>>

Approve(e, m) ==
  /\ MayApprove(e, m)
  /\ event' = [event EXCEPT ![e] = Approved(e, m)]
  /\ UNCHANGED <<today, hold, ended, archived, content>>

(* records.redact, then retention.execute_disposition.                     *)
Execute(e) ==
  /\ MayExecute(e)
  /\ content' = [content EXCEPT ![event[e].of] = e]
  /\ event' = [event EXCEPT ![e] = Executed(e)]
  /\ UNCHANGED <<today, hold, ended, archived>>

-----------------------------------------------------------------------------
(* The Disposition Event form, which the Records Manager may create and    *)
(* write.  It never asks whether the event is open.                        *)

(* A disposal is called off.                                               *)
Cancel(e) ==
  /\ InUse(e)
  /\ event' = [event EXCEPT ![e].status = "Cancelled"]
  /\ UNCHANGED <<today, hold, ended, archived, content>>

(* Any other save: a row entered by hand, or its editable fields typed     *)
(* over.  An executed event needs an approver; proposed_by, executed_on    *)
(* and held_by_legal_hold are read-only.                                   *)
MayType(e, x) ==
  /\ x.of \in archived
  /\ event[e].executed => x.approved_by # NoOne

Typed(e, x) ==
  [event[e] EXCEPT !.of = x.of, !.status = x.status, !.decision = x.decision, !.until = x.until,
                   !.approved_by = x.approved_by, !.typed = TRUE]

SaveForm(e, x) ==
  /\ MayType(e, x)
  /\ event' = [event EXCEPT ![e] = Typed(e, x)]
  /\ UNCHANGED <<today, hold, ended, archived, content>>

-----------------------------------------------------------------------------
Next ==
  \/ NextDay
  \/ \E r \in Records : EndRecord(r)
  \/ \E h \in Holds, p \in Day, q \in Date : SaveHold(h, p, q)
  \/ \E h \in Holds : ReleaseHold(h)
  \/ ArchiveOnTrigger
  \/ FlagDueForDisposal
  \/ RunCheck
  \/ \E e \in Events, m \in Managers, d \in {"Dispose", "Retain"}, u \in Date : Propose(e, m, d, u)
  \/ \E e \in Events : SendBack(e)
  \/ \E e \in Events, m \in Managers : Approve(e, m)
  \/ \E e \in Events : Execute(e)
  \/ \E e \in Events : Cancel(e)
  \/ \E e \in Events, x \in Forms : SaveForm(e, x)

Spec == Init /\ [][Next]_vars

(* The scheduler runs the daily jobs every day and days pass; nobody has   *)
(* to place a hold, propose or approve anything.                           *)
Fairness == /\ WF_vars(NextDay)
            /\ WF_vars(ArchiveOnTrigger)
            /\ WF_vars(FlagDueForDisposal)

FairSpec == Spec /\ Fairness

-----------------------------------------------------------------------------
TypeOK ==
  /\ today \in Day
  /\ hold \in [Holds -> Hold]
  /\ ended \in [Records -> Date]
  /\ archived \subseteq Records
  /\ content \in [Records -> Events \cup {Kept}]
  /\ event \in [Events -> Row]

(* Four eyes, of what the records screen decided: a decision in force was  *)
(* proposed by one person and approved by another, whatever was proposed,  *)
(* sent back, held or released between.  An event typed over on its form   *)
(* is the exception (AlwaysTwoPeople, below).                              *)
FourEyes ==
  \A e \in Events :
    ~event[e].typed /\ event[e].approved_by # NoOne =>
      /\ event[e].decision # "None"
      /\ event[e].proposed_by \notin {NoOne, event[e].approved_by}

(* A record loses its content only under an event that goes on saying so:  *)
(* the event its marker names is executed, for good, and has an approver;  *)
(* and unless the form rewrote it, it is about this record, decided on     *)
(* disposal, and the record's class does not archive for ever.             *)
Accounts(e, r) ==
  /\ event[e].executed
  /\ event[e].approved_by # NoOne
  /\ ~event[e].typed => /\ event[e].of = r
                        /\ event[e].decision = "Dispose"
                        /\ r \notin Permanent

RedactionIsAccountedFor == \A r \in Records : content[r] # Kept => Accounts(content[r], r)

(* An executed event is never lost: a redacted record is never put in      *)
(* front of a reviewer a second time, except by a form, or once the form   *)
(* rewrote the event it was redacted under.                                *)
DisposedOnce ==
  [][\A r \in Records :
       content[r] # Kept /\ ~event[content[r]].typed =>
         \A e \in Events : event'[e].of = r => event[e].of = r \/ event'[e].typed]_vars

(* What was approved is what is carried out: once an event has an approver *)
(* nothing but its form rewrites the decision, the retention date or the   *)
(* two names.                                                              *)
ApprovedDecisionFrozen ==
  [][\A e \in Events :
       event[e].approved_by # NoOne /\ ~event'[e].typed =>
         \A f \in {"decision", "until", "proposed_by", "approved_by"} :
           event'[e][f] = event[e][f]]_vars

(* Nothing is forgotten: a record past its retention period has a decision *)
(* in hand or behind it, also after a cancelled disposal and after a       *)
(* retention that has lapsed (or every event name of the model is used).   *)
OutOfNames == \A e \in Events : InUse(e)

DueIsFlagged ==
  \A r \in Records :
    (ended[r] # Never /\ DueOn(r) <= today) ~> (DispositionPending(r) \/ OutOfNames)

(* A hold placed after an event was scheduled is shown on that event: the  *)
(* event is marked as held unless it closes or the hold ends first.        *)
HoldReachesOpenEvents ==
  \A e \in Events :
    (IsOpen(e) /\ UnderHold(event[e].of))
      ~> (~IsOpen(e) \/ event[e].held_by # NoHold \/ ~UnderHold(event[e].of))

-----------------------------------------------------------------------------
(* What the documents say and the code does not do.                        *)

(* legal_hold.py: "A hold is active from the day it is placed until the    *)
(* day it is released ... nothing can be held by a stale checkbox."  A     *)
(* hold dated ahead is saved inactive and no job saves it again, so that   *)
(* content is removed inside its window.                                   *)
InForce(h, r) == /\ r \in Covers[h]
                 /\ hold[h].placed <= today
                 /\ today < hold[h].released

NoDisposalWhileInForce ==
  [][\A r \in Records, h \in Holds :
       content[r] = Kept /\ content'[r] # Kept => ~InForce(h, r)]_vars

(* records.py: "A disposal decision always takes two people."  The form    *)
(* takes an approver, a decision and a status from one person, and the     *)
(* execution asks for an approver only.                                    *)
AlwaysTwoPeople ==
  \A e \in Events :
    event[e].executed => event[e].proposed_by \notin {NoOne, event[e].approved_by}
=============================================================================
