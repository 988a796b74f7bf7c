# A verification project for Consilium

TLA+ models of Consilium, the governance, policy and escalation platform under
`src/apps/consilium` (a Frappe v15 application on PostgreSQL), the TLC runs that check
them on small instances, and the theorems TLAPS proves about them for every instance.

`PROJECT.json` maps every definition to the lines it translates and lists the runs, the
mutants each property is tested against, and the hazards.

Contents: 1 the system · 2 the execution model · 3 the modules · 4 the runs, their bounds
and fairness · 5 what is proved · 6 what the code does otherwise than it says · 7 the plan ·
8 what is not modelled.

## 1. The system: components, state, operations

Python handlers (`@frappe.whitelist`) and document controllers (`validate`, `on_update`)
change rows of *DocTypes* in PostgreSQL; scheduled jobs (`hooks.py`, `scheduler_events`) do
the same once a day or an hour. Business modules (governance, policy, escalation) use a
core (`consilium_core`). Components interact in four ways: direct calls; document events
(`doc_events` in `hooks.py`: the retention guard before every save, watched fields and
service-level clocks after it, the revision snapshot of forums and escalation matters);
shared rows (Approval Decision, Document Version, State Flag); and the notification queue.

| component | state it keeps | operations that change it | what is hard | what makes it correct |
|---|---|---|---|---|
| **Retention and disposal** (`retention`, `records`) | Legal Hold, Archive Record, Disposition Event, files on disk | place/edit/release a hold, archive on trigger, flag due records, propose, send back, approve, execute, cancel | holds placed at any point; a derived flag stored on the row; overlapping requests; files outside the transaction | four eyes; nothing redacted without account; nothing destroyed under a hold; nothing forgotten |
| **Versions and revision** (`versioning`, `revision`) | Document Version chain | create a version, snapshot on save, revert | triggers that change the record after it was saved; reverts across states | the chain is an append-only history and its head is true |
| **Forum lifecycle** (`governance/lifecycle`, `reviews`, `charters`) | `compliance_status`, reviews, disbandment plans and decisions | edit, review (two doors), challenge, raise/decide/execute a plan | a review applied from the form as well as the portal; refused plans | good standing is earned by a review of the present mandate; disbandment by consent |
| **Forum membership** (`governance/membership`) | Forum Membership, officer fields on the forum | open/edit/close a seat, derive officers | dates pass without a save; ranges closed at both ends | one chair a day; officers were right; the past stays answerable |
| **Forum voting** (`voting`) | Forum Motion, Forum Vote | put, cast as member or delegate, correct on the form, defer, record the outcome | ballots and outcome in different rows; seats that change under the motion | the decision on record is the one the ballots on record made |
| **Attestation** (`attestation`) | campaigns, tasks, items | open, attest, extend, expire, remind | expiry racing an answer | one task a person; nothing answered after expiry |
| **Approvals, delegation** (`approvals`, `delegation`) | Approval Decision, Authority Delegation | raise, claim from a queue, decide, supersede, bypass, lapse | delegate and approver at once; steps answered out of order | one decision each; in order; nobody excuses themselves |
| **Notifications** (`notification`, `graph_mail`) | Notification Dispatch, the framework's Email Queue | dispatch, fall back, deliver in the background, reconcile, retry hourly | a service that takes a message and does not say so; killed jobs; refusals after "Sent" | told once, beyond what no row can know; sent or given up on |
| **Service-level clocks, durations** (`sla`, `state_durations`) | clocks, segments | start, pause, resume, stop, breach sweep | two daily jobs over one clock; clocks that breached are no longer open | one clock a definition; a breach counts once |
| **Reminders** (`reminders`) | reminder log | daily and hourly runs | overlapping runs | one reminder a step |
| **Imports, exports** (`importing`, `exporting`) | batches, rows, files | stage, validate, run, repeat | failure of one row | a row is applied at most once |
| **Forum formation** (`governance/formation`, `charters`) | Committee Formation Request, its steps and exceptions | draft, submit, evaluate, return, raise the route, decide, bypass, dispute, reject, approve | facts that choose the route edited meanwhile; exceptions; two deciders at once | the right route, in order; a forum only through the gate |
| **Policy lifecycle, publication, routing, handling** (`policy/*`) | Governing Document, its versions, steps, exceptions and publications | draft, route, approve, excuse a gate, publish, withdraw, revert | versions, kind and route change under the approvals | what is in force or announced was approved as that version |
| **Escalation approvals, resolution, routing** (`escalation/*`) | Escalation Matter, Closure, Risk Acceptance | raise, route, own, move, close, reopen, sweep breaches; propose, ask, decide an acceptance | every save routes and times again; parallel approvers | a breach raises once and is not lowered; an acceptance has effect only by all its approvers |
| **Process supervisor** (`winbench`) | processes, state files | start, watch, restart, stop | dead and stale processes | at most one of each service |
| pages, search, guide, AI, integrations, deployment | none, or logs | read, format, call out | external services | — |

The hazards that follow from this, each at its line, are in `PROJECT.json`.

## 2. The execution model

- A request or a job is **one database transaction**, and one action of a module. It either
  commits all its rows or none. This is how Frappe runs a handler.
- Transactions run at REPEATABLE READ on PostgreSQL: a request reads its own snapshot, and
  a write to a row that somebody else changed and committed in the meantime fails.
  `Document.save` reads the row `FOR UPDATE` and refuses a stale `modified`. Inserts into one
  naming series meet on the series' row. `DisposalConcurrent` models these three facts as
  external definitions. `Voting`, `Formation` (a decision on a step) and `Notification` (the
  hourly job against everything else) also let requests overlap, each where two requests that
  do not write one row can spoil what a third reads; the other modules take one request at a
  time, because there every request writes the row the next one reads.
- What leaves the database is not transactional: a file overwritten, or a message a mail
  service has taken, stays so when the request is rolled back (`DisposalConcurrent`,
  `Notification`).
- Document events run inside the save, the controller's `on_update` before those of
  `hooks.py`. A module's action contains them: `Edit` of `ForumRecord` is the save, the
  watched-field trigger and the snapshot, in this order.
- Today's date is a variable (`today`), because much of the state here is a flag computed
  from a date when a row was last saved.

## 3. The modules

**`Disposal`.** State: `hold`, `event` (rows of Legal Hold and Disposition Event),
`archived`, `content` (kept or redacted), `ended` (the terminal date of a record, which
other components set) and `today`. One action for each handler and job; a handler's guard is
`May…` and the row it writes is an operator of its own (`Proposed`, `Approved`, …), so that
`DisposalConcurrent` can use both apart. `SavedHold` is the controller that computes
`is_active`; `Flagged` is the whole of the daily job for one event, the sweep over the events
already open included; `ReleaseHold` rewrites every event that names the hold, closed ones
too, as the code does.

**`DisposalConcurrent`** EXTENDS `Disposal`. `request[t]` holds the rows a request decided to
write on the snapshot it began with; `Commit` writes them, unless a row was changed under it
(`Overlaps`); `OverwriteFiles` is the step outside the transaction; `RollBack` may come at any
point (a failed save, a later error, a killed worker).

**`RecordHistory`** is the abstract promise of a version chain: each change of what a record
says appends exactly one version that says it. **`ForumRecord`** is the forum's record with
its chain, its standing and all that moves it: edits, the watched-field trigger, reviews
recorded in the portal and reviews inserted on their own form, seat changes that write the
chair past the hooks, charter challenges, disbandment and reverts. It implements
`RecordHistory` under the mapping `History` (the record is `Content`, the history is what the
versions say). `reviewed` is a history variable.

**`ForumSeats`** has the seats, the officer fields derived from them and the disbandment
plans. A form's save (`SaveSeat`) tests the row as `ForumMembership.validate` does, writes it
and derives the officers. `ExecuteDisbandment` closes every seat open on the effective date,
each through the same test, because `close_seat` saves the document.
It takes the forum's standing down to its `is_active` flag; `ForumRecord` takes the seats down
to who holds the chair. The two meet in three actions: `ExecuteDisbandment` (both),
`Reactivate` (the reviews of `ForumRecord`) and `SyncOfficers` (the officers of `ForumSeats`).

**`ApprovalSteps`** is the core the three approval processes share: the Approval Decision rows
of one subject (`decision`), who may act on one (`MayAct`: the assignee, or a delegate whose
delegation is `live`), which are outstanding and which is next (`WaitingOn`, `IsTurn`), and what
recording a decision writes. It has no specification of its own. **`ApprovalRecord`** is the
abstract promise of its rows as evidence: a step is asked for, answered once by one person and
for good, and closed without an answer only by the objection that ended its chain. The rows of
each of the three subjects implement it under the mapping `OnRecord` (`AnswersStand`), which
forgets who is asked and what an open step was last sent back with.

**`Formation`** extends it with a Committee Formation Request from draft to the forum it
creates. `ResolvedRoute` is `_route_fit` and `matching_routes` with their preference for the
more specific route. `deciding` holds the decisions that were validated and have not yet been
saved; `CommitDecision` writes one and drops those it overtakes (`Overtaken`), which is
`check_if_latest`. The exception path is the one that matters: an exception may be settled, and
the request approved, without any route raised.

**`PolicyLifecycle`** extends it with a governing document: its phase, its current version, its
kind (the attribute routes choose by), publications and gate exceptions. `Perform` is
`lifecycle.perform` with every gate of the transition (`Failing`), `PerformExcused` the same with
an authorisation. `entry` is a history variable: what let the document into force.

**`EscalationMatter`** is a matter with its matrix, queue, owner, closure and clocks. Everything
is in `Save`: whatever a handler changes, the controller routes again (`Routed`), validates the
closure (`MayRest`) and brings the clock into step (`Running`, `StoppedLate`). The two daily
sweeps are separate jobs (`Sweep`, `SweepBreaches`), as in `hooks.py`. **`RiskAcceptance`**
extends it and `ApprovalSteps` with an acceptance of the matter's risk: proposed, sent down a
chain that depends on the severity, decided by peers in any order, asked again.

**`Notification`** has the dispatch rows (one for each message and channel), the framework's
mail queue for each, the background deliveries handed on by web requests, and the one run of
`retry_failed` with what it has not committed. `copies` counts what a service or the inbox
really took; `unsure` counts those of which no row can tell (a Graph answer that timed out, a
run killed after Graph took a message); `byGraph` the rows Graph ever carried. The three are
observations and appear in no guard.

**`Voting`** is a motion with its ballots, as overlapping requests: `casting` and `recording`
hold what a request has validated and not yet committed. `overtaken` says that a ballot was
committed across the outcome on record, which PostgreSQL permits as they are different rows
(section 6).

`MC…` modules give the constants for TLC; `…_proofs` hold the theorems. The operators named
`Mutant…` are not part of a specification: each is a plausible bug in the definition that
follows it, and the property listed with it in `PROJECT.json` fails under it.

## 4. The runs

| run | instance | states | shows |
|---|---|---|---|
| `disposal` | 2 records (one of a permanent class), 1 hold over both, 2 managers, 2 events, 2 days | 87,268 | `TypeOK`, `FourEyes`, `DisposedOnce`, `HoldOverridesDisposal` |
| `disposal_live` | 1 record, 1 hold, 2 events, 3 days, fair | 66,707 | `DueIsFlagged`, `HoldReachesOpenEvents` |
| `concurrent` | 2 overlapping requests of every kind on 1 record, 1 event, 1 hold | 313,941 | `RedactionIsAccountedFor` and `DecidedStays` survive every overlap and abort |
| `concurrent_jobs` | 2 overlapping requests, 2 events, no hold | 25,045 | `OneInHand`: two runs of the daily check never list a record twice |
| `forum_record` | 2 mandates, 2 notes, 2 people, 4 versions | 515,904 | the chain (`ChainReadsForward`), its head (`HeadTellsTheTruth`), the standing (`GoodStandingWasReviewed`, `NoCleanStandingOverChallenge`), and the refinement `AppendOnlyHistory` |
| `forum_seats` | 2 seats, 1 person, 2 roles, 2 plans of 2 approvers, 2 days | 199,798 | `OneChairAtATime`, `OfficersWereRight`, `DisbandedByConsent`, `DisbandmentKeepsHistory`, `DisbandmentEndsMandates` |
| `formation` | 3 routes, 4 steps (2 in sequence, 1 parallel, 1 exception), 3 people, 2 decisions in flight | 917,898 | `OnTheRightRoute`, `InOrder`, `ForumThroughGate`, `NoSelfExcuse`, `DecidedOnce` |
| `policy` | 2 versions, 2 routes by kind, 1 step in a queue, 1 exception, 2 people | 810,416 | `PublishedWasApproved`, `TwoToExcuse` |
| `escalation` | 2 rules, 2 definitions, 3 severities, 2 people, 4 days, 3 late clocks | 76,530 | `TimedOnce`, `BreachRaises` |
| `risk_acceptance` | 2 severities with chains of one and of two, 2 requests, 3 people, 1 delegation | 273,000 | `ApprovedByAll`, `ObjectionEndsTheChain` |
| `notification` | 2 messages, a chain of 3 channels, 2 retries, 1 killed job, fair | 61,491 | `TakenOnce`, `EverySettles` |
| `voting` | 2 seats, 2 people, a ballot and any outcomes in flight | 980,935 | `OutcomeStandsOnBallots` |

Runs that list a `TypeOK` check it with the rest; where the table does not name it, it is in the
cfg. The states are the distinct ones, after symmetry.

**Bounds.** Time ends at `MaxDay`; names of events, seats and plans are finite sets; the chain
ends at `MaxVersions`, the versions of a policy at `MaxVersion`, the requests for approval of an
acceptance at `MaxCycle`, the reopenings of a matter at `MaxLate` (each may leave one more clock
behind), the requests that overlap at `MaxInFlight`, and the jobs that are killed at `MaxLost`.
`MaxRetries` is the code's own limit, 3; the `notification` run takes 2 to be quick, and passes
with 3 too, on 259,077 states. Two days tell "before", "on" and "after" a date apart because an empty
date counts as later than all of them. Two names are needed wherever a property compares two
rows (two events of one record, two seats, two plans, two versions, two requests), and two people
for four eyes; three where a delegate stands between an approver and the person who asked. Two
requests are enough for an overlap: a row is spoilt by one committed writer. Four versions hold a
history that is started, changed, reverted and changed again. In `forum_seats` one person
suffices, as two seats of the same person are refused and vacant seats stand for those of others
in every check but the derivation of a name. `concurrent_jobs` has no hold because a release
reopens closed events (section 6), after which two open events of one record are possible by
hand. `formation` has the three routes it takes to tell the preferences apart: one that names
nothing, one that names the materiality, one that names the type of request. `escalation` needs
the second rule to be one that only a raised severity matches, with another definition, so that
one sweep both breaches a clock and starts another. `risk_acceptance` needs no day to pass, as
the clocks are the business of `escalation`; there the matter only moves, changes hands and
severity, and no closure refers it elsewhere, which changes where it rests and not who approved.
What lies beyond the bounds is the subject of the theorems.

Symmetry is used over people, names of events, holds (which all cover the same records),
requests, approvers and plans, and over the seats and the positions of `voting`, whose tally treats
every position alike; never in a run with a liveness property. The seats of `forum_seats` are
numbers, since their names break ties between officers; they are not symmetric.

Deadlock is checked in every run but `notification`, and none has one: there is always a job to
run, a request to make or a row to save over itself. In `notification` everything may have been
sent and settled, after which nothing happens (`CHECK_DEADLOCK FALSE`).

**Fairness** is assumed in two runs.

- `disposal_live`: weak fairness of `NextDay`, `ArchiveOnTrigger` and `FlagDueForDisposal`. The
  two jobs are entries of `scheduler_events["daily"]`, and days pass. Nothing is assumed of
  people: a record past its period gets an event whether or not anyone ever proposes, approves or
  cancels. `DueIsFlagged` has the escape `OutOfNames`, which stands for the bound on event names
  and nothing else. After the last day the daily jobs still run, which is what a long-lived
  system has on any day.
- `notification`: weak fairness of `Retry`, the beginning, the rows and the end of
  `retry_failed` together. It is an entry of `scheduler_events["hourly"]`; the scheduler enqueues
  it again each hour under one job id, so that its runs never overlap, and a run that is not
  killed comes to its end. Runs may be killed, `MaxLost` times. Nothing is assumed of the mail
  queue, of Graph or of background deliveries: `EverySettles` holds because retries are counted,
  even if no service ever takes a message.

## 5. What is proved

All 6,221 obligations are checked by TLAPS. The theorems hold for every value of the
constants under the assumptions named in the modules: dates are naturals, null values are not
members of the sets they are null for, scopes and periods are functions, routes name steps.

`Disposal_proofs`, one request at a time:
- `TypeCorrect`: the rows stay well typed.
- `TwoPeopleDecide` (`FourEyes`), beside the types inductive by itself: one lemma (`EventStep`)
  says what any step can do to one event (nothing, an update that fits the row, an insertion on
  a free name), and each case is short.
- `RedactionAccounted`. `RedactionIsAccountedFor` is not inductive: an insertion could
  overwrite the executed event if a free name were not blank, and a proposal could reach a
  record of a permanent class if such a decision existed. `IInv` adds both (`FreeIsBlank`,
  `PermanentIsKept`).
- `DecisionFrozen` (`ApprovedDecisionFrozen`, which no run lists), `NeverFlaggedAgain`,
  `HoldPrevails`: action properties from `IInv`.

and with any number of overlapping requests (`DisposalConcurrent`):
- `TypeCorrectUnderOverlap`, `TwoPeopleDecideUnderOverlap` (`FourEyes`),
  `RedactionAccountedUnderOverlap`, `DecisionsSurviveOverlap` (`DecidedStays`) and
  `NothingOutlivesRedaction` (`RedactedIsGone`, which no run lists: a record that reads as redacted
  has no file left). A request carries rows it computed on an older snapshot, so none of them is
  inductive. `CInv` says of each open request that every row it carries *fits* the row it will
  fall on, in the sense in which a single handler's update does, or that the request is doomed
  because that row was changed under it. A commit then is a step of the sequential kind.
- `OnceInHand` (`OneInHand`), under `Holds = {}`, as in the run. With a hold the property is
  false: its release reopens closed events (section 6). `HandInv` adds that what a request
  in flight will insert is about records with no open event, one event each (`OpensOnce`); of
  two jobs that overlap, one inserts and the other is doomed.

`ForumRecord_proofs`
- `Inductive`: `IInv` is types, links and a truthful head together; one classification of the
  steps (`StepForm`: the chain is as it was, begins, or grows by what the record now says)
  serves all three. `Snapshot` compares with the head, so that it adds a version exactly when
  the record changed only because the head is true.
- `TypeCorrect`, `ReadsForwardAlways`, `HeadIsTrue`, `StandingIsEarned`, and the action property
  `ChallengeBarsGoodStanding` (`NoCleanStandingOverChallenge`): an edit and a revert leave
  the standing alone or send the forum back, a disbandment ends it, and the reviews ask.
- `Implements`: initial states map to initial states of `RecordHistory` and every step to a
  step of it or a stutter.

`ForumSeats_proofs`
- `OneChair`, `ByConsent`, `OneLivePlan` (`OnePlanInPlay`, which no run lists): three
  invariants, each inductive beside the types of the rows. `SavedApart` is the heart of the
  first: any day two seats share makes their ranges overlap in the sense the code computes.
- `TypeCorrect` and `OfficersRight` rest on `FirstSeat`: some seat comes first by start date and
  name, found as a least start and then a least name. Without it `derive_officers` could return
  anybody.
- `HistoryKept` and `MandatesEnd`: action properties, from the lemma that closing a seat changes
  its end and nothing else.

`Voting_proofs`
- `TypeCorrect`, and `DecisionIsTheBallots` (`OutcomeStandsOnBallots`). The latter is not
  inductive: the tally an outcome will commit was made on another state. `IInv` adds
  `RecordingStands`, that a tally in flight agrees with the ballots on record unless one was
  committed since it was made (`missed`).
- `ClosedMotionStands` (`ClosedMotionSettles`, which no run lists): a closed motion never changes,
  no ballot that would change what was voted can be begun any more, and once those that were
  being saved across the outcome (`Late`) are through, what was voted is final. This is what is
  left of "once closed, ballots can't change" (section 6).

`Formation_proofs`
- `RightRoute`, `OrderKept`, `GateFirst`, `OthersExcuse`, `AnswersStay` and `TypeCorrect` from
  one `IInv`. It adds what a decision in flight may rely on (`InFlightStands`), that the facts
  which chose the route are frozen once it is raised (`RouteSettled`), that no step of another
  route is ever raised (`StepsOfTheRoute`) and that a raised step has somebody (`Assigned`).
- That `resolve_route` finds a best route at all, in any finite set of them, is
  `BestOfSome`, by a least counterexample to the size of the set.
- `EvidenceKept`: every step is a step of `ApprovalRecord` or a stutter. It needs that of two
  answers to one row the later one is dropped, so it rests on `IInv`.
- Assumed: an active route has an active step, and the steps of exceptions come after those of
  routes (`step_sequence` 99, `formation.py:507`).

`PolicyLifecycle_proofs`
- `ApprovedAlways` (`PublishedWasApproved`): an approval is of a version, and stays what it is
  once answered (`AnsweredStays`); `entry` therefore keeps telling the truth while the document
  moves on, and a new version or a correction leaves the force only through the gates.
- `TwoExcuse` (`TwoToExcuse`) from `GrantedWasAsked`, that whatever was granted was asked for
  first; and `TypeCorrect`.
- `EvidenceKept`, the refinement of `ApprovalRecord`, for the rows of every version at once.

`RiskAcceptance_proofs`, of the matter alone (`MSpec`):
- `OneClock` (`TimedOnce`) and `RaisedByBreach` (`BreachRaises`). `MInv` adds that no open clock
  runs beside one of the same definition that breached, that a matter at rest has none, and that
  the breach counted last is one of those there were. The sweep that records several breaches in
  a row is a recursive function, `AfterMoments`; of such a function nothing follows from its
  definition until one is shown to exist, which the lemma `Recursion` does for any step that is
  itself a function, by a least counterexample. (The library's theorem takes the step as an
  operator, which the provers cannot instantiate.)

and of the acceptance with it (`Spec`):
- `MatterImplemented`: `Spec => MSpec`. The composition leaves the matter to itself, so that
  the two theorems above hold of it as well.
- `EveryApproval` (`ApprovedByAll`) and `ChainEnds` (`ObjectionEndsTheChain`). `IInv` adds
  `IndependentApprovals` (every approval was independent when it was given, and those it
  excludes do not change afterwards) and that rows belong to requests that were made. It needs
  nothing of the matter, which may do anything with its clocks and severity.
- `OrderKept` (`RequestInOrder`, which no run lists): within one request no sequential step is
  decided while an earlier one is open. `InOrder` as a formation has it is false here, as
  the requests of an acceptance share one cycle.
- `TypeCorrect`, from the types of both, and `EvidenceKept`, the refinement of `ApprovalRecord`:
  here an objection closes what its request left open (`Record!Object`), and the proof needs that
  an open step carries nobody's answer (`Plain`).

`Notification_proofs`
- `ToldOnce` (`TakenOnce`). A count of copies cannot be inductive without what bounds the next
  copy: `Counted` says that wherever a message may be sent again (the row is open, a background
  job has it, or its latest message in the mail queue was not delivered), nobody is known to have
  it. That rests on who may have a row in hand at once (`Handed`, `InHand`).
- `TypeCorrect`. Its last part says that the fallbacks of a message are a chain without a gap. The
  channels beyond one are a recursive function again; `BeyondIs` characterises it as the least
  set closed under `Fallback`, `Line` shows the channels of a message in one line, and `LastOf`
  that any part of it has a last one, which is what `From` chooses. All rests on
  `ChainAssumption`, that no set of channels falls back only within itself: the code refuses to
  save a channel that would close a cycle (`_validate_no_fallback_cycle`).
- `RetriesRunOut` (`EveryRunCosts`, which no run lists): each run that ends costs exactly one retry
  of every dispatch it took up, lets go of none on the way, and nothing else touches the count or
  ends a dispatch. It is the measure by which `EverySettles` holds; what it lacks of the
  liveness is the fairness.

The three refinements of `ApprovalRecord` were checked by TLC first, on the instances of
`formation`, `policy` and `risk_acceptance` with `AnswersStand` as a PROPERTY; so were the
inductive invariants that are not themselves a property of a run.

**Only model-checked:** the three liveness properties, `DueIsFlagged`, `HoldReachesOpenEvents` and
`EverySettles`. Each needs that a fair action is enabled, which the provers cannot be asked
about. Every invariant and action property that a run checks has a theorem.

## 6. What the code does otherwise than it says

Six properties, at the end of their modules under "What the documents say and the code does not
do", state what a docstring, a message or a guide of the repository says. The code does otherwise, and
each has a counterexample. No run lists them, since every run is one that passes; adding one to
the cfg named shows it.

| property | cfg | the text |
|---|---|---|
| `NoDisposalWhileInForce` | `MCDisposal.cfg`, PROPERTIES | `legal_hold.py:3`: "A hold is active from the day it is placed until the day it is released. The flag is derived, never typed, so nothing can be held by a stale checkbox." |
| `HoldOverridesCommit` | `MCDisposalConcurrent.cfg`, PROPERTIES | `retention.py:7`: "A legal hold overrides scheduled disposal entirely and unconditionally." |
| `FilesAreAccountedFor` | `MCDisposalConcurrent.cfg`, INVARIANTS | `records.py`: the Disposition Event "records what was redacted and the hashes of what was destroyed; it outlives the content it disposed of" |
| `ChairChangeIsReviewed` | `MCForumRecord.cfg`, INVARIANTS | `docs/guides/11-glossary.md:72`: "Details of a forum (such as its mandate or chair) that, when changed, send it back for a compliance review" |
| `DisbandedIsFinal` | `MCForumRecord.cfg`, PROPERTIES | `governance/lifecycle.py:353`: "Forum {0} is disbanded. Its standing is final and is not reviewed again." |
| `SeatsCanBeClosed` | `MCForumSeats.cfg`, INVARIANTS, with a role of two holders, two people and three seats | `forum_membership.py`: "A seat is closed by setting an end date" |

1. A hold dated ahead never becomes active, because its flag is computed on save and no job saves
   it again; the record is destroyed inside the hold's window.
2. A hold committed between the hold check of an execution and its commit does not stop it: they
   write different rows.
3. Files are overwritten before the database commits; after a rollback they are gone and no event
   says so.
4. The chair is a watched field, but its only writer bypasses the watch.
5. A review inserted on its own form makes a disbanded forum active again.
6. The cap on holders counts overlaps over a seat's whole range; a seat can become impossible to
   close, and a disbandment with it.

Met while modelling, in the models as the code has it (the properties are stated around it):

*Disposal, versions and forums*
- `release_hold` sets *every* event that names the hold back to Scheduled, also decided and
  executed ones. A lapsed retention becomes open again with its approver in place; every handler
  refuses it and it blocks the record from being flagged again. An executed disposal can be
  executed a second time, which overwrites the evidence of the first.
- `release_hold` keeps a `released_on` that lies ahead, so the released hold stays active.
- A save that changes only `confidential` writes no version, although `revision.py` promises one
  for every field a person can edit.
- `hooks.py` says officer fields "are reconciled daily"; `officer_drift` returns the list of
  differences and repairs nothing.
- `docs/guides/03-governance.md` says that at disbandment every seat is closed; seats that start
  after the effective date stay open.
- `versioning.revert_to_version` leaves protected fields as they are, while the version it writes
  says what the older one said of them.
- `docs/product/04-architecture.md:131` lists a weekly verification of the archive's hash chain;
  no job runs one.
- The cache of controlled DocTypes is cleared before the change that clears it commits.

*Formation*
- A request whose steps were never raised can be approved: an exception can be asked for and
  decided while it is under evaluation, and deciding it re-evaluates the whole request.
- An exception may also carry a request with unassessed criteria into Pending Approval, where no
  criterion can be assessed any more.
- A rejection cannot be overridden, not even by an exception that is granted afterwards.
- The desk form can write `workflow_state`, Approved included, without a forum being created.
- `resolve_exception` without a step takes the last of its candidates, which may be a step of the
  route.
- A charter's clearance names no version: the text may change after it.
- A route whose steps are all inactive raises nothing and leaves the request to the exceptions.

*Policies*
- One approved exception excuses every failing gate of the transition, and stays usable for later
  transitions and versions until it lapses (`docs/guides/04-policies.md`, section 4.5, speaks of
  "a move").
- Implemented accepts an unwithdrawn publication of *any* version.
- With no matching route and no parent's route the chain is complete with no step at all.
- A member of the step's queue, or a delegate of its assignee, may bypass it. `TwoToExcuse` is
  about the two people of an exception, not about them.

*Escalation*
- One person may take two steps of a chain, as the assignee of one and as the delegate of the
  other, although `escalation/approvals.py:519` says "Nor may one person take two steps of the
  same chain": the check compares assignees when the chain is raised.
- A clock that breached is never stopped when the matter closes, because `sync_clock` looks for
  open clocks only. A matter closed late and reopened can be raised a second time.
- A changed definition leaves the old clock and times the new one from the matter's opening.
- A breach under another definition whose `breached_on` is older than the last one recorded is
  never raised.
- An acceptance that was withdrawn is revived by the approval that completes its chain.
- A matter closes with a pending acceptance, which nobody can then decide.
- On the desk, the seeded catch-all transition permits any move, from review to closed too; any
  Forum Motion set on the form approves an acceptance; and an approver may become the owner of
  the matter afterwards.

*Notifications*
- A message refused after the last retry keeps the status Sent.
- A dispatch that is retried never falls back, and a fallback already delivered is not recalled
  when the retry succeeds: the person is told by two channels. (`TakenOnce` is about one.)
- `retry_failed` looks neither at whether the channel is active nor at the person's refusal.
- A channel moved from the mail queue to Graph after a refusal: the latest Email Queue row stays
  the refused one, so the dispatch is reopened and sent each hour until its retries run out. The
  comment at `notification.py:521` knows the danger ("reading the old one would retry forever");
  it does not foresee the change of route. This is the case `TakenOnce` leaves out.
- A run killed after Graph took its messages sends them again, and the attempt is not counted.
- A background delivery that is lost leaves the row Sent and nothing is sent.

*Voting*
- A ballot and the outcome are different rows: one committed across the other is on record and
  not in the tally. `docs/guides/03-governance.md:569` says "Once closed, ballots can't change".
  `OutcomeStandsOnBallots` is about the outcomes this did not happen to (`overtaken`).
- A member cannot change a ballot their delegate cast: `voted_as` is not reset and the save is
  refused.
- After closing, the form of a ballot still takes a new weight, voter and motion; only the
  position is frozen.
- The form of a motion sets an outcome and its date without a tally; from Deferred it keeps the
  counters of the earlier one.

## 7. The plan

Done: `Disposal` and `DisposalConcurrent`; `RecordHistory` and `ForumRecord`; `ForumSeats`;
`ApprovalSteps` with `Formation`, `PolicyLifecycle` and `RiskAcceptance`; `EscalationMatter`;
`Notification`; `Voting`; and proofs of every invariant and action property they are checked for.

Next, in this order, each with an MC module, a run of the size above and its mutants:

| module | central property | theorem |
|---|---|---|
| `Attestation` | a task ends attested or expired, once; an extension answers the overdue | type and once-only |
| `Import` | a row is applied at most once over repeats of its batch | invariant |
| `Reminders` | at most one reminder a step across daily and hourly runs | invariant |
| `PolicyHandling` | a review reaches somebody who may read the document | invariant |
| `Supervisor` | at most one live process of a service; a restart reaches it | invariant |

Proofs for the existing modules: an abstract specification of a disposal (kept, proposed, decided,
carried out) that both `Disposal` and `DisposalConcurrent` implement, and one of a motion for
`Voting`.

Larger compositions: seats changing under a motion with the real `ForumSeats` in the place of
`SeatChanges`; overlapping saves of two seats.

## 8. What is not modelled

- The retention guard on saves and deletions and its cache; the archive's hash chain. The
  record's own life before its terminal event (`EndRecord` stands for it).
- Permissions and roles: any handler may be called by anyone who passes the checks modelled. The
  roles a handler itself asks for (`Owners`, `Reviewers`, `Officers`, `Heads`) are modelled.
- The text of notifications, comments and audit entries; templates and recipients; files.
- Raw database edits by a system administrator.
- Of formation: the search for similar forums, the fields of the form, charter texts. Of
  policies: glossary terms, disposition and retirement dates, consultation comments; the revert
  of a version, which is a correction and a new version in one. Of escalation: action plans and
  closure criteria (whether a closure is complete is a choice), pathways, summaries. Of clocks:
  pauses, business hours, clocks driven by a status. Of notifications: the size of a batch, desk
  edits of a dispatch. Of voting: weights, percentage rules, the presence of the chair, the
  casting vote: what a quorum asks for is the constant `Required`.
- Attestation campaigns, reminders, imports, policy handling and intake, the process supervisor:
  planned (section 7).
- Pages, search, the inbox and guide, AI features, integrations, exports, meetings and
  registers, classification, sensitivity, seeds, patches and the deployment kit: they keep no
  state that the other components act on, or check one row as it is saved. `PROJECT.json` lists
  each with its reason. They are most of the repository's lines.
