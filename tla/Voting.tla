-------------------------------- MODULE Voting --------------------------------
(***************************************************************************)
(* One motion before a forum: the entitlement written when it is put, the  *)
(* ballots of members and delegates, and the outcome that tallies them and *)
(* freezes the motion: governance/voting.py and the controllers of Forum   *)
(* Motion and Forum Vote.                                                  *)
(*                                                                         *)
(* A request validates what it read when it began and commits later; it is *)
(* refused at the end only if a row it writes has changed meanwhile.  A    *)
(* ballot writes its own row and the outcome writes the motion, so neither *)
(* stops the other.  The seats are those of ForumSeats; what matters here  *)
(* is how they stand on the decision date.  The form of a ballot writes    *)
(* its motion, its seat and its weight as well, and adds ballots.          *)
(***************************************************************************)
EXTENDS Naturals, FiniteSets

CONSTANTS
  People, NoOne,
  For, Against, \* the positions a ballot may take; see Castable
  Seats,       \* the Forum Membership rows of the forum that carry a vote
  Stands,      \* the ways a seat may stand on the decision date
  Required,    \* quorum_requirement, by the number of counting seats
  Rows,        \* names available to Forum Vote rows (bounds them)
  MaxWeight,   \* bounds the weight of a ballot
  Forms,       \* the rows that may be typed on the form of a ballot (bounds them)
  MaxInFlight  \* bounds the ballots being saved at one time

(* held: open on the decision date.  delegate: in place on that date, and  *)
(* allowed to vote.                                                        *)
SeatState == [held: BOOLEAN, member: People \cup {NoOne}, delegate: People \cup {NoOne}]

ASSUME SeatAssumption ==
  /\ NoOne \notin People /\ IsFiniteSet(Seats)
  /\ Stands \subseteq SeatState /\ Stands # {}
  /\ \A s \in Stands : s.delegate = s.member => s.member = NoOne
ASSUME PositionAssumption == {"none", "Not Cast"} \cap {For, Against} = {}
ASSUME QuorumAssumption == Required \in [0..Cardinality(Seats) -> Nat]
ASSUME BoundAssumption == MaxInFlight \in Nat /\ MaxWeight \in Nat \ {0} /\ IsFiniteSet(Rows)

VARIABLES
  seat,      \* how each seat stands on the decision date
  motion,    \* the Forum Motion
  ballot,    \* the Forum Vote rows
  casting,   \* the ballots validated and not yet committed
  recording, \* the outcomes tallied and not yet committed
  overtaken  \* history: the ballots changed since the tally, by a ballot saved
             \* across the outcome, or on the form in its motion, seat or weight

vars == <<seat, motion, ballot, casting, recording, overtaken>>

-----------------------------------------------------------------------------
(* Against stands for Abstain and Recused too, each counted beside it and  *)
(* as present, once.  Carried stands for Not Carried, whose flags are the  *)
(* same; Inquorate for Withdrawn, which closes the motion and is no        *)
(* standing decision either.                                               *)
Castable == {For, Against}
Outcomes == {"Carried", "Deferred", "Inquorate"}

(* _is_standing_decision, by the flags of the outcome.                     *)
Standing == {"Carried"}

(* is_editable: before an outcome, and while it is deferred.               *)
(* Mutant: a motion that is closed without a decision still takes ballots. *)
MutantIsEditable(m) == m.outcome \in {"open", "Deferred", "Inquorate"}

IsEditable(m) == m.outcome \in {"open", "Deferred"}

Closed(m) == m.outcome \in {"Carried", "Inquorate"}

(* The counts and the quorum are kept here only where they are the answer  *)
(* for good, on a motion that record_outcome closed: those of a deferral   *)
(* are overwritten with the next outcome, and the form leaves what it      *)
(* finds beside the outcome it sets.                                       *)
NoTally == [p \in Castable |-> 0]
Untallied(outcome) == [outcome |-> outcome, counts |-> NoTally, required |-> 0, tallied |-> FALSE]
Motion ==
  [outcome: Outcomes \cup {"unput", "open"},
   counts: [Castable -> Nat],                     \* votes_for and the others
   required: Nat,                               \* quorum_required
   tallied: BOOLEAN]                            \* the outcome is record_outcome's

(* A ballot of this motion.  Of a row that names another one, which is     *)
(* taken to be open, only the position matters here.                       *)
NoBallot == [of |-> "none", position |-> "none"]
Position == Castable \cup {"Not Cast"}
Ballot ==
  [of: {"this"}, position: Position, seat: Seats, as: {"Member", "Delegate"}, weight: 0..MaxWeight]
Elsewhere == [of: {"other"}, position: Position]

NewBallot(s) ==
  [of |-> "this", position |-> "Not Cast", seat |-> s, as |-> "Member", weight |-> 1]

ASSUME FormAssumption == Forms \subseteq Ballot \cup Elsewhere

(* early: the motion still took ballots when this one was validated.       *)
Request == [row: Rows, to: Ballot \cup Elsewhere, early: BOOLEAN]
Recording ==
  [outcome: Outcomes, counts: [Castable -> Nat], required: Nat,
   missed: BOOLEAN]   \* a ballot was committed since the tally

-----------------------------------------------------------------------------
Entitled(s) == seat[s].held /\ seat[s].member # NoOne

(* entitlement: the ballots of this motion.                                *)
OnMotion == {r \in Rows : ballot[r].of = "this"}

CastSeats == {ballot[r].seat : r \in {q \in OnMotion : ballot[q].position \in Castable}}

(* A ballot of weight w is counted w times.                                *)
Units(p) ==
  {x \in Rows \X (1..MaxWeight) : /\ x[1] \in OnMotion
                                 /\ ballot[x[1]].position = p
                                 /\ x[2] <= ballot[x[1]].weight}

Tally == [p \in Castable |-> Cardinality(Units(p))]

(* quorum_status: a seat counts when it is open on the decision date and a *)
(* ballot of it is cast, a recusal too; and it counts once.                *)
Counting == {s \in Seats : seat[s].held}

RequiredNow == Required[Cardinality(Counting)]

Quorate == Cardinality(Counting \cap CastSeats) >= RequiredNow

-----------------------------------------------------------------------------
Init ==
  /\ seat \in [Seats -> Stands]
  /\ motion = Untallied("unput")
  /\ ballot = [r \in Rows |-> NoBallot]
  /\ casting = {} /\ recording = {} /\ overtaken = FALSE

(* A name no row has and no insert in flight has taken.                    *)
Free == {r \in Rows : ballot[r] = NoBallot} \ {c.row : c \in casting}

(* propose_motion and open_motion: one row for each seat entitled on the   *)
(* decision date, under the names new.                                     *)
Propose ==
  LET entitled == {s \in Seats : Entitled(s)}
  IN /\ motion.outcome = "unput"
     /\ motion' = Untallied("open")
     /\ \E new \in [entitled -> Free] :
          /\ \A s, t \in entitled : new[s] = new[t] => s = t
          /\ ballot' = [r \in Rows |->
               IF \E s \in entitled : new[s] = r
               THEN NewBallot(CHOOSE s \in entitled : new[s] = r)
               ELSE ballot[r]]
     /\ UNCHANGED <<seat, casting, recording, overtaken>>

(* Seats are opened, closed, refilled and given delegates for any date,    *)
(* that of the decision among them.                                        *)
SeatChanges(s) ==
  /\ \E new \in Stands \ {seat[s]} : seat' = [seat EXCEPT ![s] = new]
  /\ UNCHANGED <<motion, ballot, casting, recording, overtaken>>

-----------------------------------------------------------------------------
(* The controller of Forum Vote on a row about to be saved.                *)
Valid(u, row) ==
  row.of = "this" =>
    /\ seat[row.seat].held
    /\ IF row.as = "Delegate"
       THEN seat[row.seat].delegate # NoOne /\ u = seat[row.seat].delegate
       ELSE seat[row.seat].member # NoOne => u = seat[row.seat].member

Begin(r, row) ==
  /\ Cardinality(casting) < MaxInFlight
  /\ casting' = casting \cup {[row |-> r, to |-> row, early |-> IsEditable(motion)]}
  /\ UNCHANGED <<seat, motion, ballot, recording, overtaken>>

(* cast_my_vote: by the member of the seat, or by its delegate, in a row   *)
(* of the seat.  A ballot given as a delegate stays one.                   *)
CastMyVote(u, r, position) ==
  /\ IsEditable(motion)
  /\ r \in OnMotion
  /\ LET s   == seat[ballot[r].seat]
         row == [ballot[r] EXCEPT !.position = position,
                                  !.as = IF u = s.member THEN @ ELSE "Delegate"]
     IN u \in {s.member, s.delegate} /\ Valid(u, row) /\ Begin(r, row)

(* The form of Forum Vote, for a secretary: a ballot is added or typed     *)
(* over, its motion, seat and weight too.  _validate_frozen asks the       *)
(* motion the row now names, and on a closed one compares the position.    *)

(* Mutant: whether there is such a motion is not asked.                    *)
MutantDeskVote(u, r, row) ==
  /\ row # ballot[r] /\ Valid(u, row) /\ Begin(r, row)

DeskVote(u, r, row) ==
  /\ \/ row.of = "other"
     \/ IsEditable(motion)
     \/ motion.outcome # "unput" /\ ballot[r] # NoBallot /\ row.position = ballot[r].position
  /\ ballot[r] = NoBallot => r \in Free
  /\ row # ballot[r] /\ Valid(u, row) /\ Begin(r, row)

(* Of several requests that save one row the first to commit stands and    *)
(* the others are refused.                                                 *)
Moves(old, new) ==
  \/ old.of # new.of
  \/ new.of = "this" /\ (new.seat # old.seat \/ new.weight # old.weight)

CommitVote(c) ==
  LET old     == ballot[c.row]
      changed == /\ "this" \in {old.of, c.to.of}
                 /\ old.position # c.to.position \/ Moves(old, c.to)
  IN /\ ballot' = [ballot EXCEPT ![c.row] = c.to]
     /\ casting' = {d \in casting : d.row # c.row}
     /\ recording' = {[r EXCEPT !.missed = @ \/ changed] : r \in recording}
     /\ overtaken' = (overtaken \/ (changed /\ ~IsEditable(motion) /\ (c.early \/ Moves(old, c.to))))
     /\ UNCHANGED <<seat, motion>>

-----------------------------------------------------------------------------
(* record_motion_outcome and record_outcome.  An outcome that would stand  *)
(* as the forum's decision needs a quorum; the others may be recorded at   *)
(* any time, and deferring keeps the motion open.                          *)
RecordOutcome(outcome) ==
  /\ IsEditable(motion)
  /\ recording = {}
  /\ outcome \in Standing => Quorate
  /\ recording' = {[outcome |-> outcome, counts |-> Tally, required |-> RequiredNow,
                    missed |-> FALSE]}
  /\ UNCHANGED <<seat, motion, ballot, casting, overtaken>>

CommitOutcome(r) ==
  /\ motion' = IF Closed(r)
               THEN [outcome |-> r.outcome, counts |-> r.counts, required |-> r.required,
                     tallied |-> TRUE]
               ELSE Untallied(r.outcome)
  /\ overtaken' = (r.missed /\ Closed(r))
  /\ recording' = {}
  /\ UNCHANGED <<seat, ballot, casting>>

(* The form of Forum Motion.  _guard_frozen keeps the outcome and the date *)
(* once the motion is closed; until then the form sets the outcome without *)
(* a tally, and the date without a new entitlement.  Clearing the outcome  *)
(* leaves the motion as deferring it does.                                 *)
DeskOutcome(outcome) ==
  /\ IsEditable(motion)
  /\ motion' = Untallied(outcome)
  /\ recording' = {}
  /\ UNCHANGED <<seat, ballot, casting, overtaken>>

DeskDate ==
  /\ IsEditable(motion)
  /\ seat' \in [Seats -> Stands]
  /\ recording' = {}
  /\ UNCHANGED <<motion, ballot, casting, overtaken>>

-----------------------------------------------------------------------------
Next ==
  \/ Propose
  \/ \E s \in Seats : SeatChanges(s)
  \/ \E u \in People, r \in Rows, p \in Castable : CastMyVote(u, r, p)
  \/ \E u \in People, r \in Rows, row \in Forms : DeskVote(u, r, row)
  \/ \E c \in casting : CommitVote(c)
  \/ \E o \in Outcomes : RecordOutcome(o)
  \/ \E r \in recording : CommitOutcome(r)
  \/ \E o \in Outcomes : DeskOutcome(o)
  \/ DeskDate

Spec == Init /\ [][Next]_vars

-----------------------------------------------------------------------------
(* The types; and nobody has a ballot before the motion is put.            *)
TypeOK ==
  /\ seat \in [Seats -> Stands]
  /\ motion \in Motion
  /\ ballot \in [Rows -> Ballot \cup Elsewhere \cup {NoBallot}]
  /\ casting \subseteq Request /\ recording \subseteq Recording
  /\ overtaken \in BOOLEAN
  /\ motion.outcome = "unput" => OnMotion = {} /\ \A c \in casting : c.to.of = "other"

(* The decision on record is the one the ballots on record made: what the  *)
(* closed motion says was cast is what the ballots say, and a decision     *)
(* that stands was taken by as many seats as its stored quorum asks for,   *)
(* however the seats change afterwards.  Left out are an outcome set on    *)
(* the form, which tallies nothing; ballots saved across the recording,    *)
(* which PostgreSQL lets commit; and a ballot that its form moves to or    *)
(* from the closed motion or gives another seat or weight, which           *)
(* _validate_frozen lets pass (BallotsFixedOnceClosed, below).             *)
OutcomeStandsOnBallots ==
  Closed(motion) /\ motion.tallied /\ ~overtaken =>
    /\ \A p \in Castable : motion.counts[p] = Cardinality(Units(p))
    /\ motion.outcome \in Standing => Cardinality(CastSeats) >= motion.required

-----------------------------------------------------------------------------
(* What the documents say and the code does not do.                        *)

(* docs/guides/03-governance.md: "Once closed, ballots can't change."      *)
BallotsFixedOnceClosed == [][Closed(motion) => Tally' = Tally]_vars

(* forum_vote.py: "One row per entitled voter."  Nothing refuses a second  *)
(* row for a seat on the form, and the tally adds both.                    *)
OneBallotPerSeat ==
  \A r, q \in OnMotion : ballot[r].seat = ballot[q].seat => r = q
=============================================================================
