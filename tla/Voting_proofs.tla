---------------------------- MODULE Voting_proofs ----------------------------
(***************************************************************************)
(* Theorems about Voting, for any seats, people, forms, quorum rule and    *)
(* number of ballots: the rows are well typed and the outcome on record    *)
(* stands on the ballots.  The second is not inductive: an outcome is      *)
(* tallied in one step and committed in a later one, and a ballot is       *)
(* validated in one and saved in another, so the strengthened invariant    *)
(* speaks of the outcomes and the ballots in flight.  A closed motion      *)
(* stands, and so do the positions of its ballots once the ones validated  *)
(* before it closed are through.                                           *)
(***************************************************************************)
EXTENDS Voting, FiniteSetTheorems, TLAPS

(* What is said of an outcome on record, of any outcome with its counts.   *)
StandsOn(r) ==
  /\ \A p \in Castable : r.counts[p] = Cardinality(Units(p))
  /\ r.outcome \in Standing => Cardinality(CastSeats) >= r.required

RecordingStands ==
  \A r \in recording :
    /\ IsEditable(motion)
    /\ ~r.missed => StandsOn(r)

(* A ballot validated on a closed motion leaves the position as it is.     *)
LateKeeps ==
  \A c \in casting : ~c.early /\ c.to.of = "this" => c.to.position = ballot[c.row].position

IInv == TypeOK /\ RecordingStands /\ LateKeeps /\ OutcomeStandsOnBallots

-----------------------------------------------------------------------------
(* A set of seats is finite and no larger than all of them.                *)
LEMMA SeatCount ==
  ASSUME NEW S \in SUBSET Seats
  PROVE  /\ IsFiniteSet(S)
         /\ Cardinality(S) \in 0..Cardinality(Seats)
<1>1. IsFiniteSet(Seats)
  BY SeatAssumption
<1>2. Cardinality(Seats) \in Nat
  BY <1>1, FS_CardinalityType
<1>3. IsFiniteSet(S) /\ Cardinality(S) <= Cardinality(Seats)
  BY <1>1, FS_Subset
<1>4. Cardinality(S) \in Nat
  BY <1>3, FS_CardinalityType
<1> QED
  BY <1>2, <1>3, <1>4

LEMMA TallyType == Tally \in [Castable -> Nat]
<1>1. IsFiniteSet(Rows) /\ MaxWeight \in Nat
  BY BoundAssumption
<1>2. IsFiniteSet(1..MaxWeight)
  <2>1. 1 \in Int /\ MaxWeight \in Int
    BY <1>1
  <2> QED
    BY <2>1, FS_Interval
<1>4. IsFiniteSet(Rows \X (1..MaxWeight))
  BY <1>1, <1>2, FS_Product
<1>3. ASSUME NEW p \in Castable
      PROVE  Cardinality(Units(p)) \in Nat
  <2>1. Units(p) \in SUBSET (Rows \X (1..MaxWeight))
    BY DEF Units
  <2> QED
    BY <1>4, <2>1, FS_Subset, FS_CardinalityType
<1> QED
  BY <1>3 DEF Tally

LEMMA CastSeatsAreSeats == ASSUME TypeOK PROVE CastSeats \in SUBSET Seats
<1>1. ASSUME NEW r \in OnMotion PROVE ballot[r].seat \in Seats
  <2>1. ballot[r] \in Ballot
    BY <1>1 DEF TypeOK, OnMotion, Elsewhere, NoBallot
  <2> QED
    BY <2>1 DEF Ballot
<1> QED
  BY <1>1 DEF CastSeats

LEMMA RequiredType == RequiredNow \in Nat
<1>1. Cardinality(Counting) \in 0..Cardinality(Seats)
  BY SeatCount DEF Counting
<1> QED
  BY <1>1, QuorumAssumption DEF RequiredNow

(* Quorum is a matter of the ballots that count; there are at least as     *)
(* many ballots.                                                           *)
LEMMA QuorumOfBallots ==
  ASSUME TypeOK, Quorate
  PROVE  Cardinality(CastSeats) >= RequiredNow
<1>1. CastSeats \in SUBSET Seats /\ Counting \cap CastSeats \in SUBSET CastSeats
  BY CastSeatsAreSeats
<1>2. IsFiniteSet(CastSeats) /\ Cardinality(CastSeats) \in Nat
  BY <1>1, SeatCount
<1>3. Cardinality(Counting \cap CastSeats) <= Cardinality(CastSeats)
  BY <1>1, <1>2, FS_Subset
<1>4. Cardinality(Counting \cap CastSeats) \in Nat
  BY <1>1, SeatCount
<1> QED
  BY <1>2, <1>3, <1>4, RequiredType DEF Quorate

(* What stands on the ballots stands on any others that say the same.      *)
Alike(old, new) ==
  /\ old.of = "this" <=> new.of = "this"
  /\ new.of = "this" =>
       new.position = old.position /\ new.seat = old.seat /\ new.weight = old.weight

LEMMA SameBallots ==
  ASSUME \A r \in Rows : Alike(ballot[r], ballot'[r])
  PROVE  /\ CastSeats' = CastSeats
         /\ \A p : Units(p)' = Units(p)
<1>1. OnMotion' = OnMotion
  BY DEF Alike, OnMotion
<1>2. \A r \in OnMotion : /\ ballot'[r].position = ballot[r].position
                          /\ ballot'[r].seat = ballot[r].seat
                          /\ ballot'[r].weight = ballot[r].weight
  BY DEF Alike, OnMotion
<1>3. CastSeats' = CastSeats
  BY <1>1, <1>2 DEF CastSeats
<1>4. ASSUME NEW p PROVE Units(p)' = Units(p)
  BY <1>1, <1>2 DEF Units
<1> QED
  BY <1>3, <1>4

-----------------------------------------------------------------------------
LEMMA BallotFacts ==
  /\ NoBallot \notin Ballot \cup Elsewhere
  /\ \A o \in Outcomes \cup {"unput", "open"} : Untallied(o) \in Motion
  /\ \A s \in Seats : NewBallot(s) \in Ballot
<1>1. NoTally \in [Castable -> Nat]
  BY DEF NoTally
<1>2. ASSUME NEW o \in Outcomes \cup {"unput", "open"} PROVE Untallied(o) \in Motion
  BY <1>1 DEF Untallied, Motion
<1>3. ASSUME NEW s \in Seats PROVE NewBallot(s) \in Ballot
  BY BoundAssumption DEF NewBallot, Ballot, Position
<1>4. NoBallot \notin Ballot \cup Elsewhere
  BY DEF NoBallot, Ballot, Elsewhere
<1> QED
  BY <1>2, <1>3, <1>4

LEMMA InitTypeOK == ASSUME Init PROVE TypeOK
<1>1. OnMotion = {}
  BY DEF Init, OnMotion, NoBallot
<1> QED
  BY <1>1, BallotFacts DEF Init, TypeOK

LEMMA BeginType ==
  ASSUME TypeOK, NEW r \in Rows, NEW row \in Ballot \cup Elsewhere, Begin(r, row),
         motion.outcome # "unput" \/ row.of = "other"
  PROVE  TypeOK'
<1>1. IsEditable(motion) \in BOOLEAN
  BY DEF IsEditable
<1>2. casting' \subseteq Request
  BY <1>1 DEF TypeOK, Begin, Request
<1>3. OnMotion' = OnMotion
  BY DEF Begin, OnMotion
<1> QED
  BY <1>2, <1>3 DEF TypeOK, Begin

(* The row that a person casts in is the one that was there.               *)
LEMMA CastRow ==
  ASSUME TypeOK, NEW u \in People, NEW r \in Rows, NEW p \in Castable, CastMyVote(u, r, p)
  PROVE  /\ IsEditable(motion)
         /\ \E row \in Ballot : row.of = "this" /\ Begin(r, row)
<1> DEFINE s   == seat[ballot[r].seat]
           row == [ballot[r] EXCEPT !.position = p, !.as = IF u = s.member THEN @ ELSE "Delegate"]
<1>1. ballot[r] \in Ballot
  BY DEF CastMyVote, OnMotion, TypeOK, Elsewhere, NoBallot
<1>2. row \in Ballot /\ row.of = "this"
  BY <1>1 DEF Ballot, Position
<1>3. Begin(r, row) /\ IsEditable(motion)
  BY DEF CastMyVote
<1> QED
  BY <1>2, <1>3

LEMMA ProposeRows ==
  ASSUME TypeOK, Propose
  PROVE  \A r \in Rows : \/ ballot'[r] = ballot[r]
                         \/ r \in Free /\ ballot'[r] \in Ballot
<1> DEFINE entitled == {s \in Seats : Entitled(s)}
<1>1. PICK new \in [entitled -> Free] :
        ballot' = [r \in Rows |->
               IF \E s \in entitled : new[s] = r
               THEN NewBallot(CHOOSE s \in entitled : new[s] = r)
               ELSE ballot[r]]
  BY DEF Propose
<1>2. ASSUME NEW r \in Rows, \E s \in entitled : new[s] = r
      PROVE  r \in Free /\ ballot'[r] \in Ballot
  <2>1. PICK s \in entitled : new[s] = r /\ ballot'[r] = NewBallot(s)
    BY <1>1, <1>2
  <2> QED
    BY <2>1, BallotFacts
<1> QED
  BY <1>1, <1>2

LEMMA NextTypeOK ==
  ASSUME TypeOK, [Next]_vars
  PROVE  TypeOK'
<1>1. CASE Propose
  <2>1. \A r \in Rows : ballot'[r] \in Ballot \cup Elsewhere \cup {NoBallot}
    BY <1>1, ProposeRows DEF TypeOK
  <2>2. DOMAIN ballot' = Rows /\ ballot' = [r \in Rows |-> ballot'[r]]
    BY <1>1 DEF Propose
  <2>3. ballot' \in [Rows -> Ballot \cup Elsewhere \cup {NoBallot}]
    BY <2>1, <2>2
  <2>4. motion' \in Motion /\ motion'.outcome # "unput"
    BY <1>1, BallotFacts DEF Propose, Untallied
  <2> QED
    BY <1>1, <2>3, <2>4 DEF Propose, TypeOK
<1>2. ASSUME NEW s \in Seats, SeatChanges(s)
      PROVE  TypeOK'
  BY <1>2 DEF SeatChanges, TypeOK, OnMotion
<1>3. ASSUME NEW u \in People, NEW r \in Rows, NEW p \in Castable, CastMyVote(u, r, p)
      PROVE  TypeOK'
  BY <1>3, CastRow, BeginType DEF IsEditable
<1>4. ASSUME NEW u \in People, NEW r \in Rows, NEW row \in Forms, DeskVote(u, r, row)
      PROVE  TypeOK'
  <2>1. Begin(r, row) /\ (motion.outcome # "unput" \/ row.of = "other")
    BY <1>4 DEF DeskVote, IsEditable
  <2> QED
    BY <2>1, FormAssumption, BeginType
<1>5. ASSUME NEW c \in casting, CommitVote(c)
      PROVE  TypeOK'
  <2>1. c.row \in Rows /\ c.to \in Ballot \cup Elsewhere
    BY DEF TypeOK, Request
  <2>2. PICK changed \in BOOLEAN :
          recording' = {[r EXCEPT !.missed = @ \/ changed] : r \in recording}
    BY <1>5, <2>1 DEF CommitVote
  <2>3. ASSUME NEW r \in recording
        PROVE  [r EXCEPT !.missed = @ \/ changed] \in Recording
    <3>1. r \in Recording
      BY DEF TypeOK
    <3> QED
      BY <3>1 DEF Recording
  <2>4. recording' \subseteq Recording
    BY <2>2, <2>3
  <2>5. ballot' \in [Rows -> Ballot \cup Elsewhere \cup {NoBallot}]
    BY <1>5, <2>1 DEF CommitVote, TypeOK
  <2>6. casting' \subseteq casting /\ UNCHANGED <<seat, motion>>
    BY <1>5 DEF CommitVote
  <2>7. overtaken' \in BOOLEAN
    BY <1>5 DEF CommitVote, TypeOK
  <2>8. ASSUME motion.outcome = "unput" PROVE OnMotion' = {}
    <3>1. c.to.of = "other" /\ OnMotion = {}
      BY <2>8 DEF TypeOK
    <3> QED
      BY <1>5, <2>1, <3>1 DEF CommitVote, OnMotion, TypeOK
  <2> QED
    BY <2>4, <2>5, <2>6, <2>7, <2>8 DEF TypeOK
<1>6. ASSUME NEW o \in Outcomes, RecordOutcome(o)
      PROVE  TypeOK'
  <2>1. recording' \subseteq Recording
    BY <1>6, TallyType, RequiredType DEF RecordOutcome, Recording
  <2>2. OnMotion' = OnMotion
    BY <1>6 DEF RecordOutcome, OnMotion
  <2> QED
    BY <1>6, <2>1, <2>2 DEF RecordOutcome, TypeOK
<1>7. ASSUME NEW r \in recording, CommitOutcome(r)
      PROVE  TypeOK'
  <2>1. r \in Recording
    BY DEF TypeOK
  <2>2. Untallied(r.outcome) \in Motion
    BY <2>1, BallotFacts DEF Recording
  <2>3. motion' \in Motion /\ motion'.outcome # "unput"
    BY <1>7, <2>1, <2>2 DEF CommitOutcome, Recording, Motion, Outcomes, Untallied
  <2>4. overtaken' \in BOOLEAN
    BY <1>7, <2>1 DEF CommitOutcome, Recording, Closed
  <2> QED
    BY <1>7, <2>3, <2>4 DEF CommitOutcome, TypeOK
<1>8. ASSUME NEW o \in Outcomes, DeskOutcome(o)
      PROVE  TypeOK'
  <2>1. motion' \in Motion /\ motion'.outcome # "unput"
    BY <1>8, BallotFacts DEF DeskOutcome, Untallied, Outcomes
  <2> QED
    BY <1>8, <2>1 DEF DeskOutcome, TypeOK
<1>9. CASE DeskDate
  BY <1>9 DEF DeskDate, TypeOK, OnMotion
<1>10. CASE UNCHANGED vars
  BY <1>10 DEF vars, TypeOK, OnMotion
<1> QED
  BY <1>1, <1>2, <1>3, <1>4, <1>5, <1>6, <1>7, <1>8, <1>9, <1>10 DEF Next

(* The rows of a motion are well typed, whatever is typed into the form of *)
(* a ballot, and nobody has a ballot before the motion is put.             *)
THEOREM TypeCorrect == Spec => []TypeOK
<1>1. Init => TypeOK
  BY InitTypeOK
<1>2. TypeOK /\ [Next]_vars => TypeOK'
  BY NextTypeOK
<1> QED
  BY <1>1, <1>2, PTL DEF Spec
-----------------------------------------------------------------------------
LEMMA TallyStands ==
  ASSUME TypeOK, NEW o \in Outcomes, RecordOutcome(o), NEW r \in recording'
  PROVE  IsEditable(motion') /\ StandsOn(r)'
<1>1. r = [outcome |-> o, counts |-> Tally, required |-> RequiredNow, missed |-> FALSE]
  BY DEF RecordOutcome
<1>2. UNCHANGED <<ballot, motion>> /\ IsEditable(motion)
  BY DEF RecordOutcome
<1>3. \A p \in Castable : r.counts[p] = Cardinality(Units(p))
  BY <1>1 DEF Tally
<1>4. r.outcome \in Standing => Cardinality(CastSeats) >= r.required
  BY <1>1, QuorumOfBallots DEF RecordOutcome
<1>5. CastSeats' = CastSeats /\ \A p : Units(p)' = Units(p)
  BY <1>2 DEF CastSeats, Units, OnMotion
<1> QED
  BY <1>2, <1>3, <1>4, <1>5 DEF StandsOn

LEMMA ClosedOrEditable == \A m : ~(Closed(m) /\ IsEditable(m))
BY DEF Closed, IsEditable

(* A ballot is committed that leaves what is counted as it is, or the      *)
(* outcomes in flight have missed it and a closed motion is overtaken.     *)
LEMMA CommitEffect ==
  ASSUME IInv, NEW c \in casting, CommitVote(c)
  PROVE  \/ /\ CastSeats' = CastSeats /\ \A p : Units(p)' = Units(p)
            /\ recording' = recording /\ overtaken' = overtaken
         \/ /\ \A r \in recording' : r.missed
            /\ ~IsEditable(motion) => overtaken'
<1> DEFINE old == ballot[c.row]
           changed == /\ "this" \in {old.of, c.to.of}
                      /\ old.position # c.to.position \/ Moves(old, c.to)
<1>1. /\ ballot' = [ballot EXCEPT ![c.row] = c.to]
      /\ recording' = {[r EXCEPT !.missed = @ \/ changed] : r \in recording}
      /\ overtaken' = (overtaken \/ (changed /\ ~IsEditable(motion) /\ (c.early \/ Moves(old, c.to))))
  BY DEF CommitVote
<1>2. /\ c.row \in Rows /\ c.early \in BOOLEAN /\ overtaken \in BOOLEAN
      /\ ballot \in [Rows -> Ballot \cup Elsewhere \cup {NoBallot}]
      /\ \A r \in recording : r \in Recording
  BY DEF IInv, TypeOK, Request
<1>3. ASSUME ~changed
      PROVE  /\ CastSeats' = CastSeats /\ \A p : Units(p)' = Units(p)
             /\ recording' = recording /\ overtaken' = overtaken
  <2>1. Alike(old, c.to)
    BY <1>3 DEF Alike, Moves
  <2>2. \A r \in Rows : Alike(ballot[r], ballot'[r])
    BY <1>1, <1>2, <2>1 DEF Alike
  <2>3. ASSUME NEW r \in recording
        PROVE  [r EXCEPT !.missed = @ \/ changed] = r
    <3>1. r \in Recording
      BY <1>2
    <3> QED
      BY <1>3, <3>1 DEF Recording
  <2>4. overtaken' = overtaken
    BY <1>1, <1>2, <1>3
  <2> HIDE DEF changed
  <2> QED
    BY <1>1, <2>2, <2>3, <2>4, SameBallots
<1>4. ASSUME changed
      PROVE  /\ \A r \in recording' : r.missed
             /\ ~IsEditable(motion) => overtaken'
  <2>1. c.early \/ Moves(old, c.to)
    BY <1>4 DEF Moves, IInv, LateKeeps
  <2>2. ~IsEditable(motion) => overtaken'
    BY <1>1, <1>4, <2>1
  <2>3. ASSUME NEW q \in recording
        PROVE  [q EXCEPT !.missed = @ \/ changed].missed
    <3>1. q \in Recording
      BY <1>2
    <3> QED
      BY <1>4, <3>1 DEF Recording
  <2> HIDE DEF changed
  <2> QED
    BY <1>1, <2>2, <2>3
<1> QED
  BY <1>3, <1>4

LEMMA NextStands ==
  ASSUME IInv, [Next]_vars
  PROVE  (RecordingStands /\ OutcomeStandsOnBallots)'
<1> USE DEF IInv
<1>0. ASSUME UNCHANGED <<motion, ballot, recording, overtaken>>
      PROVE  (RecordingStands /\ OutcomeStandsOnBallots)'
  <2>1. CastSeats' = CastSeats /\ \A p : Units(p)' = Units(p)
    BY <1>0 DEF CastSeats, Units, OnMotion
  <2> QED
    BY <1>0, <2>1 DEF RecordingStands, OutcomeStandsOnBallots, StandsOn
<1>1. CASE Propose
  <2>1. recording = {}
    BY <1>1 DEF Propose, RecordingStands, IsEditable
  <2>2. motion'.outcome = "open" /\ recording' = {}
    BY <1>1, <2>1 DEF Propose, Untallied
  <2> QED
    BY <2>2 DEF RecordingStands, OutcomeStandsOnBallots, Closed
<1>2. ASSUME NEW c \in casting, CommitVote(c)
      PROVE  (RecordingStands /\ OutcomeStandsOnBallots)'
  <2>1. motion' = motion
    BY <1>2 DEF CommitVote
  <2>2. CASE /\ CastSeats' = CastSeats /\ \A p : Units(p)' = Units(p)
             /\ recording' = recording /\ overtaken' = overtaken
    BY <2>1, <2>2 DEF RecordingStands, OutcomeStandsOnBallots, StandsOn
  <2>3. CASE /\ \A r \in recording' : r.missed
             /\ ~IsEditable(motion) => overtaken'
    <3>1. recording' # {} => IsEditable(motion')
      BY <1>2, <2>1 DEF CommitVote, RecordingStands
    <3>2. RecordingStands'
      BY <2>3, <3>1 DEF RecordingStands
    <3>3. OutcomeStandsOnBallots'
      BY <2>1, <2>3, ClosedOrEditable DEF OutcomeStandsOnBallots
    <3> QED
      BY <3>2, <3>3
  <2> QED
    BY <1>2, <2>2, <2>3, CommitEffect
<1>3. ASSUME NEW o \in Outcomes, RecordOutcome(o)
      PROVE  (RecordingStands /\ OutcomeStandsOnBallots)'
  <2>1. RecordingStands'
    BY <1>3, TallyStands DEF RecordingStands
  <2>2. ~Closed(motion')
    BY <1>3, ClosedOrEditable DEF RecordOutcome
  <2> QED
    BY <2>1, <2>2 DEF OutcomeStandsOnBallots
<1>4. ASSUME NEW r \in recording, CommitOutcome(r)
      PROVE  (RecordingStands /\ OutcomeStandsOnBallots)'
  <2>1. recording' = {} /\ ballot' = ballot
    BY <1>4 DEF CommitOutcome
  <2>2. CastSeats' = CastSeats /\ \A p : Units(p)' = Units(p)
    BY <2>1 DEF CastSeats, Units, OnMotion
  <2>3. ~r.missed => StandsOn(r)
    BY DEF RecordingStands
  <2>4. CASE Closed(r)
    <3>1. /\ motion'.outcome = r.outcome /\ motion'.counts = r.counts
          /\ motion'.required = r.required /\ overtaken' = r.missed
      <4>1. r.missed \in BOOLEAN
        BY DEF TypeOK, Recording
      <4> QED
        BY <1>4, <2>4, <4>1 DEF CommitOutcome
    <3> QED
      BY <2>1, <2>2, <2>3, <3>1 DEF RecordingStands, OutcomeStandsOnBallots, StandsOn
  <2>5. CASE ~Closed(r)
    <3>1. ~Closed(motion')
      BY <1>4, <2>5 DEF CommitOutcome, Untallied, Closed
    <3> QED
      BY <2>1, <3>1 DEF RecordingStands, OutcomeStandsOnBallots
  <2> QED
    BY <2>4, <2>5
<1>5. ASSUME NEW o \in Outcomes, DeskOutcome(o)
      PROVE  (RecordingStands /\ OutcomeStandsOnBallots)'
  <2>1. recording' = {} /\ motion'.tallied = FALSE
    BY <1>5 DEF DeskOutcome, Untallied
  <2> QED
    BY <2>1 DEF RecordingStands, OutcomeStandsOnBallots
<1>6. CASE DeskDate
  <2>1. recording' = {} /\ ~Closed(motion')
    BY <1>6, ClosedOrEditable DEF DeskDate
  <2> QED
    BY <2>1 DEF RecordingStands, OutcomeStandsOnBallots
<1>7. ASSUME \/ \E s \in Seats : SeatChanges(s)
             \/ \E u \in People, r \in Rows, p \in Castable : CastMyVote(u, r, p)
             \/ \E u \in People, r \in Rows, row \in Forms : DeskVote(u, r, row)
             \/ UNCHANGED vars
      PROVE  (RecordingStands /\ OutcomeStandsOnBallots)'
  <2>1. UNCHANGED <<motion, ballot, recording, overtaken>>
    <3>1. ASSUME NEW u \in People, NEW r \in Rows, NEW p \in Castable, CastMyVote(u, r, p)
          PROVE  UNCHANGED <<motion, ballot, recording, overtaken>>
      BY <3>1, CastRow DEF Begin
    <3> QED
      BY <1>7, <3>1 DEF SeatChanges, DeskVote, Begin, vars
  <2> QED
    BY <1>0, <2>1
<1> QED
  BY <1>1, <1>2, <1>3, <1>4, <1>5, <1>6, <1>7 DEF Next

LEMMA BeginKeeps ==
  ASSUME IInv, NEW r, NEW row, Begin(r, row),
         IsEditable(motion) \/ row.of = "other" \/ row.position = ballot[r].position
  PROVE  LateKeeps'
BY DEF IInv, LateKeeps, Begin

LEMMA NextKeeps ==
  ASSUME IInv, [Next]_vars
  PROVE  LateKeeps'
<1>1. CASE Propose
  <2>1. \A c \in casting : c.to.of = "other"
    BY <1>1 DEF Propose, IInv, TypeOK
  <2> QED
    BY <1>1, <2>1 DEF Propose, LateKeeps
<1>2. ASSUME NEW u \in People, NEW r \in Rows, NEW p \in Castable, CastMyVote(u, r, p)
      PROVE  LateKeeps'
  BY <1>2, CastRow, BeginKeeps DEF IInv
<1>3. ASSUME NEW u \in People, NEW r \in Rows, NEW row \in Forms, DeskVote(u, r, row)
      PROVE  LateKeeps'
  BY <1>3, BeginKeeps DEF DeskVote
<1>4. ASSUME NEW c \in casting, CommitVote(c)
      PROVE  LateKeeps'
  <2>1. /\ ballot' = [ballot EXCEPT ![c.row] = c.to]
        /\ casting' = {d \in casting : d.row # c.row}
    BY <1>4 DEF CommitVote
  <2>2. ballot \in [Rows -> Ballot \cup Elsewhere \cup {NoBallot}] /\ \A d \in casting : d.row \in Rows
    BY DEF IInv, TypeOK, Request
  <2> QED
    BY <2>1, <2>2 DEF IInv, LateKeeps
<1>5. ASSUME UNCHANGED <<ballot, casting>> PROVE LateKeeps'
  BY <1>5 DEF IInv, LateKeeps
<1> QED
  BY <1>1, <1>2, <1>3, <1>4, <1>5
  DEF Next, vars, SeatChanges, RecordOutcome, CommitOutcome, DeskOutcome, DeskDate

LEMMA InitInvariant == ASSUME Init PROVE IInv
<1>1. motion.outcome = "unput" /\ recording = {} /\ casting = {}
  BY DEF Init, Untallied
<1>2. RecordingStands /\ LateKeeps /\ OutcomeStandsOnBallots
  BY <1>1 DEF RecordingStands, LateKeeps, OutcomeStandsOnBallots, Closed
<1> QED
  BY <1>2, InitTypeOK DEF IInv

LEMMA NextInvariant == ASSUME IInv, [Next]_vars PROVE IInv'
BY NextTypeOK, NextStands, NextKeeps DEF IInv

(* The decision on record is the one the ballots on record made, for any   *)
(* forum, whatever is typed into the form of a ballot, unless the form     *)
(* gives a ballot of the closed motion another motion, seat or weight: see *)
(* OutcomeStandsOnBallots.                                                 *)
THEOREM DecisionIsTheBallots == Spec => []OutcomeStandsOnBallots
<1>1. Init => IInv
  BY InitInvariant
<1>2. IInv /\ [Next]_vars => IInv'
  BY NextInvariant
<1>3. IInv => OutcomeStandsOnBallots
  BY DEF IInv
<1> QED
  BY <1>1, <1>2, <1>3, PTL DEF Spec

-----------------------------------------------------------------------------
(* The ballots validated before the motion closed, and still being saved.  *)
Early == {c \in casting : c.early}

(* _guard_frozen and _validate_frozen: a closed motion keeps its outcome;  *)
(* the ballots validated before are the last to say something else, and    *)
(* when none is left nothing is added and no position is changed any more: *)
(* every ballot then on the motion says what its row said before.  What    *)
(* the form can still change is which motion and which seat a row is for,  *)
(* and its weight.                                                         *)
ClosedMotionSettles ==
  [][Closed(motion) =>
       /\ motion' = motion
       /\ Early' \subseteq Early
       /\ Early = {} => \A r \in OnMotion' : ballot'[r].position = ballot[r].position]_vars

LEMMA ClosedNext ==
  ASSUME IInv, [Next]_vars, Closed(motion)
  PROVE  /\ motion' = motion
         /\ Early' \subseteq Early
         /\ Early = {} => \A r \in OnMotion' : ballot'[r].position = ballot[r].position
<1> DEFINE Goal == /\ motion' = motion
                   /\ Early' \subseteq Early
                   /\ Early = {} => \A r \in OnMotion' : ballot'[r].position = ballot[r].position
<1>1. ~IsEditable(motion) /\ motion.outcome # "unput"
  BY ClosedOrEditable DEF Closed
<1>2. recording = {}
  BY <1>1 DEF IInv, RecordingStands
<1>3. ASSUME UNCHANGED <<motion, ballot, casting>>
      PROVE  Goal
  BY <1>3 DEF Early
<1>4. ASSUME NEW u \in People, NEW r \in Rows, NEW row \in Forms, DeskVote(u, r, row)
      PROVE  Goal
  <2>1. /\ UNCHANGED <<motion, ballot>>
        /\ casting' = casting \cup {[row |-> r, to |-> row, early |-> FALSE]}
    <3>1. IsEditable(motion) = FALSE
      BY <1>1 DEF IsEditable
    <3> QED
      BY <1>4, <3>1 DEF DeskVote, Begin
  <2>2. Early' \subseteq Early
    BY <2>1 DEF Early
  <2> QED
    BY <2>1, <2>2
<1>5. ASSUME NEW c \in casting, CommitVote(c)
      PROVE  Goal
  <2>1. /\ motion' = motion
        /\ ballot' = [ballot EXCEPT ![c.row] = c.to]
        /\ casting' = {d \in casting : d.row # c.row}
    BY <1>5 DEF CommitVote
  <2>2. ballot \in [Rows -> Ballot \cup Elsewhere \cup {NoBallot}] /\ c.row \in Rows
    BY DEF IInv, TypeOK, Request
  <2>3. Early' \subseteq Early
    BY <2>1 DEF Early
  <2>4. ASSUME Early = {}, NEW r \in OnMotion'
        PROVE  ballot'[r].position = ballot[r].position
    <3>1. ~c.early
      BY <2>4 DEF Early
    <3>2. r \in Rows /\ ballot'[r].of = "this"
      BY <2>4 DEF OnMotion
    <3> QED
      BY <2>1, <2>2, <3>1, <3>2 DEF IInv, LateKeeps
  <2> QED
    BY <2>1, <2>3, <2>4
<1>6. ~Propose /\ ~DeskDate
  BY <1>1 DEF Propose, DeskDate
<1>7. \A o \in Outcomes : ~RecordOutcome(o) /\ ~DeskOutcome(o)
  BY <1>1 DEF RecordOutcome, DeskOutcome
<1>8. \A u \in People, r \in Rows, p \in Castable : ~CastMyVote(u, r, p)
  BY <1>1 DEF CastMyVote
<1>9. ASSUME (\E s \in Seats : SeatChanges(s)) \/ UNCHANGED vars
      PROVE  Goal
  <2>1. UNCHANGED <<motion, ballot, casting>>
    BY <1>9 DEF SeatChanges, vars
  <2> QED
    BY <1>3, <2>1
<1> QED
  BY <1>2, <1>4, <1>5, <1>6, <1>7, <1>8, <1>9 DEF Next

(* What a closed motion says stays: see ClosedMotionSettles.               *)
THEOREM ClosedMotionStands == Spec => ClosedMotionSettles
<1>1. Init => IInv
  BY InitInvariant
<1>2. IInv /\ [Next]_vars => IInv'
  BY NextInvariant
<1>3. IInv /\ [Next]_vars =>
        [Closed(motion) =>
           /\ motion' = motion
           /\ Early' \subseteq Early
           /\ Early = {} => \A r \in OnMotion' : ballot'[r].position = ballot[r].position]_vars
  BY ClosedNext
<1> QED
  BY <1>1, <1>2, <1>3, PTL DEF Spec, ClosedMotionSettles
=============================================================================
