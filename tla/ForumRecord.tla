----------------------------- MODULE ForumRecord -----------------------------
(***************************************************************************)
(* A governance forum's record: what people may edit, its compliance       *)
(* standing, and the version chain both are kept in.                       *)
(*   governance_forum.py, lifecycle.py: edits, the watched-field trigger,  *)
(*     reviews and the charter challenge, disbandment                      *)
(*   revision.py, versioning.py: the snapshot on every save, and revert    *)
(* One request is one step: Frappe runs it in one transaction, and         *)
(* Document.save refuses a record that changed since it was loaded.        *)
(***************************************************************************)
EXTENDS Naturals, Sequences

CONSTANTS
  Mandates,         \* values of the watched fields (forum_type, description, ...)
  Notes,            \* values of the editable fields nobody watches
  People,           \* who can hold the chair's seat
  MaxVersions       \* bound: length of the chain

ASSUME MaxVersionsAssumption == MaxVersions \in Nat

VARIABLES
  mandate, notes, confidential,     \* what a person edits
  chair,            \* committee_chair: watched, and derived from the seats
  standing,         \* compliance_status
  disputed,         \* a charter in force has an uncleared challenge
  chain,            \* the forum's Document Versions, by version number
  basis             \* history variable: what the last review, or else the insertion,
                    \* gave, and on what

vars == <<mandate, notes, confidential, chair, standing, disputed, chain, basis>>

-----------------------------------------------------------------------------
(* The flags of each state (state_flag_seed.py).                           *)
Standings == {"Draft", "Pending", "Compliant", "Non-Compliant", "Not Applicable", "Disbanded"}

Editable(s) == s \notin {"Pending", "Disbanded"}

Active(s) == s # "Disbanded"

GoodStanding(s) == s \in {"Compliant", "Not Applicable"}

(* What a version says: the editable fields and the state.  The handling   *)
(* classification is not among them (RevisionPolicy.kept_fields).          *)
Says == [mandate : Mandates, notes : Notes, standing : Standings]

Content == [mandate |-> mandate, notes |-> notes, standing |-> standing]

None == 0

Version == [number : Nat, current : BOOLEAN, created_from : Nat, superseded_by : Nat,
            origin : {"Authored", "Migrated", "Reverted"}, says : Says, confidential : BOOLEAN]

-----------------------------------------------------------------------------
(* versioning.create_version: the head stands down, the new row claims     *)
(* currency with the next number, the old head is pointed at it.           *)

(* Mutant: the head does not stand down.                                   *)
MutantStoodDown(c) == [c EXCEPT ![Len(c)].superseded_by = Len(c) + 1]

StoodDown(c) ==
  [c EXCEPT ![Len(c)].current = FALSE, ![Len(c)].superseded_by = Len(c) + 1]

CreateVersion(c, origin, says, conf) ==
  Append(IF c = <<>> THEN c ELSE StoodDown(c),
         [number |-> Len(c) + 1, current |-> TRUE,
          created_from |-> IF c = <<>> THEN None ELSE Len(c), superseded_by |-> None,
          origin |-> origin, says |-> says, confidential |-> conf])

(* revision.snapshot, run when the record has been saved: the baseline of  *)
(* a record without a chain, then a version if the save changed what the   *)
(* record says.                                                            *)
Tracked ==
  IF chain = <<>> THEN CreateVersion(chain, "Migrated", Content, confidential) ELSE chain

(* Mutant: only the person's fields are compared, not the state.           *)
MutantSnapshot(says, conf) ==
  IF says.mandate = Content.mandate /\ says.notes = Content.notes THEN Tracked
  ELSE CreateVersion(Tracked, "Authored", says, conf)

Snapshot(says, conf) ==
  IF says = Tracked[Len(Tracked)].says THEN Tracked
  ELSE CreateVersion(Tracked, "Authored", says, conf)

RoomLeft == Len(chain') <= MaxVersions

-----------------------------------------------------------------------------
(* A forum is inserted: by a formation request, an import or the form.     *)
(* _guard_lifecycle_fields lets a new record have any standing.  One       *)
(* without a chain was there before revision tracking.                     *)
Init ==
  /\ mandate \in Mandates /\ notes \in Notes /\ confidential \in BOOLEAN /\ chair \in People
  /\ standing \in Standings
  /\ disputed \in BOOLEAN
  /\ chain \in {<<>>, CreateVersion(<<>>, "Authored", Content, confidential)}
  /\ basis = [standing |-> standing, mandate |-> mandate, chair |-> chair]

(* lifecycle.on_watched_change, after the save that changed the field.     *)

(* Mutant: only a forum found compliant is sent back.                      *)
MutantAfterWatched(m) ==
  IF m # mandate /\ standing = "Compliant" THEN "Pending" ELSE standing

AfterWatched(m) == IF m # mandate THEN "Pending" ELSE standing

(* A person saves the form: the lifecycle and officer fields are refused,  *)
(* and a state that is not editable locks the record.                      *)
Edit(m, n, c) ==
  /\ Editable(standing)
  /\ mandate' = m /\ notes' = n /\ confidential' = c
  /\ standing' = AfterWatched(m)
  /\ chain' = Snapshot([mandate |-> m, notes |-> n, standing |-> AfterWatched(m)], c)
  /\ RoomLeft
  /\ UNCHANGED <<chair, disputed, basis>>

(* lifecycle.set_forum_state, the only writer of the standing.             *)
SetForumState(s) ==
  /\ standing' = s
  /\ chain' = Snapshot([Content EXCEPT !.standing = s], confidential)
  /\ RoomLeft
  /\ UNCHANGED <<mandate, notes, confidential, chair, disputed>>

ReviewOutcomeStatus ==
  [d \in {"Compliant", "Non-Compliant", "Not Applicable", "Returned To Creator"} |->
     IF d = "Returned To Creator" THEN "Draft" ELSE d]

(* lifecycle.refuse_standing_over_open_challenge, apply_review.            *)

(* Mutant: the challenge is not asked for.                                 *)
MutantApplyReview(d) ==
  /\ SetForumState(ReviewOutcomeStatus[d])
  /\ basis' = [standing |-> ReviewOutcomeStatus[d], mandate |-> mandate, chair |-> chair]

ApplyReview(d) ==
  /\ ~(GoodStanding(ReviewOutcomeStatus[d]) /\ disputed)
  /\ SetForumState(ReviewOutcomeStatus[d])
  /\ basis' = [standing |-> ReviewOutcomeStatus[d], mandate |-> mandate, chair |-> chair]

(* The portal's review, and the annual review of an active forum.          *)
RecordComplianceReview(d) == Active(standing) /\ ApplyReview(d)

(* A Forum Compliance Review inserted on its own form, which a compliance  *)
(* reviewer may create: its controller applies it all the same.            *)
InsertReview(d) == ApplyReview(d)

(* lifecycle.execute_disbandment, once its plan is approved.               *)
ExecuteDisbandment ==
  /\ Active(standing)
  /\ SetForumState("Disbanded")
  /\ UNCHANGED basis

(* membership.sync_officers writes the column directly: no save, no hook.  *)
SyncOfficers(p) ==
  /\ p # chair
  /\ chair' = p
  /\ UNCHANGED <<mandate, notes, confidential, standing, disputed, chain, basis>>

(* charters.start_forum_charter, publish_charter_version and               *)
(* record_charter_challenge; a charter going out of force ends its dispute.*)
Challenge(d) ==
  /\ Active(standing) \/ ~d
  /\ disputed' = d
  /\ UNCHANGED <<mandate, notes, confidential, chair, standing, chain, basis>>

-----------------------------------------------------------------------------
(* revision.revert_record                                                  *)

MayRevert(v) ==
  /\ v \in DOMAIN chain
  /\ ~chain[v].current
  /\ Editable(standing)
  /\ Active(chain[v].says.standing) = Active(standing)
  /\ \/ chain[v].says.mandate # mandate
     \/ chain[v].says.notes # notes

Restored(v) ==
  [chain[v].says EXCEPT !.standing = AfterWatched(chain[v].says.mandate)]

(* The new head is a snapshot of the record as it is after the save.       *)

(* Mutants: the target's snapshot is stamped as the head; or its version   *)
(* row itself.                                                             *)
MutantUntypedHead(v) == chain[v]

MutantRevertedHead(v) == chain[v].says

RevertedHead(v) == Restored(v)

Revert(v) ==
  /\ MayRevert(v)
  /\ mandate' = Restored(v).mandate
  /\ notes' = Restored(v).notes
  /\ standing' = Restored(v).standing
  /\ chain' = CreateVersion(chain, "Reverted", RevertedHead(v), confidential)
  /\ RoomLeft
  /\ UNCHANGED <<confidential, chair, disputed, basis>>

-----------------------------------------------------------------------------
Next ==
  \/ \E m \in Mandates, n \in Notes, c \in BOOLEAN : Edit(m, n, c)
  \/ \E d \in DOMAIN ReviewOutcomeStatus : RecordComplianceReview(d)
  \/ \E d \in DOMAIN ReviewOutcomeStatus : InsertReview(d)
  \/ ExecuteDisbandment
  \/ \E p \in People : SyncOfficers(p)
  \/ \E d \in BOOLEAN : Challenge(d)
  \/ \E v \in DOMAIN chain : Revert(v)

Spec == Init /\ [][Next]_vars

-----------------------------------------------------------------------------
TypeOK ==
  /\ mandate \in Mandates /\ notes \in Notes /\ confidential \in BOOLEAN /\ chair \in People
  /\ standing \in Standings
  /\ disputed \in BOOLEAN
  /\ chain \in Seq(Version)
  /\ basis \in [standing : Standings, mandate : Mandates, chair : People]

(* versioning.py: "The chain therefore always reads forward": one version  *)
(* is current, the last, and each points at its successor and its origin.  *)
ReadsForward(c) ==
  \A i \in 1 .. Len(c) :
    /\ c[i].number = i
    /\ c[i].current <=> (i = Len(c))
    /\ c[i].created_from = i - 1
    /\ c[i].superseded_by = IF i = Len(c) THEN None ELSE i + 1

ChainReadsForward == ReadsForward(chain)

(* revision.py: the head says what the record actually holds, whoever      *)
(* moved it last: an edit, a trigger after the save, a review, a           *)
(* disbandment or a revert.                                                *)
HeadTellsTheTruth == chain # <<>> => chain[Len(chain)].says = Content

(* The chain implements the abstract history: nothing is rewritten, and    *)
(* one version is added for each change of what the record says.           *)
History == INSTANCE RecordHistory WITH
             record <- Content,
             said <- [i \in 1 .. Len(chain) |-> chain[i].says]

AppendOnlyHistory == History!Spec

(* lifecycle.py: "A forum's compliance state changes only through a        *)
(* Forum Compliance Review, a watched-field trigger, or a completed        *)
(* disbandment", and an edit of a watched field sends it back.  So a forum *)
(* in good standing has it from a review, or was inserted with it, and the *)
(* watched fields people edit are as they were then, whatever was edited   *)
(* or reverted since.  The chair is watched too and is not in this: what   *)
(* is promised of it the code does not do (ChairChangeIsReviewed, below).  *)
GoodStandingHasItsBasis ==
  GoodStanding(standing) =>
    /\ basis.standing = standing
    /\ basis.mandate = mandate

(* No step (review, revert, edit) brings a forum into good standing while  *)
(* a charter in force on it is disputed.                                   *)
NoCleanStandingOverChallenge ==
  [][GoodStanding(standing') /\ ~GoodStanding(standing) => ~disputed]_vars

-----------------------------------------------------------------------------
(* What the documents say and the code does not do.                        *)

(* docs/guides/11-glossary.md: "Details of a forum (such as its mandate or *)
(* chair) that, when changed, send it back for a compliance review."  The  *)
(* officers are written past the hook that would.                          *)
ChairChangeIsReviewed == GoodStanding(standing) => basis.chair = chair

(* lifecycle.py: "Forum is disbanded. Its standing is final and is not     *)
(* reviewed again."                                                     *)
DisbandedIsFinal == [][~Active(standing) => ~Active(standing')]_vars
=============================================================================
