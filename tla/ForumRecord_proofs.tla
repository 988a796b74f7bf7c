------------------------- MODULE ForumRecord_proofs -------------------------
(***************************************************************************)
(* The chain of a forum's record is append-only, reads forward and ends in *)
(* what the record says, for any values and any length; a good standing is *)
(* a review's or the insertion's, on the mandate of then, and no step      *)
(* gives one over an open challenge.                                       *)
(***************************************************************************)
EXTENDS ForumRecord, TLAPS

-----------------------------------------------------------------------------
(* The operators of the chain.                                             *)

LEMMA RowStaysARow ==
  ASSUME NEW v \in Version, NEW m \in Nat
  PROVE  [v EXCEPT !.current = FALSE, !.superseded_by = m] \in Version
BY Zenon DEF Version

(* Standing the head down changes neither its length nor what it says.     *)
LEMMA StoodDownKeeps ==
  ASSUME NEW c \in Seq(Version), c # <<>>
  PROVE  /\ StoodDown(c) \in Seq(Version)
         /\ Len(StoodDown(c)) = Len(c)
         /\ \A i \in 1 .. Len(c) :
              /\ StoodDown(c)[i].says = c[i].says
              /\ StoodDown(c)[i].number = c[i].number
              /\ StoodDown(c)[i].created_from = c[i].created_from
              /\ StoodDown(c)[i].current = (i # Len(c) /\ c[i].current)
              /\ StoodDown(c)[i].superseded_by = IF i = Len(c) THEN Len(c) + 1 ELSE c[i].superseded_by
<1> DEFINE n == Len(c)
           down == [c[n] EXCEPT !.current = FALSE, !.superseded_by = n + 1]
<1>1. n \in Nat /\ n > 0 /\ c[n] \in Version
  OBVIOUS
<1>2. StoodDown(c) = [c EXCEPT ![n] = down]
  BY <1>1 DEF StoodDown, Version
<1>3. down \in Version
  <2>1. n + 1 \in Nat
    BY <1>1
  <2> QED
    BY <1>1, <2>1, RowStaysARow, Zenon
<1>4. /\ down.says = c[n].says /\ down.number = c[n].number
      /\ down.created_from = c[n].created_from
      /\ down.current = FALSE /\ down.superseded_by = n + 1
  BY <1>1 DEF Version
<1>5. StoodDown(c) \in Seq(Version) /\ Len(StoodDown(c)) = n
  BY <1>1, <1>2, <1>3
<1>6. \A i \in 1 .. n : StoodDown(c)[i] = IF i = n THEN down ELSE c[i]
  BY <1>1, <1>2
<1>7. \A i \in 1 .. n : c[i].current \in BOOLEAN
  <2>1. \A i \in 1 .. n : c[i] \in Version
    OBVIOUS
  <2> QED
    BY <2>1 DEF Version
<1> QED
  BY <1>1, <1>4, <1>5, <1>6, <1>7

(* One version is added, it says what it was given, and the others say     *)
(* what they said.                                                         *)
LEMMA CreateVersionAppends ==
  ASSUME NEW c \in Seq(Version), NEW s \in Says, NEW conf \in BOOLEAN,
         NEW o \in {"Authored", "Migrated", "Reverted"},
         ReadsForward(c)
  PROVE  LET d == CreateVersion(c, o, s, conf)
         IN  /\ d \in Seq(Version)
             /\ Len(d) = Len(c) + 1
             /\ d[Len(c) + 1].says = s
             /\ \A i \in 1 .. Len(c) : d[i].says = c[i].says
             /\ ReadsForward(d)
<1> DEFINE n == Len(c)
           base == IF c = <<>> THEN c ELSE StoodDown(c)
           new == [number |-> n + 1, current |-> TRUE,
                   created_from |-> IF c = <<>> THEN None ELSE n, superseded_by |-> None,
                   origin |-> o, says |-> s, confidential |-> conf]
           d == CreateVersion(c, o, s, conf)
<1>1. d = Append(base, new)
  BY DEF CreateVersion
<1>2. n \in Nat /\ (c = <<>> <=> n = 0)
  OBVIOUS
<1>3. new \in Version
  BY <1>2 DEF Version, None
<1>4. /\ base \in Seq(Version) /\ Len(base) = n
      /\ \A i \in 1 .. n : base[i].says = c[i].says
  BY <1>2, StoodDownKeeps
<1>5. /\ d \in Seq(Version) /\ Len(d) = n + 1
      /\ d[n + 1] = new
      /\ \A i \in 1 .. n : d[i] = base[i]
  BY <1>1, <1>2, <1>3, <1>4
<1>6. ASSUME NEW i \in 1 .. n
      PROVE  /\ d[i].number = i /\ ~d[i].current
             /\ d[i].created_from = i - 1 /\ d[i].superseded_by = i + 1
  <2>1. c # <<>> /\ base = StoodDown(c)
    BY <1>2
  <2>2. c[i].number = i /\ (c[i].current <=> i = n) /\ c[i].created_from = i - 1
        /\ (i # n => c[i].superseded_by = i + 1)
    BY DEF ReadsForward
  <2>3. d[i] = StoodDown(c)[i]
    BY <1>5, <2>1
  <2>4. d[i].current = (i # n /\ c[i].current)
    BY <2>1, <2>3, StoodDownKeeps
  <2>5. ~d[i].current
    BY <2>2, <2>4, Zenon
  <2> QED
    BY <2>1, <2>2, <2>3, <2>5, StoodDownKeeps
<1>7. /\ new.number = n + 1 /\ new.current /\ new.created_from = n /\ new.superseded_by = None
      /\ new.says = s
  BY <1>2 DEF None
<1>8. ReadsForward(d)
  <2> SUFFICES ASSUME NEW i \in 1 .. Len(d)
               PROVE  /\ d[i].number = i
                      /\ d[i].current <=> (i = Len(d))
                      /\ d[i].created_from = i - 1
                      /\ d[i].superseded_by = IF i = Len(d) THEN None ELSE i + 1
    BY DEF ReadsForward
  <2>1. CASE i = n + 1
    BY <2>1, <1>2, <1>5, <1>7
  <2>2. CASE i \in 1 .. n
    BY <2>2, <1>2, <1>5, <1>6
  <2> QED
    BY <2>1, <2>2, <1>2, <1>5
<1> QED
  BY <1>4, <1>5, <1>7, <1>8

-----------------------------------------------------------------------------
(* The invariant.  What a step does to the chain depends on the head being *)
(* the last version and on its saying what the record says, so the three   *)
(* are proved together.                                                    *)
IInv == TypeOK /\ ChainReadsForward /\ HeadTellsTheTruth

LEMMA ContentIsSaid == ASSUME TypeOK PROVE Content \in Says
  BY DEF TypeOK, Content, Says

(* After the baseline there is a chain, and it ends in what the record     *)
(* said before the save.                                                   *)
LEMMA TrackedTells ==
  ASSUME IInv
  PROVE  /\ Tracked \in Seq(Version) /\ Tracked # <<>> /\ ReadsForward(Tracked)
         /\ Tracked[Len(Tracked)].says = Content
         /\ chain # <<>> => Tracked = chain
         /\ chain = <<>> => Len(Tracked) = 1
<1>1. CASE chain # <<>>
  BY <1>1 DEF IInv, TypeOK, ChainReadsForward, HeadTellsTheTruth, Tracked
<1>2. CASE chain = <<>>
  <2>1. chain \in Seq(Version) /\ confidential \in BOOLEAN /\ Content \in Says
    BY ContentIsSaid DEF IInv, TypeOK
  <2>2. ReadsForward(chain)
    BY DEF IInv, ChainReadsForward
  <2>3. Tracked = CreateVersion(chain, "Migrated", Content, confidential)
    BY <1>2 DEF Tracked
  <2>4. /\ Tracked \in Seq(Version) /\ Len(Tracked) = Len(chain) + 1
        /\ Tracked[Len(chain) + 1].says = Content /\ ReadsForward(Tracked)
    BY <2>1, <2>2, <2>3, CreateVersionAppends
  <2>5. Len(chain) = 0
    BY <1>2
  <2> QED
    BY <1>2, <2>4, <2>5
<1> QED
  BY <1>1, <1>2

(* A snapshot ends the chain in what the save left, and adds a version     *)
(* only if that differs.                                                   *)
LEMMA SnapshotTells ==
  ASSUME IInv, NEW s \in Says, NEW conf \in BOOLEAN
  PROVE  LET d == Snapshot(s, conf)
         IN  /\ d \in Seq(Version) /\ d # <<>> /\ ReadsForward(d)
             /\ d[Len(d)].says = s
             /\ s = Content => d = Tracked
             /\ s # Content => /\ Len(d) = Len(Tracked) + 1
                              /\ \A i \in 1 .. Len(Tracked) : d[i].says = Tracked[i].says
<1>1. CASE s = Content
  BY <1>1, TrackedTells DEF Snapshot
<1>2. CASE s # Content
  <2>1. Snapshot(s, conf) = CreateVersion(Tracked, "Authored", s, conf)
    BY <1>2, TrackedTells DEF Snapshot
  <2> QED
    BY <1>2, <2>1, TrackedTells, CreateVersionAppends
<1> QED
  BY <1>1, <1>2

(* What a step does to the chain: a save and its snapshot, a revert, or    *)
(* nothing at all.                                                         *)
SavedAs(s) == \E conf \in BOOLEAN : chain' = Snapshot(s, conf)

RevertedTo(s) ==
  /\ chain # <<>>
  /\ s # Content
  /\ chain' = CreateVersion(chain, "Reverted", s, confidential)

LEMMA StandingsKnown ==
  /\ \A m : standing \in Standings => AfterWatched(m) \in Standings
  /\ \A d \in DOMAIN ReviewOutcomeStatus : ReviewOutcomeStatus[d] \in Standings
  BY DEF AfterWatched, Standings, ReviewOutcomeStatus

LEMMA StateSet ==
  ASSUME IInv, NEW s \in Standings, SetForumState(s)
  PROVE  /\ Content' \in Says /\ SavedAs(Content')
         /\ mandate' = mandate /\ notes' = notes /\ chair' = chair
         /\ standing' = s
         /\ confidential' \in BOOLEAN /\ disputed' \in BOOLEAN
<1>1. Content' = [Content EXCEPT !.standing = s]
  BY DEF SetForumState, Content
<1>2. Content' \in Says
  BY DEF SetForumState, Content, Says, IInv, TypeOK
<1>3. confidential \in BOOLEAN /\ disputed \in BOOLEAN
  BY DEF IInv, TypeOK
<1> QED
  BY <1>1, <1>2, <1>3 DEF SetForumState, SavedAs

StepResult ==
  /\ mandate' \in Mandates /\ notes' \in Notes /\ confidential' \in BOOLEAN
  /\ chair' \in People /\ standing' \in Standings /\ disputed' \in BOOLEAN
  /\ basis' \in [standing : Standings, mandate : Mandates, chair : People]
  /\ Content' \in Says
  /\ \/ SavedAs(Content')
     \/ RevertedTo(Content')
     \/ UNCHANGED <<Content, chain>>

LEMMA StepForm == ASSUME IInv, Next PROVE StepResult
<1> USE DEF StepResult
<1>0. /\ mandate \in Mandates /\ notes \in Notes /\ confidential \in BOOLEAN
      /\ chair \in People /\ standing \in Standings /\ disputed \in BOOLEAN
      /\ chain \in Seq(Version)
      /\ basis \in [standing : Standings, mandate : Mandates, chair : People]
      /\ Content \in Says
  BY ContentIsSaid DEF IInv, TypeOK
<1>1. ASSUME NEW m \in Mandates, NEW n \in Notes, NEW c \in BOOLEAN, Edit(m, n, c)
      PROVE  StepResult
  <2>1. AfterWatched(m) \in Standings
    BY <1>0, StandingsKnown
  <2>2. Content' = [mandate |-> m, notes |-> n, standing |-> AfterWatched(m)]
    BY <1>1 DEF Edit, Content
  <2>3. Content' \in Says
    BY <2>1, <2>2 DEF Says
  <2> QED
    BY <1>0, <1>1, <2>1, <2>2, <2>3 DEF Edit, SavedAs
<1>2. ASSUME NEW d \in DOMAIN ReviewOutcomeStatus, ApplyReview(d)
      PROVE  StepResult
  BY <1>0, <1>2, StandingsKnown, StateSet DEF ApplyReview
<1>3. CASE ExecuteDisbandment
  BY <1>0, <1>3, StateSet DEF ExecuteDisbandment, Standings
<1>4. ASSUME NEW p \in People, SyncOfficers(p)
      PROVE  StepResult
  BY <1>0, <1>4 DEF SyncOfficers, Content
<1>5. ASSUME NEW d \in BOOLEAN, Challenge(d)
      PROVE  StepResult
  BY <1>0, <1>5 DEF Challenge, Content
<1>6. ASSUME NEW v \in DOMAIN chain, Revert(v)
      PROVE  StepResult
  <2>1. chain # <<>> /\ chain[v] \in Version
    BY <1>0, <1>6
  <2>2. chain[v].says \in Says
    BY <2>1 DEF Version
  <2>3. /\ Restored(v) = [mandate |-> chain[v].says.mandate, notes |-> chain[v].says.notes,
                          standing |-> AfterWatched(chain[v].says.mandate)]
        /\ Restored(v) \in Says
    BY <1>0, <2>2, StandingsKnown DEF Restored, Says
  <2>4. Content' = Restored(v)
    BY <1>6, <2>3 DEF Revert, Content
  <2>5. Content' # Content
    BY <1>6, <2>3, <2>4 DEF Revert, MayRevert, Content
  <2>6. RevertedTo(Content')
    BY <1>6, <2>1, <2>4, <2>5 DEF Revert, RevertedHead, RevertedTo
  <2> QED
    BY <1>0, <1>6, <2>3, <2>4, <2>6 DEF Revert, Says
<1> QED
  BY <1>1, <1>2, <1>3, <1>4, <1>5, <1>6 DEF Next, RecordComplianceReview, InsertReview

-----------------------------------------------------------------------------
LEMMA FirstVersion ==
  ASSUME NEW s \in Says, NEW conf \in BOOLEAN
  PROVE  LET d == CreateVersion(<<>>, "Authored", s, conf)
         IN  d \in Seq(Version) /\ Len(d) = 1 /\ d[1].says = s /\ ReadsForward(d)
<1> DEFINE empty == <<>>
           d == CreateVersion(empty, "Authored", s, conf)
<1>1. empty \in Seq(Version) /\ Len(empty) = 0 /\ 0 + 1 = 1
  OBVIOUS
<1>2. ReadsForward(empty)
  BY <1>1 DEF ReadsForward
<1>0. d = CreateVersion(empty, "Authored", s, conf)
  OBVIOUS
<1> HIDE DEF empty, d
<1>3. /\ d \in Seq(Version) /\ Len(d) = Len(empty) + 1
      /\ d[Len(empty) + 1].says = s /\ ReadsForward(d)
  BY <1>0, <1>1, <1>2, CreateVersionAppends
<1>4. d \in Seq(Version) /\ Len(d) = 1 /\ d[1].says = s /\ ReadsForward(d)
  BY <1>1, <1>3
<1> QED
  BY <1>4 DEF empty, d

LEMMA InitHolds == Init => IInv
<1> SUFFICES ASSUME Init PROVE IInv
  OBVIOUS
<1>1. Content \in Says
  BY DEF Init, Content, Says, Standings
<1>2. ReadsForward(<<>>) /\ <<>> \in Seq(Version) /\ Len(<<>>) = 0
  BY DEF ReadsForward
<1>3. /\ chain \in Seq(Version) /\ ReadsForward(chain)
      /\ chain # <<>> => chain[Len(chain)].says = Content
  <2>1. CASE chain = <<>>
    BY <1>2, <2>1
  <2>2. CASE chain = CreateVersion(<<>>, "Authored", Content, confidential)
    <3>1. confidential \in BOOLEAN
      BY DEF Init
    <3> QED
      BY <1>1, <2>2, <3>1, FirstVersion
  <2> QED
    BY <2>1, <2>2 DEF Init
<1> QED
  BY <1>3 DEF Init, IInv, TypeOK, ChainReadsForward, HeadTellsTheTruth, Standings

LEMMA StepHolds == IInv /\ [Next]_vars => IInv'
<1> SUFFICES ASSUME IInv, [Next]_vars PROVE IInv'
  OBVIOUS
<1>1. CASE Next
  <2>1. StepResult
    BY <1>1, StepForm
  <2>2. chain' \in Seq(Version) /\ ReadsForward(chain')
        /\ (chain' # <<>> => chain'[Len(chain')].says = Content')
    <3>1. CASE SavedAs(Content')
      BY <2>1, <3>1, SnapshotTells DEF SavedAs, StepResult
    <3>2. CASE RevertedTo(Content')
      <4>1. chain \in Seq(Version) /\ ReadsForward(chain) /\ confidential \in BOOLEAN
        BY DEF IInv, TypeOK, ChainReadsForward
      <4>2. Content' \in Says /\ chain' = CreateVersion(chain, "Reverted", Content', confidential)
        BY <2>1, <3>2 DEF RevertedTo, StepResult
      <4>3. /\ chain' \in Seq(Version) /\ Len(chain') = Len(chain) + 1
            /\ chain'[Len(chain) + 1].says = Content' /\ ReadsForward(chain')
        BY <4>1, <4>2, CreateVersionAppends
      <4> QED
        BY <4>3
    <3>3. CASE UNCHANGED <<Content, chain>>
      BY <3>3 DEF IInv, TypeOK, ChainReadsForward, HeadTellsTheTruth
    <3> QED
      BY <2>1, <3>1, <3>2, <3>3 DEF StepResult
  <2> QED
    BY <2>1, <2>2 DEF StepResult, IInv, TypeOK, ChainReadsForward, HeadTellsTheTruth
<1>2. CASE UNCHANGED vars
  BY <1>2 DEF vars, IInv, TypeOK, ChainReadsForward, HeadTellsTheTruth, Content
<1> QED
  BY <1>1, <1>2

THEOREM Inductive == Spec => []IInv
  BY InitHolds, StepHolds, PTL DEF Spec

(* Every request keeps the record and its chain well typed.                *)
THEOREM TypeCorrect == Spec => []TypeOK
<1>1. IInv => TypeOK
  BY DEF IInv
<1> QED
  BY <1>1, Inductive, PTL

(* versioning.create_version, whoever calls it: one version is current,    *)
(* the last one, and the links of every other point forward.               *)
THEOREM ReadsForwardAlways == Spec => []ChainReadsForward
<1>1. IInv => ChainReadsForward
  BY DEF IInv
<1> QED
  BY <1>1, Inductive, PTL

(* revision.snapshot and revert_record: the current version says what the  *)
(* record holds after every edit, review, trigger, disbandment and revert. *)
THEOREM HeadIsTrue == Spec => []HeadTellsTheTruth
<1>1. IInv => HeadTellsTheTruth
  BY DEF IInv
<1> QED
  BY <1>1, Inductive, PTL

-----------------------------------------------------------------------------
(* A step that leaves or finds the forum in good standing: only a review   *)
(* gets there, and an edit of the mandate, typed or reverted, leaves it.   *)
LEMMA StandingStep ==
  ASSUME IInv, GoodStandingHasItsBasis, [Next]_vars
  PROVE  GoodStandingHasItsBasis'
<1>1. ASSUME NEW m \in Mandates, NEW n \in Notes, NEW c \in BOOLEAN, Edit(m, n, c)
      PROVE  GoodStandingHasItsBasis'
  BY <1>1 DEF Edit, AfterWatched, GoodStandingHasItsBasis, GoodStanding
<1>2. ASSUME NEW d \in DOMAIN ReviewOutcomeStatus, ApplyReview(d)
      PROVE  GoodStandingHasItsBasis'
  BY <1>2 DEF ApplyReview, SetForumState, GoodStandingHasItsBasis
<1>3. CASE ExecuteDisbandment
  BY <1>3 DEF ExecuteDisbandment, SetForumState, GoodStandingHasItsBasis, GoodStanding
<1>4. ASSUME NEW p \in People, SyncOfficers(p)
      PROVE  GoodStandingHasItsBasis'
  BY <1>4 DEF SyncOfficers, GoodStandingHasItsBasis
<1>5. ASSUME NEW d \in BOOLEAN, Challenge(d)
      PROVE  GoodStandingHasItsBasis'
  BY <1>5 DEF Challenge, GoodStandingHasItsBasis
<1>6. ASSUME NEW v \in DOMAIN chain, Revert(v)
      PROVE  GoodStandingHasItsBasis'
  <2>0. chain[v] \in Version
    BY <1>6 DEF IInv, TypeOK
  <2>1. chain[v].says \in Says
    BY <2>0 DEF Version
  <2>2. /\ Restored(v).mandate = chain[v].says.mandate
        /\ Restored(v).standing = AfterWatched(chain[v].says.mandate)
    BY <2>1 DEF Restored, Says
  <2> QED
    BY <1>6, <2>2 DEF Revert, AfterWatched, GoodStandingHasItsBasis, GoodStanding
<1>7. CASE UNCHANGED vars
  BY <1>7 DEF vars, GoodStandingHasItsBasis
<1> QED
  BY <1>1, <1>2, <1>3, <1>4, <1>5, <1>6, <1>7 DEF Next, RecordComplianceReview, InsertReview

(* From whatever standing a forum is inserted with: while it is in good    *)
(* standing it has that standing from its last review, or from before any, *)
(* with the mandate of then.  The chair, watched too, is not in it.        *)
THEOREM StandingHasItsBasis == Spec => []GoodStandingHasItsBasis
<1>1. ASSUME Init PROVE GoodStandingHasItsBasis
  <2>1. basis = [standing |-> standing, mandate |-> mandate, chair |-> chair]
    BY <1>1 DEF Init
  <2> QED
    BY <2>1 DEF GoodStandingHasItsBasis
<1> QED
  BY <1>1, StandingStep, Inductive, PTL DEF Spec

-----------------------------------------------------------------------------
(* The refinement.                                                         *)
Said(c) == [i \in 1 .. Len(c) |-> c[i].says]

LEMMA SaidIsASequence ==
  ASSUME NEW c \in Seq(Version)
  PROVE  Said(c) \in Seq(Says) /\ Len(Said(c)) = Len(c)
         /\ \A i \in 1 .. Len(c) : Said(c)[i] = c[i].says
         /\ (Said(c) = <<>> <=> c = <<>>)
<1>1. \A i \in 1 .. Len(c) : c[i] \in Version
  OBVIOUS
<1>2. \A i \in 1 .. Len(c) : c[i].says \in Says
  BY <1>1 DEF Version
<1>3. Said(c) \in Seq(Says) /\ Len(Said(c)) = Len(c)
  BY <1>2 DEF Said
<1> QED
  BY <1>3 DEF Said

(* One version more, the others as they were, is one entry appended.       *)
LEMMA SaidAppends ==
  ASSUME NEW c \in Seq(Version), NEW d \in Seq(Version), NEW s \in Says,
         Len(d) = Len(c) + 1, d[Len(d)].says = s,
         \A i \in 1 .. Len(c) : d[i].says = c[i].says
  PROVE  Said(d) = Append(Said(c), s)
<1>1. /\ Said(d) \in Seq(Says) /\ Len(Said(d)) = Len(c) + 1
      /\ \A i \in 1 .. Len(c) + 1 : Said(d)[i] = d[i].says
  BY SaidIsASequence
<1>2. /\ Said(c) \in Seq(Says) /\ Len(Said(c)) = Len(c)
      /\ \A i \in 1 .. Len(c) : Said(c)[i] = c[i].says
  BY SaidIsASequence
<1>3. /\ Append(Said(c), s) \in Seq(Says) /\ Len(Append(Said(c), s)) = Len(c) + 1
      /\ \A i \in 1 .. Len(c) + 1 :
            Append(Said(c), s)[i] = IF i = Len(c) + 1 THEN s ELSE Said(c)[i]
  BY <1>2
<1>4. \A i \in 1 .. Len(c) + 1 : Said(d)[i] = Append(Said(c), s)[i]
  BY <1>1, <1>2, <1>3
<1> QED
  BY <1>1, <1>3, <1>4

LEMMA SequencesEqual ==
  ASSUME NEW S, NEW p \in Seq(S), NEW q \in Seq(S), Len(p) = Len(q),
         \A i \in 1 .. Len(p) : p[i] = q[i]
  PROVE  p = q
  OBVIOUS

LEMMA Singleton ==
  ASSUME NEW S, NEW p \in Seq(S), Len(p) = 1
  PROVE  p = <<p[1]>>
<1>1. p[1] \in S
  OBVIOUS
<1>2. <<p[1]>> \in Seq(S) /\ Len(<<p[1]>>) = 1 /\ <<p[1]>>[1] = p[1]
  BY <1>1
<1> QED
  BY <1>2, SequencesEqual

LEMMA PairAppends ==
  ASSUME NEW S, NEW a \in S, NEW b \in S
  PROVE  Append(<<a>>, b) = <<a, b>>
<1>1. /\ <<a, b>> \in Seq(S) /\ Len(<<a, b>>) = 2
      /\ <<a, b>>[1] = a /\ <<a, b>>[2] = b
  OBVIOUS
<1>2. <<a>> \in Seq(S) /\ Len(<<a>>) = 1 /\ <<a>>[1] = a
  OBVIOUS
<1>3. /\ Append(<<a>>, b) \in Seq(S) /\ Len(Append(<<a>>, b)) = 2
      /\ Append(<<a>>, b)[1] = a /\ Append(<<a>>, b)[2] = b
  BY <1>2
<1>4. \A i \in 1 .. 2 : Append(<<a>>, b)[i] = <<a, b>>[i]
  BY <1>1, <1>3
<1> QED
  BY <1>1, <1>3, <1>4, SequencesEqual

LEMMA SaidOfTracked ==
  ASSUME IInv
  PROVE  Said(Tracked) = IF Said(chain) = <<>> THEN <<Content>> ELSE Said(chain)
<1>1. chain \in Seq(Version)
  BY DEF IInv, TypeOK
<1>2. CASE chain # <<>>
  <2>1. Tracked = chain
    BY <1>2, TrackedTells
  <2>2. Said(chain) # <<>>
    BY <1>1, <1>2, SaidIsASequence
  <2> QED
    BY <2>1, <2>2
<1>3. CASE chain = <<>>
  <2>1. /\ Said(Tracked) \in Seq(Says) /\ Len(Said(Tracked)) = 1
        /\ Said(Tracked)[1] = Content
    BY <1>3, TrackedTells, SaidIsASequence
  <2>2. Said(Tracked) = <<Content>>
    BY <2>1, Singleton
  <2>3. Said(chain) = <<>>
    <3>1. Said(chain) = <<>> <=> chain = <<>>
      BY <1>1, SaidIsASequence
    <3> QED
      BY <1>3, <3>1
  <2> QED
    BY <2>2, <2>3
<1> QED
  BY <1>2, <1>3

LEMMA HistoryStep ==
  ASSUME IInv, [Next]_vars
  PROVE  \/ Content' # Content
            /\ Said(chain)' = IF Said(chain) = <<>> THEN <<Content, Content'>>
                              ELSE Append(Said(chain), Content')
         \/ Said(chain) = <<>> /\ Said(chain)' = <<Content>> /\ Content' = Content
         \/ UNCHANGED <<Content, Said(chain)>>
<1>0. chain \in Seq(Version) /\ Content \in Says /\ confidential \in BOOLEAN
      /\ ReadsForward(chain)
  BY ContentIsSaid DEF IInv, TypeOK, ChainReadsForward
<1>1. CASE UNCHANGED <<Content, chain>>
  BY <1>1 DEF Said
<1>2. CASE Next /\ Content' \in Says /\ SavedAs(Content')
  <2>1. PICK conf \in BOOLEAN : chain' = Snapshot(Content', conf)
    BY <1>2 DEF SavedAs
  <2>2. CASE Content' = Content
    <3>1. Said(chain)' = Said(Tracked)
      BY <1>2, <2>1, <2>2, SnapshotTells DEF Said
    <3> QED
      BY <2>2, <3>1, SaidOfTracked
  <2>3. CASE Content' # Content
    <3>1. /\ chain' \in Seq(Version) /\ Len(chain') = Len(Tracked) + 1
          /\ chain'[Len(chain')].says = Content'
          /\ \A i \in 1 .. Len(Tracked) : chain'[i].says = Tracked[i].says
          /\ Tracked \in Seq(Version)
      BY <1>2, <2>1, <2>3, SnapshotTells, TrackedTells
    <3>2. Said(chain') = Append(Said(Tracked), Content')
      BY <1>2, <3>1, SaidAppends
    <3>3. Append(<<Content>>, Content') = <<Content, Content'>>
      BY <1>0, <1>2, PairAppends
    <3> QED
      BY <2>3, <3>2, <3>3, SaidOfTracked DEF Said
  <2> QED
    BY <2>2, <2>3
<1>3. CASE Content' \in Says /\ RevertedTo(Content')
  <2>1. /\ chain' \in Seq(Version) /\ Len(chain') = Len(chain) + 1
        /\ chain'[Len(chain')].says = Content'
        /\ \A i \in 1 .. Len(chain) : chain'[i].says = chain[i].says
    <3>1. chain' = CreateVersion(chain, "Reverted", Content', confidential)
      BY <1>3 DEF RevertedTo
    <3>2. /\ chain' \in Seq(Version) /\ Len(chain') = Len(chain) + 1
          /\ chain'[Len(chain) + 1].says = Content'
          /\ \A i \in 1 .. Len(chain) : chain'[i].says = chain[i].says
      <4>1. chain \in Seq(Version) /\ ReadsForward(chain) /\ confidential \in BOOLEAN
            /\ Content' \in Says
        BY <1>0, <1>3
      <4> QED
        BY <3>1, <4>1, CreateVersionAppends
    <3> QED
      BY <3>2
  <2>2. Said(chain') = Append(Said(chain), Content')
    BY <1>0, <1>3, <2>1, SaidAppends
  <2>3. Said(chain) # <<>>
    BY <1>0, <1>3, SaidIsASequence DEF RevertedTo
  <2> QED
    BY <1>3, <2>2, <2>3 DEF RevertedTo, Said
<1>4. CASE UNCHANGED vars
  BY <1>4, <1>1 DEF vars, Content
<1> QED
  BY <1>1, <1>2, <1>3, <1>4, StepForm DEF StepResult

(* The chain of a forum's record implements the abstract history: no       *)
(* request rewrites a version, and each change of the record is one more.  *)
THEOREM Implements == Spec => AppendOnlyHistory
<1>1. Init => History!Init
  <2> SUFFICES ASSUME Init PROVE History!Init
    OBVIOUS
  <2>1. IInv
    BY InitHolds
  <2>2. Content \in Says /\ chain \in Seq(Version)
    BY <2>1, ContentIsSaid DEF IInv, TypeOK
  <2>3. CASE chain = <<>>
    BY <2>2, <2>3, SaidIsASequence DEF History!Init, Said
  <2>4. CASE chain = CreateVersion(<<>>, "Authored", Content, confidential)
    <3>0. confidential \in BOOLEAN
      BY DEF Init
    <3>1. Len(chain) = 1 /\ chain[1].says = Content
      BY <2>2, <2>4, <3>0, FirstVersion
    <3>2. Said(chain) \in Seq(Says) /\ Len(Said(chain)) = 1 /\ Said(chain)[1] = Content
      BY <2>2, <3>1, SaidIsASequence
    <3>3. Said(chain) = <<Content>>
      BY <3>2, Singleton
    <3> QED
      BY <2>2, <3>3 DEF History!Init, Said
  <2> QED
    BY <2>3, <2>4 DEF Init
<1>2. IInv /\ [Next]_vars => [History!Next]_<<Content, Said(chain)>>
  <2> SUFFICES ASSUME IInv, [Next]_vars
               PROVE  [History!Next]_<<Content, Said(chain)>>
    OBVIOUS
  <2>1. Content' \in Says
    <3>1. Content \in Says
      BY ContentIsSaid DEF IInv
    <3>2. CASE UNCHANGED vars
      BY <3>1, <3>2 DEF vars, Content
    <3>3. CASE Next
      BY <3>3, StepForm DEF StepResult
    <3> QED
      BY <3>2, <3>3
  <2> QED
    BY <2>1, HistoryStep DEF History!Next, History!Change, History!BeginTracking, Said
<1>3. IInv /\ [Next]_vars => [History!Next]_<<Content, [i \in 1 .. Len(chain) |-> chain[i].says]>>
  BY <1>2 DEF Said
<1> QED
  BY <1>1, <1>3, Inductive, PTL DEF Spec, AppendOnlyHistory, History!Spec

(* The reviews ask for an open challenge, and nothing else brings a forum  *)
(* into good standing: an edit and a revert leave the standing alone or    *)
(* send the forum back, and a disbandment ends it.                         *)
THEOREM ChallengeBarsGoodStanding == Spec => NoCleanStandingOverChallenge
<1> DEFINE A == GoodStanding(standing') /\ ~GoodStanding(standing) => ~disputed
<1>1. IInv /\ [Next]_vars => [A]_vars
  <2> SUFFICES ASSUME IInv, Next, GoodStanding(standing'), ~GoodStanding(standing)
               PROVE  ~disputed
    BY DEF vars
  <2>1. CASE \E m \in Mandates, n \in Notes, c \in BOOLEAN : Edit(m, n, c)
    BY <2>1 DEF Edit, AfterWatched, GoodStanding
  <2>2. CASE \E d \in DOMAIN ReviewOutcomeStatus : ApplyReview(d)
    BY <2>2 DEF ApplyReview, SetForumState
  <2>3. CASE ExecuteDisbandment
    BY <2>3 DEF ExecuteDisbandment, SetForumState, GoodStanding
  <2>4. CASE \E v \in DOMAIN chain : Revert(v)
    <3>1. PICK v \in DOMAIN chain : standing' = Restored(v).standing
      BY <2>4 DEF Revert
    <3>2. chain[v].says \in Says
      <4>1. chain[v] \in Version
        BY DEF IInv, TypeOK
      <4> QED
        BY <4>1 DEF Version
    <3>3. Restored(v).standing = AfterWatched(chain[v].says.mandate)
      BY <3>2 DEF Restored, Says
    <3> QED
      BY <3>1, <3>3 DEF AfterWatched, GoodStanding
  <2> QED
    BY <2>1, <2>2, <2>3, <2>4 DEF Next, RecordComplianceReview, InsertReview, SyncOfficers, Challenge
<1> QED
  BY <1>1, Inductive, PTL DEF Spec, NoCleanStandingOverChallenge
=============================================================================
