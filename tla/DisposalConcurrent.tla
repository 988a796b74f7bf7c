------------------------- MODULE DisposalConcurrent -------------------------
(***************************************************************************)
(* Disposal with requests that overlap.  A request reads the snapshot its  *)
(* transaction started from, and PostgreSQL refuses its writes if a row it *)
(* writes was changed by a transaction that committed in the meantime      *)
(* (Frappe runs at REPEATABLE READ; Document.save reads the row FOR        *)
(* UPDATE).  Files are overwritten on disk, outside the transaction.       *)
(*                                                                         *)
(* The guards and the rows written are those of Disposal, evaluated when   *)
(* the request begins; what is new is when and whether they take effect.   *)
(***************************************************************************)
EXTENDS Disposal

CONSTANT Requests     \* the requests and jobs that can be in flight

VARIABLES
  request,            \* what each request is going to write
  file                \* the attachments and the archive payload of a record

cvars == <<today, hold, ended, archived, content, event, request, file>>

Nothing == [x \in {} |-> {}]

(* The rows a request updates or inserts, the records it redacts and under *)
(* which event, how far it is, and whether a row it updates was changed    *)
(* under it.                                                               *)
Request(stage, holds, updates, inserts, redacts) ==
  [stage |-> stage, holds |-> holds, updates |-> updates, inserts |-> inserts,
   redacts |-> redacts, doomed |-> FALSE]

Idle == Request("idle", Nothing, Nothing, Nothing, Nothing)

Overlay(f, g) == [x \in DOMAIN f |-> IF x \in DOMAIN g THEN g[x] ELSE f[x]]

CInit ==
  /\ Init
  /\ request = [t \in Requests |-> Idle]
  /\ file = [r \in Records |-> "kept"]

-----------------------------------------------------------------------------
Begin(t, holds, updates, inserts, redacts) ==
  /\ request[t].stage = "idle"
  /\ request' = [request EXCEPT ![t] = Request("open", holds, updates, inserts, redacts)]
  /\ UNCHANGED <<today, hold, ended, archived, content, event, file>>

One(x, row) == [y \in {x} |-> row]

BeginSaveHold(t, h, p, q) ==
  /\ p <= q
  /\ Begin(t, One(h, SavedHold(p, q)), Nothing, Nothing, Nothing)

BeginReleaseHold(t, h) ==
  /\ hold[h].placed # Never
  /\ hold[h].placed <= ReleaseDate(h)
  /\ LET held == {e \in Events : event[e].held_by = h}
     IN  Begin(t, One(h, SavedHold(hold[h].placed, ReleaseDate(h))),
               [e \in held |-> Released(h)[e]], Nothing, Nothing)

BeginPropose(t, e, m, d, u) ==
  /\ MayPropose(e, d, u)
  /\ Begin(t, Nothing, One(e, Proposed(e, m, d, u)), Nothing, Nothing)

BeginSendBack(t, e) ==
  /\ MaySendBack(e)
  /\ Begin(t, Nothing, One(e, SentBack(e)), Nothing, Nothing)

BeginApprove(t, e, m) ==
  /\ MayApprove(e, m)
  /\ Begin(t, Nothing, One(e, Approved(e, m)), Nothing, Nothing)

BeginExecute(t, e) ==
  /\ MayExecute(e)
  /\ Begin(t, Nothing, One(e, Executed(e)), Nothing, One(event[e].of, e))

BeginCancel(t, e) ==
  /\ InUse(e)
  /\ Begin(t, Nothing, One(e, [event[e] EXCEPT !.status = "Cancelled"]), Nothing, Nothing)

(* A new row draws its name from the naming series as any insert does.     *)
BeginForm(t, e, x) ==
  /\ MayType(e, x)
  /\ IF InUse(e) THEN Begin(t, Nothing, One(e, Typed(e, x)), Nothing, Nothing)
                 ELSE Begin(t, Nothing, Nothing, One(e, Typed(e, x)), Nothing)

(* The daily job, or run_check after its archiving.                        *)
BeginFlag(t) ==
  LET due == DueForDisposal(archived)
  IN  \E new \in [due -> {e \in Events : ~InUse(e)}],
         first \in [Records -> Holds \cup {NoHold}] :
        /\ Injective(new)
        /\ FirstHold(first)
        /\ LET after    == [e \in Events |-> Flagged(e, due, new, first)]
               inserted == {new[r] : r \in due}
               held     == {e \in Events \ inserted : after[e] # event[e]}
           IN  Begin(t, Nothing, [e \in held |-> after[e]], [e \in inserted |-> after[e]], Nothing)

(* records._overwrite_file, for every file of the record, before the event *)
(* is saved.                                                               *)
OverwriteFiles(t) ==
  /\ request[t].stage = "open"
  /\ request[t].redacts # Nothing
  /\ request' = [request EXCEPT ![t].stage = "overwritten"]
  /\ file' = [r \in Records |-> IF r \in DOMAIN request[t].redacts THEN "overwritten" ELSE file[r]]
  /\ UNCHANGED <<today, hold, ended, archived, content, event>>

-----------------------------------------------------------------------------
(* The end of a request.  First committer wins: whoever updates the same   *)
(* row later is doomed.  Every insert draws its name from the one row of   *)
(* the naming series, so a second inserter fails too, inside the savepoint *)
(* of that archive: its inserts are dropped and the rest of it goes on.    *)

(* Mutants: Document.save does not look at the row again; the name is not  *)
(* drawn from a series.                                                    *)
MutantOverlaps(a, b) == FALSE

Overlaps(a, b) ==
  \/ DOMAIN a.holds \cap DOMAIN b.holds # {}
  \/ DOMAIN a.updates \cap DOMAIN b.updates # {}
  \/ DOMAIN a.redacts \cap DOMAIN b.redacts # {}

MutantDrawsSameSeries(a, b) == FALSE

DrawsSameSeries(a, b) == a.inserts # Nothing /\ b.inserts # Nothing

After(mine, other) ==
  [other EXCEPT !.doomed = @ \/ Overlaps(mine, other),
                !.inserts = IF DrawsSameSeries(mine, other) THEN Nothing ELSE @]

Commit(t) ==
  LET mine == request[t]
  IN  /\ mine.stage = IF mine.redacts = Nothing THEN "open" ELSE "overwritten"
      /\ ~mine.doomed
      /\ \A e \in DOMAIN mine.inserts : ~InUse(e)
      /\ hold' = Overlay(hold, mine.holds)
      /\ event' = Overlay(Overlay(event, mine.updates), mine.inserts)
      /\ content' = Overlay(content, mine.redacts)
      /\ request' = [s \in Requests |-> IF s = t THEN Idle
                                        ELSE IF request[s].stage = "idle" THEN Idle
                                        ELSE After(mine, request[s])]
      /\ UNCHANGED <<today, ended, archived, file>>

(* The transaction is rolled back: a doomed write, a later error in the    *)
(* handler, a worker that is killed.                                       *)
RollBack(t) ==
  /\ request[t].stage # "idle"
  /\ request' = [request EXCEPT ![t] = Idle]
  /\ UNCHANGED <<today, hold, ended, archived, content, event, file>>

(* Steps that touch no row a request above writes.                         *)
Elsewhere ==
  /\ \/ NextDay
     \/ \E r \in Records : EndRecord(r)
     \/ ArchiveOnTrigger
  /\ UNCHANGED <<request, file>>

-----------------------------------------------------------------------------
CNext ==
  \/ Elsewhere
  \/ \E t \in Requests :
       \/ \E h \in Holds, p \in Day, q \in Date : BeginSaveHold(t, h, p, q)
       \/ \E h \in Holds : BeginReleaseHold(t, h)
       \/ \E e \in Events, m \in Managers, d \in {"Dispose", "Retain"}, u \in Date :
            BeginPropose(t, e, m, d, u)
       \/ \E e \in Events : BeginSendBack(t, e)
       \/ \E e \in Events, m \in Managers : BeginApprove(t, e, m)
       \/ \E e \in Events : BeginExecute(t, e)
       \/ \E e \in Events : BeginCancel(t, e)
       \/ \E e \in Events, x \in Forms : BeginForm(t, e, x)
       \/ BeginFlag(t)
       \/ OverwriteFiles(t)
       \/ Commit(t)
       \/ RollBack(t)

CSpec == CInit /\ [][CNext]_cvars

-----------------------------------------------------------------------------
(* A check made on a snapshot and a row inserted later never put a record  *)
(* on the disposal list twice, although two jobs may overlap.  Of the rows *)
(* the job inserted, that is: not of one entered or rewritten by hand, nor *)
(* of one that was closed and which the release of a hold opened again.    *)
InHand(e) == IsOpen(e) /\ ~event[e].typed /\ ~event[e].reopened

OneInHand ==
  \A e, f \in Events : InHand(e) /\ InHand(f) /\ event[e].of = event[f].of => e = f

(* An approved decision and an executed event survive every overlap; the   *)
(* decision, unless its form is saved.                                     *)
DecidedStays ==
  [][\A e \in Events :
       event[e].approved_by # NoOne =>
         /\ ~event'[e].typed =>
              \A f \in {"decision", "until", "proposed_by", "approved_by"} : event'[e][f] = event[e][f]
         /\ event[e].executed => event'[e].executed /\ event'[e].approved_by # NoOne]_cvars

-----------------------------------------------------------------------------
(* What the documents say and the code does not do.                        *)

(* retention.py: "A legal hold overrides scheduled disposal entirely and   *)
(* unconditionally."  Checked here at the moment the disposal commits.     *)
HoldOverridesCommit ==
  [][\A r \in Records :
       content[r] = Kept /\ content'[r] # Kept => ~UnderHold(r)]_cvars

(* records.py: the event "records what was redacted and the hashes of what *)
(* was destroyed".  A file is gone only if an event says so, or is about   *)
(* to say so.                                                              *)
FilesAreAccountedFor ==
  \A r \in Records :
    file[r] = "overwritten" =>
      \/ \E e \in EventsOf(r) : event[e].executed
      \/ \E t \in Requests : r \in DOMAIN request[t].redacts /\ request[t].stage = "overwritten"
=============================================================================
