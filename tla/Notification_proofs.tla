------------------------- MODULE Notification_proofs -------------------------
(***************************************************************************)
(* TakenOnce for any messages, channels, fallbacks, limits and numbers of  *)
(* killed jobs.  It is not inductive: it holds because a message that may  *)
(* be sent again is one nobody is known to have taken (Counted), which in  *)
(* turn rests on what may be in hand with whom at once.                    *)
(*                                                                         *)
(* TypeOK beside it, whose last part is about the evidence of a fallback:  *)
(* that needs the order of a chain of channels (BeyondIs, Further, Line,   *)
(* LastOf), which rests on there being no cycle.  And RetriesRunOut, the   *)
(* measure by which every dispatch settles.                                *)
(***************************************************************************)
EXTENDS Notification, SequenceTheorems, TLAPS

IsRow(r) == r = [status |-> r.status, retries |-> r.retries, from |-> r.from]

Shapes ==
  /\ row = [d \in Rows |-> row[d]]
  /\ \A d \in Rows : IsRow(row[d])
  /\ queue \in [Rows -> Seq({"waiting", "sent", "refused"})]
  /\ copies \in [Rows -> Nat] /\ unsure \in [Rows -> Nat]
  /\ job = [on |-> job.on, todo |-> job.todo, wrote |-> job.wrote, mailed |-> job.mailed,
            kept |-> job.kept, took |-> job.took]
  /\ \A d \in DOMAIN job.wrote : IsRow(job.wrote[d])
  /\ job.todo # {} \/ job.took # {} => job.on

(* What has been handed to a background job is with nobody else.           *)
Handed(d) ==
  d \in handed => /\ queue[d] = << >> /\ row[d].status = "Sent" /\ d \in byGraph
                  /\ d \notin job.todo \cup DOMAIN job.wrote

(* What the run at hand has sent it has written down as sent.              *)
InHand(d) ==
  /\ d \in job.todo => d \notin job.took \cup job.mailed \cup job.kept
  /\ d \in job.took \cup job.mailed \cup job.kept =>
       d \in DOMAIN job.wrote /\ job.wrote[d].status = "Sent"
  /\ d \in DOMAIN job.wrote => job.wrote[d].status # "none"
  /\ d \in job.took => d \in byGraph
  /\ d \in job.mailed => Adapter[d[2]] = "email"
  /\ d \in job.kept => Adapter[d[2]] # "email"

(* Of a row that does not exist there is nothing anywhere.                 *)
Untold(d) ==
  row[d].status = "none" =>
    /\ queue[d] = << >> /\ d \notin handed \cup byGraph
    /\ d \notin job.todo \cup DOMAIN job.wrote
    /\ copies[d] = 0 /\ unsure[d] = 0

ByMail(d) == queue[d] # << >> \/ d \in byGraph => Adapter[d[2]] = "email"

(* One route at most has carried the message.  Then whoever has it is      *)
(* known, or nobody has it, where it may be sent again: while the row is   *)
(* open, with a background job, or its latest message not delivered.       *)
Single(d) == d \in byGraph => queue[d] = << >>

MaySend(d) ==
  \/ row[d].status \in {"none", "Failed"}
  \/ d \in handed
  \/ queue[d] # << >> /\ Last(queue[d]) # "sent"

Counted(d) ==
  Single(d) =>
    /\ copies[d] <= 1 + unsure[d]
    /\ MaySend(d) /\ d \notin job.took => copies[d] <= unsure[d]
    /\ \A i \in DOMAIN queue[d] : i # Len(queue[d]) => queue[d][i] = "refused"
    /\ row[d].status = "Failed" => queue[d] = << >> \/ Refused(queue[d])
    /\ d \in job.todo \cup DOMAIN job.wrote => row[d].status = "Failed" \/ Refused(queue[d])

RowInv(d) == Handed(d) /\ InHand(d) /\ Untold(d) /\ ByMail(d) /\ Counted(d)

IInv == Shapes /\ \A d \in Rows : RowInv(d)

-----------------------------------------------------------------------------
(* A step that touches nothing of a row keeps what is known of it.         *)
Untouched(d) ==
  /\ row'[d] = row[d] /\ queue'[d] = queue[d]
  /\ copies'[d] = copies[d] /\ unsure'[d] = unsure[d]
  /\ d \in handed' <=> d \in handed
  /\ d \in byGraph' <=> d \in byGraph
  /\ d \in job.todo' <=> d \in job.todo
  /\ d \in (DOMAIN job.wrote)' <=> d \in DOMAIN job.wrote
  /\ d \in DOMAIN job.wrote => job.wrote[d]' = job.wrote[d]
  /\ d \in job.mailed' <=> d \in job.mailed
  /\ d \in job.kept' <=> d \in job.kept
  /\ d \in job.took' <=> d \in job.took

LEMMA Frame ==
  ASSUME NEW d \in Rows, RowInv(d), Untouched(d)
  PROVE  RowInv(d)'
<1>1. Handed(d)'
  BY DEF RowInv, Handed, Untouched
<1>2. InHand(d)'
  BY DEF RowInv, InHand, Untouched
<1>3. Untold(d)'
  BY DEF RowInv, Untold, Untouched
<1>4. ByMail(d)'
  BY DEF RowInv, ByMail, Untouched
<1>5. Counted(d)'
  BY DEF RowInv, Counted, Untouched, Single, MaySend, Refused, Last
<1> QED
  BY <1>1, <1>2, <1>3, <1>4, <1>5 DEF RowInv

LEMMA InitInv == Init => IInv
<1> SUFFICES ASSUME Init PROVE IInv
  OBVIOUS
<1>1. Shapes
  BY DEF Init, Shapes, IsRow, NoRow, Idle
<1>2. ASSUME NEW d \in Rows PROVE RowInv(d)
  BY DEF Init, RowInv, Handed, InHand, Untold, ByMail, Counted, Single, MaySend, Refused,
         NoRow, Idle
<1> QED
  BY <1>1, <1>2 DEF IInv

-----------------------------------------------------------------------------
(* The mail queue sends or gives up.                                       *)
LEMMA SendShapes ==
  ASSUME IInv, NEW d \in Rows, SendQueued(d)
  PROVE  Shapes'
<1>1. PICK i \in DOMAIN queue[d], a \in {"sent", "refused"} :
        /\ queue' = [queue EXCEPT ![d][i] = a]
        /\ copies' = [copies EXCEPT ![d] = @ + IF a = "sent" THEN 1 ELSE 0]
        /\ UNCHANGED <<row, handed, job, unsure, byGraph, lost>>
  BY DEF SendQueued
<1>2. [queue[d] EXCEPT ![i] = a] \in Seq({"waiting", "sent", "refused"})
  BY ExceptSeq DEF IInv, Shapes
<1>3. queue' \in [Rows -> Seq({"waiting", "sent", "refused"})]
  BY <1>1, <1>2 DEF IInv, Shapes
<1>4. copies' \in [Rows -> Nat]
  BY <1>1 DEF IInv, Shapes
<1> QED
  BY <1>1, <1>3, <1>4 DEF IInv, Shapes

LEMMA SendRow ==
  ASSUME IInv, NEW d \in Rows, SendQueued(d)
  PROVE  RowInv(d)'
<1>1. PICK i \in DOMAIN queue[d], a \in {"sent", "refused"} :
        /\ queue[d][i] = "waiting"
        /\ queue' = [queue EXCEPT ![d][i] = a]
        /\ copies' = [copies EXCEPT ![d] = @ + IF a = "sent" THEN 1 ELSE 0]
        /\ UNCHANGED <<row, handed, job, unsure, byGraph, lost>>
  BY DEF SendQueued
<1>2. RowInv(d)
  BY DEF IInv
<1> DEFINE q == queue[d]
           n == Len(q)
<1>3. /\ q \in Seq({"waiting", "sent", "refused"})
      /\ copies[d] \in Nat /\ unsure[d] \in Nat
  BY DEF IInv, Shapes
<1>4. /\ i \in 1..n /\ n \in Nat /\ q # << >>
      /\ queue'[d] = [q EXCEPT ![i] = a] /\ Len(queue'[d]) = n
      /\ queue'[d] # << >> /\ queue'[d][i] = a /\ DOMAIN queue'[d] = 1..n
  <2>1. queue'[d] = [q EXCEPT ![i] = a]
    BY <1>1 DEF IInv, Shapes
  <2>2. i \in 1..n /\ n \in Nat /\ q # << >> /\ DOMAIN q = 1..n
    BY <1>3
  <2>3. queue'[d] \in Seq({"waiting", "sent", "refused"}) /\ Len(queue'[d]) = n
    BY <1>3, <2>1, <2>2, ExceptSeq
  <2> QED
    BY <2>1, <2>2, <2>3
<1>5. copies'[d] = copies[d] + (IF a = "sent" THEN 1 ELSE 0)
  BY <1>1 DEF IInv, Shapes
<1> HIDE DEF q, n
<1>6. Handed(d)'
  BY <1>1, <1>2, <1>4 DEF RowInv, Handed, q
<1>7. InHand(d)'
  BY <1>1, <1>2 DEF RowInv, InHand
<1>8. Untold(d)'
  BY <1>1, <1>2, <1>4 DEF RowInv, Untold, q
<1>9. ByMail(d)'
  BY <1>1, <1>2, <1>4 DEF RowInv, ByMail, q
<1>10. ASSUME Single(d)' PROVE Counted(d)'
  <2>1. d \notin byGraph /\ Single(d)
    BY <1>1, <1>4, <1>10 DEF Single
  <2>2. Counted(d)
    BY <1>2 DEF RowInv
  <2>3. i = n
    BY <1>1, <1>4, <2>1, <2>2 DEF Counted, q, n
  <2>4. Last(q) = "waiting"
    BY <1>1, <2>3 DEF Last, q, n
  <2>5. ~Refused(q)
    BY <2>4 DEF Refused
  <2>6. row[d].status # "Failed" /\ d \notin job.todo \cup DOMAIN job.wrote
    BY <1>4, <2>1, <2>2, <2>5 DEF Counted, q
  <2>7. row[d].status # "none" /\ d \notin handed
    BY <1>2, <1>4 DEF RowInv, Untold, Handed, q
  <2>8. d \notin job.took
    BY <1>2, <2>6 DEF RowInv, InHand
  <2>9. copies[d] <= unsure[d]
    BY <1>4, <2>1, <2>2, <2>4, <2>8 DEF Counted, MaySend, q
  <2>10. Last(queue'[d]) = a
    BY <1>4, <2>3 DEF Last
  <2>11. \A k \in DOMAIN queue'[d] : k # Len(queue'[d]) => queue'[d][k] = "refused"
    BY <1>4, <2>1, <2>2, <2>3 DEF Counted, q, n
  <2>12. MaySend(d)' => a = "refused"
    BY <1>1, <2>6, <2>7, <2>10 DEF MaySend
  <2>13. copies'[d] <= 1 + unsure[d] /\ (MaySend(d)' => copies'[d] <= unsure[d])
    BY <1>3, <1>5, <2>9, <2>12
  <2> QED
    BY <1>1, <2>6, <2>11, <2>13 DEF Counted
<1>11. Counted(d)'
  BY <1>10 DEF Counted
<1> QED
  BY <1>6, <1>7, <1>8, <1>9, <1>11 DEF RowInv

LEMMA SendInv ==
  ASSUME IInv, NEW d \in Rows, SendQueued(d)
  PROVE  IInv'
<1>1. ASSUME NEW e \in Rows, e # d PROVE Untouched(e)
  BY <1>1 DEF SendQueued, Untouched, IInv, Shapes
<1>2. \A e \in Rows : RowInv(e)'
  BY <1>1, SendRow, Frame DEF IInv
<1> QED
  BY <1>2, SendShapes DEF IInv

-----------------------------------------------------------------------------
(* The background job of one row, and its loss.                            *)
LEMMA DeliverInv ==
  ASSUME IInv, NEW d \in Rows, DeliverQueued(d) \/ LoseDelivery(d)
  PROVE  IInv'
<1>1. /\ d \in handed /\ handed' = handed \ {d}
      /\ UNCHANGED <<queue, job, byGraph>>
      /\ \/ /\ row' = row /\ unsure' = unsure
            /\ copies' \in {copies, [copies EXCEPT ![d] = @ + 1]}
         \/ /\ row' = [row EXCEPT ![d].status = "Failed"]
            /\ \/ UNCHANGED <<copies, unsure>>
               \/ /\ copies' = [copies EXCEPT ![d] = @ + 1]
                  /\ unsure' = [unsure EXCEPT ![d] = @ + 1]
  BY DEF DeliverQueued, LoseDelivery, IInv, Shapes
<1>2. RowInv(d) /\ IsRow(row[d]) /\ copies[d] \in Nat /\ unsure[d] \in Nat
  BY DEF IInv, Shapes
<1>3. Shapes'
  <2>1. row' = [e \in Rows |-> row'[e]] /\ \A e \in Rows : IsRow(row'[e])
    <3>1. IsRow([row[d] EXCEPT !.status = "Failed"])
      BY <1>2 DEF IsRow
    <3> QED
      BY <1>1, <3>1 DEF IInv, Shapes
  <2>2. copies' \in [Rows -> Nat] /\ unsure' \in [Rows -> Nat]
    <3>1. copies \in [Rows -> Nat] /\ [copies EXCEPT ![d] = @ + 1] \in [Rows -> Nat]
      BY <1>2 DEF IInv, Shapes
    <3>2. unsure \in [Rows -> Nat] /\ [unsure EXCEPT ![d] = @ + 1] \in [Rows -> Nat]
      BY <1>2 DEF IInv, Shapes
    <3> QED
      BY <1>1, <3>1, <3>2
  <2> QED
    BY <1>1, <2>1, <2>2 DEF IInv, Shapes
<1>4. ASSUME NEW e \in Rows, e # d PROVE Untouched(e)
  BY <1>1, <1>4 DEF Untouched, IInv, Shapes
<1>5. /\ queue[d] = << >> /\ row[d].status = "Sent" /\ d \in byGraph
      /\ d \notin job.todo \cup DOMAIN job.wrote
  BY <1>1, <1>2 DEF RowInv, Handed
<1>6. d \notin job.took \cup job.mailed \cup job.kept
  BY <1>2, <1>5 DEF RowInv, InHand
<1>7. copies[d] <= unsure[d]
  BY <1>1, <1>2, <1>5, <1>6 DEF RowInv, Counted, Single, MaySend
<1>8. /\ row'[d].status \in {"Sent", "Failed"}
      /\ copies'[d] <= 1 + unsure'[d]
      /\ row'[d].status = "Failed" => copies'[d] <= unsure'[d]
  BY <1>1, <1>2, <1>5, <1>7 DEF IInv, Shapes, IsRow
<1>9. RowInv(d)'
  <2>1. Handed(d)' /\ InHand(d)' /\ Untold(d)' /\ ByMail(d)'
    BY <1>1, <1>2, <1>5, <1>6, <1>8 DEF RowInv, Handed, InHand, Untold, ByMail
  <2>2. Counted(d)'
    BY <1>1, <1>5, <1>8 DEF Counted, MaySend
  <2> QED
    BY <2>1, <2>2 DEF RowInv
<1> QED
  BY <1>3, <1>4, <1>9, Frame DEF IInv

-----------------------------------------------------------------------------
(* dispatch.                                                               *)
LEMMA DispatchInv ==
  ASSUME IInv, NEW m \in Messages, Dispatch(m)
  PROVE  IInv'
<1> DEFINE is(d, out, S) == d[1] = m /\ d[2] \in Written(m, out) /\ out[d[2]] \in S
<1>1. PICK out \in [Path(m) -> UNION {Outcomes(c) : c \in Path(m)}] :
        /\ \A c \in Path(m) :
             out[c] \in IF c \in Reached(m, out) THEN Outcomes(c) ELSE {"kept"}
        /\ row' = [d \in Rows |->
             IF d[1] = m /\ d[2] \in Written(m, out)
             THEN [status |-> StatusAfter(out[d[2]]), retries |-> 0,
                   from |-> From(m, d[2], out)]
             ELSE row[d]]
        /\ queue' = [d \in Rows |-> IF is(d, out, {"queued"}) THEN <<"waiting">> ELSE queue[d]]
        /\ handed' = handed \cup {d \in Rows : is(d, out, {"handed"})}
        /\ byGraph' = byGraph \cup {d \in Rows : is(d, out, GraphOutcomes)}
        /\ copies' = [d \in Rows |-> IF is(d, out, Taken) THEN 1 ELSE copies[d]]
        /\ unsure' = [d \in Rows |-> IF is(d, out, {"timeout"}) THEN 1 ELSE unsure[d]]
        /\ UNCHANGED <<job, lost>>
  BY DEF Dispatch
<1>2. \A c \in Written(m, out) : c \in Path(m) /\ out[c] \in Outcomes(c)
  BY <1>1 DEF Written, Reached
<1>3. \A c \in Path(m) : row[<<m, c>>].status = "none"
  BY DEF Dispatch, NoRow
<1> HIDE DEF Dispatch
<1>4. Shapes'
  <2>1. row' = [d \in Rows |-> row'[d]] /\ \A d \in Rows : IsRow(row'[d])
    BY <1>1 DEF IInv, Shapes, IsRow
  <2>2. queue' \in [Rows -> Seq({"waiting", "sent", "refused"})]
    <3>1. <<"waiting">> \in Seq({"waiting", "sent", "refused"})
      OBVIOUS
    <3>2. \A d \in Rows : queue[d] \in Seq({"waiting", "sent", "refused"})
      BY DEF IInv, Shapes
    <3> HIDE DEF is
    <3> QED
      BY <1>1, <3>1, <3>2
  <2>3. copies' \in [Rows -> Nat] /\ unsure' \in [Rows -> Nat]
    BY <1>1 DEF IInv, Shapes
  <2> QED
    BY <1>1, <2>1, <2>2, <2>3 DEF IInv, Shapes
<1>5. ASSUME NEW d \in Rows, ~(d[1] = m /\ d[2] \in Written(m, out)) PROVE Untouched(d)
  BY <1>1, <1>5 DEF Untouched
<1>6. ASSUME NEW d \in Rows, d[1] = m, d[2] \in Written(m, out) PROVE RowInv(d)'
  <2> DEFINE o == out[d[2]]
  <2>1. row[d].status = "none" /\ RowInv(d) /\ o \in Outcomes(d[2])
    BY <1>2, <1>3, <1>6 DEF IInv, Rows
  <2>2. /\ queue[d] = << >> /\ d \notin handed \cup byGraph
        /\ d \notin job.todo \cup DOMAIN job.wrote
        /\ copies[d] = 0 /\ unsure[d] = 0
    BY <2>1 DEF RowInv, Untold
  <2>3. d \notin job.took \cup job.mailed \cup job.kept
    BY <2>1, <2>2 DEF RowInv, InHand
  <2>4. /\ row'[d].status = StatusAfter(o)
        /\ queue'[d] = IF o = "queued" THEN <<"waiting">> ELSE << >>
        /\ d \in handed' <=> o = "handed"
        /\ d \in byGraph' <=> o \in GraphOutcomes
        /\ copies'[d] = IF o \in Taken THEN 1 ELSE 0
        /\ unsure'[d] = IF o = "timeout" THEN 1 ELSE 0
        /\ job' = job
    BY <1>1, <1>6, <2>2
  <2>5. o \in {"queued", "handed", "taken", "timeout"} => Adapter[d[2]] = "email"
    BY <2>1 DEF Outcomes, Attempts
  <2> HIDE DEF o
  <2>6. Handed(d)'
    BY <2>2, <2>4 DEF Handed, StatusAfter, GraphOutcomes
  <2>7. InHand(d)'
    BY <2>2, <2>3, <2>4 DEF InHand
  <2>8. Untold(d)'
    BY <2>4 DEF Untold, StatusAfter
  <2>9. ByMail(d)'
    BY <2>4, <2>5 DEF ByMail, GraphOutcomes
  <2>10. Counted(d)'
    <3>1. Len(<<"waiting">>) = 1 /\ <<"waiting">> # << >> /\ Last(<<"waiting">>) = "waiting"
      BY DEF Last
    <3>2. CASE o = "queued"
      BY <2>2, <2>4, <3>1, <3>2 DEF Counted, StatusAfter, Taken
    <3>3. CASE o # "queued"
      BY <2>2, <2>4, <3>3 DEF Counted, MaySend, StatusAfter, Taken
    <3> QED
      BY <3>2, <3>3
  <2> QED
    BY <2>6, <2>7, <2>8, <2>9, <2>10 DEF RowInv
<1> QED
  BY <1>4, <1>5, <1>6, Frame DEF IInv

-----------------------------------------------------------------------------
(* retry_failed: its beginning, one row, its end, its loss.                *)
LEMMA BeginInv ==
  ASSUME IInv, BeginRetry
  PROVE  IInv'
<1>1. /\ UNCHANGED <<row, queue, handed, copies, unsure, byGraph>>
      /\ job' = [on |-> TRUE, todo |-> Reopened \cup Due,
                 wrote |-> [d \in Reopened |-> [row[d] EXCEPT !.status = "Failed"]],
                 mailed |-> {}, kept |-> {}, took |-> {}]
  BY DEF BeginRetry, Idle
<1>2. ASSUME NEW d \in Reopened
      PROVE  /\ d \in Rows /\ IsRow(job'.wrote[d]) /\ job'.wrote[d].status = "Failed"
             /\ Refused(queue[d]) /\ queue[d] # << >>
  <2>1. IsRow(row[d])
    BY DEF IInv, Shapes, Reopened
  <2>2. job'.wrote[d] = [row[d] EXCEPT !.status = "Failed"]
    BY <1>1
  <2> QED
    BY <2>1, <2>2 DEF Reopened, Refused, IsRow
<1>3. \A d \in Due : d \in Rows /\ row[d].status = "Failed"
  BY DEF Due, IsOpen
<1>4. job'.todo = Reopened \cup Due /\ DOMAIN job'.wrote = Reopened
      /\ job'.mailed = {} /\ job'.kept = {} /\ job'.took = {}
  BY <1>1
<1>5. Shapes'
  <2>1. \A d \in DOMAIN job'.wrote : IsRow(job'.wrote[d])
    BY <1>2, <1>4
  <2>2. job' = [on |-> job'.on, todo |-> job'.todo, wrote |-> job'.wrote,
                mailed |-> job'.mailed, kept |-> job'.kept, took |-> job'.took]
    BY <1>1
  <2> QED
    BY <1>1, <2>1, <2>2 DEF IInv, Shapes
<1>6. ASSUME NEW d \in Rows PROVE RowInv(d)'
  <2>1. RowInv(d)
    BY DEF IInv
  <2>2. d \notin Reopened \/ d \notin handed
    BY <1>2, <2>1 DEF RowInv, Handed
  <2>3. d \notin Due \/ d \notin handed
    BY <1>3, <2>1 DEF RowInv, Handed
  <2>4. Handed(d)'
    BY <1>1, <1>4, <2>1, <2>2, <2>3 DEF RowInv, Handed
  <2>5. InHand(d)'
    BY <1>2, <1>4 DEF InHand
  <2>6. Untold(d)'
    BY <1>1, <1>2, <1>3, <1>4, <2>1 DEF RowInv, Untold
  <2>7. ByMail(d)'
    BY <1>1, <2>1 DEF RowInv, ByMail
  <2>8. Single(d) /\ MaySend(d) => copies[d] <= unsure[d]
    <3>1. job.took = {}
      BY DEF BeginRetry, IInv, Shapes
    <3> QED
      BY <2>1, <3>1 DEF RowInv, Counted
  <2>9. Counted(d)'
    BY <1>1, <1>2, <1>3, <1>4, <2>1, <2>8 DEF RowInv, Counted, Single, MaySend, Refused
  <2> QED
    BY <2>4, <2>5, <2>6, <2>7, <2>9 DEF RowInv
<1> QED
  BY <1>5, <1>6 DEF IInv

LEMMA RetriedRow ==
  ASSUME NEW s, NEW n, NEW f, NEW o
  PROVE  Retried([status |-> s, retries |-> n, from |-> f], o) =
           [status |-> IF o = "unavailable" THEN "Failed" ELSE StatusAfter(o),
            retries |-> n + 1, from |-> f]
<1> DEFINE r == [status |-> s, retries |-> n, from |-> f]
           x == IF o = "unavailable" THEN "Failed" ELSE StatusAfter(o)
<1>1. Retried(r, o) = [[r EXCEPT !.retries = n + 1] EXCEPT !.status = x]
  BY Zenon DEF Retried
<1>2. [r EXCEPT !.retries = n + 1] = [status |-> s, retries |-> n + 1, from |-> f]
  OBVIOUS
<1> HIDE DEF x
<1>3. \A v : [[status |-> s, retries |-> v, from |-> f] EXCEPT !.status = x] =
              [status |-> x, retries |-> v, from |-> f]
  OBVIOUS
<1> HIDE DEF r
<1> QED
  BY <1>1, <1>2, <1>3 DEF r, x

LEMMA RetryOneInv ==
  ASSUME IInv, NEW d \in Rows, RetryOne(d)
  PROVE  IInv'
<1> DEFINE Offered == (Attempts(d[2]) \ {"handed"})
                        \cup (IF Adapter[d[2]] = "email" THEN {"unavailable"} ELSE {})
           mine == IF d \in DOMAIN job.wrote THEN job.wrote[d] ELSE row[d]
<1>1. PICK o \in Offered :
        /\ d \in job.todo
        /\ job' = [job EXCEPT
             !.todo = @ \ {d},
             !.wrote = [e \in DOMAIN @ \cup {d} |-> IF e = d THEN Retried(mine, o) ELSE @[e]],
             !.mailed = @ \cup (IF o = "queued" THEN {d} ELSE {}),
             !.kept = @ \cup (IF o = "kept" THEN {d} ELSE {}),
             !.took = @ \cup (IF o = "taken" THEN {d} ELSE {})]
        /\ copies' = [copies EXCEPT ![d] = @ + IF o \in {"taken", "timeout"} THEN 1 ELSE 0]
        /\ unsure' = [unsure EXCEPT ![d] = @ + IF o = "timeout" THEN 1 ELSE 0]
        /\ byGraph' = IF o \in GraphOutcomes THEN byGraph \cup {d} ELSE byGraph
        /\ UNCHANGED <<row, queue, handed>>
  BY DEF RetryOne
<1> HIDE DEF Offered
<1>2. /\ o \notin {"handed"}
      /\ o \in {"taken", "timeout", "queued"} => Adapter[d[2]] = "email"
      /\ o = "kept" => Adapter[d[2]] # "email"
  BY DEF Offered, Attempts, Adapters
<1>3. RowInv(d) /\ copies[d] \in Nat /\ unsure[d] \in Nat /\ IsRow(mine)
  BY DEF IInv, Shapes
<1> HIDE DEF mine
<1>4. /\ job'.on = job.on
      /\ job'.todo = job.todo \ {d}
      /\ job'.wrote = [e \in DOMAIN job.wrote \cup {d} |->
                        IF e = d THEN Retried(mine, o) ELSE job.wrote[e]]
      /\ job'.mailed = job.mailed \cup (IF o = "queued" THEN {d} ELSE {})
      /\ job'.kept = job.kept \cup (IF o = "kept" THEN {d} ELSE {})
      /\ job'.took = job.took \cup (IF o = "taken" THEN {d} ELSE {})
      /\ job' = [on |-> job'.on, todo |-> job'.todo, wrote |-> job'.wrote,
                 mailed |-> job'.mailed, kept |-> job'.kept, took |-> job'.took]
  <2>1. job = [on |-> job.on, todo |-> job.todo, wrote |-> job.wrote, mailed |-> job.mailed,
               kept |-> job.kept, took |-> job.took]
    BY DEF IInv, Shapes
  <2> QED
    BY <1>1, <2>1
<1>5. IsRow(Retried(mine, o))
      /\ Retried(mine, o).status = IF o = "unavailable" THEN "Failed" ELSE StatusAfter(o)
  <2>1. PICK s, n, f : mine = [status |-> s, retries |-> n, from |-> f]
    BY <1>3 DEF IsRow
  <2> DEFINE x == IF o = "unavailable" THEN "Failed" ELSE StatusAfter(o)
  <2>2. Retried(mine, o) = [status |-> x, retries |-> n + 1, from |-> f]
    BY <2>1, RetriedRow
  <2> HIDE DEF x
  <2>3. IsRow(Retried(mine, o)) /\ Retried(mine, o).status = x
    BY <2>2 DEF IsRow
  <2> QED
    BY <2>3 DEF x
<1>6. /\ DOMAIN job'.wrote = DOMAIN job.wrote \cup {d}
      /\ job'.wrote[d] = Retried(mine, o)
      /\ \A e \in DOMAIN job.wrote : e # d => job'.wrote[e] = job.wrote[e]
  BY <1>4
<1>7. Shapes'
  <2>1. \A e \in DOMAIN job'.wrote : IsRow(job'.wrote[e])
    BY <1>5, <1>6 DEF IInv, Shapes
  <2>2. copies' \in [Rows -> Nat] /\ unsure' \in [Rows -> Nat]
    BY <1>1, <1>3 DEF IInv, Shapes
  <2>3. job'.on
    BY <1>1, <1>4 DEF IInv, Shapes
  <2> QED
    BY <1>1, <1>4, <2>1, <2>2, <2>3 DEF IInv, Shapes
<1>8. ASSUME NEW e \in Rows, e # d PROVE Untouched(e)
  <2>1. copies'[e] = copies[e] /\ unsure'[e] = unsure[e]
    BY <1>1, <1>8 DEF IInv, Shapes
  <2>2. e \in byGraph' <=> e \in byGraph
    BY <1>1, <1>8
  <2> QED
    BY <1>1, <1>4, <1>6, <1>8, <2>1, <2>2 DEF Untouched
<1>9. RowInv(d)'
  <2>1. /\ d \in job.todo /\ d \notin job'.todo
        /\ d \notin job.took \cup job.mailed \cup job.kept /\ d \notin handed
    BY <1>1, <1>3, <1>4 DEF RowInv, InHand, Handed
  <2>2. row[d].status # "none"
    BY <1>3, <2>1 DEF RowInv, Untold
  <2>3. Handed(d)'
    BY <1>1, <2>1 DEF Handed
  <2>4. InHand(d)'
    BY <1>1, <1>2, <1>4, <1>5, <1>6, <2>1 DEF InHand, StatusAfter, GraphOutcomes
  <2>5. Untold(d)'
    BY <1>1, <2>2 DEF Untold
  <2>6. ByMail(d)'
    BY <1>1, <1>2, <1>3 DEF RowInv, ByMail, GraphOutcomes
  <2>7. ASSUME Single(d)' PROVE Counted(d)'
    <3>1. Single(d)
      BY <1>1, <2>7 DEF Single
    <3>2. row[d].status = "Failed" \/ Refused(queue[d])
      BY <1>3, <2>1, <3>1 DEF RowInv, Counted
    <3>3. MaySend(d)
      BY <3>2 DEF MaySend, Refused
    <3>4. copies[d] <= unsure[d]
      BY <1>3, <2>1, <3>1, <3>3 DEF RowInv, Counted
    <3>5. /\ copies'[d] = copies[d] + (IF o \in {"taken", "timeout"} THEN 1 ELSE 0)
          /\ unsure'[d] = unsure[d] + (IF o = "timeout" THEN 1 ELSE 0)
      BY <1>1 DEF IInv, Shapes
    <3>6. copies'[d] <= 1 + unsure'[d] /\ (o # "taken" => copies'[d] <= unsure'[d])
      BY <1>3, <3>4, <3>5
    <3>7. d \in job'.took <=> o = "taken"
      BY <1>4, <2>1
    <3> QED
      BY <1>1, <1>3, <3>1, <3>2, <3>6, <3>7 DEF RowInv, Counted
  <2>8. Counted(d)'
    BY <2>7 DEF Counted
  <2> QED
    BY <2>3, <2>4, <2>5, <2>6, <2>8 DEF RowInv
<1> QED
  BY <1>7, <1>8, <1>9, Frame DEF IInv

LEMMA CommitShapes ==
  ASSUME IInv, CommitRetry
  PROVE  Shapes'
<1>1. row' = [d \in Rows |-> row'[d]] /\ \A d \in Rows : IsRow(row'[d])
  BY DEF CommitRetry, IInv, Shapes
<1>2. queue' \in [Rows -> Seq({"waiting", "sent", "refused"})]
  <2>1. \A d \in Rows : /\ queue[d] \in Seq({"waiting", "sent", "refused"})
                        /\ Append(queue[d], "waiting") \in Seq({"waiting", "sent", "refused"})
    BY DEF IInv, Shapes
  <2> QED
    BY <2>1 DEF CommitRetry
<1>3. copies' \in [Rows -> Nat] /\ unsure' \in [Rows -> Nat]
  BY DEF CommitRetry, IInv, Shapes
<1> QED
  BY <1>1, <1>2, <1>3 DEF CommitRetry, Idle, Shapes

LEMMA CommitRow ==
  ASSUME IInv, CommitRetry, NEW d \in Rows
  PROVE  RowInv(d)'
<1>1. /\ RowInv(d) /\ copies[d] \in Nat /\ unsure[d] \in Nat
      /\ queue[d] \in Seq({"waiting", "sent", "refused"})
  BY DEF IInv, Shapes
<1>2. /\ row'[d] = IF d \in DOMAIN job.wrote THEN job.wrote[d] ELSE row[d]
      /\ queue'[d] = IF d \in job.mailed THEN Append(queue[d], "waiting") ELSE queue[d]
      /\ copies'[d] = IF d \in job.kept THEN copies[d] + 1 ELSE copies[d]
      /\ unsure'[d] = unsure[d] /\ handed' = handed /\ byGraph' = byGraph
      /\ job.todo = {}
      /\ job'.todo = {} /\ DOMAIN job'.wrote = {}
      /\ job'.mailed = {} /\ job'.kept = {} /\ job'.took = {}
  BY DEF CommitRetry, Idle
<1>3. /\ Append(queue[d], "waiting") # << >>
      /\ Len(Append(queue[d], "waiting")) = Len(queue[d]) + 1
      /\ Last(Append(queue[d], "waiting")) = "waiting"
      /\ \A i \in 1..Len(queue[d]) : Append(queue[d], "waiting")[i] = queue[d][i]
      /\ DOMAIN Append(queue[d], "waiting") = 1..(Len(queue[d]) + 1)
      /\ DOMAIN queue[d] = 1..Len(queue[d]) /\ Len(queue[d]) \in Nat
  BY <1>1, AppendProperties DEF Last
<1>4. Handed(d)'
  BY <1>1, <1>2 DEF RowInv, Handed, InHand
<1>5. InHand(d)'
  BY <1>2 DEF InHand
<1>6. Untold(d)'
  <2>1. CASE d \in DOMAIN job.wrote
    BY <1>1, <1>2, <2>1 DEF RowInv, InHand, Untold
  <2>2. CASE d \notin DOMAIN job.wrote
    BY <1>1, <1>2, <2>2 DEF RowInv, InHand, Untold
  <2> QED
    BY <2>1, <2>2
<1>7. ByMail(d)'
  BY <1>1, <1>2 DEF RowInv, InHand, ByMail
<1>8. ASSUME Single(d)' PROVE Counted(d)'
  <2>1. Single(d) /\ (d \in job.mailed => d \notin byGraph)
    BY <1>2, <1>3, <1>8 DEF Single
  <2>2. Counted(d)
    BY <1>1 DEF RowInv
  <2>3. CASE d \notin DOMAIN job.wrote
    <3>1. d \notin job.took \cup job.mailed \cup job.kept
      BY <1>1, <2>3 DEF RowInv, InHand
    <3> QED
      BY <1>2, <2>1, <2>2, <2>3, <3>1 DEF Counted, MaySend
  <2>4. CASE d \in DOMAIN job.wrote
    <3>1. /\ row[d].status = "Failed" \/ Refused(queue[d])
          /\ queue[d] = << >> \/ Refused(queue[d])
      BY <2>1, <2>2, <2>4 DEF Counted
    <3>2. d \notin job.took => copies[d] <= unsure[d]
      BY <2>1, <2>2, <3>1 DEF Counted, MaySend, Refused
    <3>3. d \notin handed
      BY <1>1, <2>4 DEF RowInv, Handed
    <3>4. CASE d \in job.mailed
      <4>1. d \notin job.took \cup job.kept
        BY <1>1, <2>1, <3>4 DEF RowInv, InHand
      <4>2. row'[d].status = "Sent"
        BY <1>1, <1>2, <2>4, <3>4 DEF RowInv, InHand
      <4>3. \A i \in 1..Len(queue[d]) : queue[d][i] = "refused"
        BY <1>3, <2>1, <2>2, <3>1 DEF Counted, Refused, Last
      <4> QED
        BY <1>1, <1>2, <1>3, <3>2, <3>4, <4>1, <4>2, <4>3 DEF Counted
    <3>5. CASE d \notin job.mailed
      <4>1. CASE d \in job.took \cup job.kept
        <5>1. row'[d].status = "Sent"
          BY <1>1, <1>2, <2>4, <4>1 DEF RowInv, InHand
        <5>2. queue[d] = << >>
          BY <1>1, <2>1, <4>1 DEF RowInv, InHand, ByMail, Single
        <5>3. d \in job.kept => d \notin job.took
          BY <1>1 DEF RowInv, InHand, ByMail
        <5>4. copies'[d] <= 1 + unsure[d]
          BY <1>1, <1>2, <2>1, <2>2, <3>2, <5>3 DEF Counted
        <5> QED
          BY <1>2, <3>3, <3>5, <5>1, <5>2, <5>4 DEF Counted, MaySend
      <4>2. CASE d \notin job.took \cup job.kept
        BY <1>1, <1>2, <2>1, <2>2, <3>1, <3>2, <3>5, <4>2 DEF Counted
      <4> QED
        BY <4>1, <4>2
    <3> QED
      BY <3>4, <3>5
  <2> QED
    BY <2>3, <2>4
<1>9. Counted(d)'
  BY <1>8 DEF Counted
<1> QED
  BY <1>4, <1>5, <1>6, <1>7, <1>9 DEF RowInv

LEMMA LoseInv ==
  ASSUME IInv, LoseRetry
  PROVE  IInv'
<1>1. /\ UNCHANGED <<row, queue, handed, copies, byGraph>>
      /\ unsure' = [d \in Rows |-> IF d \in job.took THEN unsure[d] + 1 ELSE unsure[d]]
      /\ job' = Idle
  BY DEF LoseRetry
<1>2. Shapes'
  <2>1. unsure' \in [Rows -> Nat]
    BY <1>1 DEF IInv, Shapes
  <2> QED
    BY <1>1, <2>1 DEF IInv, Shapes, Idle
<1>3. ASSUME NEW d \in Rows PROVE RowInv(d)'
  <2>1. RowInv(d) /\ copies[d] \in Nat /\ unsure[d] \in Nat
    BY DEF IInv, Shapes
  <2>2. /\ job'.todo = {} /\ DOMAIN job'.wrote = {}
        /\ job'.mailed = {} /\ job'.kept = {} /\ job'.took = {}
    BY <1>1 DEF Idle
  <2>3. unsure'[d] = IF d \in job.took THEN unsure[d] + 1 ELSE unsure[d]
    BY <1>1
  <2>4. Handed(d)' /\ InHand(d)' /\ ByMail(d)'
    BY <1>1, <2>1, <2>2 DEF RowInv, Handed, InHand, ByMail
  <2>5. Untold(d)'
    BY <1>1, <2>1, <2>2, <2>3 DEF RowInv, Untold, InHand
  <2>6. Counted(d)'
    BY <1>1, <2>1, <2>2, <2>3 DEF RowInv, Counted, Single, MaySend, Refused
  <2> QED
    BY <2>4, <2>5, <2>6 DEF RowInv
<1> QED
  BY <1>2, <1>3 DEF IInv

LEMMA Inductive == IInv /\ [Next]_vars => IInv'
<1> SUFFICES ASSUME IInv, [Next]_vars PROVE IInv'
  OBVIOUS
<1>1. CASE UNCHANGED vars
  <2>1. \A d \in Rows : Untouched(d)
    BY <1>1 DEF vars, Untouched
  <2>2. Shapes'
    BY <1>1 DEF vars, IInv, Shapes
  <2> QED
    BY <2>1, <2>2, Frame DEF IInv
<1>2. CASE CommitRetry
  BY <1>2, CommitShapes, CommitRow DEF IInv
<1> QED
  BY <1>1, <1>2, SendInv, DeliverInv, DispatchInv, BeginInv, RetryOneInv, LoseInv
     DEF Next, Retry

(* Nobody is told twice by one dispatch, for any channels and fallbacks,   *)
(* however often the job is killed and whatever the services answer.       *)
THEOREM ToldOnce == Spec => []TakenOnce
<1>1. IInv => TakenOnce
  BY DEF IInv, RowInv, Counted, Single, TakenOnce
<1> QED
  BY <1>1, InitInv, Inductive, PTL DEF Spec

-----------------------------------------------------------------------------
(* The chain of fallbacks.  Beyond is defined by recursion over a chain    *)
(* that ends: the channels every closed set that holds the next one holds  *)
(* are such a function, so Beyond is one.                                  *)
Follows(c, S) == Fallback[c] # NoChannel => Fallback[c] \in S

ClosedSets == {S \in SUBSET Channels : \A c \in S : Follows(c, S)}

Ahead(c) == {x \in Channels : \A S \in ClosedSets : Follows(c, S) => x \in S}

LEMMA AheadIs ==
  ASSUME NEW c \in Channels
  PROVE  Ahead(c) = IF Fallback[c] = NoChannel THEN {} ELSE {Fallback[c]} \cup Ahead(Fallback[c])
<1>1. CASE Fallback[c] = NoChannel
  <2>1. {} \in ClosedSets /\ Follows(c, {})
    BY <1>1 DEF ClosedSets, Follows
  <2> QED
    BY <1>1, <2>1 DEF Ahead
<1>2. CASE Fallback[c] # NoChannel
  <2> DEFINE f == Fallback[c]
             T == {f} \cup Ahead(f)
  <2>1. f \in Channels
    BY <1>2, ChannelAssumption
  <2>2. T \subseteq Ahead(c)
    <3>1. f \in Ahead(c)
      BY <1>2, <2>1 DEF Ahead, Follows
    <3>2. ASSUME NEW x \in Ahead(f), NEW S \in ClosedSets, Follows(c, S) PROVE x \in S
      <4>1. f \in S
        BY <1>2, <3>2 DEF Follows
      <4>2. Follows(f, S)
        BY <4>1 DEF ClosedSets
      <4> QED
        BY <4>2 DEF Ahead
    <3>3. \A x \in Ahead(f) : x \in Channels
      BY DEF Ahead
    <3> HIDE DEF f
    <3>4. Ahead(f) \subseteq Ahead(c)
      BY <3>2, <3>3 DEF Ahead
    <3> QED
      BY <3>1, <3>4
  <2>3. Ahead(c) \subseteq T
    <3>1. T \subseteq Channels
      BY <2>1 DEF Ahead
    <3>2. ASSUME NEW y \in T, Fallback[y] # NoChannel PROVE Fallback[y] \in T
      <4>1. Fallback[y] \in Channels
        BY <3>1, <3>2, ChannelAssumption
      <4>2. ASSUME NEW S \in ClosedSets, Follows(f, S) PROVE Fallback[y] \in S
        <5>1. CASE y = f
          BY <3>2, <4>2, <5>1 DEF Follows
        <5>2. CASE y \in Ahead(f)
          <6>1. y \in S
            BY <4>2, <5>2 DEF Ahead
          <6> QED
            BY <3>2, <6>1 DEF ClosedSets, Follows
        <5> QED
          BY <5>1, <5>2
      <4> QED
        BY <4>1, <4>2 DEF Ahead
    <3>3. T \in ClosedSets /\ Follows(c, T)
      BY <3>1, <3>2 DEF ClosedSets, Follows
    <3> HIDE DEF T
    <3> QED
      BY <3>3 DEF Ahead
  <2> QED
    BY <1>2, <2>2, <2>3
<1> QED
  BY <1>1, <1>2

LEMMA BeyondIs ==
  /\ Beyond = [c \in Channels |-> Beyond[c]]
  /\ \A c \in Channels :
       Beyond[c] = IF Fallback[c] = NoChannel THEN {} ELSE {Fallback[c]} \cup Beyond[Fallback[c]]
<1> DEFINE Is(f) == f = [c \in Channels |->
             IF Fallback[c] = NoChannel THEN {} ELSE {Fallback[c]} \cup f[Fallback[c]]]
<1>1. Is([c \in Channels |-> Ahead(c)])
  <2> DEFINE g == [c \in Channels |-> Ahead(c)]
  <2>1. ASSUME NEW c \in Channels
        PROVE  g[c] = IF Fallback[c] = NoChannel THEN {} ELSE {Fallback[c]} \cup g[Fallback[c]]
    BY AheadIs, ChannelAssumption
  <2> HIDE DEF g
  <2>2. g = [c \in Channels |-> g[c]]
    BY DEF g
  <2> QED
    BY <2>1, <2>2 DEF g
<1>2. Beyond = CHOOSE f : Is(f)
  BY DEF Beyond
<1> HIDE DEF Is
<1>3. Is(Beyond)
  BY <1>1, <1>2
<1> QED
  BY <1>3 DEF Is

(* What every channel has that has it where the next one does.             *)
LEMMA NoBadChannel ==
  ASSUME NEW S \in SUBSET Channels,
         \A c \in S : Fallback[c] \in S
  PROVE  S = {}
BY ChainAssumption

(* Beyond a channel are channels, and whatever is beyond those.            *)
LEMMA Further ==
  ASSUME NEW c \in Channels
  PROVE  /\ Beyond[c] \subseteq Channels
         /\ \A x \in Beyond[c] : Beyond[x] \subseteq Beyond[c]
<1> DEFINE S == {y \in Channels : ~Beyond[y] \subseteq Channels}
           T == {y \in Channels : \E x \in Beyond[y] : ~Beyond[x] \subseteq Beyond[y]}
<1>1. ASSUME NEW y \in S PROVE Fallback[y] \in S
  BY BeyondIs, ChannelAssumption
<1>2. ASSUME NEW y \in T PROVE Fallback[y] \in T
  BY BeyondIs, ChannelAssumption
<1>3. S = {} /\ T = {}
  BY <1>1, <1>2, NoBadChannel
<1> QED
  BY <1>3

(* Of two channels of one chain one comes before the other.                *)
Chain(c) == {c} \cup Beyond[c]

LEMMA Line ==
  ASSUME NEW c \in Channels, NEW x \in Chain(c), NEW y \in Chain(c), x # y
  PROVE  x \in Beyond[y] \/ y \in Beyond[x]
<1> DEFINE S == {k \in Channels : \E u, v \in Chain(k) :
                    u # v /\ u \notin Beyond[v] /\ v \notin Beyond[u]}
<1>1. ASSUME NEW k \in S PROVE Fallback[k] \in S
  <2>1. PICK u, v \in Chain(k) : u # v /\ u \notin Beyond[v] /\ v \notin Beyond[u]
    OBVIOUS
  <2>2. u # k /\ v # k
    BY <2>1 DEF Chain
  <2>3. Fallback[k] \in Channels /\ u \in Chain(Fallback[k]) /\ v \in Chain(Fallback[k])
    BY <2>2, BeyondIs, ChannelAssumption DEF Chain
  <2> QED
    BY <2>1, <2>3
<1>2. S = {}
  BY <1>1, NoBadChannel
<1> QED
  BY <1>2

(* Some of the channels of a chain have a last one.                        *)
LEMMA LastOf ==
  ASSUME NEW c \in Channels, NEW E \in SUBSET Chain(c), E # {}
  PROVE  \E b \in E : \A e \in E \ {b} : b \in Beyond[e]
<1> DEFINE S == {k \in Channels : Chain(k) \cap E # {}}
<1>1. E \subseteq Channels
  BY Further DEF Chain
<1>2. S # {}
  BY <1>1 DEF Chain
<1>3. PICK b \in S : Fallback[b] \notin S
  BY <1>2, ChainAssumption
<1>4. Beyond[b] \cap E = {}
  BY <1>3, BeyondIs, ChannelAssumption DEF Chain
<1>5. b \in E
  BY <1>3, <1>4 DEF Chain
<1>6. ASSUME NEW e \in E \ {b} PROVE b \in Beyond[e]
  BY <1>4, <1>5, Line
<1> QED
  BY <1>5, <1>6

(* dispatch names a row it has written on a channel before this one.       *)
LEMMA FromIs ==
  ASSUME NEW m \in Messages, NEW c \in Path(m), NEW out, From(m, c, out) # NoChannel
  PROVE  /\ From(m, c, out) \in Channels /\ From(m, c, out) \in Written(m, out)
         /\ c \in Beyond[From(m, c, out)]
<1> DEFINE E == Before(m, c) \cap Written(m, out)
           b == From(m, c, out)
<1>1. E # {} /\ b = CHOOSE x \in E : \A e \in E \ {x} : x \in Beyond[e]
  BY DEF From
<1>2. Target[m] \in Channels /\ E \subseteq Chain(Target[m])
  BY ChannelAssumption DEF Before, Path, Chain
<1>3. \E x \in E : \A e \in E \ {x} : x \in Beyond[e]
  <2> HIDE DEF E
  <2> QED
    BY <1>1, <1>2, LastOf
<1>4. b \in E
  <2> HIDE DEF E, b
  <2> QED
    BY <1>1, <1>3
<1>5. Path(m) \subseteq Channels
  BY <1>2, Further DEF Path
<1> QED
  BY <1>4, <1>5 DEF Before

-----------------------------------------------------------------------------
(* TypeOK.  The run at hand has a row with retries left to try again, and  *)
(* what it writes keeps the row the dispatch came from.                    *)
AtHand(d) == IF d \in DOMAIN job.wrote THEN job.wrote[d] ELSE row[d]

Named(d) ==
  row[d].from # NoChannel =>
    d[2] \in Beyond[row[d].from] /\ row[<<d[1], row[d].from>>] # NoRow

Typed(d) ==
  /\ row[d] \in Row \cup {NoRow}
  /\ d \in job.todo => AtHand(d).retries < MaxRetries
  /\ d \in DOMAIN job.wrote => job.wrote[d] \in Row /\ job.wrote[d].from = row[d].from
  /\ Named(d)

TInv ==
  /\ IInv
  /\ handed \subseteq Rows /\ byGraph \subseteq Rows /\ lost \in 0..MaxLost
  /\ job.todo \cup DOMAIN job.wrote \subseteq Rows
  /\ \A d \in Rows : Typed(d)

LEMMA RowIs ==
  ASSUME NEW r \in Row \cup {NoRow}
  PROVE  /\ r.from \in Channels \cup {NoChannel} /\ r.retries \in Nat
         /\ r.status # "none" => r \in Row
         /\ r = NoRow <=> r.status = "none"
BY BoundAssumption DEF Row, NoRow

LEMMA RowMade ==
  ASSUME NEW s \in {"Sent", "Failed", "Suppressed"}, NEW n \in 0..MaxRetries,
         NEW f \in Channels \cup {NoChannel}
  PROVE  [status |-> s, retries |-> n, from |-> f] \in Row
BY DEF Row

(* The evidence of a row stays while no row goes.                          *)
LEMMA NamedKept ==
  ASSUME NEW d \in Rows, Typed(d), row'[d].from = row[d].from,
         \A e \in Rows : row[e] # NoRow => row'[e] # NoRow
  PROVE  Named(d)'
<1>1. row[d].from \in Channels \cup {NoChannel}
  BY RowIs DEF Typed
<1>2. CASE row[d].from = NoChannel
  BY <1>2 DEF Named
<1>3. CASE row[d].from # NoChannel
  <2>1. <<d[1], row[d].from>> \in Rows
    BY <1>1, <1>3 DEF Rows
  <2> QED
    BY <1>3, <2>1 DEF Typed, Named
<1> QED
  BY <1>2, <1>3

LEMMA InitTyped == Init => TInv
<1> SUFFICES ASSUME Init PROVE TInv
  OBVIOUS
<1>1. \A d \in Rows : Typed(d)
  BY DEF Init, Typed, Named, Idle, NoRow
<1> QED
  BY <1>1, InitInv, BoundAssumption DEF TInv, Init, Idle

(* What leaves the run alone, and of each row what it names.               *)
LEMMA TypedFrame ==
  ASSUME NEW d \in Rows, Typed(d), row'[d] = row[d], job' = job,
         \A e \in Rows : row[e] # NoRow => row'[e] # NoRow
  PROVE  Typed(d)'
BY NamedKept DEF Typed, AtHand

LEMMA DispatchTyped ==
  ASSUME TInv, NEW m \in Messages, Dispatch(m)
  PROVE  /\ handed' \subseteq Rows /\ byGraph' \subseteq Rows
         /\ \A d \in Rows : Typed(d)'
<1>1. PICK out \in [Path(m) -> UNION {Outcomes(c) : c \in Path(m)}] :
        row' = [d \in Rows |->
             IF d[1] = m /\ d[2] \in Written(m, out)
             THEN [status |-> StatusAfter(out[d[2]]), retries |-> 0,
                   from |-> From(m, d[2], out)]
             ELSE row[d]]
  BY DEF Dispatch
<1>2. \A c \in Path(m) : row[<<m, c>>] = NoRow
  BY DEF Dispatch
<1>3. handed' \subseteq Rows /\ byGraph' \subseteq Rows /\ job' = job
  BY DEF Dispatch, TInv
<1> HIDE DEF Dispatch
<1>4. Written(m, out) \subseteq Path(m)
  BY DEF Written, Reached
<1>5. ASSUME NEW d \in Rows, d[1] = m, d[2] \in Written(m, out)
      PROVE  /\ row'[d] \in Row /\ row'[d] # NoRow /\ row[d] = NoRow
             /\ row'[d].from = From(m, d[2], out)
  <2>1. row[d] = NoRow
    BY <1>2, <1>4, <1>5 DEF Rows
  <2>2. row'[d] = [status |-> StatusAfter(out[d[2]]), retries |-> 0,
                   from |-> From(m, d[2], out)]
    BY <1>1, <1>5
  <2>3. StatusAfter(out[d[2]]) \in {"Sent", "Failed", "Suppressed"}
    BY DEF StatusAfter
  <2>4. From(m, d[2], out) \in Channels \cup {NoChannel}
    BY <1>4, <1>5, FromIs
  <2>5. 0 \in 0..MaxRetries
    BY BoundAssumption
  <2> DEFINE s == StatusAfter(out[d[2]])
             f == From(m, d[2], out)
  <2>6. s \in {"Sent", "Failed", "Suppressed"} /\ f \in Channels \cup {NoChannel}
    BY <2>3, <2>4
  <2>7. row'[d] = [status |-> s, retries |-> 0, from |-> f]
    BY <2>2
  <2> HIDE DEF s, f
  <2>8. row'[d] \in Row /\ row'[d].status = s /\ row'[d].from = f
    BY <2>5, <2>6, <2>7, RowMade
  <2>9. row'[d] # NoRow
    BY <2>6, <2>8 DEF NoRow
  <2> QED
    BY <2>1, <2>8, <2>9 DEF f
<1>6. \A d \in Rows : ~(d[1] = m /\ d[2] \in Written(m, out)) => row'[d] = row[d]
  BY <1>1
<1>7. \A e \in Rows : row[e] # NoRow => row'[e] # NoRow
  BY <1>5, <1>6
<1>8. ASSUME NEW d \in Rows PROVE Typed(d)'
  <2>1. CASE ~(d[1] = m /\ d[2] \in Written(m, out))
    BY <1>3, <1>6, <1>7, <2>1, TypedFrame DEF TInv
  <2>2. CASE d[1] = m /\ d[2] \in Written(m, out)
    <3>1. row[d].status = "none"
      BY <1>5, <2>2 DEF NoRow
    <3>2. d \notin job.todo \cup DOMAIN job.wrote
      BY <3>1 DEF TInv, IInv, RowInv, Untold
    <3>3. Named(d)'
      <4> DEFINE f == From(m, d[2], out)
      <4>1. ASSUME f # NoChannel PROVE d[2] \in Beyond[f] /\ row'[<<d[1], f>>] # NoRow
        <5>1. f \in Channels /\ f \in Written(m, out) /\ d[2] \in Beyond[f]
          BY <1>4, <2>2, <4>1, FromIs
        <5>2. <<d[1], f>> \in Rows /\ <<d[1], f>>[1] = m /\ <<d[1], f>>[2] = f
          BY <2>2, <5>1 DEF Rows
        <5> HIDE DEF f
        <5> QED
          BY <1>5, <5>1, <5>2
      <4>2. row'[d].from = f
        BY <1>5, <2>2
      <4> HIDE DEF f
      <4> QED
        BY <4>1, <4>2 DEF Named
    <3> QED
      BY <1>3, <1>5, <2>2, <3>2, <3>3 DEF Typed
  <2> QED
    BY <2>1, <2>2
<1> QED
  BY <1>3, <1>8

LEMMA DeliverTyped ==
  ASSUME TInv, NEW d \in Rows, DeliverQueued(d) \/ LoseDelivery(d)
  PROVE  \A e \in Rows : Typed(e)'
<1>1. /\ d \in handed /\ job' = job
      /\ row' = row \/ row' = [row EXCEPT ![d].status = "Failed"]
  BY DEF DeliverQueued, LoseDelivery
<1>2. /\ row[d].status = "Sent" /\ row[d] \in Row \cup {NoRow}
      /\ d \notin job.todo \cup DOMAIN job.wrote
  BY <1>1 DEF TInv, Typed, IInv, RowInv, Handed
<1>3. row[d] \in Row
  BY <1>2, RowIs
<1>4. [row[d] EXCEPT !.status = "Failed"] \in Row
      /\ [row[d] EXCEPT !.status = "Failed"].from = row[d].from
  BY <1>3 DEF Row
<1>5. \A e \in Rows : row'[e] = IF row' # row /\ e = d
                                THEN [row[d] EXCEPT !.status = "Failed"] ELSE row[e]
  BY <1>1 DEF TInv, IInv, Shapes
<1>6. \A e \in Rows : row[e] # NoRow => row'[e] # NoRow
  BY <1>4, <1>5 DEF Row, NoRow
<1>7. ASSUME NEW e \in Rows, row'[e] = row[e] PROVE Typed(e)'
  BY <1>1, <1>6, <1>7, TypedFrame DEF TInv
<1>8. ASSUME row' # row PROVE Typed(d)'
  <2>1. row'[d] \in Row /\ row'[d].from = row[d].from
    BY <1>4, <1>5, <1>8
  <2>2. Named(d)'
    BY <1>6, <2>1, NamedKept DEF TInv
  <2> QED
    BY <1>1, <1>2, <2>1, <2>2 DEF Typed
<1> QED
  BY <1>5, <1>7, <1>8

LEMMA BeginTyped ==
  ASSUME TInv, BeginRetry
  PROVE  /\ job'.todo \cup DOMAIN job'.wrote \subseteq Rows
         /\ \A d \in Rows : Typed(d)'
<1>1. /\ row' = row /\ job'.todo = Reopened \cup Due
      /\ job'.wrote = [d \in Reopened |-> [row[d] EXCEPT !.status = "Failed"]]
  BY DEF BeginRetry, Idle
<1>2. Reopened \subseteq Rows /\ Due \subseteq Rows
  BY DEF Reopened, Due
<1>3. ASSUME NEW d \in Reopened
      PROVE  /\ job'.wrote[d] \in Row /\ job'.wrote[d].from = row[d].from
             /\ job'.wrote[d].retries < MaxRetries
  <2>1. row[d] \in Row
    BY <1>2, RowIs DEF TInv, Typed, Reopened
  <2>2. job'.wrote[d] = [row[d] EXCEPT !.status = "Failed"]
    BY <1>1
  <2>3. row[d].retries < MaxRetries
    BY DEF Reopened
  <2>4. row[d] = [status |-> row[d].status, retries |-> row[d].retries, from |-> row[d].from]
        /\ row[d].retries \in 0..MaxRetries /\ row[d].from \in Channels \cup {NoChannel}
    BY <2>1 DEF Row
  <2>5. job'.wrote[d] = [status |-> "Failed", retries |-> row[d].retries, from |-> row[d].from]
    BY <2>2, <2>4
  <2> QED
    BY <2>3, <2>4, <2>5, RowMade
<1>4. \A d \in Due : row[d].retries < MaxRetries
  BY DEF Due
<1>5. ASSUME NEW d \in Rows PROVE Typed(d)'
  <2>1. DOMAIN job'.wrote = Reopened
    BY <1>1
  <2>2. Typed(d) /\ Named(d)'
    BY <1>1, NamedKept DEF TInv
  <2> QED
    BY <1>1, <1>3, <1>4, <2>1, <2>2 DEF Typed, AtHand
<1> QED
  BY <1>1, <1>2, <1>5

LEMMA RetryOneTyped ==
  ASSUME TInv, NEW d \in Rows, RetryOne(d)
  PROVE  /\ job'.todo \cup DOMAIN job'.wrote \subseteq Rows /\ byGraph' \subseteq Rows
         /\ \A e \in Rows : Typed(e)'
<1>1. PICK o :
        /\ d \in job.todo
        /\ job' = [job EXCEPT
             !.todo = @ \ {d},
             !.wrote = [e \in DOMAIN @ \cup {d} |->
                         IF e = d THEN Retried(AtHand(d), o) ELSE @[e]],
             !.mailed = @ \cup (IF o = "queued" THEN {d} ELSE {}),
             !.kept = @ \cup (IF o = "kept" THEN {d} ELSE {}),
             !.took = @ \cup (IF o = "taken" THEN {d} ELSE {})]
        /\ byGraph' = IF o \in GraphOutcomes THEN byGraph \cup {d} ELSE byGraph
        /\ row' = row
  BY DEF RetryOne, AtHand
<1>2. /\ job'.todo = job.todo \ {d}
      /\ job'.wrote = [e \in DOMAIN job.wrote \cup {d} |->
                        IF e = d THEN Retried(AtHand(d), o) ELSE job.wrote[e]]
  <2>1. job = [on |-> job.on, todo |-> job.todo, wrote |-> job.wrote, mailed |-> job.mailed,
               kept |-> job.kept, took |-> job.took]
    BY DEF TInv, IInv, Shapes
  <2> QED
    BY <1>1, <2>1
<1>3. /\ DOMAIN job'.wrote = DOMAIN job.wrote \cup {d}
      /\ job'.wrote[d] = Retried(AtHand(d), o)
      /\ \A e \in DOMAIN job.wrote : e # d => job'.wrote[e] = job.wrote[e]
  BY <1>2
<1>4. /\ AtHand(d) \in Row /\ AtHand(d).from = row[d].from
      /\ AtHand(d).retries < MaxRetries
  <2>1. Typed(d)
    BY DEF TInv
  <2>2. row[d].status # "none"
    BY <1>1 DEF TInv, IInv, RowInv, Untold
  <2>3. row[d] \in Row
    BY <2>1, <2>2, RowIs DEF Typed
  <2> QED
    BY <1>1, <2>1, <2>3 DEF Typed, AtHand
<1>5. Retried(AtHand(d), o) \in Row /\ Retried(AtHand(d), o).from = row[d].from
  <2> DEFINE s == AtHand(d).status
             n == AtHand(d).retries
             f == AtHand(d).from
             x == IF o = "unavailable" THEN "Failed" ELSE StatusAfter(o)
  <2>1. /\ AtHand(d) = [status |-> s, retries |-> n, from |-> f]
        /\ n + 1 \in 0..MaxRetries /\ f \in Channels \cup {NoChannel} /\ f = row[d].from
    BY <1>4, BoundAssumption DEF Row
  <2>2. x \in {"Sent", "Failed", "Suppressed"}
    BY DEF StatusAfter
  <2> HIDE DEF s, n, f
  <2>3. Retried(AtHand(d), o) = [status |-> x, retries |-> n + 1, from |-> f]
    BY <2>1, RetriedRow
  <2> HIDE DEF x
  <2> QED
    BY <2>1, <2>2, <2>3, RowMade
<1>6. ASSUME NEW e \in Rows PROVE Typed(e)'
  <2>1. Typed(e) /\ Named(e)'
    BY <1>1, NamedKept DEF TInv
  <2>2. CASE e = d
    BY <1>1, <1>2, <1>3, <1>5, <2>1, <2>2 DEF Typed
  <2>3. CASE e # d
    BY <1>1, <1>2, <1>3, <2>1, <2>3 DEF Typed, AtHand
  <2> QED
    BY <2>2, <2>3
<1> QED
  BY <1>1, <1>2, <1>3, <1>6 DEF TInv

LEMMA CommitTyped ==
  ASSUME TInv, CommitRetry
  PROVE  \A d \in Rows : Typed(d)'
<1>1. /\ \A d \in Rows : row'[d] = IF d \in DOMAIN job.wrote THEN job.wrote[d] ELSE row[d]
      /\ job'.todo = {} /\ DOMAIN job'.wrote = {}
  BY DEF CommitRetry, Idle
<1>2. \A d \in Rows : row'[d] \in Row \cup {NoRow} /\ row'[d].from = row[d].from
  BY <1>1 DEF TInv, Typed
<1>3. \A d \in Rows : row[d] # NoRow => row'[d] # NoRow
  BY <1>1 DEF TInv, Typed, Row, NoRow
<1>4. ASSUME NEW d \in Rows PROVE Typed(d)'
  <2>1. Named(d)'
    BY <1>2, <1>3, NamedKept DEF TInv
  <2> QED
    BY <1>1, <1>2, <2>1 DEF Typed
<1> QED
  BY <1>4

LEMMA TypedInductive == TInv /\ [Next]_vars => TInv'
<1> SUFFICES ASSUME TInv, [Next]_vars PROVE TInv'
  OBVIOUS
<1>1. IInv'
  BY Inductive DEF TInv
<1>2. CASE UNCHANGED vars
  BY <1>1, <1>2, TypedFrame DEF vars, TInv
<1>3. ASSUME NEW m \in Messages, Dispatch(m) PROVE TInv'
  BY <1>1, <1>3, DispatchTyped DEF TInv, Dispatch
<1>4. ASSUME NEW d \in Rows, SendQueued(d) PROVE TInv'
  BY <1>1, <1>4, TypedFrame DEF TInv, SendQueued
<1>5. ASSUME NEW d \in Rows, DeliverQueued(d) \/ LoseDelivery(d) PROVE TInv'
  <2>1. /\ handed' \subseteq Rows /\ byGraph' \subseteq Rows /\ job' = job
        /\ lost' = lost \/ (lost < MaxLost /\ lost' = lost + 1)
    BY <1>5 DEF DeliverQueued, LoseDelivery, TInv
  <2>2. lost' \in 0..MaxLost
    BY <2>1, BoundAssumption DEF TInv
  <2> QED
    BY <1>1, <1>5, <2>1, <2>2, DeliverTyped DEF TInv
<1>6. CASE BeginRetry
  BY <1>1, <1>6, BeginTyped DEF TInv, BeginRetry
<1>7. ASSUME NEW d \in Rows, RetryOne(d) PROVE TInv'
  BY <1>1, <1>7, RetryOneTyped DEF TInv, RetryOne
<1>8. CASE CommitRetry
  BY <1>1, <1>8, CommitTyped DEF TInv, CommitRetry, Idle
<1>9. CASE LoseRetry
  <2>1. /\ row' = row /\ handed' = handed /\ byGraph' = byGraph
        /\ job'.todo = {} /\ DOMAIN job'.wrote = {} /\ lost' \in 0..MaxLost
    BY <1>9, BoundAssumption DEF LoseRetry, Idle, TInv
  <2>2. \A d \in Rows : Named(d)'
    BY <2>1, NamedKept DEF TInv
  <2> QED
    BY <1>1, <2>1, <2>2 DEF TInv, Typed
<1> QED
  BY <1>2, <1>3, <1>4, <1>5, <1>6, <1>7, <1>8, <1>9 DEF Next, Retry

(* The evidence of who was tried where is a chain without a gap: the row a *)
(* fallback names is there, of the same message and on a channel before,   *)
(* whatever was skipped, retried or killed; and no row is retried more     *)
(* often than the limit.                                                   *)
THEOREM TypeCorrect == Spec => []TypeOK
<1>1. TInv => TypeOK
  <2> SUFFICES ASSUME TInv PROVE TypeOK
    OBVIOUS
  <2>1. row \in [Rows -> Row \cup {NoRow}]
    BY DEF TInv, IInv, Shapes, Typed
  <2>2. job.todo \cup DOMAIN job.wrote \subseteq {d \in Rows : row[d] # NoRow}
    <3>1. \A d \in Rows : d \in job.todo \cup DOMAIN job.wrote => row[d].status # "none"
      BY DEF TInv, IInv, RowInv, Untold
    <3> QED
      BY <3>1 DEF TInv, NoRow
  <2> QED
    BY <2>1, <2>2 DEF TInv, IInv, Shapes, Typed, Named, TypeOK
<1> QED
  BY <1>1, InitTyped, TypedInductive, PTL DEF Spec

-----------------------------------------------------------------------------
(* What EverySettles counts down, beside the fairness it takes: a run that *)
(* comes to its end costs one retry of each row it took up, it lets go of  *)
(* none on the way, and nothing else changes the count or ends a dispatch. *)
InRun == job.todo \cup DOMAIN job.wrote

Costs(d) ==
  row[d] # NoRow =>
    /\ row'[d] # NoRow /\ row'[d].from = row[d].from
    /\ row'[d].retries = row[d].retries + IF CommitRetry /\ d \in InRun THEN 1 ELSE 0

EveryRunCosts ==
  [][/\ \A d \in Rows : Costs(d)
     /\ job.on /\ job'.on => InRun' = InRun]_vars

Paid(d) ==
  d \in DOMAIN job.wrote =>
    job.wrote[d].retries = row[d].retries + IF d \in job.todo THEN 0 ELSE 1

PInv == TInv /\ \A d \in Rows : Paid(d)

LEMMA PaidFrame ==
  ASSUME NEW d \in Rows, Paid(d), row'[d].retries = row[d].retries, job' = job
  PROVE  Paid(d)'
BY DEF Paid

(* Only the run at hand and its end touch the count.                       *)
LEMMA DispatchCosts ==
  ASSUME PInv, NEW m \in Messages, Dispatch(m)
  PROVE  \A d \in Rows : /\ row[d] # NoRow => row'[d] = row[d]
                        /\ Paid(d)'
<1>1. PICK out \in [Path(m) -> UNION {Outcomes(c) : c \in Path(m)}] :
        row' = [d \in Rows |->
             IF d[1] = m /\ d[2] \in Written(m, out)
             THEN [status |-> StatusAfter(out[d[2]]), retries |-> 0,
                   from |-> From(m, d[2], out)]
             ELSE row[d]]
  BY DEF Dispatch
<1>2. job' = job /\ \A c \in Path(m) : row[<<m, c>>] = NoRow
  BY DEF Dispatch
<1>3. ASSUME NEW d \in Rows, row[d] # NoRow PROVE row'[d] = row[d]
  <2>1. ~(d[1] = m /\ d[2] \in Path(m))
    BY <1>2, <1>3 DEF Rows
  <2>2. d[2] \notin Written(m, out) \/ d[1] # m
    BY <2>1 DEF Written, Reached
  <2> QED
    BY <1>1, <2>2
<1>4. ASSUME NEW d \in Rows PROVE Paid(d)'
  <2>1. CASE row[d] = NoRow
    <3>1. d \notin DOMAIN job.wrote
      BY <2>1 DEF PInv, TInv, IInv, RowInv, Untold, NoRow
    <3> QED
      BY <1>2, <3>1 DEF Paid
  <2>2. CASE row[d] # NoRow
    BY <1>2, <1>3, <2>2, PaidFrame DEF PInv
  <2> QED
    BY <2>1, <2>2
<1> QED
  BY <1>3, <1>4

LEMMA DeliverCosts ==
  ASSUME PInv, NEW d \in Rows, DeliverQueued(d) \/ LoseDelivery(d)
  PROVE  \A e \in Rows : /\ row[e] # NoRow =>
                             /\ row'[e] # NoRow /\ row'[e].from = row[e].from
                             /\ row'[e].retries = row[e].retries
                        /\ Paid(e)'
<1>1. /\ d \in handed /\ job' = job
      /\ row' = row \/ row' = [row EXCEPT ![d].status = "Failed"]
  BY DEF DeliverQueued, LoseDelivery
<1>2. \A e \in Rows : row'[e] = row[e] \/ row'[e] = [row[e] EXCEPT !.status = "Failed"]
  BY <1>1 DEF PInv, TInv, IInv, Shapes
<1>3. ASSUME NEW e \in Rows
      PROVE  /\ row[e] # NoRow => row'[e] # NoRow
             /\ row'[e].from = row[e].from /\ row'[e].retries = row[e].retries
  <2>1. row[e] = [status |-> row[e].status, retries |-> row[e].retries, from |-> row[e].from]
    BY DEF PInv, TInv, IInv, Shapes, IsRow
  <2>2. [row[e] EXCEPT !.status = "Failed"] =
          [status |-> "Failed", retries |-> row[e].retries, from |-> row[e].from]
    BY <2>1
  <2> QED
    BY <1>2, <2>2 DEF NoRow
<1> QED
  BY <1>1, <1>3, PaidFrame DEF PInv

LEMMA BeginCosts ==
  ASSUME PInv, BeginRetry
  PROVE  row' = row /\ \A d \in Rows : Paid(d)'
<1>1. /\ row' = row /\ job'.todo = Reopened \cup Due
      /\ job'.wrote = [d \in Reopened |-> [row[d] EXCEPT !.status = "Failed"]]
  BY DEF BeginRetry, Idle
<1>2. ASSUME NEW d \in Reopened PROVE job'.wrote[d].retries = row[d].retries + 0
  <2>1. row[d] = [status |-> row[d].status, retries |-> row[d].retries, from |-> row[d].from]
        /\ row[d].retries \in Nat
    BY RowIs DEF PInv, TInv, Typed, IInv, Shapes, IsRow, Reopened
  <2> QED
    BY <1>1, <2>1
<1> QED
  BY <1>1, <1>2 DEF Paid

LEMMA RetryOneCosts ==
  ASSUME PInv, NEW d \in Rows, RetryOne(d)
  PROVE  row' = row /\ InRun' = InRun /\ \A e \in Rows : Paid(e)'
<1>1. PICK o :
        /\ d \in job.todo
        /\ job' = [job EXCEPT
             !.todo = @ \ {d},
             !.wrote = [e \in DOMAIN @ \cup {d} |->
                         IF e = d THEN Retried(AtHand(d), o) ELSE @[e]],
             !.mailed = @ \cup (IF o = "queued" THEN {d} ELSE {}),
             !.kept = @ \cup (IF o = "kept" THEN {d} ELSE {}),
             !.took = @ \cup (IF o = "taken" THEN {d} ELSE {})]
        /\ byGraph' = IF o \in GraphOutcomes THEN byGraph \cup {d} ELSE byGraph
        /\ row' = row
  BY DEF RetryOne, AtHand
<1>2. /\ job'.todo = job.todo \ {d}
      /\ job'.wrote = [e \in DOMAIN job.wrote \cup {d} |->
                        IF e = d THEN Retried(AtHand(d), o) ELSE job.wrote[e]]
  <2>1. job = [on |-> job.on, todo |-> job.todo, wrote |-> job.wrote, mailed |-> job.mailed,
               kept |-> job.kept, took |-> job.took]
    BY DEF PInv, TInv, IInv, Shapes
  <2> QED
    BY <1>1, <2>1
<1>3. /\ DOMAIN job'.wrote = DOMAIN job.wrote \cup {d}
      /\ job'.wrote[d] = Retried(AtHand(d), o)
      /\ \A e \in DOMAIN job.wrote : e # d => job'.wrote[e] = job.wrote[e]
  BY <1>2
<1>4. IsRow(AtHand(d)) /\ AtHand(d).retries = row[d].retries /\ row[d].retries \in Nat
  <2>1. IsRow(AtHand(d)) /\ row[d].retries \in Nat
    BY RowIs DEF AtHand, PInv, TInv, Typed, IInv, Shapes
  <2>2. Paid(d)
    BY DEF PInv
  <2> QED
    BY <1>1, <2>1, <2>2 DEF AtHand, Paid
<1>5. job'.wrote[d].retries = row[d].retries + 1
  <2> DEFINE s == AtHand(d).status
             n == AtHand(d).retries
             f == AtHand(d).from
             x == IF o = "unavailable" THEN "Failed" ELSE StatusAfter(o)
  <2>1. AtHand(d) = [status |-> s, retries |-> n, from |-> f]
    BY <1>4 DEF IsRow
  <2> HIDE DEF s, f
  <2>2. Retried(AtHand(d), o) = [status |-> x, retries |-> n + 1, from |-> f]
    <3> HIDE DEF n
    <3> QED
      BY <2>1, RetriedRow
  <2> HIDE DEF x
  <2> QED
    BY <1>3, <1>4, <2>2
<1>6. InRun' = InRun
  BY <1>1, <1>2, <1>3 DEF InRun
<1>7. ASSUME NEW e \in Rows PROVE Paid(e)'
  <2>1. CASE e = d
    BY <1>1, <1>2, <1>5, <2>1 DEF Paid
  <2>2. CASE e # d
    BY <1>1, <1>2, <1>3, <2>2 DEF Paid, PInv
  <2> QED
    BY <2>1, <2>2
<1> QED
  BY <1>1, <1>6, <1>7

LEMMA CommitCosts ==
  ASSUME PInv, CommitRetry
  PROVE  /\ \A d \in Rows : Costs(d) /\ Paid(d)'
         /\ ~job'.on
<1>1. /\ \A d \in Rows : row'[d] = IF d \in DOMAIN job.wrote THEN job.wrote[d] ELSE row[d]
      /\ job.todo = {} /\ ~job'.on /\ DOMAIN job'.wrote = {}
  BY DEF CommitRetry, Idle
<1>2. ASSUME NEW d \in Rows, row[d] # NoRow PROVE Costs(d)
  <2>1. row[d].retries \in Nat /\ InRun = DOMAIN job.wrote
    BY <1>1, RowIs DEF InRun, PInv, TInv, Typed
  <2>2. CASE d \in DOMAIN job.wrote
    <3>1. /\ row'[d] = job.wrote[d] /\ job.wrote[d] \in Row
          /\ job.wrote[d].from = row[d].from
          /\ job.wrote[d].retries = row[d].retries + 1
      BY <1>1, <2>2 DEF PInv, Paid, TInv, Typed
    <3>2. row'[d] # NoRow
      BY <3>1 DEF Row, NoRow
    <3> QED
      BY <2>1, <2>2, <3>1, <3>2 DEF Costs
  <2>3. CASE d \notin DOMAIN job.wrote
    BY <1>1, <1>2, <2>1, <2>3 DEF Costs
  <2> QED
    BY <2>2, <2>3
<1> QED
  BY <1>1, <1>2 DEF Costs, Paid

(* No other step comes to the end of a run.                                *)
LEMMA NoOtherEnd ==
  ASSUME PInv, ~CommitRetry, NEW d \in Rows,
         row[d] # NoRow =>
           /\ row'[d] # NoRow /\ row'[d].from = row[d].from
           /\ row'[d].retries = row[d].retries
  PROVE  Costs(d)
BY RowIs DEF Costs, PInv, TInv, Typed

LEMMA SameRows ==
  ASSUME PInv, row' = row
  PROVE  \A d \in Rows : Costs(d)
<1>1. CASE CommitRetry
  BY <1>1, CommitCosts
<1>2. CASE ~CommitRetry
  BY <1>2, NoOtherEnd
<1> QED
  BY <1>1, <1>2

LEMMA CostsInductive ==
  ASSUME PInv, [Next]_vars
  PROVE  /\ PInv'
         /\ \A d \in Rows : Costs(d)
         /\ job.on /\ job'.on => InRun' = InRun
<1> DEFINE Goal == /\ \A d \in Rows : Costs(d) /\ Paid(d)'
                   /\ job.on /\ job'.on => InRun' = InRun
<1>1. TInv'
  BY TypedInductive DEF PInv
<1>2. ASSUME row' = row, job' = job PROVE Goal
  BY <1>2, SameRows, PaidFrame DEF PInv, InRun
<1>3. ASSUME NEW m \in Messages, Dispatch(m) PROVE Goal
  <2>1. job' = job
    BY <1>3 DEF Dispatch
  <2>2. ASSUME CommitRetry PROVE Goal
    BY <2>2, CommitCosts
  <2>3. ASSUME ~CommitRetry PROVE Goal
    BY <1>3, <2>1, <2>3, DispatchCosts, NoOtherEnd DEF InRun
  <2> QED
    BY <2>2, <2>3
<1>4. ASSUME NEW d \in Rows, SendQueued(d) PROVE Goal
  BY <1>2, <1>4 DEF SendQueued
<1>5. ASSUME NEW d \in Rows, DeliverQueued(d) \/ LoseDelivery(d) PROVE Goal
  <2>1. job' = job
    BY <1>5 DEF DeliverQueued, LoseDelivery
  <2>2. ASSUME CommitRetry PROVE Goal
    BY <2>2, CommitCosts
  <2>3. ASSUME ~CommitRetry PROVE Goal
    BY <1>5, <2>1, <2>3, DeliverCosts, NoOtherEnd DEF InRun
  <2> QED
    BY <2>2, <2>3
<1>6. ASSUME BeginRetry PROVE Goal
  <2>1. row' = row /\ ~job.on /\ \A d \in Rows : Paid(d)'
    BY <1>6, BeginCosts DEF BeginRetry
  <2> QED
    BY <2>1, SameRows
<1>7. ASSUME NEW d \in Rows, RetryOne(d) PROVE Goal
  BY <1>7, RetryOneCosts, SameRows
<1>8. ASSUME CommitRetry PROVE Goal
  BY <1>8, CommitCosts
<1>9. ASSUME LoseRetry PROVE Goal
  <2>1. row' = row /\ ~job'.on /\ DOMAIN job'.wrote = {}
    BY <1>9 DEF LoseRetry, Idle
  <2> QED
    BY <2>1, SameRows DEF Paid
<1>10. ASSUME UNCHANGED vars PROVE Goal
  BY <1>2, <1>10 DEF vars
<1>11. Goal
  BY <1>3, <1>4, <1>5, <1>6, <1>7, <1>8, <1>9, <1>10 DEF Next, Retry
<1> QED
  BY <1>1, <1>11 DEF PInv

(* Every run of the retries that ends brings each dispatch it took up one  *)
(* retry nearer to its limit, for any chain of channels: EveryRunCosts.    *)
THEOREM RetriesRunOut == Spec => EveryRunCosts
<1>1. Init => PInv
  <2> SUFFICES ASSUME Init PROVE PInv
    OBVIOUS
  <2>1. DOMAIN job.wrote = {}
    BY DEF Init, Idle
  <2> QED
    BY <2>1, InitTyped DEF PInv, Paid
<1>2. PInv /\ [Next]_vars => PInv'
  BY CostsInductive
<1>3. PInv /\ [Next]_vars =>
        [/\ \A d \in Rows : Costs(d)
         /\ job.on /\ job'.on => InRun' = InRun]_vars
  BY CostsInductive
<1> QED
  BY <1>1, <1>2, <1>3, PTL DEF Spec, EveryRunCosts
=============================================================================
