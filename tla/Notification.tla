----------------------------- MODULE Notification -----------------------------
(***************************************************************************)
(* The Notification Dispatch rows that prove a person was told: dispatch,  *)
(* its fallback and the hourly retry of consilium_core/notification.py,    *)
(* and the two routes an email takes, the framework's mail queue and       *)
(* Microsoft Graph (consilium_core/integrations/graph_mail.py).            *)
(*                                                                         *)
(* The database is transactional and the mail services are not: a message  *)
(* Graph has taken stays taken when the job that sent it is killed and its *)
(* rows are rolled back.  Whether a channel can send, whether the person   *)
(* takes it, which route is chosen and what the service answers are read   *)
(* afresh each time, so they are inputs of the steps.                      *)
(***************************************************************************)
EXTENDS Naturals, Sequences, FiniteSets

CONSTANTS
  Messages,   \* the events, each for one recipient and one template
  Channels,   \* Notification Channel rows
  Adapter,    \* the adapter of a channel
  Fallback,   \* its fallback_channel, or NoChannel
  Target,     \* the channel of a message's template
  NoChannel,
  MaxRetries, \* MAX_RETRIES
  MaxLost     \* bounds the background jobs that are killed

Adapters == {"email", "in_app", "record_only"}

(* The channels a message may still go to after c.                         *)
Beyond[c \in Channels] ==
  IF Fallback[c] = NoChannel THEN {} ELSE {Fallback[c]} \cup Beyond[Fallback[c]]

ASSUME ChannelAssumption ==
  /\ NoChannel \notin Channels
  /\ Adapter \in [Channels -> Adapters]
  /\ Fallback \in [Channels -> Channels \cup {NoChannel}]
  /\ Target \in [Messages -> Channels]
(* _validate_no_fallback_cycle: no channels fall back on each other alone, *)
(* so every chain ends.                                                    *)
ASSUME ChainAssumption ==
  \A S \in SUBSET Channels : S # {} => \E c \in S : Fallback[c] \notin S
ASSUME BoundAssumption == MaxRetries \in Nat \ {0} /\ MaxLost \in Nat

(* A message has one row a channel at most: dispatch never returns to one  *)
(* it has seen.                                                            *)
Rows == Messages \X Channels

VARIABLES
  row,      \* the Notification Dispatch rows, NoRow where there is none
  queue,    \* the Email Queue rows that reference a row, oldest first
  handed,   \* rows whose deliver_queued job waits or runs
  job,      \* the run of retry_failed and what it has not committed
  copies,   \* how often a mail service, or the inbox, took a row's message
  unsure,   \* how many of these no row tells of
  byGraph,  \* rows that were ever sent by Graph
  lost      \* the jobs that were killed

vars == <<row, queue, handed, job, copies, unsure, byGraph, lost>>

-----------------------------------------------------------------------------
NoRow == [status |-> "none", retries |-> 0, from |-> NoChannel]

Row == [status: {"Sent", "Failed", "Suppressed"},
        retries: 0..MaxRetries,                \* retry_count
        from: Channels \cup {NoChannel}]       \* fallback_of

IsOpen(r) == r.status = "Failed"

(* The channels of a message, and those it sees before c.                  *)
Path(m) == {Target[m]} \cup Beyond[Target[m]]
Before(m, c) == {b \in Path(m) : c \in Beyond[b]}

(* What becomes of a message on one channel.  queued: in the mail queue.   *)
(* handed: Graph, from a web request, by a background job.  taken: by      *)
(* Graph, there and then.  timeout: taken by Graph, whose answer was lost. *)
(* kept: by the inbox, or by the row itself.                               *)
Attempts(c) ==
  CASE Adapter[c] = "email"  -> {"error", "queued", "handed", "taken", "timeout"}
    [] Adapter[c] = "in_app" -> {"error", "kept"}
    [] OTHER                 -> {"kept"}

Outcomes(c) ==
  Attempts(c) \cup {"inactive"}
    \cup (IF Adapter[c] = "email" THEN {"unavailable"} ELSE {})
    \cup (IF Adapter[c] = "record_only" THEN {} ELSE {"refused"})

StatusAfter(o) ==
  IF o \in {"inactive", "refused", "unavailable"} THEN "Suppressed"
  ELSE IF o \in {"error", "timeout"} THEN "Failed"
  ELSE "Sent"

HandsOn(o) == o \in {"unavailable", "refused", "error", "timeout"}

(* Those a service, the inbox or the row has the message after; by Graph.  *)
Taken == {"taken", "timeout", "kept"}
GraphOutcomes == {"handed", "taken", "timeout"}

-----------------------------------------------------------------------------
Idle == [on |-> FALSE, todo |-> {}, wrote |-> << >>, mailed |-> {},
         kept |-> {}, took |-> {}]

Init ==
  /\ row = [d \in Rows |-> NoRow]
  /\ queue = [d \in Rows |-> << >>]
  /\ handed = {} /\ byGraph = {}
  /\ job = Idle
  /\ copies = [d \in Rows |-> 0]
  /\ unsure = [d \in Rows |-> 0]
  /\ lost = 0

-----------------------------------------------------------------------------
(* dispatch, down the whole chain.  A channel that cannot send hands on    *)
(* without a row if there is somewhere to hand on to; the row of the next  *)
(* one then names the row it would have named.  An inactive channel ends   *)
(* the chain.                                                              *)
Reached(m, out) == {c \in Path(m) : \A b \in Before(m, c) : HandsOn(out[b])}

Written(m, out) ==
  {c \in Reached(m, out) : out[c] = "unavailable" => Fallback[c] = NoChannel}

(* Mutant: the channel before, which may have handed on without a row.     *)
MutantFrom(m, c, out) ==
  IF Before(m, c) = {} THEN NoChannel
  ELSE CHOOSE b \in Before(m, c) : \A e \in Before(m, c) \ {b} : b \in Beyond[e]
From(m, c, out) ==
  LET earlier == Before(m, c) \cap Written(m, out)
  IN IF earlier = {} THEN NoChannel
     ELSE CHOOSE b \in earlier : \A e \in earlier \ {b} : b \in Beyond[e]

Dispatch(m) ==
  /\ \A c \in Path(m) : row[<<m, c>>] = NoRow
  /\ \E out \in [Path(m) -> UNION {Outcomes(c) : c \in Path(m)}] :
       LET is(d, S) == d[1] = m /\ d[2] \in Written(m, out) /\ out[d[2]] \in S
       IN /\ \A c \in Path(m) :
               out[c] \in IF c \in Reached(m, out) THEN Outcomes(c) ELSE {"kept"}
          /\ row' = [d \in Rows |->
               IF d[1] = m /\ d[2] \in Written(m, out)
               THEN [status |-> StatusAfter(out[d[2]]), retries |-> 0,
                     from |-> From(m, d[2], out)]
               ELSE row[d]]
          /\ queue' = [d \in Rows |-> IF is(d, {"queued"}) THEN <<"waiting">> ELSE queue[d]]
          /\ handed' = handed \cup {d \in Rows : is(d, {"handed"})}
          /\ byGraph' = byGraph \cup {d \in Rows : is(d, GraphOutcomes)}
          /\ copies' = [d \in Rows |-> IF is(d, Taken) THEN 1 ELSE copies[d]]
          /\ unsure' = [d \in Rows |-> IF is(d, {"timeout"}) THEN 1 ELSE unsure[d]]
          /\ UNCHANGED <<job, lost>>

(* The framework's mail queue sends what waits in it, or gives up.         *)
Last(q) == q[Len(q)]

SendQueued(d) ==
  \E i \in DOMAIN queue[d], answer \in {"sent", "refused"} :
    /\ queue[d][i] = "waiting"
    /\ queue' = [queue EXCEPT ![d][i] = answer]
    /\ copies' = [copies EXCEPT ![d] = @ + IF answer = "sent" THEN 1 ELSE 0]
    /\ UNCHANGED <<row, handed, job, unsure, byGraph, lost>>

(* deliver_queued: the background job of one row.  A failure reopens it.   *)
DeliverQueued(d) ==
  \E answer \in {"taken", "timeout", "error"} :
    /\ d \in handed
    /\ handed' = handed \ {d}
    /\ row' = IF answer = "taken" THEN row ELSE [row EXCEPT ![d].status = "Failed"]
    /\ copies' = [copies EXCEPT ![d] = @ + IF answer = "error" THEN 0 ELSE 1]
    /\ unsure' = [unsure EXCEPT ![d] = @ + IF answer = "timeout" THEN 1 ELSE 0]
    /\ UNCHANGED <<queue, job, byGraph, lost>>

(* The worker is killed, or the job queue is lost, before the message is   *)
(* sent or after.  Nobody starts the job again.                            *)
LoseDelivery(d) ==
  /\ d \in handed /\ lost < MaxLost
  /\ lost' = lost + 1
  /\ handed' = handed \ {d}
  /\ copies' \in {copies, [copies EXCEPT ![d] = @ + 1]}
  /\ UNCHANGED <<row, queue, job, unsure, byGraph>>

-----------------------------------------------------------------------------
(* retry_failed, one run an hour: the scheduler enqueues a job under one   *)
(* id, so two runs never overlap.  First the rows whose latest message the *)
(* mail server refused are reopened, then every open row is tried again,   *)
(* and all of it is committed at the end.                                  *)

(* Mutant: an earlier refusal reopens a row already sent again.            *)
MutantRefused(q) == \E i \in DOMAIN q : q[i] = "refused"
Refused(q) == q # << >> /\ Last(q) = "refused"

Reopened ==
  {d \in Rows : /\ row[d] # NoRow /\ ~IsOpen(row[d]) /\ row[d].retries < MaxRetries
                /\ Refused(queue[d])}

Due == {d \in Rows : IsOpen(row[d]) /\ row[d].retries < MaxRetries}

BeginRetry ==
  /\ ~job.on
  /\ Reopened \cup Due # {}
  /\ job' = [Idle EXCEPT !.on = TRUE,
                !.todo = Reopened \cup Due,
                !.wrote = [d \in Reopened |-> [row[d] EXCEPT !.status = "Failed"]]]
  /\ UNCHANGED <<row, queue, handed, copies, unsure, byGraph, lost>>

(* Mutant: a channel that cannot send costs no retry.                      *)
MutantRetried(r, o) ==
  IF o = "unavailable" THEN r
  ELSE [r EXCEPT !.retries = @ + 1, !.status = StatusAfter(o)]
Retried(r, o) ==
  [r EXCEPT !.retries = @ + 1,
            !.status = IF o = "unavailable" THEN "Failed" ELSE StatusAfter(o)]

(* Neither the person's refusal nor an inactive channel is looked at again *)
(* and there is no fallback; outside a web request nothing is handed on.   *)
RetryOne(d) ==
  \E o \in (Attempts(d[2]) \ {"handed"})
             \cup (IF Adapter[d[2]] = "email" THEN {"unavailable"} ELSE {}) :
    /\ d \in job.todo
    /\ LET mine == IF d \in DOMAIN job.wrote THEN job.wrote[d] ELSE row[d]
       IN job' = [job EXCEPT
            !.todo = @ \ {d},
            !.wrote = [e \in DOMAIN @ \cup {d} |-> IF e = d THEN Retried(mine, o) ELSE @[e]],
            !.mailed = @ \cup (IF o = "queued" THEN {d} ELSE {}),
            !.kept = @ \cup (IF o = "kept" THEN {d} ELSE {}),
            !.took = @ \cup (IF o = "taken" THEN {d} ELSE {})]
    /\ copies' = [copies EXCEPT ![d] = @ + IF o \in {"taken", "timeout"} THEN 1 ELSE 0]
    /\ unsure' = [unsure EXCEPT ![d] = @ + IF o = "timeout" THEN 1 ELSE 0]
    /\ byGraph' = IF o \in GraphOutcomes THEN byGraph \cup {d} ELSE byGraph
    /\ UNCHANGED <<row, queue, handed, lost>>

CommitRetry ==
  /\ job.on /\ job.todo = {}
  /\ row' = [d \in Rows |-> IF d \in DOMAIN job.wrote THEN job.wrote[d] ELSE row[d]]
  /\ queue' = [d \in Rows |-> IF d \in job.mailed THEN Append(queue[d], "waiting") ELSE queue[d]]
  /\ copies' = [d \in Rows |-> IF d \in job.kept THEN copies[d] + 1 ELSE copies[d]]
  /\ job' = Idle
  /\ UNCHANGED <<handed, unsure, byGraph, lost>>

(* The run is killed, or a save meets a concurrent change: its rows are    *)
(* rolled back, what Graph has taken is not.                               *)
LoseRetry ==
  /\ job.on /\ lost < MaxLost
  /\ lost' = lost + 1
  /\ unsure' = [d \in Rows |-> IF d \in job.took THEN unsure[d] + 1 ELSE unsure[d]]
  /\ job' = Idle
  /\ UNCHANGED <<row, queue, handed, copies, byGraph>>

-----------------------------------------------------------------------------
Retry == BeginRetry \/ (\E d \in Rows : RetryOne(d)) \/ CommitRetry

Next ==
  \/ \E m \in Messages : Dispatch(m)
  \/ \E d \in Rows : SendQueued(d) \/ DeliverQueued(d) \/ LoseDelivery(d)
  \/ Retry
  \/ LoseRetry

(* The scheduler starts the hourly job again and again and a run that is   *)
(* not killed comes to its end.  Nothing else is assumed: not that people  *)
(* act, that the mail queue moves or that a service ever takes a message.  *)
Spec == Init /\ [][Next]_vars /\ WF_vars(Retry)

-----------------------------------------------------------------------------
(* The types; retries are counted up to the limit; the run at hand works   *)
(* on rows that exist; and a fallback names an earlier row of its message, *)
(* across channels that handed on without one: the evidence of who was     *)
(* tried where is a chain without a gap.                                   *)
TypeOK ==
  /\ row \in [Rows -> Row \cup {NoRow}]
  /\ queue \in [Rows -> Seq({"waiting", "sent", "refused"})]
  /\ handed \subseteq Rows /\ byGraph \subseteq Rows
  /\ copies \in [Rows -> Nat] /\ unsure \in [Rows -> Nat]
  /\ lost \in 0..MaxLost
  /\ job.todo \cup DOMAIN job.wrote \subseteq {d \in Rows : row[d] # NoRow}
  /\ \A d \in Rows : row[d].from # NoChannel =>
       /\ d[2] \in Beyond[row[d].from]
       /\ row[<<d[1], row[d].from>>] # NoRow

(* Nobody is told twice by one dispatch: a mail service or the inbox takes *)
(* its message once, whatever is refused, retried, killed and reopened,    *)
(* beyond the acceptances nothing in the database can know of: an answer   *)
(* of Graph that was lost, a run killed after Graph took the message.      *)
(* Only a dispatch that both routes have carried is left out: its latest   *)
(* row in the mail queue stays the refused one.                            *)
TakenOnce ==
  \A d \in Rows :
    (d \in byGraph => queue[d] = << >>) => copies[d] <= 1 + unsure[d]

(* No dispatch is retried for ever and none is forgotten: one that is open *)
(* or whose message the mail server has refused comes to be sent again, or *)
(* has used up its retries, even if the channel never works again.         *)
Settled(d) ==
  \/ row[d].retries = MaxRetries
  \/ row[d].status # "Failed" /\ (queue[d] # << >> => Last(queue[d]) # "refused")

EverySettles == \A d \in Rows : ~Settled(d) ~> Settled(d)
=============================================================================
