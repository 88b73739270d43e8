---------------------------- MODULE Notifications ---------------------------
(***************************************************************************)
(* apps/notifications: the tasks send_sms, send_email and notify_user, the   *)
(* NotificationLog rows that they write and the provider that they call.    *)
(*                                                                          *)
(* Tasks are acknowledged late: the message of a worker that is lost is      *)
(* delivered again, also after the worker has already queued its retry, so   *)
(* that a task may then run twice at a time.                                *)
(***************************************************************************)
EXTENDS Integers, FiniteSets

CONSTANTS
  SendTasks,    \* queued calls of send_sms_task or send_email_task
  NotifyTasks,  \* queued calls of notify_user_task
  Workers,      \* worker processes of the queue
  SmsTasks,     \* tasks that have a template and an address for the SMS
  EmailTasks,   \* tasks that have a template and an address for the e-mail
  MaxRetries,   \* max_retries of the tasks
  MaxDispatched, \* bound on the tasks that are dispatched
  MaxCrashes,   \* bound on the workers that are lost
  NoTask        \* the worker has no task

(* What is expected of the constants.                                       *)
LogGiven ==
  /\ SendTasks \cap NotifyTasks = {}
  /\ IsFiniteSet(Workers)
  /\ {MaxRetries, MaxDispatched, MaxCrashes} \subseteq Nat

ASSUME NotificationsAssumption == LogGiven

Tasks == SendTasks \cup NotifyTasks
Channels == {"SMS", "EMAIL"}
Status == {"PENDING", "SENT", "FAILED"}
Retries == 0..MaxRetries

VARIABLES
  queue,     \* messages in the broker, per task and request.retries
  work,      \* per worker: the message and the place in its task
  rows,      \* number of NotificationLog rows, per task, channel and status
  accepted,  \* number of messages that the provider has accepted
  outcome,   \* what Celery's result backend says of the task
  crashes    \* workers lost

logVars == <<queue, work, rows, accepted, outcome, crashes>>

Steps == {"create", "call", "mark", "retry", "ack"}
Results == {"none", "ok", "error", "retried", "failure"}

(* todo: the channels that the task has not finished with.                  *)
Work == [task : Tasks, retries : Retries, todo : SUBSET Channels,
         step : Steps, result : Results]

ASSUME IdleIsNoWork == NoTask \notin Work

LogTypeOK ==
  /\ queue \in [Tasks -> [Retries -> Nat]]
  /\ work \in [Workers -> Work \cup {NoTask}]
  /\ rows \in [Tasks -> [Channels -> [Status -> Nat]]]
  /\ accepted \in [Tasks -> [Channels -> Nat]]
  /\ outcome \in [Tasks -> {"none", "queued", "SUCCESS", "FAILURE"}]
  /\ crashes \in 0..MaxCrashes

LogInit ==
  /\ queue = [t \in Tasks |-> [r \in Retries |-> 0]]
  /\ work = [w \in Workers |-> NoTask]
  /\ rows = [t \in Tasks |-> [c \in Channels |-> [s \in Status |-> 0]]]
  /\ accepted = [t \in Tasks |-> [c \in Channels |-> 0]]
  /\ outcome = [t \in Tasks |-> "none"]
  /\ crashes = 0

-----------------------------------------------------------------------------
(* The dispatch_ functions and .delay().                                    *)
Dispatch(t) ==
  /\ outcome[t] = "none"
  /\ Cardinality({u \in Tasks : outcome[u] # "none"}) < MaxDispatched
  /\ outcome' = [outcome EXCEPT ![t] = "queued"]
  /\ queue' = [queue EXCEPT ![t][0] = @ + 1]
  /\ UNCHANGED <<work, rows, accepted, crashes>>

(* The one channel of a send task is called SMS, whichever of the two it is.*)
ChannelsOf(t) == IF t \in SendTasks THEN {"SMS"} ELSE Channels

Take(w, t, r) ==
  /\ work[w] = NoTask
  /\ queue[t][r] > 0
  /\ queue' = [queue EXCEPT ![t][r] = @ - 1]
  /\ work' = [work EXCEPT ![w] =
       [task |-> t, retries |-> r, todo |-> ChannelsOf(t), step |-> "create",
        result |-> "none"]]
  /\ UNCHANGED <<rows, accepted, outcome, crashes>>

At(w, step) == work[w] # NoTask /\ work[w].step = step

Goto(w, step, result) ==
  work' = [work EXCEPT ![w].step = step, ![w].result = result]

(* SMS first.                                                               *)
Channel(w) == IF "SMS" \in work[w].todo THEN "SMS" ELSE "EMAIL"

(* PAYMENT_RECEIPT has no SMS template; ORDER_PLACED, ESCROW_FROZEN,         *)
(* STORE_SUSPENDED and the LISTING_ events have none for the e-mail.        *)
HasTemplate(t, c) == t \in (IF c = "SMS" THEN SmsTasks ELSE EmailTasks)

(* notify_user goes on with its next channel.                               *)
NextChannel(w) ==
  LET rest == work[w].todo \ {Channel(w)}
  IN work' = [work EXCEPT
       ![w].todo = rest, ![w].result = "none",
       ![w].step = IF rest = {} THEN "ack" ELSE "create"]

-----------------------------------------------------------------------------
(* NotificationService.send_sms and send_email.                             *)

(* There is nothing to send: no row is written and None is returned, which  *)
(* a send task takes for a success.                                         *)
NoTemplate(w) ==
  /\ At(w, "create")
  /\ ~HasTemplate(work[w].task, Channel(w))
  /\ NextChannel(w)
  /\ UNCHANGED <<queue, rows, accepted, outcome, crashes>>

Create(w) ==
  /\ At(w, "create")
  /\ HasTemplate(work[w].task, Channel(w))
  /\ rows' = [rows EXCEPT ![work[w].task][Channel(w)]["PENDING"] = @ + 1]
  /\ Goto(w, "call", "none")
  /\ UNCHANGED <<queue, accepted, outcome, crashes>>

(* The provider accepts and says so, accepts but its answer is lost, or     *)
(* does not accept.                                                         *)
CallProvider(w) ==
  /\ At(w, "call")
  /\ \/ /\ \E result \in {"ok", "error"} : Goto(w, "mark", result)
        /\ accepted' = [accepted EXCEPT ![work[w].task][Channel(w)] = @ + 1]
     \/ /\ Goto(w, "mark", "error")
        /\ UNCHANGED accepted
  /\ UNCHANGED <<queue, rows, outcome, crashes>>

(* Variant: the tasks wait for the delivery report.                         *)
AfterMarkDelivered(w, status) ==
  IF work[w].task \in SendTasks THEN Goto(w, "retry", "none")
  ELSE NextChannel(w)

(* Only the send tasks look at the status of the row.                       *)
AfterMark(w, status) ==
  IF work[w].task \in SendTasks /\ status = "FAILED"
  THEN Goto(w, "retry", "none") ELSE NextChannel(w)

Mark(w, status) ==
  /\ rows' = [rows EXCEPT
       ![work[w].task][Channel(w)]["PENDING"] = @ - 1,
       ![work[w].task][Channel(w)][status] = @ + 1]
  /\ AfterMark(w, status)
  /\ UNCHANGED <<queue, accepted, outcome, crashes>>

MarkSent(w) ==
  /\ At(w, "mark")
  /\ work[w].result = "ok"
  /\ Mark(w, "SENT")

(* Also if saving SENT raises, although the provider has accepted.          *)
MarkFailed(w) == At(w, "mark") /\ Mark(w, "FAILED")

(* Creating the row raises, or saving its status does, twice: the row, if   *)
(* there is one, stays as it is, and the task is retried with all channels. *)
ServiceRaises(w) ==
  /\ \/ At(w, "create") /\ HasTemplate(work[w].task, Channel(w))
     \/ At(w, "mark")
  /\ Goto(w, "retry", "none")
  /\ UNCHANGED <<queue, rows, accepted, outcome, crashes>>

-----------------------------------------------------------------------------
(* Celery.                                                                  *)

(* self.retry queues the next attempt before this one is acknowledged.      *)
Retry(w) ==
  LET t == work[w].task
      r == work[w].retries
  IN /\ At(w, "retry")
     /\ IF r < MaxRetries
        THEN /\ queue' = [queue EXCEPT ![t][r + 1] = @ + 1]
             /\ Goto(w, "ack", "retried")
        ELSE Goto(w, "ack", "failure") /\ UNCHANGED queue
     /\ UNCHANGED <<rows, accepted, outcome, crashes>>

Ack(w) ==
  /\ At(w, "ack")
  /\ outcome' = CASE work[w].result = "none" ->
                       [outcome EXCEPT ![work[w].task] = "SUCCESS"]
                  [] work[w].result = "failure" ->
                       [outcome EXCEPT ![work[w].task] = "FAILURE"]
                  [] OTHER -> outcome
  /\ work' = [work EXCEPT ![w] = NoTask]
  /\ UNCHANGED <<queue, rows, accepted, crashes>>

(* CELERY_TASK_TIME_LIMIT: the task is acknowledged as failed.              *)
Kill(w) ==
  /\ work[w] # NoTask
  /\ outcome' = [outcome EXCEPT ![work[w].task] = "FAILURE"]
  /\ work' = [work EXCEPT ![w] = NoTask]
  /\ UNCHANGED <<queue, rows, accepted, crashes>>

(* Variant: tasks are acknowledged when they are taken.                     *)
CrashAcked(w) ==
  /\ work[w] # NoTask
  /\ crashes < MaxCrashes
  /\ crashes' = crashes + 1
  /\ work' = [work EXCEPT ![w] = NoTask]
  /\ UNCHANGED <<queue, rows, accepted, outcome>>

(* The worker is lost: CELERY_TASK_REJECT_ON_WORKER_LOST.                   *)
Crash(w) ==
  /\ work[w] # NoTask
  /\ crashes < MaxCrashes
  /\ crashes' = crashes + 1
  /\ queue' = [queue EXCEPT ![work[w].task][work[w].retries] = @ + 1]
  /\ work' = [work EXCEPT ![w] = NoTask]
  /\ UNCHANGED <<rows, accepted, outcome>>

-----------------------------------------------------------------------------
WorkerStep(w) ==
  \/ \E t \in Tasks, r \in Retries : Take(w, t, r)
  \/ NoTemplate(w) \/ Create(w) \/ CallProvider(w)
  \/ MarkSent(w) \/ MarkFailed(w) \/ ServiceRaises(w)
  \/ Retry(w) \/ Ack(w)

LogNext ==
  \/ \E t \in Tasks : Dispatch(t)
  \/ \E w \in Workers : WorkerStep(w) \/ Kill(w) \/ Crash(w)

(* Workers take what is queued and are done with it within the time limit.  *)
Fairness == \A w \in Workers : WF_logVars(WorkerStep(w))

LogSpec == LogInit /\ [][LogNext]_logVars /\ Fairness

-----------------------------------------------------------------------------
Sent(t, c) == rows[t][c]["SENT"]

RowsOf(t, c) == rows[t][c]["PENDING"] + rows[t][c]["SENT"] + rows[t][c]["FAILED"]

(* What the log tells the operators is true, whatever answers are lost and  *)
(* writes fail.  A SENT row stands for a message that the provider took,    *)
(* and every message it took has a row.  A send task whose result is        *)
(* SUCCESS has a SENT row, unless its event has no template, and has more   *)
(* than one only if a worker was lost.  A task makes MaxRetries + 1         *)
(* attempts, and as many for each worker lost.                              *)
LogIsTrue ==
  /\ \A t \in Tasks, c \in Channels :
       /\ Sent(t, c) <= accepted[t][c]
       /\ accepted[t][c] <= RowsOf(t, c)
       /\ RowsOf(t, c) <= (MaxRetries + 1) * (crashes + 1)
  /\ \A t \in SendTasks :
       /\ outcome[t] = "SUCCESS" /\ HasTemplate(t, "SMS") => Sent(t, "SMS") >= 1
       /\ Sent(t, "SMS") <= 1 + crashes

(* A dispatched SMS or e-mail ends with a SENT row or a task that is        *)
(* reported as failed, whatever providers refuse and workers are lost; one  *)
(* whose event has no template ends all the same, as a success.             *)
DispatchedIsResolved ==
  \A t \in SendTasks :
    outcome[t] = "queued" ~>
      \/ outcome[t] = "FAILURE"
      \/ IF HasTemplate(t, "SMS") THEN Sent(t, "SMS") >= 1
                                 ELSE outcome[t] = "SUCCESS"
=============================================================================
