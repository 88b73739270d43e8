------------------------------ MODULE Payments ------------------------------
(***************************************************************************)
(* apps/payments: the collection attempts for one order, the provider's     *)
(* webhooks, the polls that stand in for them, and the Celery task that     *)
(* turns a confirmed attempt into held funds.                               *)
(*                                                                          *)
(* Webhook handlers and hold tasks run concurrently.  A handler's steps are *)
(* separate database transactions; only the row update of                   *)
(* _handle_webhook_event is atomic.  Webhooks are sent any number of times, *)
(* in any order, which may be before initiate_collection has saved the      *)
(* provider's reference; a poll that fails tells of a failure nobody        *)
(* decided.  Celery delivers a queued task at least once                    *)
(* (CELERY_TASK_ACKS_LATE).                                                 *)
(*                                                                          *)
(* Attempts are keyed by attempt_number, events and locks by the provider's *)
(* reference: see Ref.                                                      *)
(***************************************************************************)
EXTENDS Integers, FiniteSets

CONSTANTS TheOrder, FeePercent, MlScores, NoScore, MaxVersion,
          Total,        \* total_amount
          MaxAttempts,  \* MAX_COLLECTION_ATTEMPTS
          ViaAirtel,    \* the attempts made through Airtel, the others go to MTN
          Handlers,     \* webhook requests and polls being processed
          HoldWorkers,  \* Celery workers of the payments queue
          Nobody,       \* a lock is free, a worker has no task
          MaxRetries,   \* max_retries of the hold task
          MaxCrashes    \* bound on handlers that die or fail

ASSUME TotalAssumption == Total \in Nat \ {0}
ASSUME AttemptsAssumption ==
  /\ ViaAirtel \subseteq 1..MaxAttempts
  /\ MaxAttempts \in Nat /\ MaxRetries \in Nat /\ MaxCrashes \in Nat
ASSUME WorkersAssumption ==
  IsFiniteSet(HoldWorkers) /\ Nobody \notin 1..MaxAttempts
ASSUME ServiceAssumption == FeePercent \in 0..100 /\ MaxVersion \in Nat

VARIABLES account, ledger, hold, gateLog, raised

E == INSTANCE Escrow WITH Accounts <- {TheOrder}, Amounts <- {Total}

Attempts == 1..MaxAttempts

(* The MTN client draws a fresh UUID per call.  Airtel is given the first   *)
(* 20 characters of "COLLECT-<account>-<n>", which end inside <account>, so *)
(* that the attempts of one account have one transaction id, 0.             *)
Ref(n) == IF n \in ViaAirtel THEN 0 ELSE n

Refs == 0..MaxAttempts

VARIABLES
  order,      \* Order.status
  checked,    \* attempt numbers a request has computed and will insert
  attempt,    \* PaymentAttempt: its status, and is provider_reference saved
  result,     \* what the provider call returned, until it is saved
  provider,   \* what the provider made of the attempt (external)
  event,      \* WebhookEvent.status, per reference
  lock,       \* webhook_processing_lock, per reference
  handler,    \* per handler: where it is, the attempt it was told about and
              \* what, the row it found for it and that row's status
  queue,      \* hold tasks not yet acknowledged, per attempt
  running,    \* per hold worker, the attempt whose task it runs
  retries,    \* transient failures of hold tasks so far
  crashes     \* handlers that died or failed so far

escrowVars   == <<account, ledger, hold, gateLog, raised>>
attemptVars  == <<checked, attempt, result, provider>>
handlerVars  == <<event, lock, handler, crashes>>
taskVars     == <<queue, running, retries>>
vars == <<escrowVars, order, attemptVars, handlerVars, taskVars>>

AttemptStatus == {"none", "INITIATED", "PENDING", "SUCCESS", "FAILED", "TIMEOUT"}

Notes(pc, n, told) ==
  [pc |-> pc, n |-> n, told |-> told, row |-> 0, seen |-> "none"]

Idle == Notes("idle", 0, "nothing")

TypeOK ==
  /\ E!TypeOK
  /\ order \in {"DRAFT", "PENDING_PAYMENT", "PAYMENT_RECEIVED", "PROCESSING",
                "CANCELLED"}
  /\ checked \subseteq Attempts
  /\ attempt \in [Attempts -> [status : AttemptStatus, known : BOOLEAN]]
  /\ result \in [Attempts -> {"none", "PENDING", "FAILED", "TIMEOUT", "saved"}]
  /\ provider \in [Attempts -> {"none", "asked", "paid", "declined"}]
  /\ event \in [Refs ->
       {"none", "RECEIVED", "PROCESSED", "DUPLICATE", "ERROR"}]
  /\ lock \in [Refs -> Handlers \cup {Nobody}]
  /\ handler \in [Handlers ->
       [pc : {"idle", "polling", "received", "locked", "read", "dispatch",
              "unlock"},
        n : 0..MaxAttempts, told : {"nothing", "success", "failure", "other"},
        row : 0..MaxAttempts, seen : AttemptStatus]]
  /\ queue \in [Attempts -> Nat]
  /\ running \in [HoldWorkers -> Attempts \cup {Nobody}]
  /\ retries \in 0..MaxRetries
  /\ crashes \in 0..MaxCrashes

Init ==
  /\ E!Init
  /\ order = "DRAFT"
  /\ checked = {}
  /\ attempt = [n \in Attempts |-> [status |-> "none", known |-> FALSE]]
  /\ result = [n \in Attempts |-> "none"]
  /\ provider = [n \in Attempts |-> "none"]
  /\ event = [n \in Refs |-> "none"]
  /\ lock = [n \in Refs |-> Nobody]
  /\ handler = [h \in Handlers |-> Idle]
  /\ queue = [n \in Attempts |-> 0]
  /\ running = [w \in HoldWorkers |-> Nobody]
  /\ retries = 0
  /\ crashes = 0

-----------------------------------------------------------------------------
(* The order and its account, as far as they matter here (see Marketplace). *)

SubmitOrder ==
  /\ order = "DRAFT"
  /\ E!CreateAccount(TheOrder)
  /\ order' = "PENDING_PAYMENT"
  /\ UNCHANGED <<attemptVars, handlerVars, taskVars>>

(* A cancellation may have read the order before the payment arrived, and   *)
(* staff may cancel up to PROCESSING.                                       *)
CancelOrder ==
  /\ order \in {"DRAFT", "PENDING_PAYMENT", "PAYMENT_RECEIVED", "PROCESSING"}
  /\ order' = "CANCELLED"
  /\ UNCHANGED <<escrowVars, attemptVars, handlerVars, taskVars>>

AcknowledgeOrder ==
  /\ order = "PAYMENT_RECEIVED"
  /\ order' = "PROCESSING"
  /\ UNCHANGED <<escrowVars, attemptVars, handlerVars, taskVars>>

FreezeAccount ==
  /\ E!Freeze(TheOrder)
  /\ UNCHANGED <<order, attemptVars, handlerVars, taskVars>>

-----------------------------------------------------------------------------
(* PaymentService.initiate_collection                                       *)

Unsuccessful ==
  {n \in Attempts : attempt[n].status \notin {"none", "SUCCESS"}}

(* The checks: no successful collection, the order can be paid, fewer than  *)
(* MaxAttempts other attempts; they also fix the attempt's number.          *)
CheckCollection ==
  /\ \A n \in Attempts : attempt[n].status # "SUCCESS"
  /\ order = "PENDING_PAYMENT"
  /\ Cardinality(Unsuccessful) < MaxAttempts
  /\ checked' = checked \cup {Cardinality(Unsuccessful) + 1}
  /\ UNCHANGED <<escrowVars, order, attempt, result, provider, handlerVars,
                 taskVars>>

(* Variant: the reference is stored with the row, before the call.          *)
CreateWithReference(n) ==
  /\ n \in checked
  /\ checked' = checked \ {n}
  /\ attempt' = IF attempt[n].status = "none"
                  THEN [attempt EXCEPT ![n] =
                          [status |-> "INITIATED", known |-> TRUE]]
                  ELSE attempt
  /\ UNCHANGED <<escrowVars, order, result, provider, handlerVars, taskVars>>

(* The audit row; its idempotency_key, made from n, is unique.              *)
CreateAttempt(n) ==
  /\ n \in checked
  /\ checked' = checked \ {n}
  /\ attempt' = IF attempt[n].status = "none"
                  THEN [attempt EXCEPT ![n].status = "INITIATED"]
                  ELSE attempt
  /\ UNCHANGED <<escrowVars, order, result, provider, handlerVars, taskVars>>

(* The API call, outside any transaction.  What it returns says little of   *)
(* whether the buyer was asked: a timeout or a lost connection (FAILED) may *)
(* come after the request got through, and the Airtel client takes every    *)
(* 200 for accepted.  An open circuit breaker or an exception leaves the    *)
(* attempt INITIATED.                                                       *)
CallProvider(n) ==
  /\ attempt[n].status = "INITIATED"
  /\ result[n] = "none"
  /\ \E outcome \in {"PENDING", "FAILED", "TIMEOUT"} :
       result' = [result EXCEPT ![n] = outcome]
  /\ \E asked \in {"asked", "none"} :
       provider' = [provider EXCEPT ![n] = asked]
  /\ UNCHANGED <<escrowVars, order, checked, attempt, handlerVars, taskVars>>

(* The result and the reference are saved together, over whatever is there. *)
SaveResult(n) ==
  /\ result[n] \notin {"none", "saved"}
  /\ attempt' = [attempt EXCEPT ![n] = [status |-> result[n], known |-> TRUE]]
  /\ result' = [result EXCEPT ![n] = "saved"]
  /\ UNCHANGED <<escrowVars, order, checked, provider, handlerVars, taskVars>>

(* The buyer approves or declines the prompt (external).                    *)
BuyerDecides(n) ==
  /\ provider[n] = "asked"
  /\ \E outcome \in {"paid", "declined"} :
       provider' = [provider EXCEPT ![n] = outcome]
  /\ UNCHANGED <<escrowVars, order, checked, attempt, result, handlerVars,
                 taskVars>>

-----------------------------------------------------------------------------
(* PaymentService.process_webhook, one handler.                             *)

At(h, pc) == handler[h].pc = pc

Goto(h, pc) == handler' = [handler EXCEPT ![h].pc = pc]

RefOf(h) == Ref(handler[h].n)

Mark(ref, status) == event' = [event EXCEPT ![ref] = status]

(* The provider has something of that kind under the reference of n.        *)
HasUnderRef(n, outcomes) ==
  \E m \in Attempts : Ref(m) = Ref(n) /\ provider[m] \in outcomes

PaidUnderRef(n) == HasUnderRef(n, {"paid"})

(* process_webhook begins with the event: one that was processed is only    *)
(* marked, whatever the handler was told.                                   *)
Accept(h, n, told) ==
  /\ IF event[Ref(n)] \in {"PROCESSED", "DUPLICATE"}
       THEN /\ Mark(Ref(n), "DUPLICATE")
            /\ handler' = [handler EXCEPT ![h] = Idle]
       ELSE /\ IF event[Ref(n)] = "none"
                 THEN Mark(Ref(n), "RECEIVED") ELSE UNCHANGED event
            /\ handler' = [handler EXCEPT ![h] = Notes("received", n, told)]
  /\ UNCHANGED <<escrowVars, order, attemptVars, lock, crashes, taskVars>>

(* A webhook arrives: of a payment, of a refusal, or with a status that is  *)
(* neither (PENDING, UNKNOWN).                                              *)
Receive(h, n) ==
  /\ At(h, "idle")
  /\ \/ PaidUnderRef(n) /\ Accept(h, n, "success")
     \/ HasUnderRef(n, {"declined"}) /\ Accept(h, n, "failure")
     \/ HasUnderRef(n, {"asked", "paid", "declined"}) /\ Accept(h, n, "other")

(* poll_pending_payment_status finds the attempt PENDING with a reference.  *)
Poll(h, n) ==
  /\ At(h, "idle")
  /\ attempt[n].status = "PENDING" /\ attempt[n].known
  /\ handler' = [handler EXCEPT ![h] = Notes("polling", n, "nothing")]
  /\ UNCHANGED <<escrowVars, order, attemptVars, event, lock, crashes, taskVars>>

(* The answer goes where a webhook would, unless it is PENDING or TP.  The  *)
(* clients answer FAILED or TF whenever the request itself goes wrong.      *)
PollAnswer(h) ==
  /\ At(h, "polling")
  /\ \/ PaidUnderRef(handler[h].n) /\ Accept(h, handler[h].n, "success")
     \/ Accept(h, handler[h].n, "failure")
     \/ Accept(h, handler[h].n, "other")
     \/ /\ handler' = [handler EXCEPT ![h] = Idle]
        /\ UNCHANGED <<escrowVars, order, attemptVars, event, lock, crashes,
                       taskVars>>

(* webhook_processing_lock; is_already_processed is never true, because     *)
(* mark_as_processed has no caller.                                         *)
TakeLock(h) ==
  /\ At(h, "received")
  /\ lock[RefOf(h)] = Nobody
  /\ lock' = [lock EXCEPT ![RefOf(h)] = h]
  /\ Goto(h, "locked")
  /\ UNCHANGED <<escrowVars, order, attemptVars, event, crashes, taskVars>>

(* WebhookConcurrentProcessingError ends in mark_error.                     *)
FindLocked(h) ==
  /\ At(h, "received")
  /\ lock[RefOf(h)] # Nobody
  /\ Mark(RefOf(h), "ERROR")
  /\ handler' = [handler EXCEPT ![h] = Idle]
  /\ UNCHANGED <<escrowVars, order, attemptVars, lock, crashes, taskVars>>

(* The attempt is looked up by the reference: the newest row that has it.   *)
Matching(ref) == {m \in Attempts : attempt[m].known /\ Ref(m) = ref}

ReadAttempt(h) ==
  /\ At(h, "locked")
  /\ \/ /\ Matching(RefOf(h)) = {}
        /\ Goto(h, "read")
     \/ \E m \in Matching(RefOf(h)) :
          /\ \A k \in Matching(RefOf(h)) : k <= m
          /\ handler' = [handler EXCEPT ![h] =
               [pc |-> "read", n |-> @.n, told |-> @.told, row |-> m,
                seen |-> attempt[m].status]]
  /\ UNCHANGED <<escrowVars, order, attemptVars, event, lock, crashes, taskVars>>

(* The transaction of _handle_webhook_event: decided on the copy, written   *)
(* over the row, for a status that is neither success nor failure too.      *)
Record(h, status) ==
  /\ attempt' = [attempt EXCEPT ![handler[h].row].status = status]
  /\ Mark(RefOf(h), "PROCESSED")

Told(h, told) == handler[h].row # 0 /\ handler[h].told = told

(* Variant: whatever is not a failure is a success.                         *)
ApplyUnlessFailed(h) ==
  /\ At(h, "read") /\ handler[h].row # 0 /\ handler[h].told # "failure"
  /\ Record(h, "SUCCESS")
  /\ Goto(h, "dispatch")
  /\ UNCHANGED <<escrowVars, order, checked, result, provider, lock, crashes,
                 taskVars>>

Apply(h) ==
  /\ At(h, "read")
  /\ \/ /\ handler[h].row = 0
        /\ Mark(RefOf(h), "PROCESSED")
        /\ Goto(h, "unlock")
        /\ UNCHANGED attempt
     \/ /\ Told(h, "success") /\ handler[h].seen = "SUCCESS"
        /\ Mark(RefOf(h), "DUPLICATE")
        /\ Goto(h, "unlock")
        /\ UNCHANGED attempt
     \/ /\ Told(h, "success") /\ handler[h].seen # "SUCCESS"
        /\ Record(h, "SUCCESS")
        /\ Goto(h, "dispatch")
     \/ /\ Told(h, "failure")
        /\ Record(h, "FAILED")
        /\ Goto(h, "unlock")
     \/ /\ Told(h, "other")
        /\ Record(h, handler[h].seen)
        /\ Goto(h, "unlock")
  /\ UNCHANGED <<escrowVars, order, checked, result, provider, lock, crashes,
                 taskVars>>

(* trigger_escrow_hold_on_payment_success.delay, after the transaction.     *)
Dispatch(h) ==
  /\ At(h, "dispatch")
  /\ queue' = [queue EXCEPT ![handler[h].row] = @ + 1]
  /\ Goto(h, "unlock")
  /\ UNCHANGED <<escrowVars, order, attemptVars, event, lock, crashes,
                 running, retries>>

(* cache.delete, whoever holds the key now.                                 *)
Unlock(h) ==
  /\ At(h, "unlock")
  /\ lock' = [lock EXCEPT ![RefOf(h)] = Nobody]
  /\ handler' = [handler EXCEPT ![h] = Idle]
  /\ UNCHANGED <<escrowVars, order, attemptVars, event, crashes, taskVars>>

(* An exception (the database, the broker) passes through the lock's        *)
(* finally and is marked on the event, whatever its status was; what was    *)
(* committed stays.                                                         *)
Fail(h) ==
  /\ handler[h].pc \in {"locked", "read", "dispatch"}
  /\ crashes < MaxCrashes
  /\ crashes' = crashes + 1
  /\ lock' = [lock EXCEPT ![RefOf(h)] = Nobody]
  /\ Mark(RefOf(h), "ERROR")
  /\ handler' = [handler EXCEPT ![h] = Idle]
  /\ UNCHANGED <<escrowVars, order, attemptVars, taskVars>>

(* The process dies between any two steps; the lock key stays ...           *)
Crash(h) ==
  /\ ~At(h, "idle")
  /\ crashes < MaxCrashes
  /\ crashes' = crashes + 1
  /\ handler' = [handler EXCEPT ![h] = Idle]
  /\ UNCHANGED <<escrowVars, order, attemptVars, event, lock, taskVars>>

(* ... until its TTL, which also runs out under a handler that takes more   *)
(* than 30 seconds.                                                         *)
ExpireLock(ref) ==
  /\ lock[ref] # Nobody
  /\ lock' = [lock EXCEPT ![ref] = Nobody]
  /\ UNCHANGED <<escrowVars, order, attemptVars, event, handler, crashes,
                 taskVars>>

-----------------------------------------------------------------------------
(* trigger_escrow_hold_on_payment_success and OrderService.confirm_payment  *)

(* A task in the queue that no worker is running.                           *)
Waiting(n) ==
  queue[n] - Cardinality({w \in HoldWorkers : running[w] = n}) > 0

Ack(n) == queue' = [queue EXCEPT ![n] = @ - 1]

(* The order is already paid: the task returns.                             *)
SkipTask(w, n) ==
  /\ running[w] = Nobody /\ Waiting(n)
  /\ order = "PAYMENT_RECEIVED"
  /\ Ack(n)
  /\ UNCHANGED <<escrowVars, order, attemptVars, handlerVars, running, retries>>

(* The order can no longer be paid: every retry fails like this one, and    *)
(* the task is given up.                                                    *)
GiveUpTask(w, n) ==
  /\ running[w] = Nobody /\ Waiting(n)
  /\ order \notin {"PENDING_PAYMENT", "PAYMENT_RECEIVED"}
  /\ Ack(n)
  /\ UNCHANGED <<escrowVars, order, attemptVars, handlerVars, running, retries>>

(* The order is read, unlocked, and passes the checks ...                   *)
StartTask(w, n) ==
  /\ running[w] = Nobody /\ Waiting(n)
  /\ order = "PENDING_PAYMENT"
  /\ running' = [running EXCEPT ![w] = n]
  /\ UNCHANGED <<escrowVars, order, attemptVars, handlerVars, queue, retries>>

(* ... and is paid in the transaction that holds the funds ...              *)
HoldFunds(w) ==
  /\ running[w] # Nobody
  /\ E!HoldFunds(TheOrder, Total)
  /\ order' = "PAYMENT_RECEIVED"
  /\ Ack(running[w])
  /\ running' = [running EXCEPT ![w] = Nobody]
  /\ UNCHANGED <<attemptVars, handlerVars, retries>>

(* ... unless the account is no longer PENDING: the task is retried, and    *)
(* for an account that was frozen unpaid it fails until it is given up.     *)
HoldRefused(w) ==
  /\ running[w] # Nobody
  /\ ~E!CanMove(TheOrder, "HELD")
  /\ running' = [running EXCEPT ![w] = Nobody]
  /\ IF order = "PENDING_PAYMENT" THEN Ack(running[w]) ELSE UNCHANGED queue
  /\ UNCHANGED <<escrowVars, order, attemptVars, handlerVars, retries>>

(* Variant: a task that fails is acknowledged and not retried.              *)
TaskLost(w) ==
  /\ running[w] # Nobody
  /\ retries < MaxRetries
  /\ retries' = retries + 1
  /\ Ack(running[w])
  /\ running' = [running EXCEPT ![w] = Nobody]
  /\ UNCHANGED <<escrowVars, order, attemptVars, handlerVars>>

(* A transient error, or the worker is lost: the task comes back, at most   *)
(* MaxRetries times.                                                        *)
TaskFails(w) ==
  /\ running[w] # Nobody
  /\ retries < MaxRetries
  /\ retries' = retries + 1
  /\ running' = [running EXCEPT ![w] = Nobody]
  /\ UNCHANGED <<escrowVars, order, attemptVars, handlerVars, queue>>

HandlerStep(h) ==
  \/ PollAnswer(h)
  \/ TakeLock(h)
  \/ FindLocked(h)
  \/ ReadAttempt(h)
  \/ Apply(h)
  \/ Dispatch(h)
  \/ Unlock(h)

TaskStep(w) ==
  \/ \E n \in Attempts : SkipTask(w, n) \/ GiveUpTask(w, n) \/ StartTask(w, n)
  \/ HoldFunds(w)
  \/ HoldRefused(w)

Next ==
  \/ SubmitOrder
  \/ CancelOrder
  \/ AcknowledgeOrder
  \/ FreezeAccount
  \/ CheckCollection
  \/ \E n \in Attempts :
       \/ CreateAttempt(n)
       \/ CallProvider(n)
       \/ SaveResult(n)
       \/ BuyerDecides(n)
       \/ \E h \in Handlers : Receive(h, n) \/ Poll(h, n)
  \/ \E ref \in Refs : ExpireLock(ref)
  \/ \E h \in Handlers : HandlerStep(h) \/ Fail(h) \/ Crash(h)
  \/ \E w \in HoldWorkers : TaskStep(w) \/ TaskFails(w)

(* Handlers and workers that are not killed go on.                          *)
Spec ==
  /\ Init /\ [][Next]_vars
  /\ \A h \in Handlers : WF_vars(HandlerStep(h))
  /\ \A w \in HoldWorkers : WF_vars(TaskStep(w))

-----------------------------------------------------------------------------
(* However often webhooks, polls and hold tasks are repeated, and however   *)
(* many attempts the buyer paid, the account takes the order's total once,  *)
(* and only after the buyer has paid it.                                    *)
HeldOnceForAPayment ==
  /\ ledger[TheOrder].received \in {0, Total}
  /\ ledger[TheOrder].received > 0 => \E n \in Attempts : provider[n] = "paid"

(* An attempt is recorded as successful only if the buyer paid it or, since *)
(* the provider cannot tell Airtel attempts apart, another one of those,    *)
(* however late, repeated or contradictory what the provider tells is.      *)
SuccessHasPayment ==
  \A n \in Attempts :
    attempt[n].status = "SUCCESS" =>
      \E m \in Attempts :
        (m = n \/ {m, n} \subseteq ViaAirtel) /\ provider[m] = "paid"

(* The attempt recorded as successful is the one the buyer paid for, as it  *)
(* would be if what request_payment documents as the "Unique transaction ID *)
(* for idempotency" were unique.  Two attempts through Airtel have one.     *)
SuccessWasPaid ==
  \A n \in Attempts : attempt[n].status = "SUCCESS" => provider[n] = "paid"

(* A confirmation is taken back only by a handler that was told of a        *)
(* failure, or that saves a copy it read before the confirmation: the late  *)
(* save of the API call's result never does it.                             *)
SaveKeepsConfirmation ==
  [][\A n \in Attempts :
       attempt[n].status = "SUCCESS" /\ attempt'[n].status # "SUCCESS" =>
         \E h \in Handlers :
           /\ At(h, "read") /\ handler[h].row = n
           /\ \/ handler[h].told = "failure"
              \/ handler[h].told = "other" /\ handler[h].seen # "SUCCESS"]_vars

(* A payment whose hold task was queued reaches the order, unless somebody  *)
(* froze the account first: duplicates of the task, the workers' retries    *)
(* and stale reads of the order do not lose it.                             *)
QueuedPaymentReachesOrder ==
  \A n \in Attempts :
    queue[n] > 0 ~> \/ order # "PENDING_PAYMENT"
                    \/ account[TheOrder].state = "FROZEN"
=============================================================================
