---------------------------- MODULE AutoConfirm ----------------------------
(***************************************************************************)
(* apps/escrow/tasks.py: auto_confirm_delivered, run by several Celery      *)
(* workers at once, next to everything else that can happen to an account   *)
(* (the actions of Escrow).                                                 *)
(*                                                                          *)
(* A run takes a snapshot of the accounts that have been IN_TRANSIT for     *)
(* seven days and then, account by account, takes the account's Redis lock, *)
(* calls EscrowService.mark_delivered and deletes the lock.  A worker may   *)
(* be killed at any point; its lock then stays until its TTL (3600 s) runs  *)
(* out.  Celery kills a task after CELERY_TASK_TIME_LIMIT (300 s), so a     *)
(* lock never expires while the run that took it is alive.                  *)
(***************************************************************************)
EXTENDS Integers

CONSTANTS Accounts, Amounts, FeePercent, MlScores, NoScore, MaxVersion,
          Workers,      \* Celery workers
          Free,         \* the lock key is absent from the cache
          Nothing,      \* a worker is between two accounts
          MaxFailures   \* bound on kills and unexpected exceptions

ASSUME MaxFailuresAssumption == MaxFailures \in Nat
ASSUME ServiceAssumption ==
  Amounts \subseteq Int /\ FeePercent \in 0..100 /\ MaxVersion \in Nat
ASSUME KeysAssumption == Free \notin Workers /\ Nothing \notin Accounts

VARIABLES account, ledger, hold, gateLog, raised

E == INSTANCE Escrow

VARIABLES
  aged,      \* accounts with updated_at <= now - AUTO_CONFIRM_DAYS
  todo,      \* per worker, what is left of the eligible snapshot
  current,   \* per worker, the account whose lock it has taken
  called,    \* per worker, whether mark_delivered has returned for current
  lock,      \* per account, the worker that set its lock key
  failures   \* kills and unexpected exceptions so far

escrowVars == <<account, ledger, hold, gateLog, raised>>
taskVars == <<todo, current, called, lock, failures>>
vars == <<escrowVars, aged, taskVars>>

TypeOK ==
  /\ E!TypeOK
  /\ aged \subseteq Accounts
  /\ todo \in [Workers -> SUBSET Accounts]
  /\ current \in [Workers -> Accounts \cup {Nothing}]
  /\ called \in [Workers -> BOOLEAN]
  /\ lock \in [Accounts -> Workers \cup {Free}]
  /\ failures \in 0..MaxFailures

Init ==
  /\ E!Init
  /\ aged = {}
  /\ todo = [w \in Workers |-> {}]
  /\ current = [w \in Workers |-> Nothing]
  /\ called = [w \in Workers |-> FALSE]
  /\ lock = [a \in Accounts |-> Free]
  /\ failures = 0

-----------------------------------------------------------------------------
(* updated_at is auto_now and is in every save's update_fields.             *)
Touch == aged' = {a \in aged : account'[a] = account[a]}

(* Any caller uses the service.                                             *)
Call == E!Next /\ Touch /\ UNCHANGED taskVars

(* Seven days pass without a save of the account.                           *)
Age(a) ==
  /\ account[a].state \in E!EscrowState
  /\ aged' = aged \cup {a}
  /\ UNCHANGED <<escrowVars, taskVars>>

(* The queryset of the task.                                                *)
Eligible == {a \in aged : account[a].state = "IN_TRANSIT"}

Idle(w) == todo[w] = {} /\ current[w] = Nothing

(* Somebody starts a run: CELERY_BEAT_SCHEDULE has no entry for it.  It      *)
(* evaluates the queryset once.                                             *)
Start(w) ==
  /\ Idle(w)
  /\ Eligible # {}
  /\ todo' = [todo EXCEPT ![w] = Eligible]
  /\ UNCHANGED <<escrowVars, aged, current, called, lock, failures>>

(* cache.add succeeds ...                                                   *)
TakeLock(w, a) ==
  /\ current[w] = Nothing
  /\ a \in todo[w]
  /\ lock[a] = Free
  /\ lock' = [lock EXCEPT ![a] = w]
  /\ todo' = [todo EXCEPT ![w] = @ \ {a}]
  /\ current' = [current EXCEPT ![w] = a]
  /\ UNCHANGED <<escrowVars, aged, called, failures>>

(* ... or finds the key, and the account is skipped.                        *)
Skip(w, a) ==
  /\ current[w] = Nothing
  /\ a \in todo[w]
  /\ lock[a] # Free
  /\ todo' = [todo EXCEPT ![w] = @ \ {a}]
  /\ UNCHANGED <<escrowVars, aged, current, called, lock, failures>>

(* mark_delivered on the row as it is now; InvalidTransitionError is an     *)
(* EscrowError and is only counted.                                         *)
Confirm(w) ==
  /\ current[w] # Nothing
  /\ ~called[w]
  /\ \/ E!MarkDelivered(current[w])
     \/ /\ ~E!CanMove(current[w], "DELIVERED")
        /\ UNCHANGED escrowVars
  /\ called' = [called EXCEPT ![w] = TRUE]
  /\ Touch
  /\ UNCHANGED <<todo, current, lock, failures>>

(* finally: cache.delete, whoever set the key.                              *)
Unlock(w) ==
  /\ called[w]
  /\ lock' = [lock EXCEPT ![current[w]] = Free]
  /\ current' = [current EXCEPT ![w] = Nothing]
  /\ called' = [called EXCEPT ![w] = FALSE]
  /\ UNCHANGED <<escrowVars, aged, todo, failures>>

(* The worker is back to nothing; what its run had left is not done.        *)
Drop(w) ==
  /\ failures < MaxFailures
  /\ failures' = failures + 1
  /\ todo' = [todo EXCEPT ![w] = {}]
  /\ current' = [current EXCEPT ![w] = Nothing]
  /\ called' = [called EXCEPT ![w] = FALSE]

(* mark_delivered raises something else (the database is gone, the soft     *)
(* time limit): its transaction is rolled back, finally deletes the lock    *)
(* and the exception ends the run.                                          *)
Abort(w) ==
  /\ current[w] # Nothing
  /\ ~called[w]
  /\ Drop(w)
  /\ lock' = [lock EXCEPT ![current[w]] = Free]
  /\ UNCHANGED <<escrowVars, aged>>

(* The worker's process dies, or is killed at the hard time limit.          *)
Kill(w) ==
  /\ ~Idle(w)
  /\ Drop(w)
  /\ UNCHANGED <<escrowVars, aged, lock>>

(* Variant: a TTL shorter than the time limit.                              *)
ExpireEarly(a) ==
  /\ lock[a] # Free
  /\ lock' = [lock EXCEPT ![a] = Free]
  /\ UNCHANGED <<escrowVars, aged, todo, current, called, failures>>

(* Variant: the key has no TTL.                                             *)
ExpireNever(a) == FALSE /\ lock[a] # Free /\ UNCHANGED vars

(* The TTL of a lock whose run is gone runs out.                            *)
Expire(a) ==
  /\ lock[a] # Free
  /\ \A w \in Workers : current[w] # a
  /\ lock' = [lock EXCEPT ![a] = Free]
  /\ UNCHANGED <<escrowVars, aged, todo, current, called, failures>>

Run(w) ==
  \/ \E a \in Accounts : TakeLock(w, a) \/ Skip(w, a)
  \/ Confirm(w)
  \/ Unlock(w)

Next ==
  \/ Call
  \/ \E a \in Accounts : Age(a) \/ Expire(a)
  \/ \E w \in Workers : Start(w) \/ Run(w) \/ Abort(w) \/ Kill(w)

(* Nothing starts a run for certain.  Of one that was started, a worker     *)
(* that is not killed goes on, and Redis drops keys whose TTL is over.      *)
Spec ==
  /\ Init /\ [][Next]_vars
  /\ \A w \in Workers : WF_vars(Run(w))
  /\ \A a \in Accounts : WF_vars(Expire(a))

-----------------------------------------------------------------------------
(* No two workers are between cache.add and cache.delete for one account,   *)
(* though delete does not check who set the key: kills, expiry and the next *)
(* run's lock never overlap with a run that is still alive.                 *)
LockIsExclusive ==
  \A v, w \in Workers :
    v # w /\ current[v] # Nothing => current[v] # current[w]

(* A run works from an old snapshot.  Still it only ever delivers an        *)
(* account that is in transit now and has not been touched for the whole    *)
(* window: a dispute, a freeze or a settlement that came in between stays.  *)
OnlyUntouchedIsConfirmed ==
  [][\A w \in Workers, a \in Accounts :
       current[w] = a /\ ~called[w] /\ called'[w] /\ account'[a] # account[a]
         => account[a].state = "IN_TRANSIT" /\ a \in aged]_vars

(* No account is shut out of automatic confirmation for ever: its lock is   *)
(* given back, although workers are killed between cache.add and            *)
(* cache.delete, and whatever the account itself has become meanwhile.      *)
LockIsReleased ==
  \A a \in Accounts : lock[a] # Free ~> lock[a] = Free
=============================================================================
