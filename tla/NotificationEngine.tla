-------------------------- MODULE NotificationEngine --------------------------
(***************************************************************************)
(* Delivery of notifications, end to end: the HTTP handlers of             *)
(* POST /v1/notifications, the Celery/Redis queue "email", the email       *)
(* workers, the mail provider and the retry scheduler, all sharing the     *)
(* tables of NotificationStore.                                            *)
(*                                                                         *)
(* One step is one transaction, one broker operation or one provider call; *)
(* everything a process does between two of these is local to it.  What    *)
(* the environment may do to the processes (crashes, lost or redelivered   *)
(* messages, failing calls) is a step of its own, counted by kind in       *)
(* `faults' and bounded by FaultBudget.                                    *)
(*                                                                         *)
(* The notifications are emails.  Those of other channels, which a worker  *)
(* drops, are in RetrySchedule.                                            *)
(***************************************************************************)
EXTENDS NotificationStore

CONSTANTS Worker,         \* email worker processes (celery -Q email)
          Scheduler,      \* processes that run retry_scheduler_task
          ClaimLimit,     \* LIMIT of the claim query (100)
          FaultBudget     \* how often each kind of fault may happen

FaultKind == {"api", "task", "worker", "scheduler", "redelivery", "loss"}

ASSUME EngineAssumption ==
    /\ ClaimLimit \in Nat \ {0}
    /\ FaultBudget \in [FaultKind -> Nat]

VARIABLES
    handler,     \* handler[n]: where the request that creates n has got to
    response,    \* response[n]: the last answer the client got about n
    queue,       \* queue[n]: messages for n in the Redis list, unreserved
    worker,      \* worker[w]: the message a worker has reserved, and its task
    claimed,     \* claimed[s]: rows a scheduler claimed, not yet enqueued
    executions,  \* executions[n]: calls of provider.send, seen from outside
    receipts,    \* receipts[n]: receipts the provider gave, seen from outside
    faults       \* faults[k]: faults of kind k so far

clientVars == <<handler, response>>
providerVars == <<executions, receipts>>
vars == <<storeVars, clientVars, queue, worker, claimed, providerVars, faults>>

-----------------------------------------------------------------------------

HandlerState == {"idle", "committed", "enqueued", "done"}
Response == {"none", "error", "accepted"}
WorkerState == {"reserved", "sending", "persisting", "acking"}

\* A reserved message and the progress of its task.  status is meaningful
\* from "persisting" on; before it holds the value it was created with.
Task == [pc : WorkerState, notification_id : Notification,
         status : DeliveryStatus]

Idle == [pc |-> "idle"]

EngineTypeOK ==
    /\ StoreTypeOK
    /\ handler \in [Notification -> HandlerState]
    /\ response \in [Notification -> Response]
    /\ queue \in [Notification -> Nat]
    /\ worker \in [Worker -> Task \cup {Idle}]
    /\ claimed \in [Scheduler -> SUBSET Notification]
    /\ executions \in [Notification -> Nat]
    /\ receipts \in [Notification -> Nat]
    /\ faults \in [FaultKind -> Nat]

Init ==
    /\ StoreInit
    /\ handler = [n \in Notification |-> "idle"]
    /\ response = [n \in Notification |-> "none"]
    /\ queue = [n \in Notification |-> 0]
    /\ worker = [w \in Worker |-> Idle]
    /\ claimed = [s \in Scheduler |-> {}]
    /\ executions = [n \in Notification |-> 0]
    /\ receipts = [n \in Notification |-> 0]
    /\ faults = [k \in FaultKind |-> 0]

Fault(kind) ==
    /\ faults[kind] < FaultBudget[kind]
    /\ faults' = [faults EXCEPT ![kind] = @ + 1]

Publish(n) == queue' = [queue EXCEPT ![n] = @ + 1]

Running(w, n) == worker[w] # Idle /\ worker[w].notification_id = n

-----------------------------------------------------------------------------
(* POST /v1/notifications.  submit_notification runs in one transaction;   *)
(* the idempotency key makes at most one request per n a new request.      *)

Submit(n) ==
    /\ handler[n] = "idle"
    /\ UpdateRow(n, create_notification)
    /\ handler' = [handler EXCEPT ![n] = "committed"]
    /\ UNCHANGED <<delivery_attempts, response, queue, worker, claimed,
                   providerVars, faults>>

\* a faulty variant: publish inside the transaction, before it commits
EnqueueUncommitted(n) ==
    /\ handler[n] \in {"idle", "committed"}
    /\ Publish(n)
    /\ handler' = [handler EXCEPT ![n] =
                      IF @ = "idle" THEN "idle" ELSE "enqueued"]
    /\ UNCHANGED <<storeVars, response, worker, claimed, providerVars, faults>>

Enqueue(n) ==
    /\ handler[n] = "committed"
    /\ Publish(n)
    /\ handler' = [handler EXCEPT ![n] = "enqueued"]
    /\ UNCHANGED <<storeVars, response, worker, claimed, providerVars, faults>>

\* mark_queued on a second connection, then 201.
MarkQueued(n) ==
    /\ handler[n] = "enqueued"
    /\ UpdateRow(n, mark_queued(notifications[n]))
    /\ handler' = [handler EXCEPT ![n] = "done"]
    /\ response' = [response EXCEPT ![n] = "accepted"]
    /\ UNCHANGED <<delivery_attempts, queue, worker, claimed, providerVars,
                   faults>>

\* enqueue or mark_queued raises: the client gets a 500 that says to retry.
HandlerFails(n) ==
    /\ handler[n] \in {"committed", "enqueued"}
    /\ Fault("api")
    /\ handler' = [handler EXCEPT ![n] = "done"]
    /\ response' = [response EXCEPT ![n] = "error"]
    /\ UNCHANGED <<storeVars, queue, worker, claimed, providerVars>>

\* The API process dies, the client gets no answer.
HandlerCrash(n) ==
    /\ handler[n] \in {"committed", "enqueued"}
    /\ Fault("api")
    /\ handler' = [handler EXCEPT ![n] = "done"]
    /\ UNCHANGED <<storeVars, response, queue, worker, claimed, providerVars>>

\* a faulty variant: a repeated request is enqueued again
ReplayEnqueues(n) ==
    /\ notifications[n].state # "none"
    /\ response[n] # "accepted"
    /\ Publish(n)
    /\ response' = [response EXCEPT ![n] = "accepted"]
    /\ UNCHANGED <<storeVars, handler, worker, claimed, providerVars, faults>>

\* A request that repeats the Idempotency-Key of a committed one: 200 with
\* the existing notification, is_new_request = False, nothing is enqueued.
Replay(n) ==
    /\ notifications[n].state # "none"
    /\ response[n] # "accepted"
    /\ response' = [response EXCEPT ![n] = "accepted"]
    /\ UNCHANGED <<storeVars, handler, queue, worker, claimed, providerVars,
                   faults>>

-----------------------------------------------------------------------------
(* The email worker: deliver_notification_task under acks_late.            *)

\* a faulty variant: reserving does not take the message off the list
ReserveByReading(w, n) ==
    /\ worker[w] = Idle
    /\ queue[n] > 0
    /\ worker' = [worker EXCEPT ![w] =
          [pc |-> "reserved", notification_id |-> n, status |-> "success"]]
    /\ UNCHANGED <<storeVars, clientVars, queue, claimed, providerVars, faults>>

Reserve(w, n) ==
    /\ worker[w] = Idle
    /\ queue[n] > 0
    /\ queue' = [queue EXCEPT ![n] = @ - 1]
    /\ worker' = [worker EXCEPT ![w] =
          [pc |-> "reserved", notification_id |-> n, status |-> "success"]]
    /\ UNCHANGED <<storeVars, clientVars, claimed, providerVars, faults>>

\* validate_delivery_eligibility, and "if notification is None: return".
Eligible(row) ==
    /\ row.state # "none"
    /\ row.state \notin Terminal
    /\ row.attempt_count < MaxAttempts

\* get_notification and the checks on the row it read.  A refusal returns or
\* raises PermanentFailureException; either way the message is acknowledged.
Load(w) ==
    /\ worker[w] # Idle
    /\ worker[w].pc = "reserved"
    /\ worker' = [worker EXCEPT ![w].pc =
          IF Eligible(notifications[worker[w].notification_id])
          THEN "sending" ELSE "acking"]
    /\ UNCHANGED <<storeVars, clientVars, queue, claimed, providerVars, faults>>

\* MailRelayProvider.send: a receipt is a success, anything else a failure,
\* whatever became of the email (MailProvider has the exchanges).
Send(w) ==
    /\ worker[w] # Idle
    /\ worker[w].pc = "sending"
    /\ \E status \in DeliveryStatus :
          /\ worker' = [worker EXCEPT ![w].pc = "persisting", ![w].status = status]
          /\ receipts' = [receipts EXCEPT ![worker[w].notification_id] =
                             IF status = "success" THEN @ + 1 ELSE @]
    /\ executions' = [executions EXCEPT ![worker[w].notification_id] = @ + 1]
    /\ UNCHANGED <<storeVars, clientVars, queue, claimed, faults>>

\* a faulty variant: the worker runs the transaction again when it cannot
\* tell whether the first one committed
PersistRetried(w) ==
    /\ worker[w] # Idle
    /\ worker[w].pc = "persisting"
    /\ \E at \in {"later", "due"} :
          \/ PersistCommits(worker[w].notification_id, worker[w].status, at)
          \/ PersistRollsBack(worker[w].notification_id, worker[w].status, at)
    /\ worker' \in {worker, [worker EXCEPT ![w].pc = "acking"]}
    /\ UNCHANGED <<clientVars, queue, claimed, providerVars, faults>>

\* persist_delivery_result: one transaction, against whatever the row holds
\* by now.  Full jitter may draw a delay of zero, so the retry time may have
\* come at once.  A rolled back transaction fails the task, which Celery
\* acknowledges all the same (task_acks_on_failure_or_timeout).
Persist(w) ==
    /\ worker[w] # Idle
    /\ worker[w].pc = "persisting"
    /\ \E at \in {"later", "due"} :
          \/ PersistCommits(worker[w].notification_id, worker[w].status, at)
          \/ PersistRollsBack(worker[w].notification_id, worker[w].status, at)
    /\ worker' = [worker EXCEPT ![w].pc = "acking"]
    /\ UNCHANGED <<clientVars, queue, claimed, providerVars, faults>>

Ack(w) ==
    /\ worker[w] # Idle
    /\ worker[w].pc = "acking"
    /\ worker' = [worker EXCEPT ![w] = Idle]
    /\ UNCHANGED <<storeVars, clientVars, queue, claimed, providerVars, faults>>

\* The task raises for another reason (a lost database connection), or its
\* child process is killed: Celery acknowledges the message of a failed task
\* and of a lost child (task_reject_on_worker_lost is off).
TaskFails(w) ==
    /\ worker[w] # Idle
    /\ worker[w].pc # "acking"
    /\ Fault("task")
    /\ worker' = [worker EXCEPT ![w] = Idle]
    /\ UNCHANGED <<storeVars, clientVars, queue, claimed, providerVars>>

\* The whole worker dies with its message unacknowledged: Redis restores it
\* to the queue when the visibility timeout has passed.
WorkerCrash(w) ==
    /\ worker[w] # Idle
    /\ Fault("worker")
    /\ Publish(worker[w].notification_id)
    /\ worker' = [worker EXCEPT ![w] = Idle]
    /\ UNCHANGED <<storeVars, clientVars, claimed, providerVars>>

-----------------------------------------------------------------------------
(* The broker.                                                             *)

\* visibility_timeout passes (or the connection drops) while the task still
\* runs: the message is delivered again.
Redeliver(w) ==
    /\ worker[w] # Idle
    /\ Fault("redelivery")
    /\ Publish(worker[w].notification_id)
    /\ UNCHANGED <<storeVars, clientVars, worker, claimed, providerVars>>

\* Redis loses a message (a restart without persistence).
LoseMessage(n) ==
    /\ queue[n] > 0
    /\ Fault("loss")
    /\ queue' = [queue EXCEPT ![n] = @ - 1]
    /\ UNCHANGED <<storeVars, clientVars, worker, claimed, providerVars>>

-----------------------------------------------------------------------------
(* The retry scheduler: retry_scheduler_task, started by beat every 10 s.  *)

\* A transaction of persist_delivery_result may hold the row's lock.
MayBeLocked(n) ==
    \E w \in Worker : Running(w, n) /\ worker[w].pc = "persisting"

\* retry_scheduled_notifications.  SKIP LOCKED may pass over a locked row;
\* otherwise every due row is claimed, up to LIMIT.
Claim(s) ==
    /\ claimed[s] = {}
    /\ \E S \in (SUBSET Due) \ {{}} :
          /\ IsFiniteSet(S) /\ Cardinality(S) <= ClaimLimit
          /\ Cardinality(S) = ClaimLimit \/ \A n \in Due \ S : MayBeLocked(n)
          /\ ClaimRows(S)
          /\ claimed' = [claimed EXCEPT ![s] = S]
    /\ UNCHANGED <<clientVars, queue, worker, providerVars, faults>>

\* a faulty variant: the loop ends after its first enqueue
EnqueueOnlyFirst(s, n) ==
    /\ n \in claimed[s]
    /\ Publish(n)
    /\ claimed' = [claimed EXCEPT ![s] = {}]
    /\ UNCHANGED <<storeVars, clientVars, worker, providerVars, faults>>

EnqueueClaimed(s, n) ==
    /\ n \in claimed[s]
    /\ Publish(n)
    /\ claimed' = [claimed EXCEPT ![s] = @ \ {n}]
    /\ UNCHANGED <<storeVars, clientVars, worker, providerVars, faults>>

\* The scheduler dies, or enqueue raises, after the claim committed: the rest
\* of the loop is never run, and the next run does not see these rows.
SchedulerFails(s) ==
    /\ claimed[s] # {}
    /\ Fault("scheduler")
    /\ claimed' = [claimed EXCEPT ![s] = {}]
    /\ UNCHANGED <<storeVars, clientVars, queue, worker, providerVars>>

TimePasses(n) ==
    /\ RetryTimeArrives(n)
    /\ UNCHANGED <<clientVars, queue, worker, claimed, providerVars, faults>>

-----------------------------------------------------------------------------

ApiStep(n) == \/ Submit(n) \/ Enqueue(n) \/ MarkQueued(n)
              \/ HandlerFails(n) \/ HandlerCrash(n) \/ Replay(n)

WorkerStep(w) == \/ \E n \in Notification : Reserve(w, n)
                 \/ Load(w) \/ Send(w) \/ Persist(w) \/ Ack(w)
                 \/ TaskFails(w) \/ WorkerCrash(w) \/ Redeliver(w)

SchedulerStep(s) == \/ Claim(s)
                    \/ \E n \in Notification : EnqueueClaimed(s, n)
                    \/ SchedulerFails(s)

Next == \/ \E n \in Notification : ApiStep(n) \/ LoseMessage(n) \/ TimePasses(n)
        \/ \E w \in Worker : WorkerStep(w)
        \/ \E s \in Scheduler : SchedulerStep(s)

Spec == Init /\ [][Next]_vars

(* The API process, the workers and beat keep running, Redis hands out     *)
(* messages in list order, and time passes.  Nothing obliges a client to   *)
(* submit or replay, and no fault ever has to happen.                      *)
Fairness ==
    /\ \A n \in Notification :
          /\ WF_vars(Enqueue(n)) /\ WF_vars(MarkQueued(n))
          /\ WF_vars(TimePasses(n))
    /\ WF_vars(\E w \in Worker, n \in Notification : Reserve(w, n))
    /\ \A w \in Worker :
          WF_vars(Load(w)) /\ WF_vars(Send(w)) /\ WF_vars(Persist(w))
             /\ WF_vars(Ack(w))
    /\ \A s \in Scheduler :
          /\ WF_vars(\E n \in Notification : EnqueueClaimed(s, n))
    /\ \A n \in Notification :
          SF_vars(\E s \in Scheduler : Claim(s) /\ n \in claimed'[s])

FairSpec == Spec /\ Fairness

-----------------------------------------------------------------------------
(* What holds whatever goes wrong.                                         *)

Persisting(n) == {w \in Worker : Running(w, n) /\ worker[w].pc = "persisting"}

(* Nothing is recorded that did not happen: every attempt row stands for a *)
(* call of provider.send of its own, and every successful one for a        *)
(* receipt of its own (deliver_notification, persist_delivery_result).     *)
HistoryIsBacked ==
    \A n \in Notification :
        /\ notifications[n].attempt_count + Cardinality(Persisting(n))
              <= executions[n]
        /\ Cardinality({a \in AttemptsOf(n) : a.status = "success"})
              + Cardinality({w \in Persisting(n) :
                                worker[w].status = "success"})
              <= receipts[n]

(* A sent notification stays sent, and what a late duplicate may still add *)
(* to its history is another success: a stale failure is rolled back by    *)
(* chk_sent_at_timestamp (persist_delivery_result, schedule_retry).        *)
SentIsFinal ==
    [][\A n \in Notification : notifications[n].state = "sent" =>
          /\ notifications'[n].state = "sent"
          /\ \A a \in delivery_attempts' \ delivery_attempts :
                a.notification_id = n => a.status = "success"]_vars

(* Until its handler has published it, which comes after the transaction   *)
(* of submit_notification has committed, no message, worker or scheduler   *)
(* knows of a notification, and its row is as that transaction left it:    *)
(* a worker always finds the row its message names, and a handler that     *)
(* dies before enqueue leaves a 'created' row (create_notify).             *)
NothingBeforeCommit ==
    \A n \in Notification : handler[n] \in {"idle", "committed"} =>
        /\ notifications[n].state = IF handler[n] = "idle" THEN "none" ELSE "created"
        /\ queue[n] = 0
        /\ \A w \in Worker : ~Running(w, n)
        /\ \A s \in Scheduler : n \notin claimed[s]

(* Somebody is going to deliver n, or to schedule its delivery.            *)
Carried(n) ==
    \/ handler[n] = "committed"
    \/ queue[n] > 0
    \/ \E w \in Worker : Running(w, n) /\ worker[w].pc # "acking"
    \/ \E s \in Scheduler : n \in claimed[s]
    \/ notifications[n].next_retry_at # "null"

Stranded == {n \in Notification :
                notifications[n].state \notin Terminal \cup {"none"} /\ ~Carried(n)}

\* The faults that can have left a stranded n in the state it is in.
StrandedBy(n) ==
    CASE notifications[n].state = "processing" -> {"scheduler", "task", "loss"}
      [] notifications[n].state = "created" /\ handler[n] = "done" -> {"api"}
      [] OTHER -> {"task", "loss"}

StrandedByFault(n) ==
    n \in Stranded /\ \E k \in StrandedBy(n) : faults[k] > 0

(* At-least-once: an accepted notification is left unfinished with nobody  *)
(* working on it only by a fault that drops work, each of which strands    *)
(* one notification, or a scheduler that dies the rest of its one batch.   *)
(* The row tells which: 'created' by a failed request, 'queued' by a lost  *)
(* message or task, 'processing' also by a scheduler; redeliveries, worker *)
(* crashes, late results and replays strand nobody (create_notify,         *)
(* deliver_notification, retry_scheduler_task).                            *)
NoOrphan ==
    /\ Cardinality(Stranded) <=
          faults["api"] + faults["task"] + faults["loss"]
             + ClaimLimit * faults["scheduler"]
    /\ \A n \in Stranded : StrandedByFault(n)

CarrierCount(n) ==
    (IF handler[n] = "committed" THEN 1 ELSE 0) + queue[n]
    + Cardinality({w \in Worker : Running(w, n) /\ worker[w].pc # "acking"})
    + Cardinality({s \in Scheduler : n \in claimed[s]})
    + (IF notifications[n].next_retry_at # "null" THEN 1 ELSE 0)

Duplications == faults["redelivery"] + faults["worker"]

(* The code itself never multiplies work: one notification has one carrier *)
(* (message, task, claim or scheduled retry), plus one for each redelivery *)
(* or worker crash.  So without these no two workers send it concurrently  *)
(* (mark_queued, claim_retryable_notifications, retry_scheduler_task).     *)
CarriersBounded ==
    \A n \in Notification :
        CarrierCount(n) <= 1 + Duplications

(* What a duplicate message can cost (docs/WORKERS.md says "cannot produce *)
(* duplicate deliveries"): each redelivery or worker crash at most one     *)
(* more successful attempt, and of the calls of provider.send only those   *)
(* lost to a fault are missing from the history (the row is not rechecked  *)
(* after provider.send, and chk_attempt_bounds rejects late results).      *)
DuplicatesAreBounded ==
    \A n \in Notification :
        /\ Cardinality({a \in AttemptsOf(n) : a.status = "success"})
              <= 1 + Duplications
        /\ executions[n] <= Cardinality(AttemptsOf(n))
              + Cardinality(Persisting(n)) + Duplications + faults["task"]

(* docs/WORKERS.md: "Permanent failures are terminal."  Nothing in         *)
(* mark_sent or schedule_retry looks at the state: failed is final because *)
(* nobody works on a failed notification, and only a redelivery or a       *)
(* worker crash can have left somebody who does.                           *)
FailedIsFinal ==
    [][\A n \in Notification :
          notifications[n].state = "failed" /\ notifications'[n].state # "failed"
             => Duplications > 0]_vars

-----------------------------------------------------------------------------
(* What holds when the processes are fair.                                 *)

(* Every accepted notification ends sent or failed and stays there, unless *)
(* a fault of a kind that drops work left it stranded.  Redeliveries and   *)
(* worker crashes do not prevent it, nor does a fault that struck another  *)
(* notification, or this one while somebody else carried it as well (the   *)
(* whole loop of create_notify, deliver_notification and                   *)
(* retry_scheduler_task).                                                  *)
Settles ==
    \A n \in Notification :
        notifications[n].state = "created" ~>
            [](notifications[n].state \in Terminal \/ StrandedByFault(n))

-----------------------------------------------------------------------------
(* What the documents say and the code does not do.                        *)

(* docs/API.md: an accepted request is "accepted, persisted, and queued".  *)
(* Here: after a 201 or 200, the notification has reached the queue or     *)
(* will (create_notify).                                                   *)
AcceptedIsQueued ==
    \A n \in Notification :
        response[n] = "accepted" ~>
            (queue[n] > 0 \/ notifications[n].state # "created")
=============================================================================
