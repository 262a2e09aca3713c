---------------------------- MODULE RetrySchedule ----------------------------
(***************************************************************************)
(* When notifications are tried again: the backoff of                      *)
(* calculate_next_retry_time, the workers' clocks against the database's,  *)
(* and the order and LIMIT in which overlapping schedulers claim rows that *)
(* are due.  What duplicates and lost messages do is NotificationEngine's  *)
(* subject; here each message is delivered once.                           *)
(*                                                                         *)
(* Time is counted in seconds of the database's clock.  A worker's clock   *)
(* is off by at most Skew seconds, differently at every delivery.          *)
(***************************************************************************)
EXTENDS MailProvider, Integers, FiniteSets

CONSTANTS Notification, Scheduler,
          MaxAttempts,                     \* the column max_attempts
          INITIAL_RETRY_DELAY_SECONDS, MAX_RETRY_DELAY_SECONDS,
          ClaimLimit,                      \* the claim's LIMIT
          Skew,
          MaxTime,                         \* bound on the clock
          None

\* NotificationRequestBody: SMS and webhook requests are accepted too.
Request == {"email", "email_with_copies", "other_channel"}

Row == [state : {"queued", "processing", "sent", "failed"},
        attempt_count : 0..MaxAttempts,
        next_retry_at : Int \cup {None}, created_at : Nat,
        request : Request]

\* A delivery, and what its exchange with the provider told.
Try == [at : Nat,
        evidence : {"taken", "refused", "redirect", "server_error", "broken"}]

ASSUME RetryAssumption ==
    /\ {MaxAttempts, ClaimLimit} \subseteq Nat \ {0}
    /\ {INITIAL_RETRY_DELAY_SECONDS, MAX_RETRY_DELAY_SECONDS,
        Skew, MaxTime} \subseteq Nat
    /\ None \notin Int \cup Row \cup Try

VARIABLES clock,           \* NOW() of the database
          notifications,   \* committed rows, None before the INSERT
          queue,           \* notifications with a message in the broker
          scheduler,       \* scheduler[s]: a run of retry_scheduler_task
          tried            \* tried[n]: the latest delivery, for the properties

vars == <<clock, notifications, queue, scheduler, tried>>

RetryTypeOK ==
    /\ clock \in 0..MaxTime
    /\ notifications \in [Notification -> Row \cup {None}]
    /\ queue \subseteq Notification
    /\ scheduler \in [Scheduler ->
          [pc : {"idle", "selected", "claimed"}, batch : SUBSET Notification]]
    /\ tried \in [Notification -> Try \cup {None}]

NoRun == [pc |-> "idle", batch |-> {}]

Init ==
    /\ clock = 0
    /\ notifications = [n \in Notification |-> None]
    /\ queue = {}
    /\ scheduler = [s \in Scheduler |-> NoRun]
    /\ tried = [n \in Notification |-> None]

Inserted == {n \in Notification : notifications[n] # None}

\* Rows an open claim holds FOR UPDATE.
Locked == UNION {scheduler[s].batch : s \in
                    {r \in Scheduler : scheduler[r].pc = "selected"}}

IsDue(n) ==
    /\ n \in Inserted
    /\ notifications[n].state = "queued"
    /\ notifications[n].next_retry_at # None
    /\ notifications[n].next_retry_at <= clock

-----------------------------------------------------------------------------

\* create_notify: insert, publish, mark_queued.
Submit(n) ==
    /\ notifications[n] = None
    /\ \E request \in Request :
          notifications' = [notifications EXCEPT ![n] =
              [state |-> "queued", attempt_count |-> 0, next_retry_at |-> None,
               created_at |-> clock, request |-> request]]
    /\ queue' = queue \cup {n}
    /\ UNCHANGED <<clock, scheduler, tried>>

\* calculate_next_retry_time after attempt k: its possible results on workers
\* whose clocks are off by at most Skew.
calculate_next_retry_time(k) ==
    LET exponential_delay == INITIAL_RETRY_DELAY_SECONDS * 2^(k - 1)
        capped_delay == IF exponential_delay < MAX_RETRY_DELAY_SECONDS
                        THEN exponential_delay ELSE MAX_RETRY_DELAY_SECONDS
    IN  {clock + skew + delay : skew \in -Skew..Skew, delay \in 0..capped_delay}

\* a faulty variant of chk_next_retry_at: later, not "at or later"
chk_next_retry_at_strict(row) ==
    row.next_retry_at = None \/ row.next_retry_at > row.created_at

chk_next_retry_at(row) ==
    row.next_retry_at = None \/ row.next_retry_at >= row.created_at

\* The row persist_delivery_result writes; `at' is the retry time.
Recorded(row, status, at) ==
    LET k == row.attempt_count + 1
        retry == status = "temporary_failure" /\ k < MaxAttempts
    IN  [row EXCEPT !.attempt_count = k,
            !.state = IF status = "success" THEN "sent"
                      ELSE IF retry THEN "queued" ELSE "failed",
            !.next_retry_at = IF retry THEN at ELSE None]

\* deliver_notification of an email.  A row that breaks the constraint rolls
\* the result back; the message is gone anyway.
Deliver(n) ==
    /\ n \in queue /\ notifications[n].request # "other_channel"
    /\ queue' = queue \ {n}
    /\ LET row == notifications[n] IN
       \E result \in Results(row.request = "email_with_copies"),
          at \in calculate_next_retry_time(row.attempt_count + 1) :
          LET new == Recorded(row, result.status, at)
          IN  /\ notifications' = [notifications EXCEPT ![n] =
                     IF chk_next_retry_at(new) THEN new ELSE row]
              /\ tried' = [tried EXCEPT ![n] =
                     [at |-> clock, evidence |-> result.evidence]]
    /\ UNCHANGED <<clock, scheduler>>

\* A message for another channel brings nothing on: the workers of
\* compose.yaml consume the queue "email" only, and one that consumed its
\* queue would raise, for its payload is no EmailPayload, and acknowledge.
Refuse(n) ==
    /\ n \in queue /\ notifications[n].request = "other_channel"
    /\ queue' = queue \ {n}
    /\ UNCHANGED <<clock, notifications, scheduler, tried>>

\* n comes before m in ORDER BY next_retry_at, created_at.
Before(n, m) ==
    LET a == notifications[n]
        b == notifications[m]
    IN  \/ a.next_retry_at < b.next_retry_at
        \/ a.next_retry_at = b.next_retry_at /\ a.created_at < b.created_at

\* a faulty variant: no ORDER BY
BatchesUnordered ==
    LET free == {n \in Notification : IsDue(n) /\ n \notin Locked}
    IN  {B \in SUBSET free :
            \/ Cardinality(B) = ClaimLimit
            \/ B = free /\ Cardinality(B) < ClaimLimit}

\* What the claim's SELECT ... LIMIT ... FOR UPDATE SKIP LOCKED may return.
Batches ==
    LET free == {n \in Notification : IsDue(n) /\ n \notin Locked}
    IN  {B \in SUBSET free :
            /\ \/ Cardinality(B) = ClaimLimit
               \/ B = free /\ Cardinality(B) < ClaimLimit
            /\ \A n \in free \ B, m \in B : ~Before(n, m)}

Select(s) ==
    /\ scheduler[s].pc = "idle"
    /\ \E B \in Batches :
          /\ B # {}      \* an empty claim changes nothing
          /\ scheduler' = [scheduler EXCEPT ![s] = [pc |-> "selected", batch |-> B]]
    /\ UNCHANGED <<clock, notifications, queue, tried>>

CommitClaim(s) ==
    /\ scheduler[s].pc = "selected"
    /\ notifications' = [n \in Notification |->
          IF n \in scheduler[s].batch
          THEN [notifications[n] EXCEPT !.state = "processing",
                                        !.next_retry_at = None]
          ELSE notifications[n]]
    /\ scheduler' = [scheduler EXCEPT ![s].pc = "claimed"]
    /\ UNCHANGED <<clock, queue, tried>>

\* The claim's transaction fails; its rows are free again.
AbortClaim(s) ==
    /\ scheduler[s].pc = "selected"
    /\ scheduler' = [scheduler EXCEPT ![s] = NoRun]
    /\ UNCHANGED <<clock, notifications, queue, tried>>

\* retry_scheduler_task publishes the batch.
EnqueueClaimed(s) ==
    /\ scheduler[s].pc = "claimed"
    /\ queue' = queue \cup scheduler[s].batch
    /\ scheduler' = [scheduler EXCEPT ![s] = NoRun]
    /\ UNCHANGED <<clock, notifications, tried>>

Tick ==
    /\ clock < MaxTime
    /\ clock' = clock + 1
    /\ UNCHANGED <<notifications, queue, scheduler, tried>>

Next == \/ \E n \in Notification : Submit(n) \/ Deliver(n) \/ Refuse(n)
        \/ \E s \in Scheduler : \/ Select(s) \/ CommitClaim(s)
                                \/ AbortClaim(s) \/ EnqueueClaimed(s)
        \/ Tick

Spec == Init /\ [][Next]_vars

-----------------------------------------------------------------------------

(* Nobody is passed over for long: a due row that no claim holds is never  *)
(* left behind for one that was given its retry time after the row had     *)
(* come due, up to the skew of the clocks; so a row that fails again and   *)
(* again cannot starve the others, whatever its jitter and the LIMIT       *)
(* (claim_retryable_notifications, calculate_next_retry_time).             *)
InTurn ==
    [][\A s \in Scheduler :
          scheduler[s].pc = "idle" /\ scheduler'[s].pc = "selected" =>
             \A n \in Notification \ (scheduler'[s].batch \cup Locked),
                m \in scheduler'[s].batch :
                   IsDue(n) =>
                      tried[m].at <= notifications[n].next_retry_at + Skew]_vars

\* An unfinished notification nobody will work on any more.
Stranded(n) ==
    /\ n \in Inserted
    /\ notifications[n].state \in {"queued", "processing"}
    /\ notifications[n].next_retry_at = None
    /\ n \notin queue
    /\ \A s \in Scheduler : n \notin scheduler[s].batch

(* An accepted notification is left queued for ever only if it is not an   *)
(* email, or if chk_next_retry_at cost it its retry, because the retry     *)
(* time comes from the worker's clock and created_at from the database's;  *)
(* the latter only when it was tried sooner after its creation than the    *)
(* clocks are apart, and never with clocks that agree                      *)
(* (deliver_notification, persist_delivery_result, chk_next_retry_at).     *)
OnlyTheseAreStranded ==
    \A n \in Notification : Stranded(n) =>
        \/ notifications[n].request = "other_channel"
        \/ tried[n].at < notifications[n].created_at + Skew

(* A notification is given up before its attempts are used up only after   *)
(* an attempt that was refused, or that was answered with a server error   *)
(* that is not retried although the email may have been taken, and it is   *)
(* sent only when it was taken, or was answered with a redirect that looks *)
(* like a receipt; whatever else leaves it open whether it was taken is    *)
(* tried again (MailRelayProvider.send, persist_delivery_result).          *)
VerdictsAreTrue ==
    \A n \in Inserted :
        /\ notifications[n].state = "failed"
           /\ notifications[n].attempt_count < MaxAttempts =>
                 tried[n].evidence \in {"refused", "server_error"}
        /\ notifications[n].state = "sent" =>
              tried[n].evidence \in {"taken", "redirect"}
=============================================================================
