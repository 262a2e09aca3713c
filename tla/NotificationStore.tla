-------------------------- MODULE NotificationStore --------------------------
(***************************************************************************)
(* The two PostgreSQL tables behind delivery, notifications and            *)
(* delivery_attempts, with one operator per SQL statement of               *)
(* modules/notifications/db and the CHECK/UNIQUE constraints of            *)
(* infra/db/schemas.  A statement maps a row to a row; a transaction       *)
(* chains statements and commits only when every intermediate row passes   *)
(* the constraints, which PostgreSQL tests statement by statement.         *)
(* Row locks make each transaction that updates a row atomic for that row, *)
(* so a committed transaction is one step here.                            *)
(*                                                                         *)
(* Abstracted: payload, recipient, provider and error texts, and the       *)
(* timestamps nothing branches on (queued_at, last_attempt_at, updated_at).*)
(* sent_at is kept as null / set, next_retry_at as null / later / due.      *)
(***************************************************************************)
EXTENDS Naturals, FiniteSets

CONSTANTS Notification,     \* identifiers of rows that may be inserted
          MaxAttempts       \* the max_attempts column (DEFAULT 5)

ASSUME MaxAttemptsAssumption == MaxAttempts \in Nat \ {0}

VARIABLES notifications,       \* the notifications table, by id
          delivery_attempts    \* the rows of delivery_attempts

storeVars == <<notifications, delivery_attempts>>

-----------------------------------------------------------------------------
(* Rows.  State "none" stands for an id whose INSERT has not committed.    *)

State == {"none", "created", "queued", "processing", "sent", "failed"}
Terminal == {"sent", "failed"}
DeliveryStatus == {"success", "temporary_failure", "permanent_failure"}
RetryTime == {"null", "later", "due"}

Row == [state : State, attempt_count : Nat,
        next_retry_at : RetryTime, sent_at : {"null", "set"}]

AttemptRow == [notification_id : Notification, attempt_number : Nat,
               status : DeliveryStatus]

NoRow == [state |-> "none", attempt_count |-> 0,
          next_retry_at |-> "null", sent_at |-> "null"]

(* chk_attempt_bounds, chk_sent_at_timestamp and chk_retry_states.         *)
ConstraintsHold(row) ==
    /\ row.attempt_count <= MaxAttempts
    /\ (row.state = "sent") <=> (row.sent_at # "null")
    /\ row.next_retry_at # "null" =>
          row.state \in {"created", "queued", "processing"}

(* chk_unique_attempt.                                                     *)
AttemptIsUnique(n, number) ==
    \A a \in delivery_attempts :
        ~(a.notification_id = n /\ a.attempt_number = number)

-----------------------------------------------------------------------------
(* Faulty variants of statements, each a slip one edit away from the query *)
(* it varies.  No specification uses them: substituting one for the real   *)
(* statement must break the property it is aimed at.                       *)

\* mark_queued without WHERE state = 'created'
mark_queued_unguarded(row) == [row EXCEPT !.state = "queued"]

\* schedule_retry that also clears sent_at, so that CHECK lets it reopen a
\* sent notification
schedule_retry_clearing_sent_at(row, at) ==
    [row EXCEPT !.state = "queued", !.sent_at = "null", !.next_retry_at = at]

\* a claim that leaves next_retry_at set
claim_keeping_retry_time(row) == [row EXCEPT !.state = "processing"]

-----------------------------------------------------------------------------
(* The statements of notification_queries.py.                              *)

create_notification == [NoRow EXCEPT !.state = "created"]

mark_queued(row) ==
    IF row.state = "created" THEN [row EXCEPT !.state = "queued"] ELSE row

increment_attempt_count(row) == [row EXCEPT !.attempt_count = @ + 1]

mark_sent(row) ==
    [row EXCEPT !.state = "sent", !.sent_at = "set", !.next_retry_at = "null"]

mark_failed(row) ==
    [row EXCEPT !.state = "failed", !.next_retry_at = "null"]

schedule_retry(row, at) ==
    [row EXCEPT !.state = "queued", !.next_retry_at = at]

claim(row) == [row EXCEPT !.state = "processing", !.next_retry_at = "null"]

-----------------------------------------------------------------------------
(* The transactions.                                                       *)

StoreInit ==
    /\ notifications = [n \in Notification |-> NoRow]
    /\ delivery_attempts = {}

UpdateRow(n, row) == notifications' = [notifications EXCEPT ![n] = row]

(* The row persist_delivery_result writes after the increment.             *)
RecordedRow(row, status, at) ==
    CASE status = "success"           -> mark_sent(row)
      [] status = "permanent_failure" -> mark_failed(row)
      [] status = "temporary_failure" ->
            IF row.attempt_count >= MaxAttempts
            THEN mark_failed(row) ELSE schedule_retry(row, at)

(* PostgreSQL lets the transaction through: neither the increment nor the  *)
(* final row violates a constraint, and the attempt number is free.        *)
Committable(n, status, at) ==
    LET incremented == increment_attempt_count(notifications[n])
    IN  /\ ConstraintsHold(incremented)
        /\ AttemptIsUnique(n, incremented.attempt_count)
        /\ ConstraintsHold(RecordedRow(incremented, status, at))

PersistCommits(n, status, at) ==
    LET incremented == increment_attempt_count(notifications[n])
    IN  /\ Committable(n, status, at)
        /\ UpdateRow(n, RecordedRow(incremented, status, at))
        /\ delivery_attempts' = delivery_attempts \cup
              {[notification_id |-> n,
                attempt_number |-> incremented.attempt_count,
                status |-> status]}

\* a faulty variant: the statements auto-commit, so the increment survives
\* when a later statement of the transaction fails
PersistKeepsIncrement(n, status, at) ==
    LET incremented == increment_attempt_count(notifications[n])
    IN  /\ ~Committable(n, status, at)
        /\ IF ConstraintsHold(incremented)
           THEN UpdateRow(n, incremented) ELSE UNCHANGED notifications
        /\ UNCHANGED delivery_attempts

(* A statement fails: everything the transaction did is rolled back.       *)
PersistRollsBack(n, status, at) ==
    /\ ~Committable(n, status, at)
    /\ UNCHANGED storeVars

(* Rows the claim query selects: queued with a retry time that has come.   *)
IsDue(row) == row.state = "queued" /\ row.next_retry_at = "due"
Due == {n \in Notification : IsDue(notifications[n])}

ClaimRows(S) ==
    /\ notifications' = [n \in Notification |->
          IF n \in S THEN claim(notifications[n]) ELSE notifications[n]]
    /\ UNCHANGED delivery_attempts

(* Real time passes a row's next_retry_at.                                 *)
RetryTimeArrives(n) ==
    /\ notifications[n].next_retry_at = "later"
    /\ UpdateRow(n, [notifications[n] EXCEPT !.next_retry_at = "due"])
    /\ UNCHANGED delivery_attempts

-----------------------------------------------------------------------------
(* The history of a row.                                                   *)

AttemptsOf(n) == {a \in delivery_attempts : a.notification_id = n}

StoreTypeOK ==
    /\ notifications \in [Notification -> Row]
    /\ delivery_attempts \subseteq AttemptRow

\* The attempt rows of n are numbered 1..attempt_count, each number once.
Numbered(n) ==
    /\ {a.attempt_number : a \in AttemptsOf(n)} = 1..notifications[n].attempt_count
    /\ \A a, b \in AttemptsOf(n) : a.attempt_number = b.attempt_number => a = b

Untried(n) == notifications[n].attempt_count = 0

\* The last attempt of n, if there is one, ended in one of these ways.
LastStatusIn(n, statuses) ==
    \A a \in AttemptsOf(n) :
        a.attempt_number = notifications[n].attempt_count =>
            a.status \in statuses

\* The state column tells how the last recorded attempt ended, and the retry
\* columns what is still owed: a queued row without retry time was never
\* tried, a row that used up max_attempts is terminal, and a retry is owed
\* exactly after a temporary failure with attempts left.
Explained(n) ==
    LET row == notifications[n]
    IN  /\ ConstraintsHold(row)
        /\ row.state \in {"none", "created"} =>
              Untried(n) /\ row.next_retry_at = "null"
        /\ row.state = "queued" => ((row.next_retry_at = "null") <=> Untried(n))
        /\ row.state = "processing" =>
              ~Untried(n) /\ row.next_retry_at = "null"
        /\ row.state \in {"queued", "processing"} =>
              /\ LastStatusIn(n, {"temporary_failure"})
              /\ row.attempt_count < MaxAttempts
        /\ row.state = "sent" => ~Untried(n) /\ LastStatusIn(n, {"success"})
        /\ row.state = "failed" =>
              /\ ~Untried(n)
              /\ LastStatusIn(n, IF row.attempt_count < MaxAttempts
                                 THEN {"permanent_failure"}
                                 ELSE {"permanent_failure", "temporary_failure"})

(* The history of every row is complete and agrees with its state columns: *)
(* concurrent workers, stale snapshots, duplicate messages, crashes and    *)
(* rollbacks never separate attempt_count, delivery_attempts and state     *)
(* (persist_delivery_result, mark_queued, claim_retryable_notifications).  *)
HistoryExplainsState == \A n \in Notification : Numbered(n) /\ Explained(n)
=============================================================================
