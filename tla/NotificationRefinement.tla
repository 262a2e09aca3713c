------------------------ MODULE NotificationRefinement ------------------------
(***************************************************************************)
(* NotificationEngine implements DeliveryLedger.  The phase is read off    *)
(* the columns of the row, the history off delivery_attempts in the order  *)
(* of attempt_number; created and queued-for-the-first-time are one phase. *)
(***************************************************************************)
EXTENDS NotificationEngine

RowPhase(row) ==
    CASE row.state = "none"              -> "unknown"
      [] row.state = "created"           -> "open"
      [] row.state = "queued"            ->
            IF row.next_retry_at = "null" THEN "open" ELSE "waiting"
      [] row.state = "processing"        -> "retrying"
      [] row.state \in Terminal          -> row.state

StatusOf(n, number) ==
    (CHOOSE a \in AttemptsOf(n) : a.attempt_number = number).status

Ledger == INSTANCE DeliveryLedger WITH
    phase <- [n \in Notification |-> RowPhase(notifications[n])],
    history <- [n \in Notification |->
                  [i \in 1..notifications[n].attempt_count |-> StatusOf(n, i)]]

(* Whatever the processes and the faults do, an observer of the two tables *)
(* sees the ledger: attempts entered one at a time and never changed, the  *)
(* phase decided by the newest one, retries taken up only when owed.       *)
ImplementsLedger == Ledger!LedgerSpec
=============================================================================
