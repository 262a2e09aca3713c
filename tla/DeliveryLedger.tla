---------------------------- MODULE DeliveryLedger ----------------------------
(***************************************************************************)
(* What Relays promises about one notification, without processes, queues  *)
(* or tables: a ledger that only grows, and a phase that the newest entry  *)
(* decides.  Messages, workers, retry times and transactions are details   *)
(* of NotificationEngine, which implements this specification.             *)
(***************************************************************************)
EXTENDS Naturals, Sequences

CONSTANTS Notification, MaxAttempts

VARIABLES phase,      \* where the notification is in its life
          history     \* the outcomes of its recorded delivery attempts

ledgerVars == <<phase, history>>

Phase == {"unknown", "open", "waiting", "retrying", "sent", "failed"}
Result == {"success", "temporary_failure", "permanent_failure"}

\* The phase after the k-th attempt ended in `result'.
PhaseAfter(result, k) ==
    IF result = "success" THEN "sent"
    ELSE IF result = "permanent_failure" \/ k >= MaxAttempts
    THEN "failed" ELSE "waiting"

LedgerInit ==
    /\ phase = [n \in Notification |-> "unknown"]
    /\ history = [n \in Notification |-> <<>>]

\* The notification is accepted: it is open, with nothing tried.
Accept(n) ==
    /\ phase[n] = "unknown"
    /\ phase' = [phase EXCEPT ![n] = "open"]
    /\ UNCHANGED history

\* One more attempt is entered.  There is one while attempts are left, even
\* after a failure declared final; once sent, only further successes.
Enter(n, result) ==
    /\ phase[n] # "unknown"
    /\ Len(history[n]) < MaxAttempts
    /\ phase[n] = "sent" => result = "success"
    /\ history' = [history EXCEPT ![n] = Append(@, result)]
    /\ phase' = [phase EXCEPT ![n] = PhaseAfter(result, Len(history[n]) + 1)]

\* Waiting notifications are taken up for their next attempt, together.
Retry(S) ==
    /\ S # {}
    /\ \A n \in S : phase[n] = "waiting"
    /\ phase' = [n \in Notification |->
                    IF n \in S THEN "retrying" ELSE phase[n]]
    /\ UNCHANGED history

LedgerNext ==
    \/ \E n \in Notification :
          Accept(n) \/ \E result \in Result : Enter(n, result)
    \/ \E S \in SUBSET Notification : Retry(S)

LedgerSpec == LedgerInit /\ [][LedgerNext]_ledgerVars
=============================================================================
