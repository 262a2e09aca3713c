-------------------------- MODULE IdempotentOperation --------------------------
(***************************************************************************)
(* What an Idempotency-Key promises, without transactions: the first       *)
(* request of a key decides its outcome, later ones repeat it or, with     *)
(* another payload, are refused.  NotificationSubmission implements this.  *)
(***************************************************************************)
CONSTANTS Request, Key, Payload, None

VARIABLES asked,      \* what each request asks for
          outcome,    \* the decided payload and notification of each key
          answer      \* what each request was told

operationVars == <<asked, outcome, answer>>

OperationInit ==
    /\ asked = [r \in Request |-> None]
    /\ outcome = [k \in Key |-> None]
    /\ answer = [r \in Request |-> None]

Ask(r, k, p) ==
    /\ asked[r] = None
    /\ asked' = [asked EXCEPT ![r] = [key |-> k, payload |-> p]]
    /\ UNCHANGED <<outcome, answer>>

Waiting(r) == asked[r] # None /\ answer[r] = None

Tell(r, status, notification) ==
    /\ answer' = [answer EXCEPT ![r] =
                     [status |-> status, notification |-> notification]]
    /\ UNCHANGED asked

\* One request decides its key; its notification is named after it.
Decide(r) ==
    /\ Waiting(r)
    /\ outcome[asked[r].key] = None
    /\ outcome' = [outcome EXCEPT ![asked[r].key] =
                      [payload |-> asked[r].payload, notification |-> r]]
    /\ UNCHANGED <<asked, answer>>

Confirm(r) ==
    /\ Waiting(r)
    /\ outcome[asked[r].key] # None
    /\ outcome[asked[r].key].notification = r
    /\ Tell(r, "201", r)
    /\ UNCHANGED outcome

Repeat(r) ==
    /\ Waiting(r)
    /\ outcome[asked[r].key] # None
    /\ LET decided == outcome[asked[r].key]
       IN  IF decided.payload = asked[r].payload
           THEN Tell(r, "200", decided.notification)
           ELSE Tell(r, "409", None)
    /\ UNCHANGED outcome

\* A fault: the client cannot tell whether the key was decided.
Fail(r) ==
    /\ Waiting(r)
    /\ Tell(r, "500", None)
    /\ UNCHANGED outcome

OperationNext ==
    \E r \in Request :
       \/ \E k \in Key, p \in Payload : Ask(r, k, p)
       \/ Decide(r) \/ Confirm(r) \/ Repeat(r) \/ Fail(r)

OperationSpec == OperationInit /\ [][OperationNext]_operationVars
=============================================================================
