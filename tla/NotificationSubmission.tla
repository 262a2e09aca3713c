------------------------ MODULE NotificationSubmission ------------------------
(***************************************************************************)
(* submit_notification, statement by statement, with any number of         *)
(* requests racing on an Idempotency-Key.  A key here is the quadruple of  *)
(* the UNIQUE constraint (api_key_id, method, path, idempotency_key); the  *)
(* canonical hash of a body is the body (a Payload).  Rows inserted by an  *)
(* open transaction are kept in its request's record until it commits,     *)
(* which is when READ COMMITTED shows them to others.  No statement reads   *)
(* or deletes by expires_at, so a committed row stays.                     *)
(*                                                                         *)
(* A notification is named by the request that created it.  What happens   *)
(* to it after the commit is NotificationEngine.                           *)
(***************************************************************************)
EXTENDS Naturals, FiniteSets

CONSTANTS Request, Key, Payload, None

VARIABLES
    idempotency_keys,   \* committed rows, by key
    notifications,      \* committed rows, by the request that inserted them
    request,            \* request[r]: a POST and its transaction
    answer              \* answer[r]: what the client of r was told

tables == <<idempotency_keys, notifications>>
vars == <<tables, request, answer>>

KeyRow == [request_hash : Payload, notification_id : Request \cup {None}]
NotificationRow == [key : Key, payload : Payload]
Pc == {"inserting", "inserted", "created", "completed", "committed", "conflict",
       "found", "done"}
Open == [pc : Pc, key : Key, request_hash : Payload,
         notification_id : Request \cup {None}]
Answer == [status : {"200", "201", "404", "409", "500", "inconsistent"},
           notification : Request \cup {None}]

\* None is none of the values it stands beside, here or in the abstract operation.
ASSUME NoneAssumption ==
    /\ None \notin Request
    /\ None \notin KeyRow \cup NotificationRow \cup Open \cup Answer
    /\ None \notin [payload : Payload, notification : Request]

SubmissionTypeOK ==
    /\ idempotency_keys \in [Key -> KeyRow \cup {None}]
    /\ notifications \in [Request -> NotificationRow \cup {None}]
    /\ request \in [Request -> Open \cup {None}]
    /\ answer \in [Request -> Answer \cup {None}]

Init ==
    /\ idempotency_keys = [k \in Key |-> None]
    /\ notifications = [r \in Request |-> None]
    /\ request = [r \in Request |-> None]
    /\ answer = [r \in Request |-> None]

-----------------------------------------------------------------------------

At(r, pc) == request[r] # None /\ request[r].pc = pc

Goto(r, pc) == request' = [request EXCEPT ![r].pc = pc]

\* a faulty variant: a failed request leaves its transaction open
HoldsAfterFailure(r) ==
    \/ \E pc \in {"inserted", "created", "completed"} : At(r, pc)
    \/ At(r, "done") /\ answer[r].status = "500"

\* r's transaction has inserted the row of its key and not ended yet.
Holds(r) == \E pc \in {"inserted", "created", "completed"} : At(r, pc)

Reply(r, status, notification) ==
    /\ Goto(r, "done")
    /\ answer' = [answer EXCEPT ![r] =
                     [status |-> status, notification |-> notification]]

\* A request arrives; with a retry, another one has the same key and payload.
Receive(r, k, p) ==
    /\ request[r] = None
    /\ request' = [request EXCEPT ![r] =
          [pc |-> "inserting", key |-> k, request_hash |-> p,
           notification_id |-> None]]
    /\ UNCHANGED <<tables, answer>>

\* a faulty variant: the insert does not wait for a concurrent one
InsertWithoutWaiting(r) ==
    /\ At(r, "inserting")
    /\ Goto(r, IF idempotency_keys[request[r].key] = None
               THEN "inserted" ELSE "conflict")
    /\ UNCHANGED <<tables, answer>>

\* insert_idem_keys: ON CONFLICT DO NOTHING waits for an open transaction
\* that has inserted the same key, then inserts, or returns no row when that
\* one committed.
Insert(r) ==
    /\ At(r, "inserting")
    /\ \A q \in Request : Holds(q) => request[q].key # request[r].key
    /\ Goto(r, IF idempotency_keys[request[r].key] = None
               THEN "inserted" ELSE "conflict")
    /\ UNCHANGED <<tables, answer>>

\* create_notification
Create(r) ==
    /\ At(r, "inserted")
    /\ Goto(r, "created")
    /\ UNCHANGED <<tables, answer>>

\* complete_idempotency
Complete(r) ==
    /\ At(r, "created")
    /\ request' = [request EXCEPT ![r].pc = "completed",
                                  ![r].notification_id = r]
    /\ UNCHANGED <<tables, answer>>

\* The transaction of create_notify commits.
Commit(r) ==
    /\ At(r, "completed")
    /\ idempotency_keys' = [idempotency_keys EXCEPT ![request[r].key] =
          [request_hash |-> request[r].request_hash,
           notification_id |-> request[r].notification_id]]
    /\ notifications' = [notifications EXCEPT ![r] =
          [key |-> request[r].key, payload |-> request[r].request_hash]]
    /\ Goto(r, "committed")
    /\ UNCHANGED answer

\* enqueue and mark_queued have returned.
Confirm(r) ==
    /\ At(r, "committed")
    /\ Reply(r, "201", r)
    /\ UNCHANGED tables

\* a faulty variant: the payloads are not compared
RefusalIgnoringHash(row, request_hash) ==
    IF row = None THEN "inconsistent"
    ELSE IF row.notification_id = None THEN "404" ELSE "none"

\* The checks of an existing row, in their order.
RefusalOf(row, request_hash) ==
    IF row = None THEN "inconsistent"
    ELSE IF row.request_hash # request_hash THEN "409"
    ELSE IF row.notification_id = None THEN "404" ELSE "none"

\* get_idem_keys
Lookup(r) ==
    /\ At(r, "conflict")
    /\ LET row == idempotency_keys[request[r].key]
           refusal == RefusalOf(row, request[r].request_hash)
       IN  IF refusal # "none" THEN Reply(r, refusal, None)
           ELSE /\ request' = [request EXCEPT ![r].pc = "found",
                                 ![r].notification_id = row.notification_id]
                /\ UNCHANGED answer
    /\ UNCHANGED tables

\* get_notification, then 200.
Fetch(r) ==
    /\ At(r, "found")
    /\ LET id == request[r].notification_id
       IN  IF notifications[id] = None
           THEN Reply(r, "inconsistent", None) ELSE Reply(r, "200", id)
    /\ UNCHANGED tables

\* A statement, the connection or (after the commit) the enqueue fails, or
\* the process dies; an open transaction is rolled back.
Fail(r) ==
    /\ request[r] # None /\ ~At(r, "done")
    /\ Reply(r, "500", None)
    /\ UNCHANGED tables

-----------------------------------------------------------------------------

Step(r) == \/ Insert(r) \/ Create(r) \/ Complete(r) \/ Commit(r)
           \/ Confirm(r) \/ Lookup(r) \/ Fetch(r)

Next == \E r \in Request :
            \/ \E k \in Key, p \in Payload : Receive(r, k, p)
            \/ Step(r) \/ Fail(r)

Spec == Init /\ [][Next]_vars

\* A handler that is running goes on; clients and clocks owe nothing.
FairSpec == Spec /\ \A r \in Request : WF_vars(Step(r))

-----------------------------------------------------------------------------

(* The two tables agree: the notifications committed under a key are the   *)
(* one its row names, with the payload whose hash the row stores; no row,  *)
(* no notification (submit_notification in one transaction).               *)
OneNotificationPerKey ==
    \A k \in Key :
        {[id |-> r, payload |-> notifications[r].payload] : r \in
            {q \in Request : notifications[q] # None
                             /\ notifications[q].key = k}}
        = IF idempotency_keys[k] = None THEN {}
          ELSE {[id |-> idempotency_keys[k].notification_id,
                 payload |-> idempotency_keys[k].request_hash]}

Operation == INSTANCE IdempotentOperation WITH
    asked <- [r \in Request |->
                IF request[r] = None THEN None
                ELSE [key |-> request[r].key,
                      payload |-> request[r].request_hash]],
    outcome <- [k \in Key |->
                IF idempotency_keys[k] = None THEN None
                ELSE [payload |-> idempotency_keys[k].request_hash,
                      notification |-> idempotency_keys[k].notification_id]]

(* Racing, retried and failing requests together behave like the abstract  *)
(* operation: a key is decided once, all its 200 and 201 answers name the  *)
(* same notification, a different payload gets 409, and the "still being   *)
(* processed" and "internal inconsistency" answers of submit_notification  *)
(* are never given.                                                        *)
ImplementsOperation == Operation!OperationSpec

(* No request waits forever on the transaction of another one that holds   *)
(* its key (insert_idem_keys, conn.transaction).                           *)
EveryRequestIsAnswered ==
    \A r \in Request : At(r, "inserting") ~> At(r, "done")
=============================================================================
