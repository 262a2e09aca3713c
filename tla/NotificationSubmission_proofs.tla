-------------------- MODULE NotificationSubmission_proofs --------------------
(***************************************************************************)
(* Proofs about NotificationSubmission, for every set of requests, keys    *)
(* and payloads: the two tables agree, and the statements implement        *)
(* IdempotentOperation.                                                    *)
(*                                                                         *)
(* The argument: a transaction that holds a key holds it alone, over no    *)
(* committed row (HoldersAreAlone), so a commit never replaces a row.      *)
(* What a request has seen of a row therefore stays true (Remembered).     *)
(***************************************************************************)
EXTENDS NotificationSubmission, TLAPS

USE NoneAssumption

-----------------------------------------------------------------------------
(* The inductive invariant.                                                *)

HoldersAreAlone ==
    \A r \in Request : Holds(r) =>
        /\ idempotency_keys[request[r].key] = None
        /\ \A q \in Request \ {r} : Holds(q) => request[q].key # request[r].key

\* Every committed notification has its key's row, and every row its notification.
TablesAgree ==
    /\ \A r \in Request : notifications[r] # None =>
          idempotency_keys[notifications[r].key] =
              [request_hash |-> notifications[r].payload, notification_id |-> r]
    /\ \A k \in Key : idempotency_keys[k] # None =>
          LET id == idempotency_keys[k].notification_id
          IN  /\ id \in Request
              /\ notifications[id] = [key |-> k,
                                      payload |-> idempotency_keys[k].request_hash]

\* What a request has written or read is still so.
Remembered ==
    \A r \in Request :
        /\ At(r, "completed") => request[r].notification_id = r
        /\ At(r, "committed") =>
              idempotency_keys[request[r].key] =
                  [request_hash |-> request[r].request_hash, notification_id |-> r]
        /\ At(r, "conflict") => idempotency_keys[request[r].key] # None
        /\ At(r, "found") =>
              idempotency_keys[request[r].key] =
                  [request_hash |-> request[r].request_hash,
                   notification_id |-> request[r].notification_id]

Answered == \A r \in Request : answer[r] # None <=> At(r, "done")

\* A notification is there only if its request got to its commit.
CommittedOnce ==
    \A r \in Request : notifications[r] # None => At(r, "committed") \/ At(r, "done")

SubmissionInv ==
    /\ SubmissionTypeOK
    /\ HoldersAreAlone
    /\ TablesAgree
    /\ Remembered
    /\ Answered
    /\ CommittedOnce

LEMMA InitSubmissionInv == Init => SubmissionInv
<1> SUFFICES ASSUME Init PROVE SubmissionInv
  OBVIOUS
<1>1. SubmissionTypeOK
  BY DEF Init, SubmissionTypeOK
<1>2. \A r \in Request, pc \in Pc : ~At(r, pc)
  BY DEF Init, At
<1>3. HoldersAreAlone /\ Remembered /\ Answered
  BY <1>2 DEF Init, HoldersAreAlone, Remembered, Answered, Holds, Pc
<1>4. TablesAgree /\ CommittedOnce
  BY DEF Init, TablesAgree, CommittedOnce
<1>5. QED
  BY <1>1, <1>3, <1>4 DEF SubmissionInv

-----------------------------------------------------------------------------
(* How requests move.                                                      *)

\* r has new as its record, with the key and the body it came with.
Becomes(r, new) ==
    /\ new \in Open
    /\ new.key = request[r].key /\ new.request_hash = request[r].request_hash
    /\ request' = [request EXCEPT ![r] = new]

LEMMA GotoBecomes ==
    ASSUME SubmissionTypeOK, NEW r \in Request, request[r] # None,
           NEW pc \in Pc, Goto(r, pc)
    PROVE  \E new \in Open : /\ Becomes(r, new) /\ new.pc = pc
                             /\ new.notification_id = request[r].notification_id
<1>1. request[r] \in Open
  BY DEF SubmissionTypeOK
<1>2. [request[r] EXCEPT !.pc = pc] \in Open
  BY <1>1 DEF Open
<1>3. request' = [request EXCEPT ![r] = [request[r] EXCEPT !.pc = pc]]
  BY DEF Goto, SubmissionTypeOK
<1>4. WITNESS [request[r] EXCEPT !.pc = pc] \in Open
<1>5. QED
  BY <1>1, <1>2, <1>3 DEF Becomes, Open

LEMMA BecomesWhat ==
    ASSUME SubmissionTypeOK, NEW r \in Request, NEW new, Becomes(r, new)
    PROVE  /\ request' \in [Request -> Open \cup {None}]
           /\ request'[r] = new /\ new # None
           /\ \A q \in Request \ {r} : request'[q] = request[q]
           /\ \A pc : At(r, pc)' <=> new.pc = pc
           /\ \A q \in Request \ {r}, pc \in Pc : At(q, pc)' <=> At(q, pc)
           /\ \A q \in Request \ {r} : Holds(q)' <=> Holds(q)
           /\ Holds(r)' <=> new.pc \in {"inserted", "created", "completed"}
<1>1. /\ request' \in [Request -> Open \cup {None}]
      /\ request'[r] = new /\ new # None
      /\ \A q \in Request \ {r} : request'[q] = request[q]
  BY DEF Becomes, SubmissionTypeOK
<1>2. /\ \A pc : At(r, pc)' <=> new.pc = pc
      /\ \A q \in Request \ {r}, pc \in Pc : At(q, pc)' <=> At(q, pc)
  BY <1>1 DEF At
<1>3. QED
  BY <1>1, <1>2 DEF Holds, Pc

(* A step inside the transaction, or before it: what it has inserted is    *)
(* its own, and what it notes is what it wrote or read.                    *)
LEMMA WorkingStep ==
    ASSUME SubmissionInv, NEW r \in Request, request[r] # None,
           ~At(r, "committed"), ~At(r, "done"), UNCHANGED <<tables, answer>>,
           NEW new, Becomes(r, new), new.pc \in Pc \ {"committed", "done"},
           new.pc \in {"inserted", "created", "completed"} =>
               Holds(r) \/ /\ idempotency_keys[request[r].key] = None
                           /\ \A q \in Request : Holds(q) => request[q].key # request[r].key,
           new.pc = "completed" => new.notification_id = r,
           new.pc = "conflict" => idempotency_keys[request[r].key] # None,
           new.pc = "found" =>
               idempotency_keys[request[r].key] =
                  [request_hash |-> new.request_hash,
                   notification_id |-> new.notification_id]
    PROVE  SubmissionInv'
<1> USE DEF SubmissionInv
<1>1. SubmissionTypeOK
  OBVIOUS
<1>2. /\ request' \in [Request -> Open \cup {None}]
      /\ request'[r] = new /\ new # None
      /\ \A q \in Request \ {r} : request'[q] = request[q]
      /\ \A pc : At(r, pc)' <=> new.pc = pc
      /\ \A q \in Request \ {r}, pc \in Pc : At(q, pc)' <=> At(q, pc)
      /\ \A q \in Request \ {r} : Holds(q)' <=> Holds(q)
      /\ Holds(r)' <=> new.pc \in {"inserted", "created", "completed"}
  BY <1>1, BecomesWhat
<1>3. request'[r].key = request[r].key /\ request'[r].request_hash = request[r].request_hash
  BY <1>2 DEF Becomes
<1>4. idempotency_keys' = idempotency_keys /\ notifications' = notifications
      /\ answer' = answer
  BY DEF tables
<1>5. SubmissionTypeOK'
  BY <1>2, <1>4 DEF SubmissionTypeOK
<1>6. HoldersAreAlone'
  <2>1. \A q \in Request : request'[q].key = request[q].key
    BY <1>2, <1>3
  <2>2. Holds(r)' =>
           /\ idempotency_keys[request[r].key] = None
           /\ \A q \in Request \ {r} : Holds(q) => request[q].key # request[r].key
    BY <1>2 DEF HoldersAreAlone
  <2>3. QED
    BY <1>2, <1>4, <2>1, <2>2 DEF HoldersAreAlone
<1>7. TablesAgree'
  BY <1>4 DEF TablesAgree
<1>8. Remembered'
  BY <1>2, <1>3, <1>4 DEF Remembered, Pc
<1>9. Answered' /\ CommittedOnce'
  BY <1>2, <1>4 DEF Answered, CommittedOnce, Pc
<1>10. QED
  BY <1>5, <1>6, <1>7, <1>8, <1>9

LEMMA ReplyStep ==
    ASSUME SubmissionInv, NEW r \in Request, request[r] # None, ~At(r, "done"),
           NEW status \in {"200", "201", "404", "409", "500", "inconsistent"},
           NEW id \in Request \cup {None}, Reply(r, status, id), UNCHANGED tables
    PROVE  SubmissionInv'
<1> USE DEF SubmissionInv
<1>1. PICK new \in Open : Becomes(r, new) /\ new.pc = "done"
  BY GotoBecomes DEF Reply, Pc
<1>2. /\ request' \in [Request -> Open \cup {None}]
      /\ \A q \in Request \ {r} : request'[q] = request[q]
      /\ \A pc : At(r, pc)' <=> pc = "done"
      /\ \A q \in Request \ {r}, pc \in Pc : At(q, pc)' <=> At(q, pc)
      /\ \A q \in Request \ {r} : Holds(q)' <=> Holds(q)
      /\ ~Holds(r)'
  BY <1>1, BecomesWhat
<1>3. /\ [status |-> status, notification |-> id] \in Answer
      /\ answer'[r] # None /\ \A q \in Request \ {r} : answer'[q] = answer[q]
      /\ answer' \in [Request -> Answer \cup {None}]
  BY DEF Reply, SubmissionTypeOK, Answer
<1>4. idempotency_keys' = idempotency_keys /\ notifications' = notifications
  BY DEF tables
<1>5. SubmissionTypeOK'
  BY <1>2, <1>3, <1>4 DEF SubmissionTypeOK
<1>6. HoldersAreAlone' /\ TablesAgree'
  BY <1>2, <1>4 DEF HoldersAreAlone, TablesAgree
<1>7. Remembered'
  BY <1>2, <1>4 DEF Remembered, Pc
<1>8. Answered' /\ CommittedOnce'
  BY <1>2, <1>3, <1>4 DEF Answered, CommittedOnce, Pc
<1>9. QED
  BY <1>5, <1>6, <1>7, <1>8

(* The commit writes over no row, because the request holds its key.       *)
LEMMA CommitStep ==
    ASSUME SubmissionInv, NEW r \in Request, Commit(r)
    PROVE  SubmissionInv'
<1> USE DEF SubmissionInv
<1> DEFINE key == request[r].key
           row == [request_hash |-> request[r].request_hash, notification_id |-> r]
           notification == [key |-> key, payload |-> request[r].request_hash]
<1>1. /\ request[r] \in Open /\ request[r] # None /\ key \in Key
      /\ row \in KeyRow /\ row # None
      /\ notification \in NotificationRow /\ notification # None
  BY DEF Commit, At, SubmissionTypeOK, Open, KeyRow, NotificationRow
<1>2. request[r].notification_id = r
  BY DEF Commit, Remembered
<1>3. /\ idempotency_keys' = [idempotency_keys EXCEPT ![key] = row]
      /\ notifications' = [notifications EXCEPT ![r] = notification]
      /\ answer' = answer
  BY <1>2 DEF Commit
<1>4. /\ idempotency_keys'[key] = row
      /\ \A k \in Key \ {key} : idempotency_keys'[k] = idempotency_keys[k]
      /\ notifications'[r] = notification
      /\ \A q \in Request \ {r} : notifications'[q] = notifications[q]
  BY <1>1, <1>3 DEF SubmissionTypeOK
<1>5. PICK new \in Open : Becomes(r, new) /\ new.pc = "committed"
  BY <1>1, GotoBecomes DEF Commit, Pc
<1>6. /\ request' \in [Request -> Open \cup {None}]
      /\ request'[r] = new
      /\ \A q \in Request \ {r} : request'[q] = request[q]
      /\ \A pc : At(r, pc)' <=> pc = "committed"
      /\ \A q \in Request \ {r}, pc \in Pc : At(q, pc)' <=> At(q, pc)
      /\ \A q \in Request \ {r} : Holds(q)' <=> Holds(q)
      /\ ~Holds(r)'
  BY <1>5, BecomesWhat
<1>7. new.key = key /\ new.request_hash = request[r].request_hash
  BY <1>5 DEF Becomes
<1>8. Holds(r) /\ idempotency_keys[key] = None
  BY DEF Commit, Holds, HoldersAreAlone
<1>9. notifications[r] = None
  BY <1>1 DEF Commit, CommittedOnce, At
<1>10. SubmissionTypeOK'
  BY <1>1, <1>3, <1>6 DEF SubmissionTypeOK
<1>11. \A q \in Request : request[q] # None => request[q].key \in Key
  BY DEF SubmissionTypeOK, Open
<1>12. \A q \in Request : Holds(q) => request[q] # None
  BY DEF Holds, At
<1>13. HoldersAreAlone'
  BY <1>4, <1>6, <1>8, <1>11, <1>12 DEF HoldersAreAlone
<1>14. TablesAgree'
  <2>1. ASSUME NEW q \in Request, notifications'[q] # None
        PROVE  idempotency_keys'[notifications'[q].key] =
                  [request_hash |-> notifications'[q].payload, notification_id |-> q]
    <3>1. CASE q = r
      BY <1>1, <1>4, <3>1
    <3>2. CASE q # r
      <4>1. notifications[q] \in NotificationRow
        BY <1>4, <2>1, <3>2 DEF SubmissionTypeOK
      <4>2. [request_hash |-> notifications[q].payload, notification_id |-> q] \in KeyRow
        BY <4>1 DEF NotificationRow, KeyRow
      <4>3. notifications[q].key \in Key \ {key}
        BY <1>4, <1>8, <2>1, <3>2, <4>1, <4>2 DEF TablesAgree, NotificationRow
      <4>4. QED
        BY <1>4, <2>1, <3>2, <4>3 DEF TablesAgree
    <3>3. QED
      BY <3>1, <3>2
  <2>2. ASSUME NEW k \in Key, idempotency_keys'[k] # None
        PROVE  LET id == idempotency_keys'[k].notification_id
               IN  /\ id \in Request
                   /\ notifications'[id] = [key |-> k,
                                  payload |-> idempotency_keys'[k].request_hash]
    <3>1. CASE k = key
      BY <1>4, <3>1
    <3>2. CASE k # key
      <4> DEFINE id == idempotency_keys[k].notification_id
      <4>1. idempotency_keys'[k] = idempotency_keys[k] /\ idempotency_keys[k] \in KeyRow
        BY <1>4, <2>2, <3>2 DEF SubmissionTypeOK
      <4>2. /\ id \in Request
            /\ notifications[id] = [key |-> k, payload |-> idempotency_keys[k].request_hash]
        BY <2>2, <4>1 DEF TablesAgree
      <4>3. notifications[id] \in NotificationRow
        BY <4>1, <4>2 DEF NotificationRow, KeyRow
      <4>4. id # r
        BY <1>9, <4>3
      <4>5. QED
        BY <1>4, <4>1, <4>2, <4>4
    <3>3. QED
      BY <3>1, <3>2
  <2>3. QED
    BY <2>1, <2>2 DEF TablesAgree
<1>15. Remembered'
  <2>1. ASSUME NEW q \in Request \ {r},
               At(q, "committed") \/ At(q, "conflict") \/ At(q, "found")
        PROVE  idempotency_keys'[request'[q].key] = idempotency_keys[request[q].key]
    <3>1. request[q] \in Open
      BY <2>1 DEF At, SubmissionTypeOK
    <3>2. /\ [request_hash |-> request[q].request_hash, notification_id |-> q] \in KeyRow
          /\ [request_hash |-> request[q].request_hash,
              notification_id |-> request[q].notification_id] \in KeyRow
      BY <3>1 DEF Open, KeyRow
    <3>3. request[q].key # key
      BY <1>8, <2>1, <3>2 DEF Remembered
    <3>4. QED
      BY <1>4, <1>6, <3>1, <3>3 DEF Open
  <2>2. \A q \in Request \ {r} :
           /\ At(q, "completed")' => request'[q].notification_id = q
           /\ At(q, "committed")' =>
                 idempotency_keys'[request'[q].key] =
                     [request_hash |-> request'[q].request_hash, notification_id |-> q]
           /\ At(q, "conflict")' => idempotency_keys'[request'[q].key] # None
           /\ At(q, "found")' =>
                 idempotency_keys'[request'[q].key] =
                     [request_hash |-> request'[q].request_hash,
                      notification_id |-> request'[q].notification_id]
    BY <1>6, <2>1 DEF Remembered, Pc
  <2>3. At(r, "committed")' => idempotency_keys'[request'[r].key] =
            [request_hash |-> request'[r].request_hash, notification_id |-> r]
    BY <1>4, <1>6, <1>7
  <2>4. /\ ~At(r, "completed")' /\ ~At(r, "conflict")' /\ ~At(r, "found")'
    BY <1>6
  <2>5. QED
    BY <2>2, <2>3, <2>4 DEF Remembered
<1>16. Answered' /\ CommittedOnce'
  BY <1>3, <1>4, <1>6 DEF Answered, CommittedOnce, Commit, At, Pc
<1>17. QED
  BY <1>10, <1>13, <1>14, <1>15, <1>16

(* An existing row has its notification and is never incomplete.           *)
LEMMA RefusedForItsBody ==
    ASSUME SubmissionInv, NEW r \in Request, At(r, "conflict")
    PROVE  LET row == idempotency_keys[request[r].key]
           IN  /\ row \in KeyRow /\ row # None /\ row.notification_id \in Request
               /\ RefusalOf(row, request[r].request_hash) =
                     IF row.request_hash = request[r].request_hash
                     THEN "none" ELSE "409"
<1> DEFINE row == idempotency_keys[request[r].key]
<1>1. request[r].key \in Key
  BY DEF SubmissionInv, SubmissionTypeOK, At, Open
<1>2. row # None
  BY DEF SubmissionInv, Remembered
<1>3. row \in KeyRow
  BY <1>1, <1>2 DEF SubmissionInv, SubmissionTypeOK
<1>4. row.notification_id \in Request /\ row.notification_id # None
  BY <1>1, <1>2 DEF SubmissionInv, TablesAgree
<1>5. CASE row.request_hash = request[r].request_hash
  BY <1>2, <1>3, <1>4, <1>5 DEF RefusalOf
<1>6. CASE row.request_hash # request[r].request_hash
  BY <1>2, <1>3, <1>4, <1>6 DEF RefusalOf
<1>7. QED
  BY <1>5, <1>6

LEMMA SubmissionInvStep == SubmissionInv /\ [Next]_vars => SubmissionInv'
<1> SUFFICES ASSUME SubmissionInv, [Next]_vars PROVE SubmissionInv'
  OBVIOUS
<1> USE DEF SubmissionInv
<1>1. ASSUME NEW r \in Request, NEW k \in Key, NEW p \in Payload, Receive(r, k, p)
      PROVE  SubmissionInv'
  <2> DEFINE new == [pc |-> "inserting", key |-> k, request_hash |-> p,
                     notification_id |-> None]
  <2>1. new \in Open /\ new # None
    BY DEF Open, Pc
  <2>2. /\ request'[r] = new /\ \A q \in Request \ {r} : request'[q] = request[q]
        /\ request' \in [Request -> Open \cup {None}]
    BY <1>1, <2>1 DEF Receive, SubmissionTypeOK
  <2>3. \A q \in Request, pc \in Pc \ {"inserting"} : At(q, pc)' <=> At(q, pc)
    BY <1>1, <2>2 DEF Receive, At
  <2>4. \A q \in Request : /\ Holds(q)' <=> Holds(q)
                           /\ Holds(q) => request'[q] = request[q]
    BY <1>1, <2>2, <2>3 DEF Receive, Holds, At, Pc
  <2>5. idempotency_keys' = idempotency_keys /\ notifications' = notifications
        /\ answer' = answer
    BY <1>1 DEF Receive, tables
  <2>6. SubmissionTypeOK'
    BY <2>2, <2>5 DEF SubmissionTypeOK
  <2>7. HoldersAreAlone' /\ TablesAgree'
    BY <2>4, <2>5 DEF HoldersAreAlone, TablesAgree
  <2>8. Remembered'
    <3>1. \A pc \in {"completed", "committed", "conflict", "found"} : ~At(r, pc)
      BY <1>1 DEF Receive, At
    <3>2. QED
      BY <2>2, <2>3, <2>5, <3>1 DEF Remembered, Pc
  <2>9. Answered' /\ CommittedOnce'
    BY <2>3, <2>5 DEF Answered, CommittedOnce, Pc
  <2>10. QED
    BY <2>6, <2>7, <2>8, <2>9
<1>2. ASSUME NEW r \in Request, Insert(r) PROVE SubmissionInv'
  <2>1. request[r] # None /\ ~At(r, "committed") /\ ~At(r, "done")
    BY <1>2 DEF Insert, At
  <2> DEFINE pc == IF idempotency_keys[request[r].key] = None
                   THEN "inserted" ELSE "conflict"
  <2>2. PICK new \in Open : Becomes(r, new) /\ new.pc = pc
    BY <1>2, <2>1, GotoBecomes DEF Insert, Pc
  <2>3. QED
    BY <1>2, <2>1, <2>2, WorkingStep DEF Insert, Pc
<1>3. ASSUME NEW r \in Request, Create(r) PROVE SubmissionInv'
  <2>1. request[r] # None /\ Holds(r) /\ ~At(r, "committed") /\ ~At(r, "done")
    BY <1>3 DEF Create, At, Holds
  <2>2. PICK new \in Open : Becomes(r, new) /\ new.pc = "created"
    BY <1>3, <2>1, GotoBecomes DEF Create, Pc
  <2>3. QED
    BY <1>3, <2>1, <2>2, WorkingStep DEF Create, Pc
<1>4. ASSUME NEW r \in Request, Complete(r) PROVE SubmissionInv'
  <2>1. request[r] # None /\ Holds(r) /\ ~At(r, "committed") /\ ~At(r, "done")
    BY <1>4 DEF Complete, At, Holds
  <2> DEFINE new == [request[r] EXCEPT !.pc = "completed", !.notification_id = r]
  <2>2. request[r] \in Open
    BY <2>1 DEF SubmissionTypeOK
  <2>3. /\ new \in Open /\ new.pc = "completed" /\ new.notification_id = r
        /\ new.key = request[r].key /\ new.request_hash = request[r].request_hash
    BY <2>2 DEF Open, Pc
  <2>4. request' = [request EXCEPT ![r] = new]
    BY <1>4, <2>2 DEF Complete, SubmissionTypeOK
  <2>5. Becomes(r, new)
    BY <2>3, <2>4 DEF Becomes
  <2> HIDE DEF new
  <2>6. UNCHANGED <<tables, answer>>
    BY <1>4 DEF Complete
  <2>7. QED
    BY <2>1, <2>3, <2>5, <2>6, WorkingStep DEF Pc
<1>5. ASSUME NEW r \in Request, Commit(r) PROVE SubmissionInv'
  BY <1>5, CommitStep
<1>6. ASSUME NEW r \in Request, Confirm(r) PROVE SubmissionInv'
  BY <1>6, ReplyStep DEF Confirm, At
<1>7. ASSUME NEW r \in Request, Lookup(r) PROVE SubmissionInv'
  <2> DEFINE row == idempotency_keys[request[r].key]
             refusal == RefusalOf(row, request[r].request_hash)
             new == [request[r] EXCEPT !.pc = "found",
                                       !.notification_id = row.notification_id]
  <2>1. At(r, "conflict") /\ request[r] # None
        /\ ~At(r, "committed") /\ ~At(r, "done")
    BY <1>7 DEF Lookup, At
  <2>2. /\ row \in KeyRow /\ row.notification_id \in Request
        /\ refusal = IF row.request_hash = request[r].request_hash THEN "none" ELSE "409"
    BY <2>1, RefusedForItsBody
  <2>3. CASE refusal # "none"
    <3>1. refusal = "409" /\ Reply(r, refusal, None) /\ UNCHANGED tables
      BY <1>7, <2>2, <2>3 DEF Lookup
    <3>2. QED
      BY <2>1, <3>1, ReplyStep
  <2>4. CASE refusal = "none"
    <3>1. request[r] \in Open /\ row.request_hash = request[r].request_hash
      BY <2>1, <2>2, <2>4 DEF SubmissionTypeOK
    <3>2. /\ new \in Open /\ new.pc = "found" /\ new.notification_id = row.notification_id
          /\ new.key = request[r].key /\ new.request_hash = request[r].request_hash
      BY <2>2, <3>1 DEF Open, Pc
    <3>3. request' = [request EXCEPT ![r] = new] /\ UNCHANGED <<tables, answer>>
      BY <1>7, <2>4, <3>1 DEF Lookup, SubmissionTypeOK
    <3>4. Becomes(r, new)
      BY <3>2, <3>3 DEF Becomes
    <3>5. row = [request_hash |-> new.request_hash, notification_id |-> new.notification_id]
      BY <2>2, <3>1, <3>2 DEF KeyRow
    <3> HIDE DEF new
    <3>6. QED
      BY <2>1, <3>2, <3>3, <3>4, <3>5, WorkingStep DEF Pc
  <2>5. QED
    BY <2>3, <2>4
<1>8. ASSUME NEW r \in Request, Fetch(r) PROVE SubmissionInv'
  <2>1. request[r] # None /\ ~At(r, "done") /\ request[r].notification_id \in Request \cup {None}
    BY <1>8 DEF Fetch, At, SubmissionTypeOK, Open
  <2>2. QED
    BY <1>8, <2>1, ReplyStep DEF Fetch
<1>9. ASSUME NEW r \in Request, Fail(r) PROVE SubmissionInv'
  BY <1>9, ReplyStep DEF Fail
<1>10. CASE UNCHANGED vars
  BY <1>10
  DEF vars, tables, SubmissionTypeOK, HoldersAreAlone, Holds, TablesAgree,
     Remembered, Answered, CommittedOnce, At
<1>11. QED
  BY <1>1, <1>2, <1>3, <1>4, <1>5, <1>6, <1>7, <1>8, <1>9, <1>10 DEF Next, Step

LEMMA SubmissionInvariance == Spec => []SubmissionInv
  BY InitSubmissionInv, SubmissionInvStep, PTL DEF Spec

THEOREM SubmissionTypeCorrect == Spec => []SubmissionTypeOK
<1>1. SubmissionInv => SubmissionTypeOK
  BY DEF SubmissionInv
<1>2. QED
  BY <1>1, SubmissionInvariance, PTL

(* However many requests race on a key, fail or are repeated, one          *)
(* notification is committed for it, with the payload the row has hashed.  *)
THEOREM KeysHaveOneNotification == Spec => []OneNotificationPerKey
<1>1. SubmissionInv => OneNotificationPerKey
  <2> SUFFICES ASSUME SubmissionInv, NEW k \in Key
               PROVE  {[id |-> r, payload |-> notifications[r].payload] : r \in
                         {q \in Request : notifications[q] # None
                                          /\ notifications[q].key = k}}
                      = IF idempotency_keys[k] = None THEN {}
                        ELSE {[id |-> idempotency_keys[k].notification_id,
                               payload |-> idempotency_keys[k].request_hash]}
    BY DEF OneNotificationPerKey
  <2> DEFINE under == {q \in Request : notifications[q] # None /\ notifications[q].key = k}
  <2>1. \A q \in under : idempotency_keys[k] =
           [request_hash |-> notifications[q].payload, notification_id |-> q]
    BY DEF SubmissionInv, TablesAgree
  <2>2. ASSUME NEW q \in under PROVE idempotency_keys[k] \in KeyRow
    <3>1. q \in Request /\ notifications[q] # None
      OBVIOUS
    <3>2. notifications[q] \in NotificationRow
      BY <3>1 DEF SubmissionInv, SubmissionTypeOK
    <3>3. [request_hash |-> notifications[q].payload, notification_id |-> q] \in KeyRow
      BY <3>1, <3>2 DEF NotificationRow, KeyRow
    <3>4. QED
      BY <2>1, <3>3
  <2>3. CASE idempotency_keys[k] = None
    <3>1. under = {}
      BY <2>2, <2>3
    <3>2. QED
      BY <2>3, <3>1
  <2>4. CASE idempotency_keys[k] # None
    <3> DEFINE id == idempotency_keys[k].notification_id
    <3>1. id \in Request /\ notifications[id] =
             [key |-> k, payload |-> idempotency_keys[k].request_hash]
      BY <2>4 DEF SubmissionInv, TablesAgree
    <3>2. notifications[id] \in NotificationRow
      BY <2>4, <3>1
      DEF SubmissionInv, SubmissionTypeOK, KeyRow, NotificationRow
    <3>3. id \in under
      BY <3>1, <3>2
    <3>4. ASSUME NEW q \in under PROVE q = id
      <4>1. idempotency_keys[k] =
               [request_hash |-> notifications[q].payload, notification_id |-> q]
        BY <2>1
      <4>2. QED
        BY <4>1
    <3>5. under = {id} /\ notifications[id].payload = idempotency_keys[k].request_hash
      BY <3>1, <3>3, <3>4
    <3>6. QED
      BY <2>4, <3>5
  <2>5. QED
    BY <2>3, <2>4
<1>2. QED
  BY <1>1, SubmissionInvariance, PTL

-----------------------------------------------------------------------------
(* The refinement.                                                         *)

\* What the mapping makes of the tables and the requests.
Asked == [r \in Request |->
             IF request[r] = None THEN None
             ELSE [key |-> request[r].key, payload |-> request[r].request_hash]]
Outcome == [k \in Key |->
               IF idempotency_keys[k] = None THEN None
               ELSE [payload |-> idempotency_keys[k].request_hash,
                     notification |-> idempotency_keys[k].notification_id]]

LEMMA MovingAsksNothingNew ==
    ASSUME SubmissionTypeOK, NEW r \in Request, request[r] # None,
           NEW new, Becomes(r, new)
    PROVE  Asked' = Asked
<1>1. request'[r] = new /\ new # None
      /\ \A q \in Request \ {r} : request'[q] = request[q]
  BY BecomesWhat
<1>2. new.key = request[r].key /\ new.request_hash = request[r].request_hash
  BY DEF Becomes
<1>3. QED
  BY <1>1, <1>2 DEF Asked

LEMMA NothingDecided ==
    ASSUME UNCHANGED tables PROVE Outcome' = Outcome
  BY DEF tables, Outcome

(* A running request has asked and waits, and what it replies it tells.    *)
LEMMA ReplyTells ==
    ASSUME SubmissionInv, NEW r \in Request, request[r] # None, ~At(r, "done"),
           NEW status, NEW id, Reply(r, status, id), UNCHANGED tables
    PROVE  /\ Asked[r] = [key |-> request[r].key, payload |-> request[r].request_hash]
           /\ Operation!Waiting(r)
           /\ Operation!Tell(r, status, id)
           /\ Outcome' = Outcome
<1>1. request[r] \in Open
  BY DEF SubmissionInv, SubmissionTypeOK
<1>2. [key |-> request[r].key, payload |-> request[r].request_hash] \in NotificationRow
  BY <1>1 DEF Open, NotificationRow
<1>3. Asked[r] = [key |-> request[r].key, payload |-> request[r].request_hash]
      /\ Asked[r] # None
  BY <1>2 DEF Asked
<1>4. answer[r] = None
  BY DEF SubmissionInv, Answered
<1>5. Operation!Waiting(r)
  BY <1>3, <1>4 DEF Operation!Waiting, Asked
<1>6. PICK new \in Open : Becomes(r, new)
  BY GotoBecomes DEF Reply, SubmissionInv, Pc
<1>7. Asked' = Asked
  BY <1>6, MovingAsksNothingNew DEF SubmissionInv
<1>8. Operation!Tell(r, status, id)
  BY <1>7 DEF Reply, Operation!Tell, Asked
<1>9. QED
  BY <1>3, <1>5, <1>8, NothingDecided

LEMMA StepsRefine ==
    SubmissionInv /\ [Next]_vars =>
        [Operation!OperationNext]_(Operation!operationVars)
<1> SUFFICES ASSUME SubmissionInv, [Next]_vars
             PROVE  Operation!OperationNext \/ UNCHANGED <<Asked, Outcome, answer>>
  BY DEF Operation!operationVars, Asked, Outcome
<1> USE DEF SubmissionInv
<1>1. ASSUME NEW r \in Request, NEW k \in Key, NEW p \in Payload, Receive(r, k, p)
      PROVE  Operation!Ask(r, k, p)
  <2> DEFINE new == [pc |-> "inserting", key |-> k, request_hash |-> p,
                     notification_id |-> None]
  <2>1. new \in Open /\ new # None
    BY DEF Open, Pc
  <2>2. request'[r] = new /\ \A q \in Request \ {r} : request'[q] = request[q]
    BY <1>1 DEF Receive, SubmissionTypeOK
  <2>3. Asked[r] = None
    BY <1>1 DEF Receive, Asked
  <2>4. Asked' = [Asked EXCEPT ![r] = [key |-> k, payload |-> p]]
    <3>1. new.key = k /\ new.request_hash = p
      OBVIOUS
    <3> HIDE DEF new
    <3>2. QED
      BY <2>1, <2>2, <3>1 DEF Asked
  <2>5. Outcome' = Outcome /\ answer' = answer
    BY <1>1, NothingDecided DEF Receive
  <2>6. QED
    BY <2>3, <2>4, <2>5 DEF Operation!Ask, Asked, Outcome
<1>2. ASSUME NEW r \in Request, Insert(r) \/ Create(r) \/ Complete(r)
      PROVE  UNCHANGED <<Asked, Outcome, answer>>
  <2>1. request[r] # None /\ request[r] \in Open
    BY <1>2 DEF Insert, Create, Complete, At, SubmissionTypeOK
  <2>2. PICK pc \in Pc, id \in Request \cup {None} :
           request' = [request EXCEPT ![r] =
                          [request[r] EXCEPT !.pc = pc, !.notification_id = id]]
    <3>1. CASE Complete(r)
      BY <2>1, <3>1 DEF Complete, Pc, SubmissionTypeOK
    <3>2. ASSUME NEW pc \in Pc, Goto(r, pc)
          PROVE  request' = [request EXCEPT ![r] = [request[r] EXCEPT !.pc = pc,
                                !.notification_id = request[r].notification_id]]
      BY <2>1, <3>2 DEF Goto, Open, SubmissionTypeOK
    <3>3. request[r].notification_id \in Request \cup {None}
      BY <2>1 DEF Open
    <3>4. CASE Insert(r) \/ Create(r)
      <4>1. \E pc \in Pc : Goto(r, pc)
        BY <3>4 DEF Insert, Create, Pc
      <4>2. QED
        BY <3>2, <3>3, <4>1
    <3>5. QED
      BY <1>2, <3>1, <3>4
  <2> DEFINE new == [request[r] EXCEPT !.pc = pc, !.notification_id = id]
  <2>3. /\ new \in Open /\ new.key = request[r].key
        /\ new.request_hash = request[r].request_hash
    BY <2>1, <2>2 DEF Open
  <2>4. Becomes(r, new)
    BY <2>2, <2>3 DEF Becomes
  <2>5. UNCHANGED <<tables, answer>>
    BY <1>2 DEF Insert, Create, Complete
  <2> HIDE DEF new
  <2>6. QED
    BY <2>1, <2>4, <2>5, MovingAsksNothingNew, NothingDecided
<1>3. ASSUME NEW r \in Request, Commit(r) PROVE Operation!Decide(r)
  <2> DEFINE key == request[r].key
             row == [request_hash |-> request[r].request_hash, notification_id |-> r]
  <2>1. /\ request[r] \in Open /\ request[r] # None /\ key \in Key
        /\ row \in KeyRow /\ row # None
    BY <1>3 DEF Commit, At, SubmissionTypeOK, Open, KeyRow
  <2>2. request[r].notification_id = r /\ idempotency_keys[key] = None /\ answer[r] = None
    BY <1>3, <2>1 DEF Commit, Remembered, HoldersAreAlone, Holds, Answered, At
  <2>3. idempotency_keys' = [idempotency_keys EXCEPT ![key] = row]
    BY <1>3, <2>2 DEF Commit
  <2>4. [key |-> key, payload |-> request[r].request_hash] \in NotificationRow
    BY <2>1 DEF Open, NotificationRow
  <2>5. Asked[r] = [key |-> key, payload |-> request[r].request_hash] /\ Asked[r] # None
    BY <2>1, <2>4 DEF Asked
  <2>6. Outcome[key] = None
    BY <2>1, <2>2 DEF Outcome
  <2>7. Outcome' = [Outcome EXCEPT ![key] =
                       [payload |-> request[r].request_hash, notification |-> r]]
    BY <2>1, <2>3 DEF Outcome, SubmissionTypeOK
  <2>8. PICK new \in Open : Becomes(r, new)
    BY <1>3, <2>1, GotoBecomes DEF Commit, Pc
  <2>9. Asked' = Asked /\ answer' = answer
    BY <1>3, <2>1, <2>8, MovingAsksNothingNew DEF Commit
  <2>10. Asked[r].key = key /\ Asked[r].payload = request[r].request_hash
    BY <2>5
  <2>11. QED
    BY <2>2, <2>5, <2>6, <2>7, <2>9, <2>10
    DEF Operation!Decide, Operation!Waiting, Asked, Outcome
<1>4. ASSUME NEW r \in Request, Confirm(r) PROVE Operation!Confirm(r)
  <2>1. /\ request[r] # None /\ ~At(r, "done") /\ request[r] \in Open
        /\ request[r].key \in Key
    BY <1>4 DEF Confirm, At, SubmissionTypeOK, Open
  <2>2. /\ Asked[r] = [key |-> request[r].key, payload |-> request[r].request_hash]
        /\ Operation!Waiting(r) /\ Operation!Tell(r, "201", r) /\ Outcome' = Outcome
    BY <1>4, <2>1, ReplyTells DEF Confirm
  <2> DEFINE row == [request_hash |-> request[r].request_hash, notification_id |-> r]
  <2>3. idempotency_keys[request[r].key] = row /\ row # None
    <3>1. row \in KeyRow
      BY <2>1 DEF Open, KeyRow
    <3>2. QED
      BY <1>4, <3>1 DEF Confirm, Remembered
  <2>4. Outcome[request[r].key] =
           [payload |-> request[r].request_hash, notification |-> r]
    BY <2>1, <2>3 DEF Outcome
  <2>5. [payload |-> request[r].request_hash, notification |-> r]
           \in [payload : Payload, notification : Request]
    BY <2>1 DEF Open
  <2>6. Asked[r].key = request[r].key /\ Outcome[request[r].key] # None
        /\ Outcome[request[r].key].notification = r
    BY <2>2, <2>4, <2>5
  <2>7. QED
    BY <2>2, <2>6 DEF Operation!Confirm, Asked, Outcome
<1>5. ASSUME NEW r \in Request, NEW id \in Request \cup {None}, NEW status,
             request[r] # None, ~At(r, "done"), Reply(r, status, id), UNCHANGED tables,
             request[r].key \in Key, idempotency_keys[request[r].key] # None,
             LET row == idempotency_keys[request[r].key]
             IN  IF row.request_hash = request[r].request_hash
                 THEN status = "200" /\ id = row.notification_id
                 ELSE status = "409" /\ id = None
      PROVE  Operation!Repeat(r)
  <2> DEFINE row == idempotency_keys[request[r].key]
  <2>1. /\ Asked[r] = [key |-> request[r].key, payload |-> request[r].request_hash]
        /\ Operation!Waiting(r) /\ Operation!Tell(r, status, id) /\ Outcome' = Outcome
    BY <1>5, ReplyTells
  <2>2. row \in KeyRow /\ row.notification_id \in Request
    <3>1. row \in KeyRow
      BY <1>5 DEF SubmissionTypeOK
    <3>2. row.notification_id \in Request
      BY <1>5 DEF TablesAgree
    <3>3. QED
      BY <3>1, <3>2
  <2>3. [payload |-> row.request_hash, notification |-> row.notification_id]
           \in [payload : Payload, notification : Request]
    BY <2>2 DEF KeyRow
  <2>4. /\ Outcome[request[r].key] # None
        /\ Outcome[request[r].key].payload = row.request_hash
        /\ Outcome[request[r].key].notification = row.notification_id
    BY <1>5, <2>3 DEF Outcome
  <2>5. Asked[r].key = request[r].key /\ Asked[r].payload = request[r].request_hash
    BY <2>1
  <2>6. QED
    BY <1>5, <2>1, <2>4, <2>5 DEF Operation!Repeat, Asked, Outcome
<1>6. ASSUME NEW r \in Request, Lookup(r)
      PROVE  Operation!Repeat(r) \/ UNCHANGED <<Asked, Outcome, answer>>
  <2> DEFINE row == idempotency_keys[request[r].key]
             refusal == RefusalOf(row, request[r].request_hash)
             new == [request[r] EXCEPT !.pc = "found",
                                       !.notification_id = row.notification_id]
  <2>1. /\ At(r, "conflict") /\ request[r] # None /\ ~At(r, "done")
        /\ request[r] \in Open /\ request[r].key \in Key
    BY <1>6 DEF Lookup, At, SubmissionTypeOK, Open
  <2>2. /\ row \in KeyRow /\ row # None /\ row.notification_id \in Request
        /\ refusal = IF row.request_hash = request[r].request_hash THEN "none" ELSE "409"
    BY <2>1, RefusedForItsBody
  <2>3. CASE refusal # "none"
    <3>1. refusal = "409" /\ Reply(r, "409", None) /\ UNCHANGED tables
          /\ row.request_hash # request[r].request_hash
      BY <1>6, <2>2, <2>3 DEF Lookup
    <3>2. QED
      BY <1>5, <2>1, <2>2, <3>1
  <2>4. CASE refusal = "none"
    <3>1. request' = [request EXCEPT ![r] = new] /\ UNCHANGED <<tables, answer>>
      BY <1>6, <2>1, <2>4 DEF Lookup, SubmissionTypeOK
    <3>2. /\ new \in Open /\ new.key = request[r].key
          /\ new.request_hash = request[r].request_hash
      BY <2>1, <2>2 DEF Open, Pc
    <3>3. Becomes(r, new)
      BY <3>1, <3>2 DEF Becomes
    <3> HIDE DEF new
    <3>4. QED
      BY <2>1, <3>1, <3>3, MovingAsksNothingNew, NothingDecided
  <2>5. QED
    BY <2>3, <2>4
<1>7. ASSUME NEW r \in Request, Fetch(r) PROVE Operation!Repeat(r)
  <2> DEFINE id == request[r].notification_id
             row == [request_hash |-> request[r].request_hash, notification_id |-> id]
  <2>1. /\ request[r] # None /\ ~At(r, "done") /\ At(r, "found") /\ request[r] \in Open
        /\ request[r].key \in Key
    BY <1>7 DEF Fetch, At, SubmissionTypeOK, Open
  <2>2. idempotency_keys[request[r].key] = row /\ row # None
    <3>1. row \in KeyRow
      BY <2>1 DEF Open, KeyRow
    <3>2. QED
      BY <2>1, <3>1 DEF Remembered
  <2>3. id \in Request /\ notifications[id] =
           [key |-> request[r].key, payload |-> request[r].request_hash]
    BY <2>1, <2>2 DEF TablesAgree
  <2>4. notifications[id] \in NotificationRow
    BY <2>1, <2>3 DEF NotificationRow, Open
  <2>5. Reply(r, "200", id) /\ UNCHANGED tables
    BY <1>7, <2>4 DEF Fetch
  <2>6. QED
    BY <1>5, <2>1, <2>2, <2>3, <2>5
<1>8. ASSUME NEW r \in Request, Fail(r) PROVE Operation!Fail(r)
  <2>1. /\ Operation!Waiting(r) /\ Operation!Tell(r, "500", None) /\ Outcome' = Outcome
    BY <1>8, ReplyTells DEF Fail
  <2>2. QED
    BY <2>1 DEF Operation!Fail, Outcome
<1>9. CASE UNCHANGED vars
  BY <1>9 DEF vars, tables, Asked, Outcome
<1>10. QED
  BY <1>1, <1>2, <1>3, <1>4, <1>6, <1>7, <1>8, <1>9
  DEF Next, Step, Operation!OperationNext

(* The statements of submit_notification, however they interleave and      *)
(* wherever they fail, do what IdempotentOperation promises.               *)
THEOREM SubmissionImplementsOperation == Spec => ImplementsOperation
<1>1. Init => Operation!OperationInit
  BY DEF Init, Operation!OperationInit
<1>2. QED
  BY <1>1, StepsRefine, SubmissionInvariance, PTL
  DEF Spec, ImplementsOperation, Operation!OperationSpec
=============================================================================
