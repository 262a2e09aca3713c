------------------------- MODULE RetrySchedule_proofs -------------------------
(***************************************************************************)
(* Proofs about RetrySchedule, for every set of notifications and          *)
(* schedulers, every backoff, skew, LIMIT and max_attempts.                *)
(*                                                                         *)
(* The argument: a notification is at one place at a time (Places): in the *)
(* broker, due for a retry, locked by one open claim, in the batch of one  *)
(* committed claim, or finished.  So a result is recorded once, on a row   *)
(* without a retry time (VerdictsHold), what is in none of these places    *)
(* was refused or lost its retry to chk_next_retry_at (Stranding), and the *)
(* retry time of a row that is due lies at most the skew of the clocks     *)
(* before its latest delivery (RetriesFollow), which with ORDER BY gives   *)
(* InTurn.                                                                 *)
(***************************************************************************)
EXTENDS RetrySchedule, TLAPS

USE RetryAssumption

-----------------------------------------------------------------------------
(* The inductive invariant.                                                *)

Selected(s, n) == scheduler[s].pc = "selected" /\ n \in scheduler[s].batch
InBatch(s, n) == scheduler[s].pc = "claimed" /\ n \in scheduler[s].batch

\* Work that only its message or its batch will bring on.
Carried(n) == n \in queue \/ \E s \in Scheduler : InBatch(s, n)

Places ==
    /\ \A n \in Notification : Carried(n) =>
          /\ notifications[n] # None
          /\ notifications[n].state \in {"queued", "processing"}
          /\ notifications[n].next_retry_at = None
    /\ \A s \in Scheduler, n \in Notification : Selected(s, n) =>
          /\ notifications[n] # None
          /\ notifications[n].state = "queued"
          /\ notifications[n].next_retry_at # None
    /\ \A s \in Scheduler, n \in queue : ~InBatch(s, n)
    /\ \A s \in Scheduler, r \in Scheduler, n \in Notification :
          n \in scheduler[s].batch /\ n \in scheduler[r].batch => s = r
    /\ \A s \in Scheduler :
          scheduler[s].pc = "idle" => scheduler[s].batch = {}

\* Every attempt left, until the verdict.
AttemptsLeft ==
    \A n \in Inserted : notifications[n].state \in {"queued", "processing"} =>
        notifications[n].attempt_count < MaxAttempts

VerdictsHold ==
    \A n \in Inserted :
        /\ notifications[n].state \in {"sent", "failed"} => tried[n] # None
        /\ notifications[n].state = "failed"
           /\ notifications[n].attempt_count < MaxAttempts =>
                 tried[n].evidence \in {"refused", "server_error"}
        /\ notifications[n].state = "sent" =>
              tried[n].evidence \in {"taken", "redirect"}

\* A retry time is of a queued row that has been tried.
RetriesFollow ==
    \A n \in Inserted : notifications[n].next_retry_at # None =>
        /\ notifications[n].state = "queued"
        /\ tried[n] # None
        /\ tried[n].at <= notifications[n].next_retry_at + Skew

Stranding ==
    \A n \in Inserted :
        \/ notifications[n].state \in {"sent", "failed"}
        \/ notifications[n].next_retry_at # None
        \/ Carried(n)
        \/ notifications[n].request = "other_channel"
        \/ tried[n] # None /\ tried[n].at < notifications[n].created_at + Skew

RetryInv ==
    /\ RetryTypeOK
    /\ Places
    /\ AttemptsLeft
    /\ VerdictsHold
    /\ RetriesFollow
    /\ Stranding

LEMMA InitRetryInv == Init => RetryInv
<1> SUFFICES ASSUME Init
             PROVE  RetryInv
  OBVIOUS
<1>1. RetryTypeOK
  BY DEF Init, RetryTypeOK, NoRun
<1>2. Inserted = {} /\ \A n \in Notification : ~Carried(n)
  BY DEF Init, Inserted, Carried, InBatch, NoRun
<1>3. Places
  BY <1>2 DEF Init, Places, Selected, InBatch, NoRun
<1>4. AttemptsLeft /\ VerdictsHold /\ RetriesFollow /\ Stranding
  BY <1>2 DEF AttemptsLeft, VerdictsHold, RetriesFollow, Stranding
<1>5. QED
  BY <1>1, <1>3, <1>4 DEF RetryInv

-----------------------------------------------------------------------------
(* The operators.                                                          *)

Final(status, evidence) ==
    /\ status = "success" => evidence \in {"taken", "redirect"}
    /\ status = "permanent_failure" => evidence \in {"refused", "server_error"}

(* A success rests on a receipt, a permanent failure on a refusal or on a  *)
(* server error.                                                           *)
LEMMA ResultsAreTrue ==
    ASSUME NEW copies \in BOOLEAN, NEW result \in Results(copies)
    PROVE  /\ result.status \in {"success", "permanent_failure", "temporary_failure"}
           /\ result.evidence \in {"taken", "refused", "redirect", "server_error",
                                   "broken"}
           /\ Final(result.status, result.evidence)
<1>1. PICK e \in IF copies THEN {NotCalled} ELSE Answered \cup Broken :
         result = [status |-> Send(e), evidence |-> Evidence(e)]
  BY DEF Results
<1>2. result.status = Send(e) /\ result.evidence = Evidence(e)
  BY <1>1
<1>3. /\ Send(e) \in {"success", "permanent_failure", "temporary_failure"}
      /\ Evidence(e) \in {"taken", "refused", "redirect", "server_error", "broken"}
  BY DEF Send, Evidence
<1>4. CASE e \notin Answered
  <2>1. ~HasReceipt(e)
    BY <1>4 DEF HasReceipt
  <2>2. QED
    BY <1>2, <1>3, <1>4, <2>1 DEF Send, Evidence, Final
<1>5. CASE e \in Answered
  <2>1. e.status \in Int /\ e.body \in {"receipt", "other"} /\ e.kind = "answered"
    <3>1. e.status \in StatusCode /\ e.body \in {"receipt", "other"}
          /\ e.kind = "answered"
      BY <1>5 DEF Answered
    <3>2. e.status \in 200..599
      BY <3>1, StatusCodeAssumption
    <3>3. QED
      BY <3>1, <3>2
  <2>2. e # NotCalled
    BY <2>1 DEF NotCalled
  <2>3. HasReceipt(e) <=> e.status < 400 /\ e.body = "receipt"
    BY <1>5, <2>1 DEF HasReceipt, IsError
  <2>4. CASE e.status < 400
    <3>1. Send(e) = IF e.body = "receipt" THEN "success" ELSE "temporary_failure"
      BY <1>5, <2>1, <2>2, <2>3, <2>4 DEF Send, IsError
    <3>2. e.body = "receipt" => Evidence(e) \in {"taken", "redirect"}
      BY <1>5, <2>1, <2>4 DEF Evidence
    <3>3. QED
      BY <1>2, <1>3, <3>1, <3>2 DEF Final
  <2>5. CASE e.status >= 400
    <3>1. Send(e) # "success"
      BY <1>5, <2>1, <2>2, <2>3, <2>5 DEF Send
    <3>2. Evidence(e) \in {"refused", "server_error"}
      BY <1>5, <2>1, <2>5 DEF Evidence
    <3>3. QED
      BY <1>2, <1>3, <3>1, <3>2 DEF Final
  <2>6. QED
    BY <2>1, <2>4, <2>5
<1>6. QED
  BY <1>4, <1>5

(* However slow or fast the worker's clock is, the retry time lies no more *)
(* than Skew before the delivery.                                          *)
LEMMA RetryTimesFollow ==
    ASSUME RetryTypeOK, NEW k, NEW at \in calculate_next_retry_time(k)
    PROVE  at \in Int /\ clock <= at + Skew
<1> DEFINE exponential_delay == INITIAL_RETRY_DELAY_SECONDS * 2^(k - 1)
           capped_delay == IF exponential_delay < MAX_RETRY_DELAY_SECONDS
                           THEN exponential_delay ELSE MAX_RETRY_DELAY_SECONDS
<1> HIDE DEF exponential_delay
<1>1. calculate_next_retry_time(k) =
         {clock + skew + delay : skew \in -Skew..Skew, delay \in 0..capped_delay}
  BY DEF calculate_next_retry_time, exponential_delay
<1> HIDE DEF capped_delay
<1>2. PICK skew \in -Skew..Skew : \E delay \in 0..capped_delay :
         at = clock + skew + delay
  BY <1>1
<1>3. PICK delay \in 0..capped_delay : at = clock + skew + delay
  BY <1>2
<1>4. /\ clock \in Nat /\ Skew \in Nat /\ skew \in Int /\ -Skew <= skew
      /\ delay \in Int /\ 0 <= delay
  BY DEF RetryTypeOK
<1>5. QED
  BY <1>3, <1>4

(* The row after a delivery.                                               *)
LEMMA RecordedIs ==
    ASSUME NEW row \in Row, row.attempt_count < MaxAttempts, NEW at \in Int,
           NEW status \in {"success", "permanent_failure", "temporary_failure"}
    PROVE  LET new == Recorded(row, status, at)
           IN  /\ new \in Row
               /\ new.request = row.request /\ new.created_at = row.created_at
               /\ \/ status = "success" /\ new.state = "sent"
                     /\ new.next_retry_at = None
                  \/ status # "success" /\ new.state = "failed"
                     /\ new.next_retry_at = None
                     /\ (new.attempt_count < MaxAttempts
                            => status = "permanent_failure")
                  \/ status = "temporary_failure" /\ new.state = "queued"
                     /\ new.next_retry_at = at
                     /\ new.attempt_count < MaxAttempts
<1> DEFINE k == row.attempt_count + 1
           retry == status = "temporary_failure" /\ k < MaxAttempts
           state == IF status = "success" THEN "sent"
                    ELSE IF retry THEN "queued" ELSE "failed"
           next == IF retry THEN at ELSE None
           new == Recorded(row, status, at)
<1>1. k \in 0..MaxAttempts
  BY DEF Row
<1>2. /\ state \in {"queued", "processing", "sent", "failed"}
      /\ next \in Int \cup {None}
  OBVIOUS
<1> DEFINE counted == [row EXCEPT !.attempt_count = k]
           moved == [counted EXCEPT !.state = state]
<1>3. new = [moved EXCEPT !.next_retry_at = next]
  BY DEF Recorded
<1> HIDE DEF new, state, next, k, retry
<1>4. /\ new \in Row
      /\ new.request = row.request /\ new.created_at = row.created_at
      /\ new.attempt_count = k /\ new.state = state /\ new.next_retry_at = next
  <2>1. /\ counted \in Row /\ counted.attempt_count = k
        /\ counted.request = row.request /\ counted.created_at = row.created_at
    BY <1>1 DEF Row
  <2> HIDE DEF counted
  <2>2. /\ moved \in Row /\ moved.attempt_count = k /\ moved.state = state
        /\ moved.request = row.request /\ moved.created_at = row.created_at
    BY <1>2, <2>1 DEF Row
  <2> HIDE DEF moved
  <2>3. QED
    BY <1>2, <1>3, <2>2 DEF Row
<1>5. QED
  BY <1>4 DEF new, state, next, k, retry

-----------------------------------------------------------------------------
(* One lemma per action.                                                   *)

LEMMA RowTypes ==
    ASSUME RetryTypeOK
    PROVE  /\ \A n \in Inserted : notifications[n] \in Row
           /\ \A s \in Scheduler : scheduler[s].batch \subseteq Notification
           /\ clock \in Nat
           /\ \A n \in Notification : tried[n] # None => tried[n] \in Try
BY DEF RetryTypeOK, Inserted

LEMMA SubmitKeeps ==
    ASSUME RetryInv, NEW n \in Notification, Submit(n)
    PROVE  RetryInv'
<1>1. PICK request \in Request :
         notifications' = [notifications EXCEPT ![n] =
              [state |-> "queued", attempt_count |-> 0, next_retry_at |-> None,
               created_at |-> clock, request |-> request]]
  BY DEF Submit
<1> DEFINE new == [state |-> "queued", attempt_count |-> 0, next_retry_at |-> None,
                   created_at |-> clock, request |-> request]
<1>2. new \in Row /\ new.state = "queued" /\ new.attempt_count = 0
      /\ new.next_retry_at = None
  BY RowTypes DEF RetryInv, Row
<1>3. notifications' = [notifications EXCEPT ![n] = new]
  BY <1>1
<1> HIDE DEF new
<1>4. /\ notifications'[n] = new /\ new # None
      /\ \A m \in Notification \ {n} : notifications'[m] = notifications[m]
      /\ notifications' \in [Notification -> Row \cup {None}]
  BY <1>2, <1>3 DEF RetryInv, RetryTypeOK
<1>5. /\ notifications[n] = None /\ queue' = queue \cup {n}
      /\ UNCHANGED <<clock, scheduler, tried>>
  BY DEF Submit
<1>6. /\ Inserted' = Inserted \cup {n} /\ n \notin Inserted
      /\ \A m \in Notification : Carried(m) => Carried(m)'
      /\ \A m \in Notification : Carried(m)' => Carried(m) \/ m = n
      /\ Carried(n)'
  BY <1>4, <1>5 DEF Inserted, Carried, InBatch
<1>7. RetryTypeOK'
  BY <1>4, <1>5 DEF RetryInv, RetryTypeOK
<1>8. Places'
  <2>1. \A s \in Scheduler : ~Selected(s, n) /\ ~InBatch(s, n)
    BY <1>5 DEF RetryInv, Places, Carried
  <2>2. QED
    BY <1>2, <1>4, <1>5, <1>6, <2>1 DEF RetryInv, Places, Selected, InBatch
<1>9. AttemptsLeft' /\ VerdictsHold' /\ RetriesFollow'
  BY <1>2, <1>4, <1>5, <1>6
  DEF RetryInv, AttemptsLeft, VerdictsHold, RetriesFollow, Inserted
<1>10. Stranding'
  <2> SUFFICES ASSUME NEW m \in Inserted', m # n
               PROVE  \/ notifications'[m].state \in {"sent", "failed"}
                      \/ notifications'[m].next_retry_at # None
                      \/ Carried(m)'
                      \/ notifications'[m].request = "other_channel"
                      \/ /\ tried'[m] # None
                         /\ tried'[m].at < notifications'[m].created_at + Skew
    BY <1>6 DEF Stranding
  <2>1. m \in Inserted /\ m \in Notification /\ notifications'[m] = notifications[m]
    BY <1>4, <1>6 DEF Inserted
  <2>2. QED
    BY <1>5, <1>6, <2>1 DEF RetryInv, Stranding
<1>11. QED
  BY <1>7, <1>8, <1>9, <1>10 DEF RetryInv

(* The result of an attempt is recorded, or chk_next_retry_at costs the    *)
(* row its retry.                                                          *)
LEMMA DeliverKeeps ==
    ASSUME RetryInv, NEW n \in Notification, Deliver(n)
    PROVE  RetryInv'
<1> DEFINE row == notifications[n]
<1>1. /\ n \in queue /\ row.request # "other_channel" /\ queue' = queue \ {n}
      /\ UNCHANGED <<clock, scheduler>>
  BY DEF Deliver
<1>2. /\ n \in Inserted /\ row \in Row /\ row.state \in {"queued", "processing"}
      /\ row.next_retry_at = None /\ row.attempt_count < MaxAttempts
  BY <1>1, RowTypes DEF RetryInv, Places, Carried, Inserted, AttemptsLeft
<1>3. PICK result \in Results(row.request = "email_with_copies"),
           at \in calculate_next_retry_time(row.attempt_count + 1) :
        LET new == Recorded(row, result.status, at)
        IN  /\ notifications' = [notifications EXCEPT ![n] =
                   IF chk_next_retry_at(new) THEN new ELSE row]
            /\ tried' = [tried EXCEPT ![n] = [at |-> clock, evidence |-> result.evidence]]
  BY DEF Deliver
<1>4. /\ result.status \in {"success", "permanent_failure", "temporary_failure"}
      /\ result.evidence \in {"taken", "refused", "redirect", "server_error",
                              "broken"}
      /\ Final(result.status, result.evidence)
  BY ResultsAreTrue
<1>5. at \in Int /\ clock <= at + Skew /\ clock \in Nat /\ Skew \in Nat
  BY RetryTimesFollow, RowTypes DEF RetryInv
<1> DEFINE new == Recorded(row, result.status, at)
           try == [at |-> clock, evidence |-> result.evidence]
<1>6. /\ new \in Row
      /\ new.request = row.request /\ new.created_at = row.created_at
      /\ \/ result.status = "success" /\ new.state = "sent"
            /\ new.next_retry_at = None
         \/ result.status # "success" /\ new.state = "failed"
            /\ new.next_retry_at = None
            /\ (new.attempt_count < MaxAttempts
                   => result.status = "permanent_failure")
         \/ result.status = "temporary_failure" /\ new.state = "queued"
            /\ new.next_retry_at = at
            /\ new.attempt_count < MaxAttempts
  BY <1>2, <1>4, <1>5, RecordedIs
<1>7. /\ notifications' = [notifications EXCEPT ![n] =
             IF chk_next_retry_at(new) THEN new ELSE row]
      /\ tried' = [tried EXCEPT ![n] = try]
  BY <1>3
<1>8. try \in Try /\ try # None /\ try.at = clock /\ try.evidence = result.evidence
  BY <1>4, <1>5 DEF Try
<1> HIDE DEF new, try, row
<1>9. /\ tried' \in [Notification -> Try \cup {None}] /\ tried'[n] = try
      /\ \A m \in Notification \ {n} :
            tried'[m] = tried[m] /\ notifications'[m] = notifications[m]
      /\ notifications' \in [Notification -> Row \cup {None}]
      /\ notifications'[n] = IF chk_next_retry_at(new) THEN new ELSE row
      /\ notifications'[n] \in Row
  BY <1>2, <1>6, <1>7, <1>8 DEF RetryInv, RetryTypeOK
<1>10. /\ Inserted' = Inserted
       /\ \A s \in Scheduler : ~InBatch(s, n) /\ ~Selected(s, n)
       /\ ~Carried(n)'
       /\ \A m \in Notification \ {n} : Carried(m)' = Carried(m)
  <2>1. Inserted' = Inserted
    BY <1>2, <1>9 DEF Inserted
  <2>2. \A s \in Scheduler : ~InBatch(s, n) /\ ~Selected(s, n)
    BY <1>1, <1>2 DEF RetryInv, Places, row
  <2>3. /\ ~Carried(n)'
        /\ \A m \in Notification \ {n} : Carried(m)' = Carried(m)
    BY <1>1, <2>2 DEF Carried, InBatch
  <2>4. QED
    BY <2>1, <2>2, <2>3
<1>11. RetryTypeOK'
  BY <1>1, <1>9 DEF RetryInv, RetryTypeOK
<1>12. Places'
  BY <1>1, <1>9, <1>10 DEF RetryInv, Places, Selected, InBatch
<1>13. /\ notifications'[n].created_at = row.created_at
       /\ \/ notifications'[n].state = "sent" /\ result.evidence \in {"taken", "redirect"}
             /\ notifications'[n].next_retry_at = None
          \/ notifications'[n].state = "failed"
             /\ notifications'[n].next_retry_at = None
             /\ (notifications'[n].attempt_count < MaxAttempts =>
                    result.evidence \in {"refused", "server_error"})
          \/ notifications'[n].state = "queued"
             /\ notifications'[n].next_retry_at = at
             /\ notifications'[n].attempt_count < MaxAttempts
          \/ notifications'[n] = row /\ ~chk_next_retry_at(new)
             /\ new.next_retry_at = at
  <2>1. CASE chk_next_retry_at(new)
    BY <1>4, <1>6, <1>9, <2>1 DEF Final
  <2>2. CASE ~chk_next_retry_at(new)
    <3>1. new.next_retry_at # None
      BY <2>2 DEF chk_next_retry_at
    <3>2. QED
      BY <1>6, <1>9, <2>2, <3>1
  <2>3. QED
    BY <2>1, <2>2
<1>14. at # None
  BY <1>5
<1>15. AttemptsLeft'
  <2> SUFFICES ASSUME NEW m \in Inserted,
                      notifications'[m].state \in {"queued", "processing"}
               PROVE  notifications'[m].attempt_count < MaxAttempts
    BY <1>10 DEF AttemptsLeft
  <2>1. CASE m = n
    BY <1>2, <1>13, <2>1
  <2>2. CASE m # n
    BY <1>9, <2>2 DEF RetryInv, AttemptsLeft, Inserted
  <2>3. QED
    BY <2>1, <2>2
<1>16. VerdictsHold'
  <2> SUFFICES ASSUME NEW m \in Inserted
               PROVE  /\ notifications'[m].state \in {"sent", "failed"}
                             => tried'[m] # None
                      /\ notifications'[m].state = "failed"
                         /\ notifications'[m].attempt_count < MaxAttempts
                             => tried'[m].evidence \in {"refused", "server_error"}
                      /\ notifications'[m].state = "sent" =>
                           tried'[m].evidence \in {"taken", "redirect"}
    BY <1>10 DEF VerdictsHold
  <2>1. CASE m = n
    BY <1>2, <1>8, <1>9, <1>13, <2>1
  <2>2. CASE m # n
    BY <1>9, <2>2 DEF RetryInv, VerdictsHold, Inserted
  <2>3. QED
    BY <2>1, <2>2
<1>17. RetriesFollow'
  <2> SUFFICES ASSUME NEW m \in Inserted, notifications'[m].next_retry_at # None
               PROVE  /\ notifications'[m].state = "queued"
                      /\ tried'[m] # None
                      /\ tried'[m].at <= notifications'[m].next_retry_at + Skew
    BY <1>10 DEF RetriesFollow
  <2>1. CASE m = n
    BY <1>2, <1>5, <1>8, <1>9, <1>13, <2>1
  <2>2. CASE m # n
    BY <1>9, <2>2 DEF RetryInv, RetriesFollow, Inserted
  <2>3. QED
    BY <2>1, <2>2
<1>18. Stranding'
  <2> SUFFICES ASSUME NEW m \in Inserted
               PROVE  \/ notifications'[m].state \in {"sent", "failed"}
                      \/ notifications'[m].next_retry_at # None
                      \/ Carried(m)'
                      \/ notifications'[m].request = "other_channel"
                      \/ /\ tried'[m] # None
                         /\ tried'[m].at < notifications'[m].created_at + Skew
    BY <1>10 DEF Stranding
  <2>1. CASE m = n
    <3>1. CASE notifications'[n] = row /\ ~chk_next_retry_at(new)
               /\ new.next_retry_at = at
      <4>1. ~(at >= row.created_at) /\ row.created_at \in Nat
        BY <1>2, <1>6, <3>1 DEF chk_next_retry_at, Row
      <4>2. clock < row.created_at + Skew
        BY <1>5, <4>1
      <4>3. QED
        BY <1>8, <1>9, <2>1, <3>1, <4>2
    <3>2. CASE ~(notifications'[n] = row /\ ~chk_next_retry_at(new)
                 /\ new.next_retry_at = at)
      BY <1>13, <1>14, <2>1, <3>2
    <3>3. QED
      BY <3>1, <3>2
  <2>2. CASE m # n
    <3>1. m \in Notification
      BY DEF Inserted
    <3>2. QED
      BY <1>9, <1>10, <2>2, <3>1 DEF RetryInv, Stranding
  <2>3. QED
    BY <2>1, <2>2
<1>19. QED
  BY <1>11, <1>12, <1>15, <1>16, <1>17, <1>18 DEF RetryInv

(* A step that changes no row and no delivery, and leaves whoever carried  *)
(* an email carrying it.                                                   *)
LEMMA RowsStay ==
    ASSUME RetryInv, UNCHANGED <<notifications, tried>>,
           \A n \in Inserted : notifications[n].request # "other_channel" =>
              (Carried(n) => Carried(n)')
    PROVE  AttemptsLeft' /\ VerdictsHold' /\ RetriesFollow' /\ Stranding'
<1>1. Inserted' = Inserted
  BY DEF Inserted
<1>2. AttemptsLeft' /\ VerdictsHold' /\ RetriesFollow'
  BY <1>1 DEF RetryInv, AttemptsLeft, VerdictsHold, RetriesFollow
<1>3. Stranding'
  BY <1>1 DEF RetryInv, Stranding
<1>4. QED
  BY <1>2, <1>3

LEMMA RefuseKeeps ==
    ASSUME RetryInv, NEW n \in Notification, Refuse(n)
    PROVE  RetryInv'
<1>1. /\ n \in queue /\ notifications[n].request = "other_channel"
      /\ queue' = queue \ {n}
      /\ UNCHANGED <<clock, notifications, scheduler, tried>>
  BY DEF Refuse
<1>2. RetryTypeOK'
  BY <1>1 DEF RetryInv, RetryTypeOK
<1>3. \A m \in Notification : Carried(m)' => Carried(m)
  BY <1>1 DEF Carried, InBatch
<1>4. Places'
  BY <1>1, <1>3 DEF RetryInv, Places, Selected, InBatch
<1>5. \A m \in Inserted : notifications[m].request # "other_channel" =>
         (Carried(m) => Carried(m)')
  BY <1>1 DEF Carried, InBatch
<1>6. QED
  BY <1>1, <1>2, <1>4, <1>5, RowsStay DEF RetryInv

LEMMA SelectKeeps ==
    ASSUME RetryInv, NEW s \in Scheduler, Select(s)
    PROVE  RetryInv'
<1>1. PICK B \in Batches :
         scheduler' = [scheduler EXCEPT ![s] = [pc |-> "selected", batch |-> B]]
  BY DEF Select
<1>2. /\ scheduler[s].pc = "idle"
      /\ UNCHANGED <<clock, notifications, queue, tried>>
  BY DEF Select
<1>3. /\ B \subseteq Notification
      /\ \A n \in B : IsDue(n) /\ n \notin Locked
  BY DEF Batches
<1>4. /\ scheduler' \in [Scheduler ->
            [pc : {"idle", "selected", "claimed"}, batch : SUBSET Notification]]
      /\ scheduler'[s].pc = "selected" /\ scheduler'[s].batch = B
      /\ \A r \in Scheduler \ {s} : scheduler'[r] = scheduler[r]
  BY <1>1, <1>3 DEF RetryInv, RetryTypeOK
<1>5. RetryTypeOK'
  BY <1>2, <1>4 DEF RetryInv, RetryTypeOK
<1>6. \A r \in Scheduler, n \in Notification : InBatch(r, n)' <=> InBatch(r, n)
  BY <1>2, <1>4 DEF InBatch
<1>7. \A n \in Notification : Carried(n)' <=> Carried(n)
  BY <1>2, <1>6 DEF Carried
<1>8. \A r \in Scheduler \ {s} : \A n \in B : n \notin scheduler[r].batch
  <2> SUFFICES ASSUME NEW r \in Scheduler \ {s}, NEW n \in B,
                      n \in scheduler[r].batch
               PROVE  FALSE
    OBVIOUS
  <2>1. /\ n \in Notification /\ IsDue(n) /\ n \notin Locked
        /\ scheduler[r].pc \in {"idle", "selected", "claimed"}
    BY <1>3 DEF RetryInv, RetryTypeOK
  <2>2. scheduler[r].pc # "selected"
    BY <2>1 DEF Locked
  <2>3. ~Carried(n)
    BY <2>1 DEF RetryInv, Places, IsDue
  <2>4. scheduler[r].pc = "idle"
    BY <2>1, <2>2, <2>3 DEF Carried, InBatch
  <2>5. QED
    BY <2>4 DEF RetryInv, Places
<1>9. Places'
  <2>1. \A n \in Notification : Carried(n)' =>
          /\ notifications'[n] # None
          /\ notifications'[n].state \in {"queued", "processing"}
          /\ notifications'[n].next_retry_at = None
    BY <1>2, <1>7 DEF RetryInv, Places
  <2>2. \A r \in Scheduler, n \in Notification : Selected(r, n)' =>
          /\ notifications'[n] # None
          /\ notifications'[n].state = "queued"
          /\ notifications'[n].next_retry_at # None
    BY <1>2, <1>3, <1>4 DEF RetryInv, Places, Selected, IsDue, Inserted
  <2>3. \A r \in Scheduler, n \in queue' : ~InBatch(r, n)'
    BY <1>2, <1>6 DEF RetryInv, RetryTypeOK, Places
  <2>4. \A r \in Scheduler, q \in Scheduler, n \in Notification :
           n \in scheduler'[r].batch /\ n \in scheduler'[q].batch => r = q
    BY <1>4, <1>8 DEF RetryInv, Places
  <2>5. \A r \in Scheduler :
           scheduler'[r].pc = "idle" => scheduler'[r].batch = {}
    BY <1>4 DEF RetryInv, Places
  <2>6. QED
    BY <2>1, <2>2, <2>3, <2>4, <2>5 DEF Places
<1>10. \A n \in Inserted : notifications[n].request # "other_channel" =>
          (Carried(n) => Carried(n)')
  BY <1>7 DEF Inserted
<1>11. QED
  BY <1>2, <1>5, <1>9, <1>10, RowsStay DEF RetryInv

LEMMA CommitClaimKeeps ==
    ASSUME RetryInv, NEW s \in Scheduler, CommitClaim(s)
    PROVE  RetryInv'
<1> DEFINE batch == scheduler[s].batch
           claimed(row) == [row EXCEPT !.state = "processing",
                                       !.next_retry_at = None]
<1>1. /\ scheduler[s].pc = "selected"
      /\ notifications' = [n \in Notification |->
            IF n \in batch THEN claimed(notifications[n]) ELSE notifications[n]]
      /\ scheduler' = [scheduler EXCEPT ![s].pc = "claimed"]
      /\ UNCHANGED <<clock, queue, tried>>
  BY DEF CommitClaim
<1>2. /\ scheduler' \in [Scheduler ->
            [pc : {"idle", "selected", "claimed"}, batch : SUBSET Notification]]
      /\ scheduler'[s].pc = "claimed" /\ scheduler'[s].batch = batch
      /\ \A r \in Scheduler \ {s} : scheduler'[r] = scheduler[r]
      /\ batch \subseteq Notification
  <2> DEFINE run == [scheduler[s] EXCEPT !.pc = "claimed"]
             Run == [pc : {"idle", "selected", "claimed"}, batch : SUBSET Notification]
  <2>1. scheduler \in [Scheduler -> Run]
    BY DEF RetryInv, RetryTypeOK
  <2>2. run \in Run /\ run.pc = "claimed" /\ run.batch = batch
        /\ batch \subseteq Notification
    BY <2>1
  <2>3. scheduler' = [scheduler EXCEPT ![s] = run]
    BY <1>1
  <2> HIDE DEF run, Run, batch
  <2>4. /\ scheduler' \in [Scheduler -> Run] /\ scheduler'[s] = run
        /\ \A r \in Scheduler \ {s} : scheduler'[r] = scheduler[r]
    BY <2>1, <2>2, <2>3
  <2>5. QED
    BY <2>2, <2>4 DEF Run
<1>3. \A n \in batch :
         /\ n \in Inserted /\ notifications[n] \in Row
         /\ notifications[n].state = "queued"
         /\ notifications[n].next_retry_at # None
         /\ n \notin queue /\ \A r \in Scheduler \ {s} : n \notin scheduler[r].batch
  <2> SUFFICES ASSUME NEW n \in batch
               PROVE  /\ n \in Inserted /\ notifications[n] \in Row
                      /\ notifications[n].state = "queued"
                      /\ notifications[n].next_retry_at # None
                      /\ n \notin queue
                      /\ \A r \in Scheduler \ {s} : n \notin scheduler[r].batch
    OBVIOUS
  <2>1. n \in Notification /\ Selected(s, n)
    BY <1>1, <1>2 DEF Selected
  <2>2. /\ notifications[n] # None /\ notifications[n].state = "queued"
        /\ notifications[n].next_retry_at # None
    BY <2>1 DEF RetryInv, Places
  <2>3. n \in Inserted /\ notifications[n] \in Row
    BY <2>1, <2>2, RowTypes DEF Inserted, RetryInv
  <2>4. ~Carried(n)
    BY <2>1, <2>2 DEF RetryInv, Places
  <2>5. n \notin queue
    BY <2>4 DEF Carried
  <2>6. \A r \in Scheduler \ {s} : n \notin scheduler[r].batch
    BY <2>1 DEF RetryInv, Places
  <2>7. QED
    BY <2>2, <2>3, <2>5, <2>6
<1>4. \A n \in batch :
         /\ notifications'[n] \in Row
         /\ notifications'[n].state = "processing"
         /\ notifications'[n].next_retry_at = None
         /\ notifications'[n].attempt_count = notifications[n].attempt_count
  <2> SUFFICES ASSUME NEW n \in batch
               PROVE  /\ notifications'[n] \in Row
                      /\ notifications'[n].state = "processing"
                      /\ notifications'[n].next_retry_at = None
                      /\ notifications'[n].attempt_count =
                            notifications[n].attempt_count
    OBVIOUS
  <2> DEFINE mid == [notifications[n] EXCEPT !.state = "processing"]
  <2>1. notifications'[n] = [mid EXCEPT !.next_retry_at = None]
    BY <1>1, <1>2
  <2>2. /\ mid \in Row /\ mid.state = "processing"
        /\ mid.attempt_count = notifications[n].attempt_count
    BY <1>3 DEF Row
  <2> HIDE DEF mid
  <2>3. QED
    BY <2>1, <2>2 DEF Row
<1>5. \A n \in Notification \ batch : notifications'[n] = notifications[n]
  BY <1>1
<1>6. \A n \in batch : notifications'[n] # None
  BY <1>4
<1>7. RetryTypeOK'
  <2>1. notifications' \in [Notification -> Row \cup {None}]
    BY <1>1, <1>4, <1>5 DEF RetryInv, RetryTypeOK
  <2>2. QED
    BY <1>1, <1>2, <2>1 DEF RetryInv, RetryTypeOK
<1> HIDE DEF batch
<1>8. Inserted' = Inserted
  BY <1>2, <1>3, <1>5, <1>6 DEF Inserted
<1>9. /\ \A n \in Notification : Carried(n)' <=> Carried(n) \/ n \in batch
      /\ \A n \in batch, r \in Scheduler : InBatch(r, n)' => r = s
      /\ \A n \in Notification \ batch, r \in Scheduler :
            InBatch(r, n)' <=> InBatch(r, n)
  <2>1. \A n \in Notification \ batch, r \in Scheduler :
            InBatch(r, n)' <=> InBatch(r, n)
    BY <1>2, <1>1 DEF InBatch, batch
  <2>2. \A n \in batch : InBatch(s, n)' /\ \A r \in Scheduler : InBatch(r, n)' => r = s
    BY <1>2, <1>3 DEF InBatch
  <2>3. \A n \in Notification : Carried(n)' <=> Carried(n) \/ n \in batch
    BY <1>1, <2>1, <2>2 DEF Carried
  <2>4. QED
    BY <2>1, <2>2, <2>3
<1>10. Places'
  <2>1. \A n \in Notification : Carried(n)' =>
          /\ notifications'[n] # None
          /\ notifications'[n].state \in {"queued", "processing"}
          /\ notifications'[n].next_retry_at = None
    BY <1>4, <1>5, <1>6, <1>9 DEF RetryInv, Places
  <2>2. \A r \in Scheduler, n \in Notification : Selected(r, n)' =>
          /\ notifications'[n] # None
          /\ notifications'[n].state = "queued"
          /\ notifications'[n].next_retry_at # None
    <3> SUFFICES ASSUME NEW r \in Scheduler, NEW n \in Notification,
                        Selected(r, n)'
                 PROVE  /\ notifications'[n] # None
                        /\ notifications'[n].state = "queued"
                        /\ notifications'[n].next_retry_at # None
      OBVIOUS
    <3>1. r # s /\ Selected(r, n)
      BY <1>2 DEF Selected
    <3>2. n \notin batch
      BY <1>3, <3>1 DEF Selected
    <3>3. QED
      BY <1>5, <3>1, <3>2 DEF RetryInv, Places
  <2>3. \A r \in Scheduler, n \in queue' : ~InBatch(r, n)'
    BY <1>1, <1>3, <1>9 DEF RetryInv, RetryTypeOK, Places
  <2>4. \A r \in Scheduler : scheduler'[r].batch = scheduler[r].batch
    BY <1>2 DEF batch
  <2>5. \A r \in Scheduler, q \in Scheduler, n \in Notification :
           n \in scheduler'[r].batch /\ n \in scheduler'[q].batch => r = q
    BY <2>4 DEF RetryInv, Places
  <2>6. \A r \in Scheduler :
           scheduler'[r].pc = "idle" => scheduler'[r].batch = {}
    BY <1>2 DEF RetryInv, Places
  <2>7. QED
    BY <2>1, <2>2, <2>3, <2>5, <2>6 DEF Places
<1>11. AttemptsLeft' /\ VerdictsHold' /\ RetriesFollow'
  <2>1. /\ \A n \in Inserted : n \in batch \/ notifications'[n] = notifications[n]
        /\ tried' = tried
    BY <1>1, <1>5 DEF Inserted
  <2>2. AttemptsLeft'
    BY <1>3, <1>4, <1>8, <2>1 DEF RetryInv, AttemptsLeft
  <2>3. VerdictsHold'
    BY <1>4, <1>8, <2>1 DEF RetryInv, VerdictsHold
  <2>4. RetriesFollow'
    BY <1>4, <1>8, <2>1 DEF RetryInv, RetriesFollow
  <2>5. QED
    BY <2>2, <2>3, <2>4
<1>12. Stranding'
  <2> SUFFICES ASSUME NEW n \in Inserted
               PROVE  \/ notifications'[n].state \in {"sent", "failed"}
                      \/ notifications'[n].next_retry_at # None
                      \/ Carried(n)'
                      \/ notifications'[n].request = "other_channel"
                      \/ /\ tried'[n] # None
                         /\ tried'[n].at < notifications'[n].created_at + Skew
    BY <1>8 DEF Stranding
  <2>1. n \in Notification
    BY DEF Inserted
  <2>2. CASE n \in batch
    BY <1>9, <2>1, <2>2
  <2>3. CASE n \notin batch
    BY <1>1, <1>5, <1>9, <2>1, <2>3 DEF RetryInv, Stranding
  <2>4. QED
    BY <2>2, <2>3
<1>13. QED
  BY <1>7, <1>10, <1>11, <1>12 DEF RetryInv

LEMMA AbortClaimKeeps ==
    ASSUME RetryInv, NEW s \in Scheduler, AbortClaim(s)
    PROVE  RetryInv'
<1>1. /\ scheduler[s].pc = "selected"
      /\ scheduler' = [scheduler EXCEPT ![s] = NoRun]
      /\ UNCHANGED <<clock, notifications, queue, tried>>
  BY DEF AbortClaim
<1>2. /\ scheduler' \in [Scheduler ->
            [pc : {"idle", "selected", "claimed"}, batch : SUBSET Notification]]
      /\ scheduler'[s].pc = "idle" /\ scheduler'[s].batch = {}
      /\ \A r \in Scheduler \ {s} : scheduler'[r] = scheduler[r]
  BY <1>1 DEF RetryInv, RetryTypeOK, NoRun
<1>3. RetryTypeOK'
  BY <1>1, <1>2 DEF RetryInv, RetryTypeOK
<1>4. \A r \in Scheduler, n \in Notification : InBatch(r, n)' <=> InBatch(r, n)
  BY <1>1, <1>2 DEF InBatch
<1>5. \A n \in Notification : Carried(n)' <=> Carried(n)
  BY <1>1, <1>4 DEF Carried
<1>6. \A r \in Scheduler, n \in Notification : Selected(r, n)' => Selected(r, n)
  BY <1>1, <1>2 DEF Selected
<1>7. Places'
  <2>1. \A n \in Notification : Carried(n)' =>
          /\ notifications'[n] # None
          /\ notifications'[n].state \in {"queued", "processing"}
          /\ notifications'[n].next_retry_at = None
    BY <1>1, <1>5 DEF RetryInv, Places
  <2>2. \A r \in Scheduler, n \in Notification : Selected(r, n)' =>
          /\ notifications'[n] # None
          /\ notifications'[n].state = "queued"
          /\ notifications'[n].next_retry_at # None
    BY <1>1, <1>6 DEF RetryInv, Places
  <2>3. \A r \in Scheduler, n \in queue' : ~InBatch(r, n)'
    BY <1>1, <1>4 DEF RetryInv, RetryTypeOK, Places
  <2>4. \A r \in Scheduler, q \in Scheduler, n \in Notification :
           n \in scheduler'[r].batch /\ n \in scheduler'[q].batch => r = q
    BY <1>2 DEF RetryInv, Places
  <2>5. \A r \in Scheduler :
           scheduler'[r].pc = "idle" => scheduler'[r].batch = {}
    BY <1>2 DEF RetryInv, Places
  <2>6. QED
    BY <2>1, <2>2, <2>3, <2>4, <2>5 DEF Places
<1>8. \A n \in Inserted : notifications[n].request # "other_channel" =>
         (Carried(n) => Carried(n)')
  BY <1>5 DEF Inserted
<1>9. QED
  BY <1>1, <1>3, <1>7, <1>8, RowsStay DEF RetryInv

LEMMA EnqueueClaimedKeeps ==
    ASSUME RetryInv, NEW s \in Scheduler, EnqueueClaimed(s)
    PROVE  RetryInv'
<1>1. /\ scheduler[s].pc = "claimed"
      /\ queue' = queue \cup scheduler[s].batch
      /\ scheduler' = [scheduler EXCEPT ![s] = NoRun]
      /\ UNCHANGED <<clock, notifications, tried>>
  BY DEF EnqueueClaimed
<1>2. /\ scheduler' \in [Scheduler ->
            [pc : {"idle", "selected", "claimed"}, batch : SUBSET Notification]]
      /\ scheduler'[s].pc = "idle" /\ scheduler'[s].batch = {}
      /\ \A r \in Scheduler \ {s} : scheduler'[r] = scheduler[r]
  BY <1>1 DEF RetryInv, RetryTypeOK, NoRun
<1>3. RetryTypeOK'
  <2>1. queue' \subseteq Notification
    BY <1>1, RowTypes DEF RetryInv, RetryTypeOK
  <2>2. QED
    BY <1>1, <1>2, <2>1 DEF RetryInv, RetryTypeOK
<1>4. \A r \in Scheduler, n \in Notification :
         InBatch(r, n)' <=> InBatch(r, n) /\ r # s
  BY <1>1, <1>2 DEF InBatch
<1>5. \A n \in Notification : Carried(n)' <=> Carried(n)
  BY <1>1, <1>4 DEF Carried, InBatch
<1>6. \A r \in Scheduler, n \in Notification : Selected(r, n)' => Selected(r, n)
  BY <1>1, <1>2 DEF Selected
<1>7. Places'
  <2>1. \A n \in Notification : Carried(n)' =>
          /\ notifications'[n] # None
          /\ notifications'[n].state \in {"queued", "processing"}
          /\ notifications'[n].next_retry_at = None
    BY <1>1, <1>5 DEF RetryInv, Places
  <2>2. \A r \in Scheduler, n \in Notification : Selected(r, n)' =>
          /\ notifications'[n] # None
          /\ notifications'[n].state = "queued"
          /\ notifications'[n].next_retry_at # None
    BY <1>1, <1>6 DEF RetryInv, Places
  <2>3. \A r \in Scheduler, n \in queue' : ~InBatch(r, n)'
    <3> SUFFICES ASSUME NEW r \in Scheduler, NEW n \in queue', InBatch(r, n)'
                 PROVE  FALSE
      OBVIOUS
    <3>1. n \in Notification
      BY <1>3 DEF RetryTypeOK
    <3>2. InBatch(r, n) /\ r # s
      BY <1>4, <3>1
    <3>3. n \notin queue /\ n \notin scheduler[s].batch
      BY <3>1, <3>2 DEF RetryInv, Places, InBatch
    <3>4. QED
      BY <1>1, <3>3
  <2>4. \A r \in Scheduler, q \in Scheduler, n \in Notification :
           n \in scheduler'[r].batch /\ n \in scheduler'[q].batch => r = q
    BY <1>2 DEF RetryInv, Places
  <2>5. \A r \in Scheduler :
           scheduler'[r].pc = "idle" => scheduler'[r].batch = {}
    BY <1>2 DEF RetryInv, Places
  <2>6. QED
    BY <2>1, <2>2, <2>3, <2>4, <2>5 DEF Places
<1>8. \A n \in Inserted : notifications[n].request # "other_channel" =>
         (Carried(n) => Carried(n)')
  BY <1>5 DEF Inserted
<1>9. QED
  BY <1>1, <1>3, <1>7, <1>8, RowsStay DEF RetryInv

LEMMA NextRetryInv == RetryInv /\ [Next]_vars => RetryInv'
<1> SUFFICES ASSUME RetryInv, [Next]_vars
             PROVE  RetryInv'
  OBVIOUS
<1>1. CASE UNCHANGED <<notifications, queue, scheduler, tried>>
           /\ (UNCHANGED clock \/ Tick)
  <2>1. RetryTypeOK'
    BY <1>1 DEF RetryInv, RetryTypeOK, Tick
  <2>2. \A n \in Notification : Carried(n)' <=> Carried(n)
    BY <1>1 DEF Carried, InBatch
  <2>3. Places'
    BY <1>1, <2>2 DEF RetryInv, Places, Selected, InBatch
  <2>4. \A n \in Inserted : notifications[n].request # "other_channel" =>
           (Carried(n) => Carried(n)')
    BY <2>2 DEF Inserted
  <2>5. QED
    BY <1>1, <2>1, <2>3, <2>4, RowsStay DEF RetryInv
<1>2. CASE UNCHANGED vars
  BY <1>1, <1>2 DEF vars
<1>3. CASE Tick
  BY <1>1, <1>3 DEF Tick
<1>4. ASSUME NEW n \in Notification, Submit(n) \/ Deliver(n) \/ Refuse(n)
      PROVE  RetryInv'
  BY <1>4, SubmitKeeps, DeliverKeeps, RefuseKeeps
<1>5. ASSUME NEW s \in Scheduler,
             Select(s) \/ CommitClaim(s) \/ AbortClaim(s) \/ EnqueueClaimed(s)
      PROVE  RetryInv'
  BY <1>5, SelectKeeps, CommitClaimKeeps, AbortClaimKeeps, EnqueueClaimedKeeps
<1>6. QED
  BY <1>2, <1>3, <1>4, <1>5 DEF Next

LEMMA RetryInvariant == Spec => []RetryInv
BY InitRetryInv, NextRetryInv, PTL DEF Spec

-----------------------------------------------------------------------------
(* The theorems.                                                           *)

(* Every row, run and delivery stays of its type.                          *)
THEOREM RetryTypeCorrect == Spec => []RetryTypeOK
<1>1. RetryInv => RetryTypeOK
  BY DEF RetryInv
<1>2. QED
  BY RetryInvariant, <1>1, PTL

(* A notification is sent only when the provider took it or answered with  *)
(* a redirect that looks like a receipt, and fails before its attempts are *)
(* used up only when it was refused or met a server error.                 *)
THEOREM VerdictsStayTrue == Spec => []VerdictsAreTrue
<1>1. RetryInv => VerdictsAreTrue
  BY DEF RetryInv, VerdictsHold, VerdictsAreTrue
<1>2. QED
  BY RetryInvariant, <1>1, PTL

(* Only other channels, and rows tried within the skew of their creation,  *)
(* are ever left queued without anybody to bring them on.                  *)
THEOREM NobodyElseIsStranded == Spec => []OnlyTheseAreStranded
<1>1. RetryInv => OnlyTheseAreStranded
  <2> SUFFICES ASSUME RetryInv, NEW n \in Notification, Stranded(n)
               PROVE  \/ notifications[n].request = "other_channel"
                      \/ tried[n].at < notifications[n].created_at + Skew
    BY DEF OnlyTheseAreStranded
  <2>1. n \in Inserted /\ ~Carried(n)
    BY DEF Stranded, Carried, InBatch
  <2>2. QED
    BY <2>1 DEF RetryInv, Stranding, Stranded
<1>2. QED
  BY RetryInvariant, <1>1, PTL

(* A claim passes over a due row only for rows that were given their retry *)
(* times before it came due, up to the skew of the clocks.                 *)
THEOREM ClaimsAreInTurn == Spec => InTurn
<1>1. ASSUME RetryInv, Next, NEW s \in Scheduler,
             scheduler[s].pc = "idle", scheduler'[s].pc = "selected",
             NEW n \in Notification, n \notin scheduler'[s].batch, n \notin Locked,
             NEW m \in scheduler'[s].batch, IsDue(n)
      PROVE  tried[m].at <= notifications[n].next_retry_at + Skew
  <2>1. Select(s)
    <3>1. scheduler' # scheduler /\ ~Tick
      BY <1>1 DEF Tick
    <3>2. ~(\E k \in Notification : Submit(k) \/ Deliver(k) \/ Refuse(k))
      BY <3>1 DEF Submit, Deliver, Refuse
    <3>3. PICK r \in Scheduler :
             Select(r) \/ CommitClaim(r) \/ AbortClaim(r) \/ EnqueueClaimed(r)
      BY <1>1, <3>1, <3>2 DEF Next
    <3>4. scheduler'[r].pc = "selected" => Select(r)
      BY <1>1, <3>3 DEF RetryInv, RetryTypeOK, CommitClaim, AbortClaim,
                        EnqueueClaimed, NoRun
    <3>5. r = s
      <4>1. \A q \in Scheduler \ {r} : scheduler'[q] = scheduler[q]
        BY <1>1, <3>3 DEF RetryInv, RetryTypeOK, Select, CommitClaim,
                          AbortClaim, EnqueueClaimed
      <4>2. QED
        BY <1>1, <4>1
    <3>6. QED
      BY <1>1, <3>4, <3>5
  <2>2. PICK B \in Batches :
           scheduler' = [scheduler EXCEPT ![s] = [pc |-> "selected", batch |-> B]]
    BY <2>1 DEF Select
  <2>3. scheduler'[s].batch = B
    BY <1>1, <2>2 DEF RetryInv, RetryTypeOK
  <2>4. m \in Notification /\ IsDue(m) /\ ~Before(n, m)
    BY <1>1, <2>2, <2>3 DEF Batches
  <2>5. /\ n \in Inserted /\ m \in Inserted
        /\ notifications[n].next_retry_at # None
        /\ notifications[m].next_retry_at # None
    BY <1>1, <2>4 DEF IsDue
  <2>6. /\ notifications[n].next_retry_at \in Int
        /\ notifications[m].next_retry_at \in Int
    BY <1>1, <2>5, RowTypes DEF RetryInv, Row
  <2>7. notifications[m].next_retry_at <= notifications[n].next_retry_at
    BY <2>4, <2>6 DEF Before
  <2>8. /\ tried[m].at <= notifications[m].next_retry_at + Skew
        /\ tried[m].at \in Nat /\ Skew \in Nat
    BY <1>1, <2>4, <2>5, RowTypes DEF RetryInv, RetriesFollow, Try
  <2>9. QED
    BY <2>6, <2>7, <2>8
<1>2. RetryInv /\ [Next]_vars =>
        [\A s \in Scheduler :
          scheduler[s].pc = "idle" /\ scheduler'[s].pc = "selected" =>
             \A n \in Notification \ (scheduler'[s].batch \cup Locked),
                m \in scheduler'[s].batch :
                   IsDue(n) =>
                      tried[m].at <= notifications[n].next_retry_at + Skew]_vars
  BY <1>1
<1>3. QED
  BY RetryInvariant, <1>2, PTL DEF Spec, InTurn

==============================================================================
