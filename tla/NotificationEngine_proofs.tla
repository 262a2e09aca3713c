---------------------- MODULE NotificationEngine_proofs ----------------------
(***************************************************************************)
(* Proofs about NotificationEngine and its refinement, for every set of    *)
(* notifications, workers and schedulers, every max_attempts, claim limit  *)
(* and fault budget, in three parts:                                       *)
(*   1. what the tables say (Inv, NoOrphan, SentIsFinal);                  *)
(*   2. what duplicates can cost (HistoryIsBacked and the bounds);         *)
(*   3. the engine implements DeliveryLedger.                              *)
(***************************************************************************)
EXTENDS NotificationRefinement, TLAPS, FiniteSetTheorems, SequenceTheorems

USE MaxAttemptsAssumption, EngineAssumption

(***************************************************************************)
(* Part 1.  EngineTypeOK, NothingBeforeCommit and HistoryExplainsState     *)
(* are inductive together.  Only six steps write the tables; the one that  *)
(* matters is the transaction of persist_delivery_result, which may run    *)
(* against a row that has changed since the worker read it.  It preserves  *)
(* the history because it commits as a whole and because PostgreSQL tests  *)
(* chk_attempt_bounds and chk_sent_at_timestamp.  SentIsFinal follows from *)
(* that invariant.  NoOrphan needs two facts more: a row left 'created' is *)
(* a failed request's, and what a scheduler claimed was tried before.      *)
(***************************************************************************)

-----------------------------------------------------------------------------
(* The store.                                                              *)

(* Every statement maps a row to a row.                                    *)
LEMMA StatementTypes ==
    ASSUME NEW row \in Row, NEW at \in RetryTime
    PROVE  /\ create_notification \in Row
           /\ mark_queued(row) \in Row
           /\ increment_attempt_count(row) \in Row
           /\ mark_sent(row) \in Row
           /\ mark_failed(row) \in Row
           /\ schedule_retry(row, at) \in Row
           /\ claim(row) \in Row
           /\ NoRow \in Row
<1>1. NoRow \in Row /\ create_notification \in Row
  BY DEF Row, State, RetryTime, NoRow, create_notification
<1>2. mark_queued(row) \in Row
  BY DEF Row, State, mark_queued
<1>3. increment_attempt_count(row) \in Row
  BY DEF Row, increment_attempt_count
<1>4. mark_sent(row) \in Row /\ mark_failed(row) \in Row
  BY DEF Row, State, RetryTime, mark_sent, mark_failed
<1>5. schedule_retry(row, at) \in Row /\ claim(row) \in Row
  BY DEF Row, State, RetryTime, schedule_retry, claim
<1>6. QED
  BY <1>1, <1>2, <1>3, <1>4, <1>5

(* A step that leaves the row and the attempts of n alone leaves its       *)
(* history alone.                                                          *)
LEMMA HistoryFrame ==
    ASSUME NEW n \in Notification,
           notifications'[n] = notifications[n],
           AttemptsOf(n)' = AttemptsOf(n),
           Numbered(n), Explained(n)
    PROVE  Numbered(n)' /\ Explained(n)'
  BY DEF Numbered, Explained, Untried, LastStatusIn, ConstraintsHold

(* What a committed persist_delivery_result writes.                        *)
LEMMA PersistWrites ==
    ASSUME StoreTypeOK, NEW n \in Notification, NEW status \in DeliveryStatus,
           NEW at \in {"later", "due"}, PersistCommits(n, status, at)
    PROVE  /\ StoreTypeOK'
           /\ \A m \in Notification \ {n} :
                 /\ notifications'[m] = notifications[m]
                 /\ AttemptsOf(m)' = AttemptsOf(m)
           /\ notifications'[n] =
                 RecordedRow(increment_attempt_count(notifications[n]), status, at)
           /\ notifications'[n].attempt_count = notifications[n].attempt_count + 1
           /\ AttemptsOf(n)' = AttemptsOf(n) \cup
                 {[notification_id |-> n,
                   attempt_number |-> notifications[n].attempt_count + 1,
                   status |-> status]}
<1> DEFINE row == increment_attempt_count(notifications[n])
           new == [notification_id |-> n, attempt_number |-> row.attempt_count,
                   status |-> status]
<1>1. notifications[n] \in Row /\ at \in RetryTime
  BY DEF StoreTypeOK, RetryTime
<1>2. row \in Row /\ row.attempt_count = notifications[n].attempt_count + 1
  BY <1>1, StatementTypes DEF Row, increment_attempt_count
<1>3. /\ RecordedRow(row, status, at) \in Row
      /\ RecordedRow(row, status, at).attempt_count = row.attempt_count
  <2>1. /\ mark_sent(row) \in Row /\ mark_sent(row).attempt_count = row.attempt_count
        /\ mark_failed(row) \in Row /\ mark_failed(row).attempt_count = row.attempt_count
        /\ schedule_retry(row, at) \in Row
        /\ schedule_retry(row, at).attempt_count = row.attempt_count
    BY <1>1, <1>2, StatementTypes
    DEF Row, mark_sent, mark_failed, schedule_retry
  <2>2. QED
    BY <2>1 DEF RecordedRow, DeliveryStatus
<1>4. /\ notifications' = [notifications EXCEPT ![n] = RecordedRow(row, status, at)]
      /\ delivery_attempts' = delivery_attempts \cup {new}
  BY DEF PersistCommits, UpdateRow
<1>5. new \in AttemptRow
  BY <1>2 DEF AttemptRow, Row
<1>6. StoreTypeOK'
  BY <1>3, <1>4, <1>5 DEF StoreTypeOK
<1>7. notifications'[n] = RecordedRow(row, status, at)
  BY <1>4 DEF StoreTypeOK
<1>8. AttemptsOf(n)' = AttemptsOf(n) \cup {new}
  BY <1>4 DEF AttemptsOf
<1>9. \A m \in Notification \ {n} :
          notifications'[m] = notifications[m] /\ AttemptsOf(m)' = AttemptsOf(m)
  BY <1>4 DEF AttemptsOf, StoreTypeOK
<1>10. QED
  BY <1>2, <1>3, <1>6, <1>7, <1>8, <1>9

LEMMA ExtendInterval ==
    ASSUME NEW j \in Nat PROVE 1..(j + 1) = (1..j) \cup {j + 1}
  OBVIOUS

(* persist_delivery_result keeps the history of every row.                 *)
LEMMA PersistHistory ==
    ASSUME StoreTypeOK, HistoryExplainsState,
           NEW n \in Notification, NEW status \in DeliveryStatus,
           NEW at \in {"later", "due"}, PersistCommits(n, status, at)
    PROVE  HistoryExplainsState'
<1> DEFINE j == notifications[n].attempt_count
           new == [notification_id |-> n, attempt_number |-> j + 1,
                   status |-> status]
           row == increment_attempt_count(notifications[n])
<1>1. \A m \in Notification \ {n} : Numbered(m)' /\ Explained(m)'
  BY PersistWrites, HistoryFrame DEF HistoryExplainsState
<1>2. /\ notifications[n] \in Row
      /\ j \in Nat
      /\ notifications'[n] = RecordedRow(row, status, at)
      /\ notifications'[n].attempt_count = j + 1
      /\ AttemptsOf(n)' = AttemptsOf(n) \cup {new}
  BY PersistWrites DEF StoreTypeOK, Row
<1>3. /\ {a.attempt_number : a \in AttemptsOf(n)} = 1..j
      /\ \A a, b \in AttemptsOf(n) :
            a.attempt_number = b.attempt_number => a = b
  BY DEF HistoryExplainsState, Numbered
<1>4. \A a \in AttemptsOf(n) : a.attempt_number \in 1..j
  BY <1>3
<1> HIDE DEF j
<1>5. new.attempt_number = j + 1 /\ new.status = status
  OBVIOUS
<1>6. Numbered(n)'
  <2>1. {a.attempt_number : a \in AttemptsOf(n)'} =
           {a.attempt_number : a \in AttemptsOf(n)} \cup {j + 1}
    BY <1>2, <1>5
  <2>2. {a.attempt_number : a \in AttemptsOf(n)'} = 1..(j + 1)
    BY <2>1, <1>2, <1>3, ExtendInterval
  <2>3. \A a, b \in AttemptsOf(n)' :
           a.attempt_number = b.attempt_number => a = b
    BY <1>2, <1>3, <1>4, <1>5
  <2>4. QED
    BY <1>2, <2>2, <2>3 DEF Numbered
<1>7. ~Untried(n)'
  BY <1>2 DEF Untried
<1>8. ASSUME NEW statuses, status \in statuses
      PROVE  LastStatusIn(n, statuses)'
  BY <1>2, <1>4, <1>5, <1>8 DEF LastStatusIn
<1>9. /\ row \in Row /\ row.attempt_count = j + 1
      /\ j + 1 <= MaxAttempts
      /\ ConstraintsHold(notifications'[n])
  <2>1. row \in Row /\ row.attempt_count = j + 1
    BY <1>2, StatementTypes DEF increment_attempt_count, Row, j
  <2>2. QED
    BY <1>2, <2>1 DEF PersistCommits, Committable, ConstraintsHold
<1>10. Explained(n)'
  <2>1. CASE status = "success"
    <3>1. notifications'[n].state = "sent"
      BY <1>2, <1>9, <2>1 DEF RecordedRow, mark_sent, Row
    <3>2. QED
      BY <1>7, <1>8, <1>9, <2>1, <3>1 DEF Explained
  <2>2. CASE status = "permanent_failure"
    <3>1. notifications'[n].state = "failed"
      BY <1>2, <1>9, <2>2 DEF RecordedRow, mark_failed, Row
    <3>2. LastStatusIn(n, {"permanent_failure"})'
          /\ LastStatusIn(n, {"permanent_failure", "temporary_failure"})'
      BY <1>8, <2>2
    <3>3. QED
      BY <1>7, <1>9, <3>1, <3>2 DEF Explained
  <2>3. CASE status = "temporary_failure" /\ j + 1 >= MaxAttempts
    <3>1. notifications'[n].state = "failed"
      BY <1>2, <1>9, <2>3 DEF RecordedRow, mark_failed, Row
    <3>2. LastStatusIn(n, {"permanent_failure", "temporary_failure"})'
      BY <1>8, <2>3
    <3>3. ~(j + 1 < MaxAttempts)
      BY <1>2, <2>3
    <3>4. QED
      BY <1>2, <1>7, <1>9, <3>1, <3>2, <3>3 DEF Explained
  <2>4. CASE status = "temporary_failure" /\ ~(j + 1 >= MaxAttempts)
    <3>1. /\ notifications'[n].state = "queued"
          /\ notifications'[n].next_retry_at = at
      BY <1>2, <1>9, <2>4 DEF RecordedRow, schedule_retry, Row
    <3>2. LastStatusIn(n, {"temporary_failure"})'
      BY <1>8, <2>4
    <3>3. j + 1 < MaxAttempts
      BY <1>2, <2>4
    <3>4. QED
      BY <1>2, <1>7, <1>9, <3>1, <3>2, <3>3 DEF Explained
  <2>5. QED
    BY <2>1, <2>2, <2>3, <2>4 DEF DeliveryStatus
<1>11. QED
  BY <1>1, <1>6, <1>10 DEF HistoryExplainsState

-----------------------------------------------------------------------------
(* Type correctness.                                                       *)

LEMMA InitType == Init => EngineTypeOK
<1>1. NoRow \in Row
  BY DEF NoRow, Row, State, RetryTime
<1>2. QED
  BY <1>1
  DEF Init, StoreInit, EngineTypeOK, StoreTypeOK, HandlerState, Response

(* A task in progress is a Task.                                           *)
LEMMA RunningTask ==
    ASSUME EngineTypeOK, NEW w \in Worker, worker[w] # Idle
    PROVE  /\ worker[w] \in Task
           /\ worker[w].notification_id \in Notification
           /\ worker[w].status \in DeliveryStatus
  BY DEF EngineTypeOK, Task

LEMMA FaultType ==
    ASSUME EngineTypeOK, NEW kind \in FaultKind, Fault(kind)
    PROVE  faults' \in [FaultKind -> Nat]
  BY DEF EngineTypeOK, Fault

LEMMA FaultKinds ==
    /\ "api" \in FaultKind /\ "task" \in FaultKind /\ "worker" \in FaultKind
    /\ "scheduler" \in FaultKind /\ "redelivery" \in FaultKind
    /\ "loss" \in FaultKind
  BY DEF FaultKind

LEMMA TypeStep == EngineTypeOK /\ [Next]_vars => EngineTypeOK'
<1> SUFFICES ASSUME EngineTypeOK, [Next]_vars PROVE EngineTypeOK'
  OBVIOUS
<1> USE DEF EngineTypeOK, clientVars, providerVars, storeVars
<1>1. ASSUME NEW n \in Notification, ApiStep(n) PROVE EngineTypeOK'
  <2>1. notifications[n] \in Row
    BY DEF StoreTypeOK
  <2>2. CASE Submit(n)
    <3>1. create_notification \in Row
      BY <2>1, StatementTypes DEF RetryTime
    <3>2. QED
      BY <2>2, <3>1 DEF Submit, UpdateRow, StoreTypeOK, HandlerState
  <2>3. CASE Enqueue(n)
    BY <2>3 DEF Enqueue, Publish, HandlerState, StoreTypeOK
  <2>4. CASE MarkQueued(n)
    BY <2>1, <2>4, StatementTypes
    DEF MarkQueued, UpdateRow, HandlerState, Response, StoreTypeOK, RetryTime
  <2>5. CASE HandlerFails(n)
    BY <2>5, FaultType, FaultKinds
    DEF HandlerFails, HandlerState, Response, StoreTypeOK
  <2>6. CASE HandlerCrash(n)
    BY <2>6, FaultType, FaultKinds DEF HandlerCrash, HandlerState, StoreTypeOK
  <2>7. CASE Replay(n)
    BY <2>7 DEF Replay, Response, StoreTypeOK
  <2>8. QED
    BY <1>1, <2>2, <2>3, <2>4, <2>5, <2>6, <2>7 DEF ApiStep
<1>2. ASSUME NEW n \in Notification, LoseMessage(n) PROVE EngineTypeOK'
  BY <1>2, FaultType, FaultKinds DEF LoseMessage, StoreTypeOK
<1>3. ASSUME NEW n \in Notification, TimePasses(n) PROVE EngineTypeOK'
  <2>1. notifications[n] \in Row
    BY DEF StoreTypeOK
  <2>2. [notifications[n] EXCEPT !.next_retry_at = "due"] \in Row
    BY <2>1 DEF Row, RetryTime
  <2>3. QED
    BY <1>3, <2>2 DEF TimePasses, RetryTimeArrives, UpdateRow, StoreTypeOK
<1>4. ASSUME NEW w \in Worker, WorkerStep(w) PROVE EngineTypeOK'
  <2>1. ASSUME NEW n \in Notification, Reserve(w, n) PROVE EngineTypeOK'
    BY <2>1 DEF Reserve, Task, WorkerState, DeliveryStatus, StoreTypeOK
  <2>2. ASSUME worker[w] # Idle, NEW pc \in WorkerState
        PROVE  [worker EXCEPT ![w].pc = pc] \in [Worker -> Task \cup {Idle}]
    BY <2>2, RunningTask DEF Task
  <2>3. CASE Load(w)
    BY <2>2, <2>3 DEF Load, WorkerState, StoreTypeOK
  <2>4. CASE Send(w)
    <3>1. PICK status \in DeliveryStatus :
             /\ worker' = [worker EXCEPT ![w].pc = "persisting", ![w].status = status]
             /\ receipts' = [receipts EXCEPT ![worker[w].notification_id] =
                                IF status = "success" THEN @ + 1 ELSE @]
      BY <2>4 DEF Send
    <3>3. worker[w] \in Task /\ worker[w].notification_id \in Notification
      BY <2>4, RunningTask DEF Send
    <3>4. worker' \in [Worker -> Task \cup {Idle}]
      BY <3>1, <3>3 DEF Task, WorkerState
    <3>5. receipts' \in [Notification -> Nat] /\ executions' \in [Notification -> Nat]
      BY <2>4, <3>1, <3>3 DEF Send
    <3>6. QED
      BY <2>4, <3>4, <3>5 DEF Send, StoreTypeOK
  <2>5. CASE Persist(w)
    <3>1. worker[w].notification_id \in Notification
          /\ worker[w].status \in DeliveryStatus
      BY <2>5, RunningTask DEF Persist
    <3>2. StoreTypeOK'
      BY <2>5, <3>1, PersistWrites DEF Persist, PersistRollsBack, StoreTypeOK
    <3>3. worker' \in [Worker -> Task \cup {Idle}]
      BY <2>2, <2>5 DEF Persist, WorkerState
    <3>4. QED
      BY <2>5, <3>2, <3>3 DEF Persist
  <2>6. CASE Ack(w)
    BY <2>6 DEF Ack, StoreTypeOK
  <2>7. CASE TaskFails(w)
    BY <2>7, FaultType, FaultKinds DEF TaskFails, StoreTypeOK
  <2>8. CASE WorkerCrash(w)
    BY <2>8, RunningTask, FaultType, FaultKinds
    DEF WorkerCrash, Publish, StoreTypeOK
  <2>9. CASE Redeliver(w)
    BY <2>9, RunningTask, FaultType, FaultKinds
    DEF Redeliver, Publish, StoreTypeOK
  <2>10. QED
    BY <1>4, <2>1, <2>3, <2>4, <2>5, <2>6, <2>7, <2>8, <2>9 DEF WorkerStep
<1>5. ASSUME NEW s \in Scheduler, SchedulerStep(s) PROVE EngineTypeOK'
  <2>1. CASE Claim(s)
    <3>1. PICK S \in (SUBSET Due) \ {{}} :
             ClaimRows(S) /\ claimed' = [claimed EXCEPT ![s] = S]
      BY <2>1 DEF Claim
    <3>2. S \subseteq Notification
      BY DEF Due
    <3>3. \A n \in Notification : notifications[n] \in Row /\ claim(notifications[n]) \in Row
      BY StatementTypes DEF StoreTypeOK, RetryTime
    <3>4. StoreTypeOK'
      BY <3>1, <3>3 DEF ClaimRows, StoreTypeOK
    <3>5. QED
      BY <2>1, <3>1, <3>2, <3>4 DEF Claim
  <2>2. ASSUME NEW n \in Notification, EnqueueClaimed(s, n) PROVE EngineTypeOK'
    BY <2>2 DEF EnqueueClaimed, Publish, StoreTypeOK
  <2>3. CASE SchedulerFails(s)
    BY <2>3, FaultType, FaultKinds DEF SchedulerFails, StoreTypeOK
  <2>4. QED
    BY <1>5, <2>1, <2>2, <2>3 DEF SchedulerStep
<1>6. CASE UNCHANGED vars
  BY <1>6 DEF vars, StoreTypeOK
<1>7. QED
  BY <1>1, <1>2, <1>3, <1>4, <1>5, <1>6 DEF Next

(* Every reachable state of the engine is well typed: all statements write *)
(* rows the tables can hold, messages name notifications.                  *)
THEOREM TypeCorrect == Spec => []EngineTypeOK
  BY InitType, TypeStep, PTL DEF Spec

-----------------------------------------------------------------------------
(* The inductive invariant.                                                *)

Inv == EngineTypeOK /\ NothingBeforeCommit /\ HistoryExplainsState

LEMMA InitInv == Init => Inv
<1> SUFFICES ASSUME Init PROVE NothingBeforeCommit /\ HistoryExplainsState
  BY InitType DEF Inv
<1>1. NothingBeforeCommit
  BY DEF Init, StoreInit, NothingBeforeCommit, NoRow, Running
<1>2. ASSUME NEW n \in Notification PROVE Numbered(n) /\ Explained(n)
  <2>1. notifications[n] = NoRow /\ AttemptsOf(n) = {}
    BY DEF Init, StoreInit, AttemptsOf
  <2>2. Numbered(n)
    BY <2>1 DEF Numbered, NoRow
  <2>3. Explained(n)
    BY <2>1 DEF Explained, NoRow, ConstraintsHold, Untried
  <2>4. QED
    BY <2>2, <2>3
<1>3. QED
  BY <1>1, <1>2 DEF HistoryExplainsState

(* Publication comes before everything else that concerns a notification.  *)
LEMMA NothingBeforeCommitStep == Inv /\ [Next]_vars => NothingBeforeCommit'
<1> DEFINE First(h) == IF h = "idle" THEN "none" ELSE "created"
<1> SUFFICES ASSUME Inv, [Next]_vars,
                    NEW m \in Notification, handler'[m] \in {"idle", "committed"}
             PROVE  /\ notifications'[m].state = First(handler'[m])
                    /\ queue'[m] = 0
                    /\ \A w \in Worker : ~Running(w, m)'
                    /\ \A s \in Scheduler : m \notin claimed'[s]
  BY DEF NothingBeforeCommit
<1> DEFINE Goal == /\ notifications'[m].state = First(handler'[m])
                   /\ queue'[m] = 0
                   /\ \A w \in Worker : ~Running(w, m)'
                   /\ \A s \in Scheduler : m \notin claimed'[s]
<1> USE DEF clientVars, providerVars, storeVars
<1>1. EngineTypeOK /\ NothingBeforeCommit
  BY DEF Inv
<1>2. ASSUME NEW n \in Notification, ApiStep(n) PROVE Goal
  <2>1. worker' = worker /\ claimed' = claimed
    BY <1>2 DEF ApiStep, Submit, Enqueue, MarkQueued, HandlerFails,
                HandlerCrash, Replay
  <2>2. CASE Submit(m)
    <3>1. notifications'[m].state = "created" /\ handler'[m] = "committed"
      BY <1>1, <2>2 DEF Submit, UpdateRow, create_notification, NoRow,
                        EngineTypeOK, StoreTypeOK
    <3>2. QED
      BY <1>1, <2>1, <2>2, <3>1 DEF Submit, NothingBeforeCommit, Running
  <2>3. CASE ~Submit(m)
    <3>1. handler'[m] = handler[m] /\ (n # m \/ Replay(n))
      BY <1>1, <1>2, <2>3 DEF ApiStep, Submit, Enqueue, MarkQueued, HandlerFails,
                              HandlerCrash, Replay, EngineTypeOK
    <3>2. notifications'[m] = notifications[m] /\ queue'[m] = queue[m]
      BY <1>1, <1>2, <3>1 DEF ApiStep, Submit, Enqueue, MarkQueued, HandlerFails,
         HandlerCrash, Replay, UpdateRow, Publish, EngineTypeOK, StoreTypeOK
    <3>3. QED
      BY <1>1, <2>1, <3>1, <3>2 DEF NothingBeforeCommit, Running
  <2>4. QED
    BY <2>2, <2>3
<1>3. ASSUME NEW n \in Notification, LoseMessage(n) PROVE Goal
  BY <1>1, <1>3 DEF LoseMessage, NothingBeforeCommit, EngineTypeOK, Running
<1>4. ASSUME NEW n \in Notification, TimePasses(n) PROVE Goal
  <2>1. n # m
    BY <1>1, <1>4
    DEF TimePasses, RetryTimeArrives, NothingBeforeCommit, Inv,
        HistoryExplainsState, Explained
  <2>2. QED
    BY <1>1, <1>4, <2>1 DEF TimePasses, RetryTimeArrives, UpdateRow,
       NothingBeforeCommit, EngineTypeOK, StoreTypeOK, Running
<1>5. ASSUME NEW w \in Worker, WorkerStep(w) PROVE Goal
  <2>1. handler' = handler /\ claimed' = claimed
    BY <1>5 DEF WorkerStep, Reserve, Load, Send, Persist, Ack, TaskFails,
                WorkerCrash, Redeliver
  <2>2. /\ notifications[m].state = First(handler[m]) /\ queue[m] = 0
        /\ \A v \in Worker : ~Running(v, m)
        /\ \A s \in Scheduler : m \notin claimed[s]
    BY <1>1, <2>1 DEF NothingBeforeCommit
  <2>3. ASSUME NEW n \in Notification, Reserve(w, n) PROVE Goal
    <3>1. n # m
      BY <2>2, <2>3 DEF Reserve
    <3>2. QED
      BY <1>1, <2>1, <2>2, <2>3, <3>1 DEF Reserve, Running, EngineTypeOK, Idle
  <2>4. ASSUME worker[w] # Idle PROVE
           /\ worker[w].notification_id \in Notification \ {m}
           /\ worker[w] \in Task
    BY <1>1, <2>2, <2>4, RunningTask DEF Running
  <2>5. CASE Load(w)
    <3>1. \A v \in Worker : ~Running(v, m)'
      BY <1>1, <2>2, <2>4, <2>5 DEF Load, Running, EngineTypeOK, Task
    <3>2. QED
      BY <2>1, <2>2, <2>5, <3>1 DEF Load
  <2>6. CASE Send(w)
    <3>1. \A v \in Worker : ~Running(v, m)'
      BY <1>1, <2>2, <2>4, <2>6 DEF Send, Running, EngineTypeOK, Task
    <3>2. QED
      BY <2>1, <2>2, <2>6, <3>1 DEF Send
  <2>7. CASE Persist(w)
    <3>1. \A v \in Worker : ~Running(v, m)'
      BY <1>1, <2>2, <2>4, <2>7 DEF Persist, Running, EngineTypeOK, Task
    <3>2. notifications'[m] = notifications[m]
      BY <1>1, <2>4, <2>7 DEF Persist, PersistCommits, PersistRollsBack,
                              UpdateRow, EngineTypeOK, StoreTypeOK
    <3>3. QED
      BY <2>1, <2>2, <2>7, <3>1, <3>2 DEF Persist
  <2>8. CASE Ack(w) \/ TaskFails(w)
    BY <1>1, <2>1, <2>2, <2>8 DEF Ack, TaskFails, Running, EngineTypeOK
  <2>9. CASE WorkerCrash(w) \/ Redeliver(w)
    BY <1>1, <2>1, <2>2, <2>4, <2>9
    DEF WorkerCrash, Redeliver, Publish, Running, EngineTypeOK
  <2>10. QED
    BY <1>5, <2>3, <2>5, <2>6, <2>7, <2>8, <2>9 DEF WorkerStep
<1>6. ASSUME NEW s \in Scheduler, SchedulerStep(s) PROVE Goal
  <2>1. handler' = handler /\ worker' = worker
    BY <1>6 DEF SchedulerStep, Claim, EnqueueClaimed, SchedulerFails
  <2>2. /\ notifications[m].state = First(handler[m]) /\ queue[m] = 0
        /\ \A v \in Worker : ~Running(v, m)
        /\ \A t \in Scheduler : m \notin claimed[t]
    BY <1>1, <2>1 DEF NothingBeforeCommit
  <2>3. CASE Claim(s)
    <3>1. PICK S \in (SUBSET Due) \ {{}} :
             ClaimRows(S) /\ claimed' = [claimed EXCEPT ![s] = S]
      BY <2>3 DEF Claim
    <3>2. m \notin S
      BY <2>2, <3>1 DEF Due, IsDue
    <3>3. QED
      BY <1>1, <2>1, <2>2, <2>3, <3>1, <3>2
      DEF Claim, ClaimRows, EngineTypeOK, StoreTypeOK, Running
  <2>4. ASSUME NEW n \in Notification, EnqueueClaimed(s, n) PROVE Goal
    BY <1>1, <2>1, <2>2, <2>4
    DEF EnqueueClaimed, Publish, EngineTypeOK, Running
  <2>5. CASE SchedulerFails(s)
    BY <1>1, <2>1, <2>2, <2>5 DEF SchedulerFails, EngineTypeOK, Running
  <2>6. QED
    BY <1>6, <2>3, <2>4, <2>5 DEF SchedulerStep
<1>7. CASE UNCHANGED vars
  BY <1>1, <1>7 DEF vars, NothingBeforeCommit, Running
<1>8. QED
  BY <1>2, <1>3, <1>4, <1>5, <1>6, <1>7 DEF Next

(* A step that writes one row, records no attempt, keeps attempt_count and *)
(* leaves that row explained.                                              *)
LEMMA RowWritten ==
    ASSUME StoreTypeOK, HistoryExplainsState, NEW n \in Notification,
           NEW row \in Row, UpdateRow(n, row), UNCHANGED delivery_attempts,
           row.attempt_count = notifications[n].attempt_count, Explained(n)'
    PROVE  HistoryExplainsState'
<1>1. notifications'[n] = row /\ AttemptsOf(n)' = AttemptsOf(n)
  BY DEF UpdateRow, StoreTypeOK, AttemptsOf
<1>2. Numbered(n)'
  BY <1>1 DEF HistoryExplainsState, Numbered
<1>3. \A m \in Notification \ {n} :
        notifications'[m] = notifications[m] /\ AttemptsOf(m)' = AttemptsOf(m)
  BY DEF UpdateRow, StoreTypeOK, AttemptsOf
<1>4. QED
  BY <1>2, <1>3, HistoryFrame DEF HistoryExplainsState

(* A step that leaves both tables alone.                                   *)
LEMMA StoreFrame ==
    ASSUME HistoryExplainsState, UNCHANGED storeVars
    PROVE  HistoryExplainsState'
<1>1. ASSUME NEW n \in Notification PROVE AttemptsOf(n)' = AttemptsOf(n)
  BY DEF AttemptsOf, storeVars
<1>2. QED
  BY <1>1, HistoryFrame DEF HistoryExplainsState, storeVars

LEMMA SubmitHistory ==
    ASSUME Inv, NEW n \in Notification, Submit(n)
    PROVE  HistoryExplainsState'
<1> DEFINE row == create_notification
<1>1. StoreTypeOK /\ notifications[n] \in Row
  BY DEF Inv, EngineTypeOK, StoreTypeOK
<1>2. row \in Row /\ row.state = "created" /\ row.attempt_count = 0
      /\ row.next_retry_at = "null" /\ row.sent_at = "null"
  BY DEF create_notification, NoRow, Row, State, RetryTime
<1>3. notifications[n].attempt_count = 0
  BY DEF Inv, NothingBeforeCommit, Submit, HistoryExplainsState, Explained,
     Untried
<1>4. notifications'[n] = row
  BY <1>1 DEF Submit, UpdateRow, StoreTypeOK
<1>5. Explained(n)'
  BY <1>2, <1>4 DEF Explained, ConstraintsHold, Untried
<1>6. QED
  BY <1>1, <1>2, <1>3, <1>5, RowWritten DEF Submit, Inv

LEMMA MarkQueuedHistory ==
    ASSUME Inv, NEW n \in Notification, MarkQueued(n)
    PROVE  HistoryExplainsState'
<1> DEFINE row == mark_queued(notifications[n])
<1>1. StoreTypeOK /\ notifications[n] \in Row /\ Numbered(n) /\ Explained(n)
  BY DEF Inv, EngineTypeOK, StoreTypeOK, HistoryExplainsState
<1>2. row \in Row /\ row.attempt_count = notifications[n].attempt_count
  BY <1>1, StatementTypes DEF mark_queued, Row, RetryTime
<1>3. notifications'[n] = row /\ AttemptsOf(n)' = AttemptsOf(n)
  BY <1>1 DEF MarkQueued, UpdateRow, StoreTypeOK, AttemptsOf
<1>4. CASE notifications[n].state = "created"
  <2>1. /\ row.state = "queued" /\ row.next_retry_at = "null"
        /\ row.attempt_count = 0 /\ row.sent_at = "null"
    BY <1>1, <1>4 DEF mark_queued, Row, Explained, Untried, ConstraintsHold
  <2>2. AttemptsOf(n)' = {}
    BY <1>1, <1>3, <1>4 DEF Numbered, Explained, Untried
  <2>3. LastStatusIn(n, {"temporary_failure"})' /\ Untried(n)'
    BY <1>3, <2>1, <2>2 DEF LastStatusIn, Untried
  <2>4. Explained(n)'
    BY <1>3, <2>1, <2>3 DEF Explained, ConstraintsHold
  <2>5. QED
    BY <1>1, <1>2, <2>4, RowWritten DEF MarkQueued, Inv
<1>5. CASE notifications[n].state # "created"
  <2>1. row = notifications[n]
    BY <1>5 DEF mark_queued
  <2>2. Explained(n)'
    BY <1>1, <1>3, <2>1, HistoryFrame
  <2>3. QED
    BY <1>1, <1>2, <2>2, RowWritten DEF MarkQueued, Inv
<1>6. QED
  BY <1>4, <1>5

LEMMA TimePassesHistory ==
    ASSUME Inv, NEW n \in Notification, TimePasses(n)
    PROVE  HistoryExplainsState'
<1> DEFINE row == [notifications[n] EXCEPT !.next_retry_at = "due"]
<1>1. StoreTypeOK /\ notifications[n] \in Row /\ Explained(n)
  BY DEF Inv, EngineTypeOK, StoreTypeOK, HistoryExplainsState
<1>2. /\ row \in Row /\ row.attempt_count = notifications[n].attempt_count
      /\ row.state = notifications[n].state
      /\ row.sent_at = notifications[n].sent_at
      /\ row.next_retry_at = "due"
  BY <1>1 DEF Row, RetryTime
<1>3. notifications'[n] = row /\ AttemptsOf(n)' = AttemptsOf(n)
  BY <1>1 DEF TimePasses, RetryTimeArrives, UpdateRow, StoreTypeOK, AttemptsOf
<1>4. notifications[n].state = "queued"
  BY <1>1
  DEF TimePasses, RetryTimeArrives, Explained, ConstraintsHold, Row, State
<1>5. Explained(n)'
  <2>1. ~Untried(n)' /\ LastStatusIn(n, {"temporary_failure"})'
        /\ notifications[n].attempt_count < MaxAttempts
        /\ ConstraintsHold(notifications[n])
    BY <1>1, <1>2, <1>3, <1>4
    DEF TimePasses, RetryTimeArrives, Explained, Untried, LastStatusIn
  <2>2. QED
    BY <1>2, <1>3, <1>4, <2>1 DEF Explained, ConstraintsHold
<1>6. QED
  BY <1>1, <1>2, <1>5, RowWritten DEF TimePasses, RetryTimeArrives, Inv

LEMMA ClaimHistory ==
    ASSUME Inv, NEW s \in Scheduler, Claim(s)
    PROVE  HistoryExplainsState'
<1>1. PICK S \in (SUBSET Due) \ {{}} : ClaimRows(S)
  BY DEF Claim
<1>2. StoreTypeOK
  BY DEF Inv, EngineTypeOK
<1>3. SUFFICES ASSUME NEW n \in Notification PROVE Numbered(n)' /\ Explained(n)'
  BY DEF HistoryExplainsState
<1>4. Numbered(n) /\ Explained(n) /\ notifications[n] \in Row
      /\ AttemptsOf(n)' = AttemptsOf(n)
  BY <1>1, <1>2
  DEF Inv, HistoryExplainsState, ClaimRows, AttemptsOf, StoreTypeOK
<1>5. CASE n \in S
  <2>1. notifications[n].state = "queued" /\ notifications[n].next_retry_at = "due"
    BY <1>1, <1>5 DEF Due, IsDue
  <2>2. notifications'[n] = claim(notifications[n])
    BY <1>1, <1>5 DEF ClaimRows
  <2>3. /\ notifications'[n].state = "processing"
        /\ notifications'[n].next_retry_at = "null"
        /\ notifications'[n].sent_at = notifications[n].sent_at
        /\ notifications'[n].attempt_count = notifications[n].attempt_count
    BY <1>4, <2>2 DEF claim, Row
  <2>4. Numbered(n)'
    BY <1>4, <2>3 DEF Numbered
  <2>5. /\ ~Untried(n)' /\ LastStatusIn(n, {"temporary_failure"})'
        /\ notifications[n].attempt_count < MaxAttempts
        /\ ConstraintsHold(notifications[n])
    BY <1>4, <2>1, <2>3 DEF Explained, Untried, LastStatusIn
  <2>6. QED
    BY <2>1, <2>3, <2>4, <2>5 DEF Explained, ConstraintsHold
<1>6. CASE n \notin S
  <2>1. notifications'[n] = notifications[n]
    BY <1>1, <1>6 DEF ClaimRows
  <2>2. QED
    BY <1>4, <2>1, HistoryFrame
<1>7. QED
  BY <1>5, <1>6

LEMMA HistoryStep == Inv /\ [Next]_vars => HistoryExplainsState'
<1> SUFFICES ASSUME Inv, [Next]_vars PROVE HistoryExplainsState'
  OBVIOUS
<1> USE DEF clientVars, providerVars
<1>1. EngineTypeOK /\ StoreTypeOK /\ HistoryExplainsState
  BY DEF Inv, EngineTypeOK
<1>2. ASSUME NEW n \in Notification, ApiStep(n) PROVE HistoryExplainsState'
  BY <1>1, <1>2, SubmitHistory, MarkQueuedHistory, StoreFrame
  DEF ApiStep, Enqueue, HandlerFails, HandlerCrash, Replay
<1>3. ASSUME NEW n \in Notification, LoseMessage(n) \/ TimePasses(n)
      PROVE  HistoryExplainsState'
  BY <1>1, <1>3, TimePassesHistory, StoreFrame DEF LoseMessage
<1>4. ASSUME NEW w \in Worker, WorkerStep(w) PROVE HistoryExplainsState'
  <2>1. CASE Persist(w)
    <3>1. worker[w].notification_id \in Notification
          /\ worker[w].status \in DeliveryStatus
      BY <1>1, <2>1, RunningTask DEF Persist
    <3>2. QED
      BY <1>1, <2>1, <3>1, PersistHistory, StoreFrame
      DEF Persist, PersistRollsBack
  <2>2. CASE UNCHANGED storeVars
    BY <1>1, <2>2, StoreFrame
  <2>3. QED
    BY <1>4, <2>1, <2>2 DEF WorkerStep, Reserve, Load, Send, Ack, TaskFails,
                            WorkerCrash, Redeliver
<1>5. ASSUME NEW s \in Scheduler, SchedulerStep(s) PROVE HistoryExplainsState'
  BY <1>1, <1>5, ClaimHistory, StoreFrame
  DEF SchedulerStep, EnqueueClaimed, SchedulerFails
<1>6. CASE UNCHANGED vars
  BY <1>1, <1>6, StoreFrame DEF vars
<1>7. QED
  BY <1>2, <1>3, <1>4, <1>5, <1>6 DEF Next

LEMMA InvStep == Inv /\ [Next]_vars => Inv'
  BY TypeStep, NothingBeforeCommitStep, HistoryStep DEF Inv

LEMMA Invariance == Spec => []Inv
  BY InitInv, InvStep, PTL DEF Spec

(* In every reachable state the attempts of a notification are numbered    *)
(* 1..attempt_count and its state column tells how the last one ended,     *)
(* whatever the workers, the broker and the faults do.                     *)
THEOREM HistoryAlwaysExplainsState == Spec => []HistoryExplainsState
<1>1. Inv => HistoryExplainsState
  BY DEF Inv
<1>2. QED
  BY <1>1, Invariance, PTL

(* A worker always finds the row its message names: nothing refers to a    *)
(* notification before the transaction that inserts it has committed.      *)
THEOREM CommitComesFirst == Spec => []NothingBeforeCommit
<1>1. Inv => NothingBeforeCommit
  BY DEF Inv
<1>2. QED
  BY <1>1, Invariance, PTL

-----------------------------------------------------------------------------
(* Sent is final.                                                          *)

(* A statement other than persist_delivery_result leaves a sent row alone. *)
LEMMA SentStep ==
    ASSUME Inv, [Next]_vars, NEW n \in Notification,
           notifications[n].state = "sent"
    PROVE  /\ notifications'[n].state = "sent"
           /\ \A a \in delivery_attempts' \ delivery_attempts :
                 a.notification_id = n => a.status = "success"
<1> DEFINE Goal ==
       /\ notifications'[n].state = "sent"
       /\ \A a \in delivery_attempts' \ delivery_attempts :
             a.notification_id = n => a.status = "success"
<1>1. /\ EngineTypeOK /\ StoreTypeOK /\ Explained(n) /\ Numbered(n)
      /\ notifications[n] \in Row
  BY DEF Inv, EngineTypeOK, StoreTypeOK, HistoryExplainsState
<1>2. CASE UNCHANGED storeVars
  BY <1>2 DEF storeVars
<1>3. ASSUME NEW m \in Notification, Submit(m) \/ MarkQueued(m) \/ TimePasses(m)
      PROVE  Goal
  <2>1. CASE m = n
    <3>1. ~Submit(m) /\ ~TimePasses(m)
      BY <1>1, <2>1 DEF Submit, TimePasses, RetryTimeArrives, Inv,
         NothingBeforeCommit, Explained, ConstraintsHold
    <3>2. QED
      BY <1>1, <1>3, <2>1, <3>1
      DEF MarkQueued, UpdateRow, mark_queued, StoreTypeOK
  <2>2. CASE m # n
    BY <1>1, <1>3, <2>2 DEF Submit, MarkQueued, TimePasses, RetryTimeArrives,
                            UpdateRow, StoreTypeOK
  <2>3. QED
    BY <2>1, <2>2
<1>4. ASSUME NEW w \in Worker, Persist(w) PROVE Goal
  <2> DEFINE m == worker[w].notification_id
             status == worker[w].status
  <2>1. m \in Notification /\ status \in DeliveryStatus
    BY <1>1, <1>4, RunningTask DEF Persist
  <2>2. PICK at \in {"later", "due"} :
           PersistCommits(m, status, at) \/ PersistRollsBack(m, status, at)
    BY <1>4 DEF Persist
  <2>3. CASE PersistRollsBack(m, status, at)
    BY <1>2, <2>3 DEF PersistRollsBack
  <2>4. CASE PersistCommits(m, status, at) /\ m # n
    <3>1. notifications'[n] = notifications[n]
      BY <1>1, <2>1, <2>4, PersistWrites
    <3>2. delivery_attempts' = delivery_attempts \cup
            {[notification_id |-> m,
              attempt_number |->
                 increment_attempt_count(notifications[m]).attempt_count,
              status |-> status]}
      BY <2>4 DEF PersistCommits
    <3>3. QED
      BY <2>4, <3>1, <3>2
  <2>5. CASE PersistCommits(m, status, at) /\ m = n
    <3> DEFINE row == increment_attempt_count(notifications[n])
    <3>1. /\ row \in Row /\ row.sent_at = "set"
      <4>1. notifications[n].sent_at # "null" /\ row \in Row
        BY <1>1, StatementTypes DEF Explained, ConstraintsHold, RetryTime
      <4>2. QED
        BY <1>1, <4>1 DEF increment_attempt_count, Row
    <3>2. ConstraintsHold(RecordedRow(row, status, at))
      BY <2>5 DEF PersistCommits, Committable
    <3>3. status = "success"
      <4>1. CASE status = "permanent_failure"
        BY <3>1, <3>2, <4>1
        DEF RecordedRow, mark_failed, ConstraintsHold, Row
      <4>2. CASE status = "temporary_failure"
        BY <3>1, <3>2, <4>2
        DEF RecordedRow, mark_failed, schedule_retry, ConstraintsHold, Row
      <4>3. QED
        BY <2>1, <4>1, <4>2 DEF DeliveryStatus
    <3>4. notifications'[n].state = "sent"
      <4>1. notifications'[n] = RecordedRow(row, status, at)
        BY <1>1, <2>5 DEF PersistCommits, UpdateRow, StoreTypeOK
      <4>2. QED
        BY <3>1, <3>3, <4>1 DEF RecordedRow, mark_sent, Row
    <3>5. \A a \in delivery_attempts' \ delivery_attempts : a.status = "success"
      BY <2>5, <3>3 DEF PersistCommits
    <3>6. QED
      BY <3>4, <3>5
  <2>6. QED
    BY <2>2, <2>3, <2>4, <2>5
<1>5. ASSUME NEW s \in Scheduler, Claim(s) PROVE Goal
  <2>1. PICK S \in (SUBSET Due) \ {{}} : ClaimRows(S)
    BY <1>5 DEF Claim
  <2>2. n \notin S
    BY DEF Due, IsDue
  <2>3. QED
    BY <2>1, <2>2 DEF ClaimRows
<1>6. QED
  BY <1>2, <1>3, <1>4, <1>5
  DEF Next, vars, ApiStep, WorkerStep, SchedulerStep, Enqueue, HandlerFails,
      HandlerCrash, Replay, LoseMessage, Reserve, Load, Send, Ack, TaskFails,
      WorkerCrash, Redeliver, EnqueueClaimed, SchedulerFails

(* No late result, duplicate or retry ever moves a sent notification to    *)
(* another state or adds a failure to its history.                         *)
THEOREM SentStaysSent == Spec => SentIsFinal
<1>1. Inv /\ [Next]_vars =>
        [\A n \in Notification : notifications[n].state = "sent" =>
           /\ notifications'[n].state = "sent"
           /\ \A a \in delivery_attempts' \ delivery_attempts :
                 a.notification_id = n => a.status = "success"]_vars
  BY SentStep
<1>2. QED
  BY <1>1, Invariance, PTL DEF Spec, SentIsFinal

-----------------------------------------------------------------------------
(* No orphans.                                                             *)

(* The steps that drop work, and the faults that are counted for them.     *)
Drops ==
    \/ \E n \in Notification : HandlerFails(n) \/ HandlerCrash(n) \/ LoseMessage(n)
    \/ \E w \in Worker : TaskFails(w)
    \/ \E s \in Scheduler : SchedulerFails(s)

Unfinished(n) == notifications[n].state \notin Terminal \cup {"none"}

LEMMA StrandedIs ==
    Stranded = {n \in Notification : Unfinished(n) /\ ~Carried(n)}
  BY DEF Stranded, Unfinished

(* Faults are counted and never forgotten.                                 *)
LEMMA FaultsGrow ==
    ASSUME EngineTypeOK, [Next]_vars, NEW k \in FaultKind
    PROVE  /\ faults[k] \in Nat /\ faults'[k] \in Nat
           /\ faults'[k] >= faults[k]
           /\ ~Drops /\ k \notin {"worker", "redelivery"} => faults'[k] = faults[k]
<1>1. faults' = faults \/ \E l \in FaultKind : Fault(l)
  BY FaultKinds
  DEF Next, vars, ApiStep, WorkerStep, SchedulerStep, Submit, Enqueue,
      MarkQueued, HandlerFails, HandlerCrash, Replay, LoseMessage, TimePasses,
      Reserve, Load, Send, Persist, Ack, TaskFails, WorkerCrash, Redeliver,
      Claim, EnqueueClaimed, SchedulerFails
<1>2. faults[k] \in Nat /\ faults'[k] \in Nat /\ faults'[k] >= faults[k]
  BY <1>1 DEF Fault, EngineTypeOK
<1>3. ASSUME ~Drops
      PROVE  faults' = faults \/ Fault("worker") \/ Fault("redelivery")
  BY <1>3
  DEF Drops, Next, vars, ApiStep, WorkerStep, SchedulerStep, Submit, Enqueue,
      MarkQueued, Replay, TimePasses, Reserve, Load, Send, Persist, Ack,
      WorkerCrash, Redeliver, Claim, EnqueueClaimed
<1>4. ASSUME ~Drops, k \notin {"worker", "redelivery"}
      PROVE  faults'[k] = faults[k]
  BY <1>3, <1>4 DEF Fault, EngineTypeOK
<1>5. QED
  BY <1>2, <1>4

(* What has to survive for n to stay carried.                              *)
LEMMA CarriedFrame ==
    ASSUME NEW n \in Notification, Carried(n),
           handler[n] = "committed" => handler'[n] = "committed",
           queue[n] > 0 => queue'[n] > 0,
           \A w \in Worker : Running(w, n) /\ worker[w].pc # "acking" =>
              Running(w, n)' /\ worker'[w].pc # "acking",
           \A s \in Scheduler : n \in claimed[s] => n \in claimed'[s],
           notifications[n].next_retry_at # "null" =>
              notifications'[n].next_retry_at # "null"
    PROVE  Carried(n)'
  BY DEF Carried

(* A transaction of persist_delivery_result that rolls back leaves a row   *)
(* that is already sent or failed: there was nothing left to do.           *)
LEMMA RollbackOnlyWhenDone ==
    ASSUME Inv, NEW n \in Notification, NEW status \in DeliveryStatus,
           NEW at \in {"later", "due"}, ~Committable(n, status, at)
    PROVE  notifications[n].state \in Terminal
<1> SUFFICES ASSUME notifications[n].state \notin Terminal PROVE FALSE
  OBVIOUS
<1> DEFINE j == notifications[n].attempt_count
           row == increment_attempt_count(notifications[n])
<1>1. /\ notifications[n] \in Row /\ j \in Nat
      /\ Numbered(n) /\ Explained(n)
  BY DEF Inv, EngineTypeOK, StoreTypeOK, HistoryExplainsState, Row
<1>2. row \in Row /\ row.attempt_count = j + 1 /\ row.state = notifications[n].state
      /\ row.sent_at = notifications[n].sent_at
      /\ row.next_retry_at = notifications[n].next_retry_at
  BY <1>1 DEF increment_attempt_count, Row
<1>3. j < MaxAttempts
  BY <1>1 DEF Explained, Untried, Row, State, Terminal
<1>4. row.state # "sent" /\ row.state # "failed" /\ row.sent_at = "null"
  BY <1>1, <1>2 DEF Explained, ConstraintsHold, Terminal
<1>5. ConstraintsHold(row)
  BY <1>1, <1>2, <1>3, <1>4 DEF Explained, ConstraintsHold
<1>6. AttemptIsUnique(n, j + 1)
  BY <1>1 DEF Numbered, AttemptIsUnique, AttemptsOf
<1>7. ConstraintsHold(RecordedRow(row, status, at))
  <2>1. row.attempt_count <= MaxAttempts
    BY <1>1, <1>2, <1>3
  <2>2. /\ mark_sent(row).attempt_count = row.attempt_count
        /\ mark_sent(row).state = "sent" /\ mark_sent(row).sent_at = "set"
        /\ mark_sent(row).next_retry_at = "null"
    BY <1>2 DEF mark_sent, Row
  <2>3. /\ mark_failed(row).attempt_count = row.attempt_count
        /\ mark_failed(row).state = "failed" /\ mark_failed(row).sent_at = "null"
        /\ mark_failed(row).next_retry_at = "null"
    BY <1>2, <1>4 DEF mark_failed, Row
  <2>4. /\ schedule_retry(row, at).attempt_count = row.attempt_count
        /\ schedule_retry(row, at).state = "queued"
        /\ schedule_retry(row, at).sent_at = "null"
    BY <1>2, <1>4 DEF schedule_retry, Row
  <2>5. /\ ConstraintsHold(mark_sent(row))
        /\ ConstraintsHold(mark_failed(row))
        /\ ConstraintsHold(schedule_retry(row, at))
    BY <2>1, <2>2, <2>3, <2>4 DEF ConstraintsHold
  <2>6. QED
    BY <2>5 DEF RecordedRow, DeliveryStatus
<1>8. QED
  BY <1>2, <1>5, <1>6, <1>7 DEF Committable

(* One commit leaves the row done or its retry scheduled.                  *)
LEMMA CommitSettlesOrSchedules ==
    ASSUME Inv, NEW n \in Notification, NEW status \in DeliveryStatus,
           NEW at \in {"later", "due"}, PersistCommits(n, status, at)
    PROVE  \/ notifications'[n].state \in Terminal
           \/ notifications'[n].next_retry_at # "null"
<1> DEFINE row == increment_attempt_count(notifications[n])
<1>1. StoreTypeOK /\ notifications[n] \in Row /\ row \in Row
  BY StatementTypes DEF Inv, EngineTypeOK, StoreTypeOK, RetryTime
<1>2. notifications'[n] = RecordedRow(row, status, at)
  BY <1>1 DEF PersistCommits, UpdateRow, StoreTypeOK
<1>3. QED
  BY <1>1, <1>2 DEF RecordedRow, mark_sent, mark_failed, schedule_retry,
                    DeliveryStatus, Terminal, Row

(* Nothing but a dropping step takes the last carrier from an unfinished   *)
(* notification.                                                           *)
LEMMA CarriedStep ==
    ASSUME Inv, [Next]_vars, ~Drops, NEW n \in Notification,
           Unfinished(n) => Carried(n), Unfinished(n)'
    PROVE  Carried(n)'
<1> USE DEF clientVars, providerVars, storeVars
<1>1. /\ EngineTypeOK /\ StoreTypeOK /\ Explained(n)
      /\ notifications[n] \in Row
  BY DEF Inv, EngineTypeOK, StoreTypeOK, HistoryExplainsState
<1>4. notifications'[n].state \notin Terminal \cup {"none"}
  BY DEF Unfinished
<1>5. notifications[n].state \notin Terminal \cup {"none"} => Carried(n)
  BY DEF Unfinished
<1>6. ASSUME NEW m \in Notification, ApiStep(m) PROVE Carried(n)'
  <2>1. worker' = worker /\ claimed' = claimed
    BY <1>6 DEF ApiStep, Submit, Enqueue, MarkQueued, HandlerFails,
                HandlerCrash, Replay
  <2>2. CASE Submit(m)
    <3>1. CASE m = n
      BY <1>1, <2>2, <3>1 DEF Submit, Carried, EngineTypeOK
    <3>2. CASE m # n
      <4>1. notifications'[n] = notifications[n] /\ handler'[n] = handler[n]
        BY <1>1, <2>2, <3>2 DEF Submit, UpdateRow, StoreTypeOK, EngineTypeOK
      <4>2. QED
        BY <1>4, <1>5, <2>1, <2>2, <4>1 DEF Submit, Carried, Running
    <3>3. QED
      BY <3>1, <3>2
  <2>3. CASE Enqueue(m)
    <3>1. CASE m = n
      BY <1>1, <2>3, <3>1 DEF Enqueue, Publish, Carried, EngineTypeOK
    <3>2. CASE m # n
      BY <1>1, <1>4, <1>5, <2>1, <2>3, <3>2
      DEF Enqueue, Publish, Carried, EngineTypeOK, Running
    <3>3. QED
      BY <3>1, <3>2
  <2>4. CASE MarkQueued(m)
    <3>1. /\ notifications'[n].next_retry_at = notifications[n].next_retry_at
          /\ notifications[n].state \notin Terminal \cup {"none"}
      <4>1. CASE m = n
        <5>1. notifications'[n] = mark_queued(notifications[n])
          BY <1>1, <2>4, <4>1 DEF MarkQueued, UpdateRow, StoreTypeOK
        <5>2. QED
          BY <1>1, <1>4, <5>1 DEF mark_queued, Row, Terminal
      <4>2. CASE m # n
        BY <1>1, <1>4, <2>4, <4>2 DEF MarkQueued, UpdateRow, StoreTypeOK
      <4>3. QED
        BY <4>1, <4>2
    <3>2. handler[n] = "committed" => handler'[n] = "committed"
      BY <1>1, <2>4 DEF MarkQueued, EngineTypeOK
    <3>3. QED
      BY <1>4, <1>5, <2>1, <2>4, <3>1, <3>2 DEF MarkQueued, Carried, Running
  <2>5. CASE Replay(m)
    BY <1>4, <1>5, <2>1, <2>5 DEF Replay, Carried, Running
  <2>6. QED
    BY <1>6, <2>2, <2>3, <2>4, <2>5 DEF ApiStep, Drops
<1>7. ASSUME NEW m \in Notification, TimePasses(m) PROVE Carried(n)'
  <2>1. CASE m = n
    <3>1. notifications'[n].next_retry_at = "due"
      BY <1>1, <1>7, <2>1 DEF TimePasses, RetryTimeArrives, UpdateRow,
                              StoreTypeOK, Row
    <3>2. QED
      BY <3>1 DEF Carried
  <2>2. CASE m # n
    <3>1. notifications'[n] = notifications[n]
      BY <1>1, <1>7, <2>2
      DEF TimePasses, RetryTimeArrives, UpdateRow, StoreTypeOK
    <3>2. QED
      BY <1>4, <1>5, <1>7, <3>1 DEF TimePasses, Carried, Running
  <2>3. QED
    BY <2>1, <2>2
<1>8. ASSUME NEW w \in Worker, WorkerStep(w) PROVE Carried(n)'
  <2>1. handler' = handler /\ claimed' = claimed
    BY <1>8 DEF WorkerStep, Reserve, Load, Send, Persist, Ack, TaskFails,
                WorkerCrash, Redeliver
  <2>2. worker[w] # Idle => worker[w] \in Task
    BY <1>1, RunningTask
  <2>3. ASSUME NEW m \in Notification, Reserve(w, m) PROVE Carried(n)'
    <3>1. CASE m = n
      <4>1. Running(w, n)' /\ worker'[w].pc # "acking"
        BY <1>1, <2>3, <3>1 DEF Reserve, Running, Idle, EngineTypeOK
      <4>2. QED
        BY <4>1 DEF Carried
    <3>2. CASE m # n
      <4>1. queue'[n] = queue[n] /\ notifications' = notifications
        BY <1>1, <2>3, <3>2 DEF Reserve, EngineTypeOK
      <4>2. \A v \in Worker : Running(v, n) =>
               Running(v, n)' /\ worker'[v].pc = worker[v].pc
        BY <1>1, <2>3 DEF Reserve, Running, EngineTypeOK
      <4>3. QED
        BY <1>4, <1>5, <2>1, <4>1, <4>2 DEF Carried
    <3>3. QED
      BY <3>1, <3>2
  <2>4. ASSUME worker[w] # Idle, NEW pc, worker' = [worker EXCEPT ![w].pc = pc],
               pc # "acking" \/ ~Running(w, n) \/ worker[w].pc = "acking",
               queue' = queue, notifications'[n] = notifications[n]
        PROVE  Carried(n)'
    <3>1. notifications[n].state \notin Terminal \cup {"none"}
      BY <1>4, <2>4
    <3>2. \A v \in Worker : Running(v, n) /\ worker[v].pc # "acking" =>
             Running(v, n)' /\ worker'[v].pc # "acking"
      BY <1>1, <2>2, <2>4 DEF Running, EngineTypeOK, Task, Idle
    <3>3. QED
      BY <1>4, <1>5, <2>1, <2>4, <3>1, <3>2 DEF Carried
  <2>5. CASE Load(w)
    <3>1. ASSUME worker[w].notification_id = n PROVE Eligible(notifications[n])
      BY <1>1, <1>4, <2>5, <3>1
      DEF Load, Eligible, Explained, Untried, Terminal, Row, State
    <3>2. QED
      BY <2>4, <2>5, <3>1 DEF Load, Running
  <2>6. CASE Send(w)
    <3>1. PICK status \in DeliveryStatus :
             worker' = [worker EXCEPT ![w].pc = "persisting", ![w].status = status]
      BY <2>6 DEF Send
    <3>2. \A v \in Worker : Running(v, n) /\ worker[v].pc # "acking" =>
             Running(v, n)' /\ worker'[v].pc # "acking"
      BY <1>1, <2>2, <2>6, <3>1 DEF Send, Running, EngineTypeOK, Task, Idle
    <3>3. QED
      BY <1>4, <1>5, <2>1, <2>6, <3>2 DEF Send, Carried
  <2>7. CASE Persist(w)
    <3> DEFINE m == worker[w].notification_id
               status == worker[w].status
    <3>1. m \in Notification /\ status \in DeliveryStatus
      BY <1>1, <2>7, RunningTask DEF Persist
    <3>2. PICK at \in {"later", "due"} :
             PersistCommits(m, status, at) \/ PersistRollsBack(m, status, at)
      BY <2>7 DEF Persist
    <3>3. CASE m = n
      <4>1. CASE PersistCommits(n, status, at)
        BY <1>4, <3>1, <4>1, CommitSettlesOrSchedules DEF Carried
      <4>2. CASE PersistRollsBack(n, status, at)
        BY <1>4, <3>1, <4>2, RollbackOnlyWhenDone DEF PersistRollsBack
      <4>3. QED
        BY <3>2, <3>3, <4>1, <4>2
    <3>4. CASE m # n
      <4>1. notifications'[n] = notifications[n]
        BY <1>1, <3>1, <3>2, <3>4, PersistWrites DEF PersistRollsBack
      <4>2. QED
        BY <2>4, <2>7, <3>4, <4>1 DEF Persist, Running
    <3>5. QED
      BY <3>3, <3>4
  <2>8. CASE Ack(w)
    <3>1. \A v \in Worker : Running(v, n) /\ worker[v].pc # "acking" =>
             Running(v, n)' /\ worker'[v].pc # "acking"
      BY <1>1, <2>8 DEF Ack, Running, EngineTypeOK
    <3>2. QED
      BY <1>4, <1>5, <2>1, <2>8, <3>1 DEF Ack, Carried
  <2>9. CASE WorkerCrash(w)
    <3> DEFINE m == worker[w].notification_id
    <3>1. m \in Notification
      BY <1>1, <2>9, RunningTask DEF WorkerCrash
    <3>2. CASE m = n
      BY <1>1, <2>9, <3>1, <3>2 DEF WorkerCrash, Publish, Carried, EngineTypeOK
    <3>3. CASE m # n
      <4>1. queue'[n] = queue[n]
        BY <1>1, <2>9, <3>1, <3>3 DEF WorkerCrash, Publish, EngineTypeOK
      <4>2. \A v \in Worker : Running(v, n) => Running(v, n)' /\ worker'[v] = worker[v]
        BY <1>1, <2>9, <3>3 DEF WorkerCrash, Running, EngineTypeOK
      <4>3. QED
        BY <1>4, <1>5, <2>1, <2>9, <4>1, <4>2 DEF WorkerCrash, Carried
    <3>4. QED
      BY <3>2, <3>3
  <2>10. CASE Redeliver(w)
    <3>1. queue[n] > 0 => queue'[n] > 0
      BY <1>1, <2>10, RunningTask DEF Redeliver, Publish, EngineTypeOK
    <3>2. QED
      BY <1>4, <1>5, <2>1, <2>10, <3>1 DEF Redeliver, Carried, Running
  <2>11. QED
    BY <1>8, <2>3, <2>5, <2>6, <2>7, <2>8, <2>9, <2>10 DEF WorkerStep, Drops
<1>9. ASSUME NEW s \in Scheduler, SchedulerStep(s) PROVE Carried(n)'
  <2>1. handler' = handler /\ worker' = worker
    BY <1>9 DEF SchedulerStep, Claim, EnqueueClaimed, SchedulerFails
  <2>2. CASE Claim(s)
    <3>1. PICK S \in (SUBSET Due) \ {{}} :
             ClaimRows(S) /\ claimed' = [claimed EXCEPT ![s] = S]
      BY <2>2 DEF Claim
    <3>2. CASE n \in S
      BY <1>1, <3>1, <3>2 DEF Carried, EngineTypeOK
    <3>3. CASE n \notin S
      <4>1. notifications'[n] = notifications[n]
        BY <3>1, <3>3 DEF ClaimRows
      <4>2. \A t \in Scheduler : n \in claimed[t] => n \in claimed'[t]
        BY <1>1, <2>2, <3>1 DEF Claim, EngineTypeOK
      <4>3. QED
        BY <1>4, <1>5, <2>1, <2>2, <4>1, <4>2 DEF Claim, Carried, Running
    <3>4. QED
      BY <3>2, <3>3
  <2>3. ASSUME NEW m \in Notification, EnqueueClaimed(s, m) PROVE Carried(n)'
    <3>1. CASE m = n
      BY <1>1, <2>3, <3>1 DEF EnqueueClaimed, Publish, Carried, EngineTypeOK
    <3>2. CASE m # n
      <4>1. queue'[n] = queue[n]
            /\ \A t \in Scheduler : n \in claimed[t] => n \in claimed'[t]
        BY <1>1, <2>3, <3>2 DEF EnqueueClaimed, Publish, EngineTypeOK
      <4>2. QED
        BY <1>4, <1>5, <2>1, <2>3, <4>1 DEF EnqueueClaimed, Carried, Running
    <3>3. QED
      BY <3>1, <3>2
  <2>4. QED
    BY <1>9, <2>2, <2>3 DEF SchedulerStep, Drops
<1>10. CASE UNCHANGED vars
  BY <1>4, <1>5, <1>10 DEF vars, Carried, Running
<1>11. QED
  BY <1>6, <1>7, <1>8, <1>9, <1>10 DEF Next, Drops

(* The steps that write the row of n.                                      *)
LEMMA RowStep ==
    ASSUME Inv, [Next]_vars, NEW n \in Notification
    PROVE  \/ notifications'[n] = notifications[n]
           \/ Submit(n) /\ notifications'[n] = create_notification
           \/ MarkQueued(n) /\ notifications'[n] = mark_queued(notifications[n])
           \/ /\ notifications[n].next_retry_at = "later"
              /\ notifications'[n] = [notifications[n] EXCEPT !.next_retry_at = "due"]
           \/ /\ \E w \in Worker : Running(w, n) /\ worker[w].pc = "persisting"
              /\ notifications'[n].state \in {"sent", "failed", "queued"}
              /\ notifications'[n].attempt_count = notifications[n].attempt_count + 1
           \/ /\ IsDue(notifications[n])
              /\ notifications'[n] = claim(notifications[n])
<1> DEFINE Goal ==
       \/ notifications'[n] = notifications[n]
       \/ Submit(n) /\ notifications'[n] = create_notification
       \/ MarkQueued(n) /\ notifications'[n] = mark_queued(notifications[n])
       \/ /\ notifications[n].next_retry_at = "later"
          /\ notifications'[n] = [notifications[n] EXCEPT !.next_retry_at = "due"]
       \/ /\ \E w \in Worker : Running(w, n) /\ worker[w].pc = "persisting"
          /\ notifications'[n].state \in {"sent", "failed", "queued"}
          /\ notifications'[n].attempt_count = notifications[n].attempt_count + 1
       \/ /\ IsDue(notifications[n])
          /\ notifications'[n] = claim(notifications[n])
<1>1. EngineTypeOK /\ StoreTypeOK
  BY DEF Inv, EngineTypeOK
<1>2. CASE UNCHANGED storeVars
  BY <1>2 DEF storeVars
<1>3. ASSUME NEW m \in Notification, Submit(m) \/ MarkQueued(m) \/ TimePasses(m)
      PROVE  Goal
  BY <1>1, <1>3
  DEF Submit, MarkQueued, TimePasses, RetryTimeArrives, UpdateRow, StoreTypeOK
<1>4. ASSUME NEW w \in Worker, Persist(w) PROVE Goal
  <2> DEFINE m == worker[w].notification_id
             status == worker[w].status
             row == increment_attempt_count(notifications[m])
  <2>1. m \in Notification /\ status \in DeliveryStatus
    BY <1>1, <1>4, RunningTask DEF Persist
  <2>2. PICK at \in {"later", "due"} :
           PersistCommits(m, status, at) \/ PersistRollsBack(m, status, at)
    BY <1>4 DEF Persist
  <2>3. CASE PersistRollsBack(m, status, at)
    BY <1>2, <2>3 DEF PersistRollsBack
  <2>4. CASE PersistCommits(m, status, at) /\ m # n
    BY <1>1, <2>1, <2>4, PersistWrites
  <2>5. CASE PersistCommits(m, status, at) /\ m = n
    <3>1. /\ notifications'[n] = RecordedRow(row, status, at)
          /\ notifications'[n].attempt_count = notifications[n].attempt_count + 1
      BY <1>1, <2>1, <2>5, PersistWrites
    <3>2. row \in Row
      BY <1>1, <2>1, StatementTypes DEF StoreTypeOK, RetryTime
    <3>3. notifications'[n].state \in {"sent", "failed", "queued"}
      BY <2>1, <3>1, <3>2
      DEF RecordedRow, mark_sent, mark_failed, schedule_retry, DeliveryStatus, Row
    <3>4. Running(w, n) /\ worker[w].pc = "persisting"
      BY <1>4, <2>5 DEF Persist, Running
    <3>5. QED
      BY <3>1, <3>3, <3>4
  <2>6. QED
    BY <2>2, <2>3, <2>4, <2>5
<1>5. ASSUME NEW s \in Scheduler, Claim(s) PROVE Goal
  <2>1. PICK S \in (SUBSET Due) \ {{}} : ClaimRows(S)
    BY <1>5 DEF Claim
  <2>2. QED
    BY <2>1 DEF ClaimRows, Due
<1>6. QED
  BY <1>2, <1>3, <1>4, <1>5
  DEF Next, vars, ApiStep, WorkerStep, SchedulerStep, Enqueue, HandlerFails,
      HandlerCrash, Replay, LoseMessage, Reserve, Load, Send, Ack, TaskFails,
      WorkerCrash, Redeliver, EnqueueClaimed, SchedulerFails

LEMMA TriedStaysTried ==
    ASSUME Inv, [Next]_vars, NEW n \in Notification, ~Untried(n)
    PROVE  ~Untried(n)'
<1>1. /\ notifications[n] \in Row /\ Explained(n)
  BY DEF Inv, EngineTypeOK, StoreTypeOK, HistoryExplainsState
<1>2. ~Submit(n)
  BY DEF Submit, Inv, NothingBeforeCommit, HistoryExplainsState, Explained
<1>3. \/ notifications'[n].attempt_count = notifications[n].attempt_count
      \/ notifications'[n].attempt_count = notifications[n].attempt_count + 1
  BY <1>1, <1>2, RowStep DEF mark_queued, claim, Row
<1>4. QED
  BY <1>1, <1>3 DEF Untried, Row

(* What the history tells about the faults: only a failed request leaves a *)
(* 'created' row behind, and a claimed row was tried before.               *)
AbandonedByApi ==
    \A n \in Notification :
        notifications[n].state = "created" /\ handler[n] = "done" =>
            faults["api"] > 0

ClaimsAreRetries ==
    \A s \in Scheduler :
        /\ IsFiniteSet(claimed[s]) /\ Cardinality(claimed[s]) <= ClaimLimit
        /\ \A n \in claimed[s] : ~Untried(n)

StrandingFaults ==
    faults["api"] + faults["task"] + faults["loss"]
       + ClaimLimit * faults["scheduler"]

StrandedBounded ==
    IsFiniteSet(Stranded) /\ Cardinality(Stranded) <= StrandingFaults

OrphanInv ==
    /\ StrandedBounded
    /\ \A n \in Stranded : StrandedByFault(n)
    /\ AbandonedByApi
    /\ ClaimsAreRetries

LEMMA AbandonedStep == Inv /\ AbandonedByApi /\ [Next]_vars => AbandonedByApi'
<1> SUFFICES ASSUME Inv, AbandonedByApi, [Next]_vars, NEW n \in Notification,
                    notifications'[n].state = "created", handler'[n] = "done"
             PROVE  faults'["api"] > 0
  BY DEF AbandonedByApi
<1>1. EngineTypeOK /\ StoreTypeOK /\ notifications[n] \in Row
  BY DEF Inv, EngineTypeOK, StoreTypeOK
<1>2. /\ faults["api"] \in Nat /\ faults'["api"] \in Nat
      /\ faults'["api"] >= faults["api"]
  BY <1>1, FaultKinds, FaultsGrow
<1>3. CASE Fault("api")
  BY <1>1, <1>3, FaultKinds DEF Fault, EngineTypeOK
<1>4. CASE ~Fault("api") /\ notifications[n].state = "created" /\ handler[n] = "done"
  BY <1>2, <1>4 DEF AbandonedByApi
<1>5. CASE ~Fault("api") /\ handler[n] # "done"
  <2>1. MarkQueued(n)
    BY <1>1, <1>5
    DEF Next, vars, clientVars, ApiStep, WorkerStep, SchedulerStep, Submit,
        Enqueue, MarkQueued, HandlerFails, HandlerCrash, Replay, LoseMessage,
        TimePasses, Reserve, Load, Send, Persist, Ack, TaskFails, WorkerCrash,
        Redeliver, Claim, EnqueueClaimed, SchedulerFails, EngineTypeOK
  <2>2. notifications'[n] = mark_queued(notifications[n])
    BY <1>1, <2>1 DEF MarkQueued, UpdateRow, StoreTypeOK
  <2>3. QED
    BY <1>1, <2>2 DEF mark_queued, Row
<1>6. CASE notifications[n].state # "created" /\ handler[n] = "done"
  BY <1>1, <1>6, RowStep DEF Submit, MarkQueued, claim, Row
<1>7. QED
  BY <1>3, <1>4, <1>5, <1>6

LEMMA ClaimsAreRetriesStep ==
    Inv /\ ClaimsAreRetries /\ [Next]_vars => ClaimsAreRetries'
<1> SUFFICES ASSUME Inv, ClaimsAreRetries, [Next]_vars, NEW s \in Scheduler
             PROVE  /\ IsFiniteSet(claimed'[s])
                    /\ Cardinality(claimed'[s]) <= ClaimLimit
                    /\ \A n \in claimed'[s] : ~Untried(n)'
  BY DEF ClaimsAreRetries
<1>1. EngineTypeOK /\ StoreTypeOK /\ HistoryExplainsState
  BY DEF Inv, EngineTypeOK
<1>2. claimed[s] \subseteq Notification /\ claimed'[s] \subseteq Notification
  BY <1>1, TypeStep DEF EngineTypeOK
<1>3. ASSUME NEW n \in Notification, ~Untried(n) PROVE ~Untried(n)'
  BY <1>3, TriedStaysTried
<1>4. ASSUME claimed'[s] \subseteq claimed[s]
      PROVE  /\ IsFiniteSet(claimed'[s])
             /\ Cardinality(claimed'[s]) <= ClaimLimit
  <2>1. IsFiniteSet(claimed[s]) /\ Cardinality(claimed[s]) <= ClaimLimit
    BY DEF ClaimsAreRetries
  <2>2. /\ IsFiniteSet(claimed'[s])
        /\ Cardinality(claimed'[s]) <= Cardinality(claimed[s])
    BY <1>4, <2>1, FS_Subset
  <2>3. Cardinality(claimed[s]) \in Nat /\ Cardinality(claimed'[s]) \in Nat
    BY <2>1, <2>2, FS_CardinalityType
  <2>4. QED
    BY <2>1, <2>2, <2>3
<1>5. CASE claimed'[s] \subseteq claimed[s]
  BY <1>2, <1>3, <1>4, <1>5 DEF ClaimsAreRetries
<1>6. CASE Claim(s)
  <2>1. PICK S \in (SUBSET Due) \ {{}} :
           /\ IsFiniteSet(S) /\ Cardinality(S) <= ClaimLimit
           /\ ClaimRows(S)
           /\ claimed' = [claimed EXCEPT ![s] = S]
    BY <1>6 DEF Claim
  <2>2. claimed'[s] = S
    BY <1>1, <2>1 DEF EngineTypeOK
  <2>3. ASSUME NEW n \in S PROVE ~Untried(n)
    <3>1. n \in Notification /\ IsDue(notifications[n])
      BY <2>1, <2>3 DEF Due
    <3>2. QED
      BY <1>1, <3>1 DEF IsDue, HistoryExplainsState, Explained
  <2>4. QED
    BY <1>2, <1>3, <2>1, <2>2, <2>3
<1>7. QED
  <2>1. \/ Claim(s) \/ claimed'[s] = claimed[s] \/ claimed'[s] = {}
        \/ \E n \in Notification : claimed'[s] = claimed[s] \ {n}
    BY <1>1
    DEF Next, vars, ApiStep, WorkerStep, SchedulerStep, Submit, Enqueue,
        MarkQueued, HandlerFails, HandlerCrash, Replay, LoseMessage, TimePasses,
        Reserve, Load, Send, Persist, Ack, TaskFails, WorkerCrash, Redeliver,
        Claim, EnqueueClaimed, SchedulerFails, EngineTypeOK
  <2>2. QED
    BY <1>5, <1>6, <2>1

(* Only mark_queued moves the row of a stranded notification, and its      *)
(* handler can only have got further.                                      *)
LEMMA StrandedRow ==
    ASSUME Inv, [Next]_vars, NEW n \in Stranded
    PROVE  /\ handler[n] \in {"enqueued", "done"}
           /\ handler[n] = "done" => handler'[n] = "done"
           /\ \/ notifications'[n].state = notifications[n].state
              \/ /\ handler[n] = "enqueued" /\ notifications[n].state = "created"
                 /\ notifications'[n].state = "queued"
<1>1. /\ n \in Notification /\ Unfinished(n) /\ ~Carried(n)
  BY StrandedIs
<1>2. /\ EngineTypeOK /\ notifications[n] \in Row /\ handler[n] \in HandlerState
  BY <1>1 DEF Inv, EngineTypeOK, StoreTypeOK
<1>3. handler[n] \in {"enqueued", "done"}
  BY <1>1, <1>2 DEF HandlerState, Carried, Unfinished, Inv, NothingBeforeCommit
<1>4. handler[n] = "done" => handler'[n] = "done"
  BY <1>1, <1>2
  DEF Next, vars, clientVars, ApiStep, WorkerStep, SchedulerStep, Submit,
      Enqueue, MarkQueued, HandlerFails, HandlerCrash, Replay, LoseMessage,
      TimePasses, Reserve, Load, Send, Persist, Ack, TaskFails, WorkerCrash,
      Redeliver, Claim, EnqueueClaimed, SchedulerFails, EngineTypeOK
<1>5. /\ notifications[n].next_retry_at = "null"
      /\ ~ \E w \in Worker : Running(w, n) /\ worker[w].pc = "persisting"
  BY <1>1 DEF Carried
<1>6. \/ notifications'[n] = notifications[n]
      \/ MarkQueued(n) /\ notifications'[n] = mark_queued(notifications[n])
  BY <1>1, <1>3, <1>5, RowStep DEF IsDue, Submit
<1>7. \/ notifications'[n].state = notifications[n].state
      \/ /\ handler[n] = "enqueued" /\ notifications[n].state = "created"
         /\ notifications'[n].state = "queued"
  BY <1>2, <1>6 DEF MarkQueued, mark_queued, Row
<1>8. QED
  BY <1>3, <1>4, <1>7

(* The fault that stranded a notification still explains its row.          *)
LEMMA StillByFault ==
    ASSUME Inv, [Next]_vars, AbandonedByApi', NEW n \in Stranded,
           StrandedByFault(n), n \in Stranded'
    PROVE  StrandedByFault(n)'
<1>1. n \in Notification /\ EngineTypeOK
  BY DEF Stranded, Inv
<1>2. \A k \in {"api", "task", "scheduler", "loss"} :
         faults[k] > 0 => faults'[k] > 0
  BY <1>1, FaultKinds, FaultsGrow
<1>3. CASE notifications'[n].state = "processing"
  <2>1. notifications[n].state = "processing"
    BY <1>3, StrandedRow
  <2>2. \E k \in {"scheduler", "task", "loss"} : faults[k] > 0
    BY <2>1 DEF StrandedByFault, StrandedBy
  <2>3. \E k \in {"scheduler", "task", "loss"} : faults'[k] > 0
    BY <1>2, <2>2
  <2>4. QED
    BY <1>3, <2>3 DEF StrandedByFault, StrandedBy
<1>4. CASE notifications'[n].state = "created" /\ handler'[n] = "done"
  <2>1. faults'["api"] > 0
    BY <1>1, <1>4 DEF AbandonedByApi
  <2>2. QED
    BY <1>4, <2>1 DEF StrandedByFault, StrandedBy
<1>5. CASE /\ notifications'[n].state # "processing"
           /\ ~(notifications'[n].state = "created" /\ handler'[n] = "done")
  <2>1. /\ notifications[n].state # "processing"
        /\ ~(notifications[n].state = "created" /\ handler[n] = "done")
    BY <1>5, StrandedRow
  <2>2. faults["task"] > 0 \/ faults["loss"] > 0
    BY <2>1 DEF StrandedByFault, StrandedBy
  <2>3. faults'["task"] > 0 \/ faults'["loss"] > 0
    BY <1>2, <2>2
  <2>4. QED
    BY <1>5, <2>3 DEF StrandedByFault, StrandedBy
<1>6. QED
  BY <1>3, <1>4, <1>5

(* A lost task or message explains whatever it stranded.                   *)
LEMMA LossExplains ==
    ASSUME AbandonedByApi', NEW n \in Stranded',
           faults'["task"] > 0 \/ faults'["loss"] > 0
    PROVE  StrandedByFault(n)'
<1>1. n \in Notification
  BY DEF Stranded
<1>2. CASE notifications'[n].state = "created" /\ handler'[n] = "done"
  BY <1>1, <1>2 DEF StrandedByFault, StrandedBy, AbandonedByApi
<1>3. CASE ~(notifications'[n].state = "created" /\ handler'[n] = "done")
  BY <1>3 DEF StrandedByFault, StrandedBy
<1>4. QED
  BY <1>2, <1>3

(* A step that leaves every row alone, and drops the carriers of the       *)
(* notifications in D alone, strands at most these.                        *)
LEMMA StrandsOnly ==
    ASSUME NEW D, UNCHANGED notifications,
           \A n \in Notification \ D : Carried(n) => Carried(n)'
    PROVE  Stranded' \subseteq Stranded \cup D
  BY StrandedIs DEF Stranded, Unfinished

LEMMA OneMoreStranded ==
    ASSUME EngineTypeOK, EngineTypeOK', StrandedBounded, NEW m,
           Stranded' \subseteq Stranded \cup {m},
           StrandingFaults' = StrandingFaults + 1
    PROVE  StrandedBounded'
<1>1. /\ IsFiniteSet(Stranded \cup {m})
      /\ Cardinality(Stranded \cup {m}) <= Cardinality(Stranded) + 1
  <2>1. IsFiniteSet(Stranded) /\ Cardinality(Stranded) \in Nat
    BY FS_CardinalityType DEF StrandedBounded
  <2>2. /\ IsFiniteSet(Stranded \cup {m})
        /\ \/ Cardinality(Stranded \cup {m}) = Cardinality(Stranded)
           \/ Cardinality(Stranded \cup {m}) = Cardinality(Stranded) + 1
    BY <2>1, FS_AddElement
  <2>3. QED
    BY <2>1, <2>2
<1>2. /\ IsFiniteSet(Stranded')
      /\ Cardinality(Stranded') <= Cardinality(Stranded \cup {m})
  BY <1>1, FS_Subset
<1>3. /\ Cardinality(Stranded) \in Nat /\ Cardinality(Stranded') \in Nat
      /\ Cardinality(Stranded \cup {m}) \in Nat
  BY <1>1, <1>2, FS_CardinalityType DEF StrandedBounded
<1>4. StrandingFaults \in Nat
  <2>1. ClaimLimit * faults["scheduler"] \in Nat
    BY FaultKinds DEF EngineTypeOK
  <2>2. QED
    BY <2>1, FaultKinds DEF StrandingFaults, EngineTypeOK
<1>5. QED
  BY <1>1, <1>2, <1>3, <1>4 DEF StrandedBounded

(* A failed or killed request drops the message it was about to publish.   *)
LEMMA ApiStrands ==
    ASSUME Inv, Inv', OrphanInv, [Next]_vars, AbandonedByApi',
           NEW m \in Notification, HandlerFails(m) \/ HandlerCrash(m)
    PROVE  StrandedBounded' /\ \A n \in Stranded' : StrandedByFault(n)'
<1>1. EngineTypeOK /\ EngineTypeOK' /\ handler' = [handler EXCEPT ![m] = "done"]
      /\ UNCHANGED <<notifications, queue, worker, claimed>> /\ Fault("api")
  BY DEF Inv, HandlerFails, HandlerCrash, storeVars
<1>2. \A n \in Notification \ {m} : Carried(n) => Carried(n)'
  BY <1>1 DEF Carried, Running, EngineTypeOK
<1>3. Stranded' \subseteq Stranded \cup {m}
  BY <1>1, <1>2, StrandsOnly
<1>4. StrandingFaults' = StrandingFaults + 1
  <2>1. /\ faults'["api"] = faults["api"] + 1 /\ faults'["task"] = faults["task"]
        /\ faults'["loss"] = faults["loss"]
        /\ faults'["scheduler"] = faults["scheduler"]
    BY <1>1, FaultKinds DEF Fault, EngineTypeOK
  <2>2. ClaimLimit * faults["scheduler"] \in Nat
    BY <1>1, FaultKinds DEF EngineTypeOK
  <2>3. QED
    BY <1>1, <2>1, <2>2, FaultKinds DEF StrandingFaults, EngineTypeOK
<1>5. StrandedBounded'
  BY <1>1, <1>3, <1>4, OneMoreStranded DEF OrphanInv
<1>6. ASSUME NEW n \in Stranded', n \notin Stranded PROVE StrandedByFault(n)'
  <2>1. n = m /\ Unfinished(m)' /\ ~Carried(m)'
    BY <1>3, <1>6, StrandedIs DEF Stranded, Unfinished
  <2>2. Unfinished(m) /\ Carried(m)
    BY <1>1, <1>6, <2>1, StrandedIs DEF Unfinished
  <2>3. handler[m] = "committed"
    BY <1>1, <2>1, <2>2 DEF Carried, Running
  <2>4. notifications'[m].state = "created" /\ handler'[m] = "done"
    BY <1>1, <2>3 DEF Inv, NothingBeforeCommit, EngineTypeOK
  <2>5. faults'["api"] > 0
    BY <2>4 DEF AbandonedByApi
  <2>6. QED
    BY <1>6, <2>1, <2>4, <2>5 DEF StrandedByFault, StrandedBy
<1>7. QED
  BY <1>5, <1>6, StillByFault DEF OrphanInv

(* A lost message, and a failed task, drop one carrier of one notification.*)
LEMMA LossStrands ==
    ASSUME Inv, Inv', OrphanInv, [Next]_vars, AbandonedByApi',
           \/ \E m \in Notification : LoseMessage(m)
           \/ \E w \in Worker : TaskFails(w)
    PROVE  StrandedBounded' /\ \A n \in Stranded' : StrandedByFault(n)'
<1>1. PICK m \in Notification :
         \/ LoseMessage(m)
         \/ \E w \in Worker : TaskFails(w) /\ worker[w].notification_id = m
  BY RunningTask DEF TaskFails, Inv
<1>2. /\ EngineTypeOK /\ EngineTypeOK'
      /\ UNCHANGED <<notifications, handler, claimed>>
      /\ Fault("task") \/ Fault("loss")
  BY <1>1 DEF Inv, LoseMessage, TaskFails, storeVars, clientVars
<1>3. \A n \in Notification \ {m} : Carried(n) => Carried(n)'
  <2>1. CASE LoseMessage(m)
    BY <1>2, <2>1 DEF LoseMessage, Carried, Running, EngineTypeOK
  <2>2. ASSUME NEW w \in Worker, TaskFails(w), worker[w].notification_id = m
        PROVE  \A n \in Notification \ {m} : Carried(n) => Carried(n)'
    <3>1. ASSUME NEW n \in Notification \ {m}, NEW v \in Worker, Running(v, n)
          PROVE  Running(v, n)' /\ worker'[v].pc = worker[v].pc
      BY <1>2, <2>2, <3>1 DEF TaskFails, Running, EngineTypeOK
    <3>2. QED
      BY <1>2, <2>2, <3>1 DEF TaskFails, Carried
  <2>3. QED
    BY <1>1, <2>1, <2>2
<1>4. Stranded' \subseteq Stranded \cup {m}
  BY <1>2, <1>3, StrandsOnly
<1>5. /\ StrandingFaults' = StrandingFaults + 1
      /\ faults'["task"] > 0 \/ faults'["loss"] > 0
  <2>1. /\ faults'["api"] = faults["api"]
        /\ faults'["scheduler"] = faults["scheduler"]
        /\ \/ faults'["task"] = faults["task"] + 1 /\ faults'["loss"] = faults["loss"]
           \/ faults'["loss"] = faults["loss"] + 1 /\ faults'["task"] = faults["task"]
    BY <1>2, FaultKinds DEF Fault, EngineTypeOK
  <2>2. ClaimLimit * faults["scheduler"] \in Nat
    BY <1>2, FaultKinds DEF EngineTypeOK
  <2>3. /\ faults["api"] \in Nat /\ faults["task"] \in Nat
        /\ faults["loss"] \in Nat
    BY <1>2, FaultKinds DEF EngineTypeOK
  <2>4. StrandingFaults' = StrandingFaults + 1
    BY <2>1, <2>2, <2>3 DEF StrandingFaults
  <2>5. QED
    BY <2>1, <2>3, <2>4
<1>6. StrandedBounded'
  BY <1>2, <1>4, <1>5, OneMoreStranded DEF OrphanInv
<1>7. QED
  BY <1>5, <1>6, LossExplains

(* A scheduler that dies drops what is left of its batch, and those rows   *)
(* are in state 'processing'.                                              *)
LEMMA SchedulerStrands ==
    ASSUME Inv, Inv', OrphanInv, [Next]_vars, AbandonedByApi',
           NEW s \in Scheduler, SchedulerFails(s)
    PROVE  StrandedBounded' /\ \A n \in Stranded' : StrandedByFault(n)'
<1>1. /\ EngineTypeOK /\ EngineTypeOK' /\ HistoryExplainsState
      /\ UNCHANGED <<notifications, handler, queue, worker>>
      /\ claimed' = [claimed EXCEPT ![s] = {}]
      /\ Fault("scheduler")
  BY DEF Inv, SchedulerFails, storeVars, clientVars
<1>2. \A n \in Notification \ claimed[s] : Carried(n) => Carried(n)'
  BY <1>1 DEF Carried, Running, EngineTypeOK
<1>3. Stranded' \subseteq Stranded \cup claimed[s]
  BY <1>1, <1>2, StrandsOnly
<1>4. /\ faults'["api"] = faults["api"] /\ faults'["task"] = faults["task"]
      /\ faults'["loss"] = faults["loss"]
      /\ faults'["scheduler"] = faults["scheduler"] + 1
      /\ faults["api"] \in Nat /\ faults["task"] \in Nat /\ faults["loss"] \in Nat
      /\ faults["scheduler"] \in Nat
  BY <1>1, FaultKinds DEF Fault, EngineTypeOK
<1>5. /\ StrandingFaults' = StrandingFaults + ClaimLimit
      /\ StrandingFaults \in Nat
  <2>1. ASSUME NEW a \in Nat, NEW f \in Nat
        PROVE  a * (f + 1) = a * f + a /\ a * f \in Nat
    OBVIOUS
  <2>2. /\ ClaimLimit * faults'["scheduler"] =
              ClaimLimit * faults["scheduler"] + ClaimLimit
        /\ ClaimLimit * faults["scheduler"] \in Nat
    BY <1>4, <2>1
  <2>3. QED
    BY <1>4, <2>2 DEF StrandingFaults
<1>6. StrandedBounded'
  <2>1. /\ IsFiniteSet(Stranded) /\ Cardinality(Stranded) <= StrandingFaults
        /\ IsFiniteSet(claimed[s]) /\ Cardinality(claimed[s]) <= ClaimLimit
    BY DEF OrphanInv, StrandedBounded, ClaimsAreRetries
  <2>2. /\ IsFiniteSet(Stranded \cup claimed[s])
        /\ Cardinality(Stranded \cup claimed[s]) =
              Cardinality(Stranded) + Cardinality(claimed[s])
                 - Cardinality(Stranded \cap claimed[s])
    BY <2>1, FS_Union
  <2>3. /\ IsFiniteSet(Stranded')
        /\ Cardinality(Stranded') <= Cardinality(Stranded \cup claimed[s])
    BY <1>3, <2>2, FS_Subset
  <2>4. IsFiniteSet(Stranded \cap claimed[s])
    BY <2>1, FS_Intersection
  <2>5. /\ Cardinality(Stranded) \in Nat /\ Cardinality(Stranded') \in Nat
        /\ Cardinality(claimed[s]) \in Nat
        /\ Cardinality(Stranded \cap claimed[s]) \in Nat
    BY <2>1, <2>3, <2>4, FS_CardinalityType
  <2>6. Cardinality(Stranded') <= StrandingFaults'
    BY <1>5, <2>1, <2>2, <2>3, <2>5
  <2>7. QED
    BY <2>3, <2>6 DEF StrandedBounded
<1>7. ASSUME NEW n \in Stranded', n \notin Stranded PROVE StrandedByFault(n)'
  <2>1. n \in Notification /\ n \in claimed[s] /\ Unfinished(n)' /\ ~Carried(n)'
    BY <1>3, <1>7 DEF Stranded, Unfinished
  <2>2. /\ ~Untried(n) /\ Explained(n) /\ notifications[n] \in Row
        /\ Unfinished(n) /\ notifications[n].next_retry_at = "null"
    BY <1>1, <2>1
    DEF OrphanInv, ClaimsAreRetries, HistoryExplainsState, EngineTypeOK,
        StoreTypeOK, Unfinished, Carried
  <2>3. notifications'[n].state = "processing"
    BY <1>1, <2>2 DEF Explained, Unfinished, Terminal, Row, State
  <2>4. faults'["scheduler"] > 0
    BY <1>4
  <2>5. QED
    BY <1>7, <2>3, <2>4 DEF StrandedByFault, StrandedBy
<1>8. QED
  BY <1>6, <1>7, StillByFault DEF OrphanInv

LEMMA QuietStrands ==
    ASSUME Inv, Inv', OrphanInv, [Next]_vars, AbandonedByApi', ~Drops
    PROVE  StrandedBounded' /\ \A n \in Stranded' : StrandedByFault(n)'
<1>1. EngineTypeOK /\ EngineTypeOK'
  BY DEF Inv
<1>2. Stranded' \subseteq Stranded
  <2>1. SUFFICES ASSUME NEW n \in Stranded', n \notin Stranded PROVE FALSE
    OBVIOUS
  <2>2. n \in Notification /\ Unfinished(n)' /\ ~Carried(n)'
    BY DEF Stranded, Unfinished
  <2>3. Unfinished(n) => Carried(n)
    BY <2>1, <2>2, StrandedIs
  <2>4. QED
    BY <2>2, <2>3, CarriedStep
<1>3. StrandingFaults' = StrandingFaults
  <2>1. \A k \in {"api", "task", "loss", "scheduler"} : faults'[k] = faults[k]
    BY <1>1, FaultKinds, FaultsGrow
  <2>2. QED
    BY <2>1 DEF StrandingFaults
<1>4. StrandedBounded'
  <2>1. /\ IsFiniteSet(Stranded) /\ IsFiniteSet(Stranded')
        /\ Cardinality(Stranded') <= Cardinality(Stranded)
        /\ Cardinality(Stranded) <= StrandingFaults
    BY <1>2, FS_Subset DEF OrphanInv, StrandedBounded
  <2>2. /\ Cardinality(Stranded) \in Nat /\ Cardinality(Stranded') \in Nat
        /\ StrandingFaults \in Nat
    <3>1. ClaimLimit * faults["scheduler"] \in Nat
      BY <1>1, FaultKinds DEF EngineTypeOK
    <3>2. StrandingFaults \in Nat
      BY <1>1, <3>1, FaultKinds DEF StrandingFaults, EngineTypeOK
    <3>3. QED
      BY <2>1, <3>2, FS_CardinalityType
  <2>3. Cardinality(Stranded') <= StrandingFaults'
    BY <1>3, <2>1, <2>2
  <2>4. QED
    BY <2>1, <2>3 DEF StrandedBounded
<1>5. QED
  BY <1>2, <1>4, StillByFault DEF OrphanInv

LEMMA OrphanStep == Inv /\ OrphanInv /\ [Next]_vars => OrphanInv'
<1> SUFFICES ASSUME Inv, OrphanInv, [Next]_vars PROVE OrphanInv'
  OBVIOUS
<1>1. Inv'
  BY InvStep
<1>2. AbandonedByApi' /\ ClaimsAreRetries'
  BY AbandonedStep, ClaimsAreRetriesStep DEF OrphanInv
<1>3. StrandedBounded' /\ \A n \in Stranded' : StrandedByFault(n)'
  BY <1>1, <1>2, ApiStrands, LossStrands, SchedulerStrands, QuietStrands DEF Drops
<1>4. QED
  BY <1>2, <1>3 DEF OrphanInv

LEMMA OrphanInit == Init => OrphanInv
<1> SUFFICES ASSUME Init PROVE OrphanInv
  OBVIOUS
<1>1. Stranded = {}
  BY DEF Init, StoreInit, NoRow, Stranded
<1>2. IsFiniteSet({}) /\ Cardinality({}) = 0
  BY FS_EmptySet
<1>3. StrandedBounded
  <2>1. /\ faults["api"] = 0 /\ faults["task"] = 0 /\ faults["loss"] = 0
        /\ faults["scheduler"] = 0
    BY FaultKinds DEF Init
  <2>2. ClaimLimit * 0 = 0
    OBVIOUS
  <2>3. QED
    BY <1>1, <1>2, <2>1, <2>2 DEF StrandedBounded, StrandingFaults
<1>4. AbandonedByApi
  BY DEF Init, AbandonedByApi
<1>5. ClaimsAreRetries
  BY <1>2 DEF Init, ClaimsAreRetries
<1>6. QED
  BY <1>1, <1>3, <1>4, <1>5 DEF OrphanInv

(* At-least-once: an unfinished notification that nobody carries was left  *)
(* so by a fault that drops work, of a kind its row tells, and no more of  *)
(* them are left than those faults dropped: one each, and a batch of at    *)
(* most LIMIT rows when a scheduler dies.                                  *)
THEOREM NobodyIsOrphaned == Spec => []NoOrphan
<1>1. OrphanInv => NoOrphan
  BY DEF OrphanInv, NoOrphan, StrandedBounded, StrandingFaults
<1>2. QED
  BY <1>1, OrphanInit, OrphanStep, Invariance, PTL DEF Spec

-----------------------------------------------------------------------------
(***************************************************************************)
(* Part 2.  The bounds the runs check are not inductive.  A worker that    *)
(* holds a notification is about to add an attempt, or to lose a result,   *)
(* and only a notification without a carrier may be failed for good; so    *)
(* each bound is strengthened by the carriers still there (Paid,           *)
(* LossesPaid) or by the notification being done (AloneUntilDone).         *)
(* Nothing needs the sets of workers and schedulers to be finite: those at *)
(* work on one notification always are.                                    *)
(***************************************************************************)

-----------------------------------------------------------------------------
(* The quantities.                                                         *)

Tasks(n) == {w \in Worker : Running(w, n) /\ worker[w].pc # "acking"}
Claims(n) == {s \in Scheduler : n \in claimed[s]}
Succeeding(n) == {w \in Persisting(n) : worker[w].status = "success"}
Successes(n) == {a \in AttemptsOf(n) : a.status = "success"}

Done(n) == IF notifications[n].state \in Terminal THEN 1 ELSE 0

\* Whatever is counted is finite.
Countable(n) ==
    /\ IsFiniteSet(Tasks(n))
    /\ IsFiniteSet(Claims(n))
    /\ IsFiniteSet(Persisting(n))
    /\ IsFiniteSet(Succeeding(n))
    /\ IsFiniteSet(AttemptsOf(n))
    /\ IsFiniteSet(Successes(n))

AllRecorded(n) == Cardinality(AttemptsOf(n)) = notifications[n].attempt_count

\* HistoryIsBacked for one notification.
Backed(n) ==
    /\ notifications[n].attempt_count + Cardinality(Persisting(n))
          <= executions[n]
    /\ Cardinality(Successes(n)) + Cardinality(Succeeding(n)) <= receipts[n]

\* A notification that is done has no carrier but what was duplicated.
AloneUntilDone(n) == CarrierCount(n) + Done(n) <= 1 + Duplications

\* A successful attempt used up the carrier that made it.
Paid(n) == CarrierCount(n) + Cardinality(Successes(n)) <= 1 + Duplications

\* Calls of provider.send that left no attempt: each has used up a carrier
\* that was a duplicate, or was lost to a task that failed.
LossesPaid(n) ==
    /\ executions[n] <= notifications[n].attempt_count
          + Cardinality(Persisting(n)) + Duplications + faults["task"]
    /\ executions[n] + CarrierCount(n) + Done(n)
          <= 1 + notifications[n].attempt_count + Cardinality(Persisting(n))
               + Duplications + faults["task"]

CountsOf(n) ==
    /\ Countable(n)
    /\ AllRecorded(n)
    /\ Backed(n)
    /\ AloneUntilDone(n)
    /\ Paid(n)
    /\ LossesPaid(n)

Counts == \A n \in Notification : CountsOf(n)

-----------------------------------------------------------------------------
(* Counting.                                                               *)

\* Whether a row, a handler or a task counts, as a number.
One(b) == IF b THEN 1 ELSE 0
Held(n) == One(handler[n] = "committed")
Owed(n) == One(notifications[n].next_retry_at # "null")
Works(task, n) ==
    task # Idle /\ task.notification_id = n /\ task.pc # "acking"
Records(task, n) ==
    task # Idle /\ task.notification_id = n /\ task.pc = "persisting"
RecordsSuccess(task, n) == Records(task, n) /\ task.status = "success"
Claiming(claims, n) == n \in claims

(* Putting one element in or taking it out changes the cardinality by what *)
(* it adds and what it took away.                                          *)
LEMMA Toggle ==
    ASSUME NEW S, NEW T, NEW x, NEW before \in BOOLEAN, NEW after \in BOOLEAN,
           IsFiniteSet(S), before <=> x \in S,
           \A y : y \in T <=> (IF y = x THEN after ELSE y \in S)
    PROVE  /\ IsFiniteSet(T)
           /\ Cardinality(S) \in Nat /\ Cardinality(T) \in Nat
           /\ Cardinality(T) + One(before) = Cardinality(S) + One(after)
<1>1. Cardinality(S) \in Nat
  BY FS_CardinalityType
<1>2. CASE after
  <2>1. T = S \cup {x}
    BY <1>2
  <2>2. IsFiniteSet(T) /\ Cardinality(T) \in Nat
    BY <2>1, FS_AddElement, FS_CardinalityType
  <2>3. QED
    BY <1>1, <1>2, <2>1, <2>2, FS_AddElement DEF One
<1>3. CASE ~after
  <2>1. T = S \ {x}
    BY <1>3
  <2>2. IsFiniteSet(T) /\ Cardinality(T) \in Nat
    BY <2>1, FS_RemoveElement, FS_CardinalityType
  <2>3. QED
    BY <1>1, <1>3, <2>1, <2>2, FS_RemoveElement DEF One
<1>4. QED
  BY <1>2, <1>3

(* Everything counted is a natural number.                                 *)
LEMMA CountsAreNat ==
    ASSUME NEW n \in Notification, Countable(n), EngineTypeOK
    PROVE  /\ Cardinality(Tasks(n)) \in Nat
           /\ Cardinality(Claims(n)) \in Nat
           /\ Cardinality(Persisting(n)) \in Nat
           /\ Cardinality(Succeeding(n)) \in Nat
           /\ Cardinality(Successes(n)) \in Nat
           /\ queue[n] \in Nat /\ executions[n] \in Nat /\ receipts[n] \in Nat
           /\ notifications[n].attempt_count \in Nat
           /\ Duplications \in Nat /\ faults["task"] \in Nat
<1>1. notifications[n].attempt_count \in Nat
  BY DEF EngineTypeOK, StoreTypeOK, Row
<1>2. Duplications \in Nat /\ faults["task"] \in Nat
  BY FaultKinds DEF EngineTypeOK, Duplications
<1>3. QED
  BY <1>1, <1>2, FS_CardinalityType DEF Countable, EngineTypeOK

(* A worker whose task becomes `new' is counted by what the task was and   *)
(* what it becomes.                                                        *)
LEMMA WorkerMoves ==
    ASSUME EngineTypeOK, NEW n \in Notification, Countable(n), NEW w \in Worker,
           NEW new, worker' = [worker EXCEPT ![w] = new]
    PROVE  /\ IsFiniteSet(Tasks(n)') /\ IsFiniteSet(Persisting(n)')
           /\ IsFiniteSet(Succeeding(n)')
           /\ Cardinality(Tasks(n)') + One(Works(worker[w], n))
                 = Cardinality(Tasks(n)) + One(Works(new, n))
           /\ Cardinality(Persisting(n)') + One(Records(worker[w], n))
                 = Cardinality(Persisting(n)) + One(Records(new, n))
           /\ Cardinality(Succeeding(n)') + One(RecordsSuccess(worker[w], n))
                 = Cardinality(Succeeding(n)) + One(RecordsSuccess(new, n))
<1>1. /\ worker'[w] = new
      /\ \A v \in Worker : v # w => worker'[v] = worker[v]
  BY DEF EngineTypeOK
<1>2. /\ IsFiniteSet(Tasks(n)')
      /\ Cardinality(Tasks(n)') + One(Works(worker[w], n))
            = Cardinality(Tasks(n)) + One(Works(new, n))
  <2>1. Works(worker[w], n) <=> w \in Tasks(n)
    BY DEF Works, Tasks, Running
  <2>2. \A v : v \in Tasks(n)' <=> (IF v = w THEN Works(new, n) ELSE v \in Tasks(n))
    BY <1>1 DEF Works, Tasks, Running
  <2>3. Works(worker[w], n) \in BOOLEAN /\ Works(new, n) \in BOOLEAN
    BY DEF Works
  <2>4. QED
    BY <2>1, <2>2, <2>3, Toggle DEF Countable
<1>3. /\ IsFiniteSet(Persisting(n)')
      /\ Cardinality(Persisting(n)') + One(Records(worker[w], n))
            = Cardinality(Persisting(n)) + One(Records(new, n))
  <2>1. Records(worker[w], n) <=> w \in Persisting(n)
    BY DEF Records, Persisting, Running
  <2>2. \A v : v \in Persisting(n)' <=>
                 (IF v = w THEN Records(new, n) ELSE v \in Persisting(n))
    BY <1>1 DEF Records, Persisting, Running
  <2>3. Records(worker[w], n) \in BOOLEAN /\ Records(new, n) \in BOOLEAN
    BY DEF Records
  <2>4. QED
    BY <2>1, <2>2, <2>3, Toggle DEF Countable
<1>4. /\ IsFiniteSet(Succeeding(n)')
      /\ Cardinality(Succeeding(n)') + One(RecordsSuccess(worker[w], n))
            = Cardinality(Succeeding(n)) + One(RecordsSuccess(new, n))
  <2>1. RecordsSuccess(worker[w], n) <=> w \in Succeeding(n)
    BY DEF RecordsSuccess, Records, Succeeding, Persisting, Running
  <2>2. \A v : v \in Succeeding(n)' <=>
                 (IF v = w THEN RecordsSuccess(new, n) ELSE v \in Succeeding(n))
    BY <1>1 DEF RecordsSuccess, Records, Succeeding, Persisting, Running
  <2>3. RecordsSuccess(worker[w], n) \in BOOLEAN /\ RecordsSuccess(new, n) \in BOOLEAN
    BY DEF RecordsSuccess, Records
  <2>4. QED
    BY <2>1, <2>2, <2>3, Toggle DEF Countable
<1>5. QED
  BY <1>2, <1>3, <1>4

(* The parts of CarrierCount, before and after a step.                     *)
LEMMA CarrierParts ==
    ASSUME NEW n \in Notification
    PROVE  /\ CarrierCount(n) = Held(n) + queue[n] + Cardinality(Tasks(n))
                                + Cardinality(Claims(n)) + Owed(n)
           /\ CarrierCount(n)' = Held(n)' + queue'[n] + Cardinality(Tasks(n)')
                                + Cardinality(Claims(n)') + Owed(n)'
<1>1. /\ Held(n) = IF handler[n] = "committed" THEN 1 ELSE 0
      /\ Owed(n) = IF notifications[n].next_retry_at # "null" THEN 1 ELSE 0
      /\ Held(n)' = IF handler'[n] = "committed" THEN 1 ELSE 0
      /\ Owed(n)' = IF notifications'[n].next_retry_at # "null" THEN 1 ELSE 0
  BY DEF Held, Owed, One
<1>2. QED
  BY <1>1 DEF CarrierCount, Tasks, Claims

LEMMA PartsAreNat ==
    ASSUME NEW n \in Notification
    PROVE  /\ Held(n) \in {0, 1} /\ Owed(n) \in {0, 1} /\ Done(n) \in {0, 1}
           /\ Held(n)' \in {0, 1} /\ Owed(n)' \in {0, 1} /\ Done(n)' \in {0, 1}
  BY DEF Held, Owed, Done, One

LEMMA WorkersStay ==
    ASSUME NEW n \in Notification, worker' = worker
    PROVE  /\ Tasks(n)' = Tasks(n)
           /\ Persisting(n)' = Persisting(n)
           /\ Succeeding(n)' = Succeeding(n)
  BY DEF Tasks, Persisting, Succeeding, Running

LEMMA AttemptsStay ==
    ASSUME NEW n \in Notification, delivery_attempts' = delivery_attempts
    PROVE  AttemptsOf(n)' = AttemptsOf(n) /\ Successes(n)' = Successes(n)
  BY DEF AttemptsOf, Successes

(* A step that records nothing and sends nothing keeps the books when it   *)
(* does not multiply carriers for nothing and loses no result for nothing. *)
LEMMA BooksBalance ==
    ASSUME EngineTypeOK, EngineTypeOK', NEW n \in Notification,
           CountsOf(n), Countable(n)',
           AttemptsOf(n)' = AttemptsOf(n), Successes(n)' = Successes(n),
           notifications'[n].attempt_count = notifications[n].attempt_count,
           executions'[n] = executions[n], receipts'[n] = receipts[n],
           Done(n)' = Done(n),
           Cardinality(Persisting(n)') <= Cardinality(Persisting(n)),
           Cardinality(Succeeding(n)') <= Cardinality(Succeeding(n)),
           Duplications <= Duplications',
           CarrierCount(n)' + Duplications <= CarrierCount(n) + Duplications',
           Cardinality(Persisting(n)) + Duplications + faults["task"]
              <= Cardinality(Persisting(n)') + Duplications' + faults'["task"],
           CarrierCount(n)' + Cardinality(Persisting(n)) + Duplications
                 + faults["task"]
              <= CarrierCount(n) + Cardinality(Persisting(n)') + Duplications'
                    + faults'["task"]
    PROVE  CountsOf(n)'
<1>1. Countable(n)
  BY DEF CountsOf
<1>2. /\ Cardinality(Persisting(n)) \in Nat /\ Cardinality(Persisting(n)') \in Nat
      /\ Cardinality(Succeeding(n)) \in Nat /\ Cardinality(Succeeding(n)') \in Nat
      /\ Cardinality(Successes(n)) \in Nat
      /\ executions[n] \in Nat /\ receipts[n] \in Nat
      /\ notifications[n].attempt_count \in Nat
      /\ Duplications \in Nat /\ faults["task"] \in Nat
      /\ Duplications' \in Nat /\ faults'["task"] \in Nat
      /\ Done(n) \in Nat
  <2>1. Duplications' \in Nat /\ faults'["task"] \in Nat
    BY FaultKinds DEF EngineTypeOK, Duplications
  <2>2. Cardinality(Persisting(n)') \in Nat /\ Cardinality(Succeeding(n)') \in Nat
    BY FS_CardinalityType DEF Countable
  <2>3. QED
    BY <1>1, <2>1, <2>2, CountsAreNat, PartsAreNat
<1>3. CarrierCount(n) \in Nat /\ CarrierCount(n)' \in Nat
  <2>1. queue'[n] \in Nat
    BY DEF EngineTypeOK
  <2>2. Cardinality(Tasks(n)') \in Nat /\ Cardinality(Claims(n)') \in Nat
    BY FS_CardinalityType DEF Countable
  <2>3. QED
    BY <1>1, <2>1, <2>2, CountsAreNat, PartsAreNat, CarrierParts
<1>4. AllRecorded(n)'
  BY DEF CountsOf, AllRecorded
<1>5. Backed(n)'
  BY <1>2 DEF CountsOf, Backed
<1>6. AloneUntilDone(n)' /\ Paid(n)'
  BY <1>2, <1>3 DEF CountsOf, AloneUntilDone, Paid
<1>7. LossesPaid(n)'
  BY <1>2, <1>3 DEF CountsOf, LossesPaid
<1>8. QED
  BY <1>4, <1>5, <1>6, <1>7 DEF CountsOf

-----------------------------------------------------------------------------
(* Every step keeps the counts.                                            *)

LEMMA WhatIsTyped ==
    ASSUME Inv, NEW n \in Notification
    PROVE  /\ EngineTypeOK /\ StoreTypeOK
           /\ notifications[n] \in Row
           /\ handler[n] \in HandlerState
           /\ Numbered(n) /\ Explained(n)
  BY DEF Inv, EngineTypeOK, StoreTypeOK, HistoryExplainsState

(* A commit of submit_notification is the first thing that happens to n.   *)
LEMMA SubmitCounts ==
    ASSUME Inv, Inv', NEW n \in Notification, CountsOf(n), Submit(n)
    PROVE  CountsOf(n)'
<1> USE DEF clientVars, providerVars, storeVars
<1>1. /\ EngineTypeOK /\ EngineTypeOK' /\ StoreTypeOK /\ Countable(n)
      /\ Numbered(n) /\ Explained(n)
  BY WhatIsTyped DEF CountsOf, Inv
<1>2. /\ handler[n] = "idle" /\ handler'[n] = "committed"
      /\ notifications'[n] = create_notification
      /\ delivery_attempts' = delivery_attempts /\ queue' = queue
      /\ worker' = worker /\ claimed' = claimed /\ faults' = faults
      /\ executions' = executions /\ receipts' = receipts
  BY <1>1 DEF Submit, UpdateRow, EngineTypeOK, StoreTypeOK
<1>3. /\ notifications[n].state = "none" /\ notifications[n].attempt_count = 0
      /\ notifications[n].next_retry_at = "null" /\ queue[n] = 0
      /\ Tasks(n) = {} /\ Claims(n) = {} /\ Persisting(n) = {}
  BY <1>1, <1>2
  DEF Inv, NothingBeforeCommit, Tasks, Claims, Persisting, Explained, Untried
<1>4. AttemptsOf(n) = {} /\ Successes(n) = {} /\ Succeeding(n) = {}
  BY <1>1, <1>3 DEF Numbered, Successes, Succeeding
<1>5. /\ Tasks(n)' = Tasks(n) /\ Persisting(n)' = Persisting(n)
      /\ Succeeding(n)' = Succeeding(n) /\ Claims(n)' = Claims(n)
      /\ AttemptsOf(n)' = AttemptsOf(n) /\ Successes(n)' = Successes(n)
      /\ Duplications' = Duplications
  BY <1>2, WorkersStay, AttemptsStay DEF Claims, Duplications
<1>6. /\ notifications'[n].attempt_count = 0 /\ notifications'[n].state = "created"
      /\ Held(n)' = 1 /\ Owed(n)' = 0 /\ Done(n)' = 0 /\ Done(n) = 0
  BY <1>2, <1>3 DEF create_notification, NoRow, Held, Owed, Done, One, Terminal
<1>7. CarrierCount(n)' = 1 /\ CarrierCount(n) = 0
  <2>1. Held(n) = 0 /\ Owed(n) = 0
    BY <1>2, <1>3 DEF Held, Owed, One
  <2>2. QED
    BY <1>2, <1>3, <1>5, <1>6, <2>1, CarrierParts, FS_EmptySet
<1>8. /\ executions[n] \in Nat /\ Duplications \in Nat /\ faults["task"] \in Nat
      /\ receipts[n] \in Nat
  BY <1>1, CountsAreNat
<1>9. Countable(n)' /\ AllRecorded(n)' /\ Backed(n)'
  BY <1>2, <1>3, <1>4, <1>5, <1>6, <1>8, FS_EmptySet
  DEF Countable, AllRecorded, Backed
<1>10. AloneUntilDone(n)' /\ Paid(n)'
  BY <1>4, <1>5, <1>6, <1>7, <1>8, FS_EmptySet DEF AloneUntilDone, Paid
<1>11. LossesPaid(n)'
  BY <1>2, <1>3, <1>5, <1>6, <1>7, <1>8, FS_EmptySet DEF CountsOf, LossesPaid
<1>12. QED
  BY <1>9, <1>10, <1>11 DEF CountsOf

(* The rest of the handler hands its carrier on, or drops it.              *)
LEMMA ApiCounts ==
    ASSUME Inv, Inv', Counts, NEW m \in Notification, ApiStep(m),
           NEW n \in Notification
    PROVE  CountsOf(n)'
<1> USE DEF clientVars, providerVars, storeVars
<1>1. /\ EngineTypeOK /\ EngineTypeOK' /\ StoreTypeOK /\ CountsOf(n) /\ Countable(n)
      /\ notifications[n] \in Row
  BY WhatIsTyped DEF Counts, CountsOf, Inv
<1>2. CASE Submit(m) /\ m = n
  BY <1>1, <1>2, SubmitCounts
<1>3. CASE ~(Submit(m) /\ m = n)
  <2>1. /\ worker' = worker /\ claimed' = claimed
        /\ executions' = executions /\ receipts' = receipts
        /\ delivery_attempts' = delivery_attempts
    BY DEF ApiStep, Submit, Enqueue, MarkQueued, HandlerFails, HandlerCrash,
       Replay
  <2>2. /\ notifications'[n].attempt_count = notifications[n].attempt_count
        /\ Done(n)' = Done(n) /\ Owed(n)' = Owed(n)
    <3>1. CASE MarkQueued(m) /\ m = n
      <4>1. notifications'[n] = mark_queued(notifications[n])
        BY <1>1, <3>1 DEF MarkQueued, UpdateRow, StoreTypeOK
      <4>2. QED
        BY <1>1, <4>1 DEF mark_queued, Row, Done, Owed, Terminal
    <3>2. CASE ~(MarkQueued(m) /\ m = n)
      <4>1. notifications'[n] = notifications[n]
        BY <1>1, <1>3, <3>2 DEF ApiStep, Submit, Enqueue, MarkQueued,
           HandlerFails, HandlerCrash, Replay, UpdateRow, StoreTypeOK
      <4>2. QED
        BY <4>1 DEF Done, Owed
    <3>3. QED
      BY <3>1, <3>2
  <2>3. /\ faults'["redelivery"] = faults["redelivery"]
        /\ faults'["worker"] = faults["worker"]
        /\ faults'["task"] = faults["task"]
    BY <1>1, FaultKinds DEF ApiStep, Submit, Enqueue, MarkQueued, HandlerFails,
       HandlerCrash, Replay, Fault, EngineTypeOK
  <2>4. Held(n)' + queue'[n] <= Held(n) + queue[n]
    <3>1. CASE Enqueue(m) /\ m = n
      <4>1. queue'[n] = queue[n] + 1 /\ queue[n] \in Nat
            /\ handler[n] = "committed" /\ handler'[n] = "enqueued"
        BY <1>1, <3>1 DEF Enqueue, Publish, EngineTypeOK
      <4>2. QED
        BY <4>1 DEF Held, One
    <3>2. CASE ~(Enqueue(m) /\ m = n)
      <4>1. /\ queue'[n] = queue[n] /\ queue[n] \in Nat
            /\ handler'[n] = "committed" => handler[n] = "committed"
        BY <1>1, <1>3, <3>2 DEF ApiStep, Submit, Enqueue, MarkQueued,
           HandlerFails, HandlerCrash, Replay, Publish, EngineTypeOK
      <4>2. QED
        BY <4>1 DEF Held, One
    <3>3. QED
      BY <3>1, <3>2
  <2>5. /\ Tasks(n)' = Tasks(n) /\ Persisting(n)' = Persisting(n)
        /\ Succeeding(n)' = Succeeding(n) /\ Claims(n)' = Claims(n)
        /\ AttemptsOf(n)' = AttemptsOf(n) /\ Successes(n)' = Successes(n)
        /\ Duplications' = Duplications
    BY <2>1, <2>3, WorkersStay, AttemptsStay DEF Claims, Duplications
  <2>6. Countable(n)'
    BY <1>1, <2>5 DEF Countable
  <2>7. CarrierCount(n)' <= CarrierCount(n) /\ CarrierCount(n) \in Nat
        /\ CarrierCount(n)' \in Nat
    <3>1. queue'[n] \in Nat
      BY <1>1 DEF EngineTypeOK
    <3>2. QED
      BY <1>1, <2>2, <2>4, <2>5, <3>1, CountsAreNat, PartsAreNat, CarrierParts
  <2>8. /\ Cardinality(Persisting(n)) \in Nat /\ Cardinality(Succeeding(n)) \in Nat
        /\ Duplications \in Nat /\ faults["task"] \in Nat
    BY <1>1, CountsAreNat
  <2>9. QED
    BY <1>1, <2>1, <2>2, <2>3, <2>5, <2>6, <2>7, <2>8, BooksBalance
<1>4. QED
  BY <1>2, <1>3

LEMMA ClaimsMove ==
    ASSUME EngineTypeOK, NEW n \in Notification, Countable(n),
           NEW s \in Scheduler, NEW S, claimed' = [claimed EXCEPT ![s] = S]
    PROVE  /\ IsFiniteSet(Claims(n)')
           /\ Cardinality(Claims(n)') + One(Claiming(claimed[s], n))
                 = Cardinality(Claims(n)) + One(Claiming(S, n))
<1>1. claimed'[s] = S /\ \A t \in Scheduler : t # s => claimed'[t] = claimed[t]
  BY DEF EngineTypeOK
<1>2. Claiming(claimed[s], n) <=> s \in Claims(n)
  BY DEF Claims, Claiming
<1>3. \A t : t \in Claims(n)' <=> (IF t = s THEN Claiming(S, n) ELSE t \in Claims(n))
  BY <1>1 DEF Claims, Claiming
<1>4. Claiming(claimed[s], n) \in BOOLEAN /\ Claiming(S, n) \in BOOLEAN
  BY DEF Claiming
<1>5. QED
  BY <1>2, <1>3, <1>4, Toggle DEF Countable

(* Claimed rows: the retry time becomes a claim, the claim a message.      *)
LEMMA SchedulerCounts ==
    ASSUME Inv, Inv', Counts, NEW s \in Scheduler, SchedulerStep(s),
           NEW n \in Notification
    PROVE  CountsOf(n)'
<1> USE DEF clientVars, providerVars, storeVars
<1>1. /\ EngineTypeOK /\ EngineTypeOK' /\ StoreTypeOK /\ CountsOf(n) /\ Countable(n)
      /\ notifications[n] \in Row
  BY WhatIsTyped DEF Counts, CountsOf, Inv
<1>2. /\ worker' = worker /\ handler' = handler
      /\ executions' = executions /\ receipts' = receipts
      /\ delivery_attempts' = delivery_attempts
  BY DEF SchedulerStep, Claim, ClaimRows, EnqueueClaimed, SchedulerFails
<1>3. /\ faults'["redelivery"] = faults["redelivery"]
      /\ faults'["worker"] = faults["worker"]
      /\ faults'["task"] = faults["task"]
  BY <1>1, FaultKinds
  DEF SchedulerStep, Claim, EnqueueClaimed, SchedulerFails, Fault, EngineTypeOK
<1>4. /\ Tasks(n)' = Tasks(n) /\ Persisting(n)' = Persisting(n)
      /\ Succeeding(n)' = Succeeding(n) /\ Held(n)' = Held(n)
      /\ AttemptsOf(n)' = AttemptsOf(n) /\ Successes(n)' = Successes(n)
      /\ Duplications' = Duplications
  BY <1>2, <1>3, WorkersStay, AttemptsStay DEF Held, Duplications
<1>5. queue[n] \in Nat /\ queue'[n] \in Nat /\ Cardinality(Claims(n)) \in Nat
  BY <1>1, CountsAreNat DEF EngineTypeOK
<1>6. SUFFICES
         /\ notifications'[n].attempt_count = notifications[n].attempt_count
         /\ Done(n)' = Done(n)
         /\ IsFiniteSet(Claims(n)')
         /\ Owed(n)' + queue'[n] + Cardinality(Claims(n)')
               <= Owed(n) + queue[n] + Cardinality(Claims(n))
  <2>1. Countable(n)'
    BY <1>1, <1>4, <1>6 DEF Countable
  <2>2. Cardinality(Claims(n)') \in Nat
    BY <1>6, FS_CardinalityType
  <2>3. CarrierCount(n)' <= CarrierCount(n) /\ CarrierCount(n) \in Nat
        /\ CarrierCount(n)' \in Nat
    BY <1>1, <1>4, <1>5, <1>6, <2>2, CountsAreNat, PartsAreNat, CarrierParts
  <2>4. /\ Cardinality(Persisting(n)) \in Nat /\ Cardinality(Succeeding(n)) \in Nat
        /\ Duplications \in Nat /\ faults["task"] \in Nat
    BY <1>1, CountsAreNat
  <2>5. QED
    BY <1>1, <1>2, <1>3, <1>4, <1>6, <2>1, <2>3, <2>4, BooksBalance
<1>7. CASE Claim(s)
  <2>1. PICK S \in (SUBSET Due) \ {{}} :
           ClaimRows(S) /\ claimed' = [claimed EXCEPT ![s] = S]
    BY <1>7 DEF Claim
  <2>2. queue' = queue /\ claimed[s] = {}
    BY <1>7 DEF Claim
  <2>3. /\ IsFiniteSet(Claims(n)')
        /\ Cardinality(Claims(n)') = Cardinality(Claims(n)) + One(Claiming(S, n))
    <3>1. One(Claiming(claimed[s], n)) = 0 /\ One(Claiming(S, n)) \in {0, 1}
      BY <2>2 DEF One, Claiming
    <3>2. /\ IsFiniteSet(Claims(n)')
          /\ Cardinality(Claims(n)') + One(Claiming(claimed[s], n))
                = Cardinality(Claims(n)) + One(Claiming(S, n))
      BY <1>1, <2>1, ClaimsMove
    <3>3. Cardinality(Claims(n)') \in Nat
      BY <3>2, FS_CardinalityType
    <3>4. QED
      BY <1>5, <3>1, <3>2, <3>3
  <2>4. CASE n \in S
    <3>1. notifications'[n] = claim(notifications[n])
          /\ notifications[n].state = "queued" /\ notifications[n].next_retry_at = "due"
      BY <2>1, <2>4 DEF ClaimRows, Due, IsDue
    <3>2. /\ notifications'[n].attempt_count = notifications[n].attempt_count
          /\ Done(n)' = Done(n) /\ Owed(n) = 1 /\ Owed(n)' = 0
      BY <1>1, <3>1 DEF claim, Row, Done, Owed, One, Terminal
    <3>3. One(Claiming(S, n)) = 1
      BY <2>4 DEF One, Claiming
    <3>4. QED
      BY <1>5, <2>2, <2>3, <3>2, <3>3
  <2>5. CASE n \notin S
    <3>1. notifications'[n] = notifications[n]
      BY <2>1, <2>5 DEF ClaimRows
    <3>2. Done(n)' = Done(n) /\ Owed(n)' = Owed(n) /\ One(Claiming(S, n)) = 0
      BY <2>5, <3>1 DEF Done, Owed, One, Claiming
    <3>3. QED
      BY <1>5, <2>2, <2>3, <3>1, <3>2, PartsAreNat
  <2>6. QED
    BY <2>4, <2>5
<1>8. CASE SchedulerFails(s) \/ \E m \in Notification : EnqueueClaimed(s, m)
  <2>1. notifications' = notifications /\ Done(n)' = Done(n) /\ Owed(n)' = Owed(n)
    BY <1>8 DEF SchedulerFails, EnqueueClaimed, Done, Owed
  <2>2. CASE SchedulerFails(s)
    <3>1. /\ IsFiniteSet(Claims(n)')
          /\ Cardinality(Claims(n)') + One(Claiming(claimed[s], n))
                = Cardinality(Claims(n)) + One(Claiming({}, n))
      BY <1>1, <2>2, ClaimsMove DEF SchedulerFails
    <3>2. One(Claiming({}, n)) = 0 /\ One(Claiming(claimed[s], n)) \in {0, 1}
      BY DEF One, Claiming
    <3>3. Cardinality(Claims(n)') \in Nat /\ queue' = queue
      BY <2>2, <3>1, FS_CardinalityType DEF SchedulerFails
    <3>4. QED
      BY <1>5, <2>1, <3>1, <3>2, <3>3, PartsAreNat
  <2>3. ASSUME NEW m \in Notification, EnqueueClaimed(s, m)
        PROVE  /\ IsFiniteSet(Claims(n)')
               /\ queue'[n] + Cardinality(Claims(n)')
                     <= queue[n] + Cardinality(Claims(n))
    <3>1. /\ IsFiniteSet(Claims(n)')
          /\ Cardinality(Claims(n)') + One(Claiming(claimed[s], n))
                = Cardinality(Claims(n)) + One(Claiming(claimed[s] \ {m}, n))
      BY <1>1, <2>3, ClaimsMove DEF EnqueueClaimed
    <3>2. Cardinality(Claims(n)') \in Nat
      BY <3>1, FS_CardinalityType
    <3>3. CASE m = n
      <4>1. One(Claiming(claimed[s], n)) = 1 /\ One(Claiming(claimed[s] \ {m}, n)) = 0
            /\ queue'[n] = queue[n] + 1
        BY <1>1, <2>3, <3>3
        DEF EnqueueClaimed, Publish, One, Claiming, EngineTypeOK
      <4>2. QED
        BY <1>5, <3>1, <3>2, <4>1
    <3>4. CASE m # n
      <4>1. One(Claiming(claimed[s], n)) = One(Claiming(claimed[s] \ {m}, n))
            /\ One(Claiming(claimed[s], n)) \in {0, 1} /\ queue'[n] = queue[n]
        BY <1>1, <2>3, <3>4
        DEF EnqueueClaimed, Publish, One, Claiming, EngineTypeOK
      <4>2. QED
        BY <1>5, <3>1, <3>2, <4>1
    <3>5. QED
      BY <3>3, <3>4
  <2>4. CASE \E m \in Notification : EnqueueClaimed(s, m)
    <3>1. /\ IsFiniteSet(Claims(n)')
          /\ queue'[n] + Cardinality(Claims(n)')
                     <= queue[n] + Cardinality(Claims(n))
      BY <2>3, <2>4
    <3>2. Cardinality(Claims(n)') \in Nat
      BY <3>1, FS_CardinalityType
    <3>3. QED
      BY <1>5, <2>1, <3>1, <3>2, PartsAreNat
  <2>5. QED
    BY <1>8, <2>2, <2>4
<1>9. QED
  BY <1>7, <1>8 DEF SchedulerStep

(* Time passing and a lost message create no carrier.                      *)
LEMMA EnvironmentCounts ==
    ASSUME Inv, Inv', Counts, NEW m \in Notification,
           LoseMessage(m) \/ TimePasses(m), NEW n \in Notification
    PROVE  CountsOf(n)'
<1> USE DEF clientVars, providerVars, storeVars
<1>1. /\ EngineTypeOK /\ EngineTypeOK' /\ StoreTypeOK /\ CountsOf(n) /\ Countable(n)
      /\ notifications[n] \in Row
  BY WhatIsTyped DEF Counts, CountsOf, Inv
<1>2. /\ worker' = worker /\ handler' = handler /\ claimed' = claimed
      /\ executions' = executions /\ receipts' = receipts
      /\ delivery_attempts' = delivery_attempts
  BY DEF LoseMessage, TimePasses, RetryTimeArrives
<1>3. /\ faults'["redelivery"] = faults["redelivery"]
      /\ faults'["worker"] = faults["worker"]
      /\ faults'["task"] = faults["task"]
  BY <1>1, FaultKinds DEF LoseMessage, TimePasses, Fault, EngineTypeOK
<1>4. /\ Tasks(n)' = Tasks(n) /\ Persisting(n)' = Persisting(n)
      /\ Succeeding(n)' = Succeeding(n) /\ Claims(n)' = Claims(n)
      /\ Held(n)' = Held(n)
      /\ AttemptsOf(n)' = AttemptsOf(n) /\ Successes(n)' = Successes(n)
      /\ Duplications' = Duplications
  BY <1>2, <1>3, WorkersStay, AttemptsStay DEF Held, Claims, Duplications
<1>5. /\ notifications'[n].attempt_count = notifications[n].attempt_count
      /\ Done(n)' = Done(n) /\ Owed(n)' = Owed(n)
  <2>1. CASE TimePasses(m) /\ m = n
    <3>1. notifications'[n] = [notifications[n] EXCEPT !.next_retry_at = "due"]
          /\ notifications[n].next_retry_at = "later"
      BY <1>1, <2>1 DEF TimePasses, RetryTimeArrives, UpdateRow, StoreTypeOK
    <3>2. QED
      BY <1>1, <3>1 DEF Row, Done, Owed
  <2>2. CASE ~(TimePasses(m) /\ m = n)
    <3>1. notifications'[n] = notifications[n]
      BY <1>1, <2>2
      DEF LoseMessage, TimePasses, RetryTimeArrives, UpdateRow, StoreTypeOK
    <3>2. QED
      BY <3>1 DEF Done, Owed
  <2>3. QED
    BY <2>1, <2>2
<1>6. queue[n] \in Nat /\ queue'[n] \in Nat /\ queue'[n] <= queue[n]
  BY <1>1 DEF LoseMessage, TimePasses, EngineTypeOK
<1>7. CarrierCount(n)' <= CarrierCount(n) /\ CarrierCount(n) \in Nat
      /\ CarrierCount(n)' \in Nat
  BY <1>1, <1>4, <1>5, <1>6, CountsAreNat, PartsAreNat, CarrierParts
<1>8. Countable(n)'
  BY <1>1, <1>4 DEF Countable
<1>9. /\ Cardinality(Persisting(n)) \in Nat /\ Cardinality(Succeeding(n)) \in Nat
      /\ Duplications \in Nat /\ faults["task"] \in Nat
  BY <1>1, CountsAreNat
<1>10. QED
  BY <1>1, <1>2, <1>3, <1>4, <1>5, <1>7, <1>8, <1>9, BooksBalance

LEMMA OneIsNat ==
    ASSUME NEW task, NEW n
    PROVE  /\ One(Works(task, n)) \in {0, 1} /\ One(Records(task, n)) \in {0, 1}
           /\ One(RecordsSuccess(task, n)) \in {0, 1}
  BY DEF One

\* What a step that turns the task of w into `new' multiplies is counted as
\* a duplication, what it loses as that or as a failed task.
Affordable(w, new, n) ==
    /\ Duplications <= Duplications'
    /\ One(Works(new, n)) + queue'[n] + Duplications
          <= One(Works(worker[w], n)) + queue[n] + Duplications'
    /\ One(Records(new, n)) <= One(Records(worker[w], n))
    /\ One(RecordsSuccess(new, n)) <= One(RecordsSuccess(worker[w], n))
    /\ One(Records(worker[w], n)) + Duplications + faults["task"]
          <= One(Records(new, n)) + Duplications' + faults'["task"]
    /\ One(Works(new, n)) + queue'[n] + One(Records(worker[w], n))
             + Duplications + faults["task"]
          <= One(Works(worker[w], n)) + queue[n] + One(Records(new, n))
                + Duplications' + faults'["task"]

\* Neither the tables nor the handlers, claims or the provider take part.
OthersStay ==
    /\ notifications' = notifications /\ delivery_attempts' = delivery_attempts
    /\ handler' = handler /\ claimed' = claimed
    /\ executions' = executions /\ receipts' = receipts

(* A worker step that only moves a task or a message.                      *)
LEMMA WorkerBooks ==
    ASSUME EngineTypeOK, EngineTypeOK', NEW n \in Notification, CountsOf(n),
           NEW w \in Worker, NEW new, worker' = [worker EXCEPT ![w] = new],
           OthersStay, Affordable(w, new, n)
    PROVE  CountsOf(n)'
<1>1. Countable(n)
  BY DEF CountsOf
<1>2. /\ Claims(n)' = Claims(n) /\ Held(n)' = Held(n) /\ Owed(n)' = Owed(n)
      /\ Done(n)' = Done(n)
      /\ AttemptsOf(n)' = AttemptsOf(n) /\ Successes(n)' = Successes(n)
  BY AttemptsStay DEF OthersStay, Claims, Held, Owed, Done
<1>3. /\ IsFiniteSet(Tasks(n)') /\ IsFiniteSet(Persisting(n)')
      /\ IsFiniteSet(Succeeding(n)')
      /\ Cardinality(Tasks(n)') + One(Works(worker[w], n))
            = Cardinality(Tasks(n)) + One(Works(new, n))
      /\ Cardinality(Persisting(n)') + One(Records(worker[w], n))
            = Cardinality(Persisting(n)) + One(Records(new, n))
      /\ Cardinality(Succeeding(n)') + One(RecordsSuccess(worker[w], n))
            = Cardinality(Succeeding(n)) + One(RecordsSuccess(new, n))
  BY <1>1, WorkerMoves
<1>4. Countable(n)'
  BY <1>1, <1>2, <1>3 DEF Countable
<1>5. /\ Cardinality(Tasks(n)') \in Nat /\ Cardinality(Persisting(n)') \in Nat
      /\ Cardinality(Succeeding(n)') \in Nat
  BY <1>3, FS_CardinalityType
<1>6. /\ queue'[n] \in Nat /\ Duplications' \in Nat /\ faults'["task"] \in Nat
  BY FaultKinds DEF EngineTypeOK, Duplications
<1>7. /\ CarrierCount(n) \in Nat /\ CarrierCount(n)' \in Nat
      /\ CarrierCount(n)' + queue[n] + One(Works(worker[w], n))
            = CarrierCount(n) + queue'[n] + One(Works(new, n))
  BY <1>1, <1>2, <1>3, <1>5, <1>6, CountsAreNat, PartsAreNat, CarrierParts,
     OneIsNat
<1>8. /\ Cardinality(Persisting(n)') <= Cardinality(Persisting(n))
      /\ Cardinality(Succeeding(n)') <= Cardinality(Succeeding(n))
  BY <1>1, <1>3, <1>5, CountsAreNat, OneIsNat DEF Affordable
<1>9. /\ CarrierCount(n)' + Duplications <= CarrierCount(n) + Duplications'
      /\ Cardinality(Persisting(n)) + Duplications + faults["task"]
            <= Cardinality(Persisting(n)') + Duplications' + faults'["task"]
      /\ CarrierCount(n)' + Cardinality(Persisting(n)) + Duplications
               + faults["task"]
            <= CarrierCount(n) + Cardinality(Persisting(n)') + Duplications'
                  + faults'["task"]
  BY <1>1, <1>3, <1>5, <1>6, <1>7, CountsAreNat, OneIsNat DEF Affordable
<1>10. QED
  BY <1>2, <1>4, <1>8, <1>9, BooksBalance DEF OthersStay, Affordable

\* The steps of a worker that send and record nothing.
MessageStep(w) ==
    \/ \E n \in Notification : Reserve(w, n)
    \/ Load(w) \/ Ack(w) \/ TaskFails(w) \/ WorkerCrash(w) \/ Redeliver(w)

(* Taking, dropping or acknowledging a message creates no carrier; a crash *)
(* or a redelivery creates one, and counts as a duplication.               *)
LEMMA MessageCounts ==
    ASSUME Inv, Inv', Counts, NEW w \in Worker, MessageStep(w),
           NEW n \in Notification
    PROVE  CountsOf(n)'
<1> USE DEF clientVars, providerVars, storeVars
<1>1. /\ EngineTypeOK /\ EngineTypeOK' /\ CountsOf(n)
  BY DEF Counts, Inv
<1>2. queue[n] \in Nat /\ queue'[n] \in Nat
  BY <1>1 DEF EngineTypeOK
<1>3. Duplications \in Nat /\ faults["task"] \in Nat
  BY <1>1, FaultKinds DEF EngineTypeOK, Duplications
<1>4. worker[w] # Idle => worker[w] \in Task /\ worker[w].notification_id \in Notification
  BY <1>1, RunningTask
<1>5. ~Works(Idle, n) /\ ~Records(Idle, n) /\ ~RecordsSuccess(Idle, n)
  BY DEF Works, Records, RecordsSuccess
<1>6. ASSUME NEW task
      PROVE  /\ One(Works(task, n)) = IF Works(task, n) THEN 1 ELSE 0
             /\ One(Records(task, n)) = IF Records(task, n) THEN 1 ELSE 0
             /\ One(RecordsSuccess(task, n)) = IF RecordsSuccess(task, n) THEN 1 ELSE 0
             /\ Records(task, n) => Works(task, n)
             /\ RecordsSuccess(task, n) => Records(task, n)
  BY DEF One, Works, Records, RecordsSuccess
<1>7. ASSUME NEW m \in Notification, Reserve(w, m) PROVE CountsOf(n)'
  <2> DEFINE new == [pc |-> "reserved", notification_id |-> m, status |-> "success"]
  <2>1. /\ worker' = [worker EXCEPT ![w] = new] /\ worker[w] = Idle
        /\ OthersStay /\ faults' = faults
    BY <1>7 DEF Reserve, OthersStay
  <2>2. Duplications' = Duplications
    BY <2>1 DEF Duplications
  <2>3. ~Records(new, n) /\ ~RecordsSuccess(new, n) /\ (Works(new, n) => m = n)
    BY DEF Records, RecordsSuccess, Works
  <2>4. IF m = n THEN queue'[n] + 1 = queue[n] ELSE queue'[n] = queue[n]
    BY <1>1, <1>7 DEF Reserve, EngineTypeOK
  <2> HIDE DEF new
  <2>5. One(Works(new, n)) + queue'[n] <= queue[n]
    BY <1>2, <1>6, <2>3, <2>4
  <2>6. /\ One(Works(worker[w], n)) = 0 /\ One(Records(worker[w], n)) = 0
        /\ One(RecordsSuccess(worker[w], n)) = 0
        /\ One(Records(new, n)) = 0 /\ One(RecordsSuccess(new, n)) = 0
    BY <1>5, <1>6, <2>1, <2>3
  <2>7. One(Works(new, n)) \in {0, 1}
    BY OneIsNat
  <2>8. Affordable(w, new, n)
    BY <1>1, <1>2, <1>3, <2>1, <2>2, <2>5, <2>6, <2>7 DEF Affordable
  <2>9. QED
    BY <1>1, <2>1, <2>8, WorkerBooks
<1>8. CASE Load(w)
  <2> DEFINE new == [worker[w] EXCEPT !.pc =
                        IF Eligible(notifications[worker[w].notification_id])
                        THEN "sending" ELSE "acking"]
  <2>1. /\ worker' = [worker EXCEPT ![w] = new] /\ queue' = queue
        /\ OthersStay /\ faults' = faults
    BY <1>8 DEF Load, OthersStay
  <2>2. Duplications' = Duplications
    BY <2>1 DEF Duplications
  <2>3. worker[w] \in Task /\ worker[w] # Idle /\ worker[w].pc = "reserved"
    BY <1>4, <1>8 DEF Load
  <2>4. new.notification_id = worker[w].notification_id /\ new.pc \in {"sending", "acking"}
    BY <2>3 DEF Task
  <2> HIDE DEF new
  <2>5. /\ ~Records(new, n) /\ ~RecordsSuccess(new, n) /\ ~Records(worker[w], n)
        /\ ~RecordsSuccess(worker[w], n) /\ (Works(new, n) => Works(worker[w], n))
    BY <2>3, <2>4 DEF Records, RecordsSuccess, Works
  <2>6. /\ One(Works(new, n)) <= One(Works(worker[w], n))
        /\ One(Records(worker[w], n)) = 0
        /\ One(RecordsSuccess(worker[w], n)) = 0
        /\ One(Records(new, n)) = 0 /\ One(RecordsSuccess(new, n)) = 0
    BY <1>6, <2>5
  <2>7. One(Works(new, n)) \in {0, 1} /\ One(Works(worker[w], n)) \in {0, 1}
    BY OneIsNat
  <2>8. Affordable(w, new, n)
    BY <1>1, <1>2, <1>3, <2>1, <2>2, <2>6, <2>7 DEF Affordable
  <2>9. QED
    BY <1>1, <2>1, <2>8, WorkerBooks
<1>9. CASE Ack(w)
  <2>1. /\ worker' = [worker EXCEPT ![w] = Idle] /\ queue' = queue
        /\ OthersStay /\ faults' = faults
    BY <1>9 DEF Ack, OthersStay
  <2>2. Duplications' = Duplications
    BY <2>1 DEF Duplications
  <2>3. ~Works(worker[w], n) /\ ~Records(worker[w], n) /\ ~RecordsSuccess(worker[w], n)
    BY <1>9 DEF Ack, Works, Records, RecordsSuccess
  <2>4. /\ One(Works(Idle, n)) = 0 /\ One(Works(worker[w], n)) = 0
        /\ One(Records(worker[w], n)) = 0
        /\ One(RecordsSuccess(worker[w], n)) = 0
        /\ One(Records(Idle, n)) = 0 /\ One(RecordsSuccess(Idle, n)) = 0
    BY <1>5, <1>6, <2>3
  <2>5. Affordable(w, Idle, n)
    BY <1>1, <1>2, <1>3, <2>1, <2>2, <2>4 DEF Affordable
  <2>6. QED
    BY <1>1, <2>1, <2>5, WorkerBooks
<1>10. CASE TaskFails(w)
  <2>1. /\ worker' = [worker EXCEPT ![w] = Idle] /\ queue' = queue
        /\ OthersStay
    BY <1>10 DEF TaskFails, OthersStay
  <2>2. Duplications' = Duplications /\ faults'["task"] = faults["task"] + 1
    BY <1>1, <1>10, FaultKinds DEF TaskFails, Fault, Duplications, EngineTypeOK
  <2>3. /\ One(Works(Idle, n)) = 0 /\ One(Records(Idle, n)) = 0
        /\ One(RecordsSuccess(Idle, n)) = 0
    BY <1>5, <1>6
  <2>4. /\ One(Works(worker[w], n)) \in {0, 1} /\ One(Records(worker[w], n)) \in {0, 1}
        /\ One(RecordsSuccess(worker[w], n)) \in {0, 1}
    BY OneIsNat
  <2>5. Affordable(w, Idle, n)
    BY <1>1, <1>2, <1>3, <2>1, <2>2, <2>3, <2>4 DEF Affordable
  <2>6. QED
    BY <1>1, <2>1, <2>5, WorkerBooks
<1>11. CASE WorkerCrash(w)
  <2>1. /\ worker' = [worker EXCEPT ![w] = Idle]
        /\ OthersStay
    BY <1>11 DEF WorkerCrash, OthersStay
  <2>2. Duplications' = Duplications + 1 /\ faults'["task"] = faults["task"]
    BY <1>1, <1>11, FaultKinds
    DEF WorkerCrash, Fault, Duplications, EngineTypeOK
  <2>3. /\ One(Works(Idle, n)) = 0 /\ One(Records(Idle, n)) = 0
        /\ One(RecordsSuccess(Idle, n)) = 0
    BY <1>5, <1>6
  <2>4. /\ One(Works(worker[w], n)) \in {0, 1} /\ One(Records(worker[w], n)) \in {0, 1}
        /\ One(RecordsSuccess(worker[w], n)) \in {0, 1}
        /\ One(Records(worker[w], n)) <= One(Works(worker[w], n))
    BY <1>6, OneIsNat
  <2>5. queue'[n] = queue[n] \/ queue'[n] = queue[n] + 1
    BY <1>1, <1>4, <1>11 DEF WorkerCrash, Publish, EngineTypeOK
  <2>6. Affordable(w, Idle, n)
    BY <1>1, <1>2, <1>3, <2>1, <2>2, <2>3, <2>4, <2>5 DEF Affordable
  <2>7. QED
    BY <1>1, <2>1, <2>6, WorkerBooks
<1>12. CASE Redeliver(w)
  <2>1. /\ worker' = [worker EXCEPT ![w] = worker[w]]
        /\ OthersStay
    BY <1>1, <1>12 DEF Redeliver, OthersStay, EngineTypeOK
  <2>2. Duplications' = Duplications + 1 /\ faults'["task"] = faults["task"]
    BY <1>1, <1>12, FaultKinds DEF Redeliver, Fault, Duplications, EngineTypeOK
  <2>3. /\ One(Works(worker[w], n)) \in {0, 1} /\ One(Records(worker[w], n)) \in {0, 1}
        /\ One(RecordsSuccess(worker[w], n)) \in {0, 1}
    BY OneIsNat
  <2>4. queue'[n] = queue[n] \/ queue'[n] = queue[n] + 1
    BY <1>1, <1>4, <1>12 DEF Redeliver, Publish, EngineTypeOK
  <2>5. Affordable(w, worker[w], n)
    BY <1>1, <1>2, <1>3, <2>1, <2>2, <2>3, <2>4 DEF Affordable
  <2>6. QED
    BY <1>1, <2>1, <2>5, WorkerBooks
<1>13. QED
  BY <1>7, <1>8, <1>9, <1>10, <1>11, <1>12 DEF MessageStep

(* A worker step that concerns another notification.                       *)
LEMMA OtherWork ==
    ASSUME Inv, Inv', NEW n \in Notification, CountsOf(n),
           NEW w \in Worker, worker[w] # Idle, worker[w].notification_id # n,
           NEW new, worker' = [worker EXCEPT ![w] = new],
           new.notification_id = worker[w].notification_id,
           notifications'[n] = notifications[n],
           AttemptsOf(n)' = AttemptsOf(n),
           executions'[n] = executions[n], receipts'[n] = receipts[n],
           handler' = handler, queue' = queue, claimed' = claimed,
           faults' = faults
    PROVE  CountsOf(n)'
<1>1. EngineTypeOK /\ EngineTypeOK' /\ Countable(n)
  BY DEF Inv, CountsOf
<1>2. /\ ~Works(worker[w], n) /\ ~Works(new, n)
      /\ ~Records(worker[w], n) /\ ~Records(new, n)
      /\ ~RecordsSuccess(worker[w], n) /\ ~RecordsSuccess(new, n)
  BY DEF Works, Records, RecordsSuccess
<1>3. /\ One(Works(worker[w], n)) = 0 /\ One(Works(new, n)) = 0
      /\ One(Records(worker[w], n)) = 0 /\ One(Records(new, n)) = 0
      /\ One(RecordsSuccess(worker[w], n)) = 0 /\ One(RecordsSuccess(new, n)) = 0
  BY <1>2 DEF One
<1>4. /\ IsFiniteSet(Tasks(n)') /\ IsFiniteSet(Persisting(n)')
      /\ IsFiniteSet(Succeeding(n)')
      /\ Cardinality(Tasks(n)') + One(Works(worker[w], n))
            = Cardinality(Tasks(n)) + One(Works(new, n))
      /\ Cardinality(Persisting(n)') + One(Records(worker[w], n))
            = Cardinality(Persisting(n)) + One(Records(new, n))
      /\ Cardinality(Succeeding(n)') + One(RecordsSuccess(worker[w], n))
            = Cardinality(Succeeding(n)) + One(RecordsSuccess(new, n))
  BY <1>1, WorkerMoves
<1>5. /\ Cardinality(Tasks(n)') = Cardinality(Tasks(n))
      /\ Cardinality(Persisting(n)') = Cardinality(Persisting(n))
      /\ Cardinality(Succeeding(n)') = Cardinality(Succeeding(n))
  BY <1>1, <1>3, <1>4, CountsAreNat, FS_CardinalityType
<1>6. /\ Claims(n)' = Claims(n) /\ Held(n)' = Held(n) /\ Owed(n)' = Owed(n)
      /\ Done(n)' = Done(n) /\ Successes(n)' = Successes(n)
      /\ Duplications' = Duplications
  BY DEF Claims, Held, Owed, Done, Successes, Duplications
<1>7. Countable(n)'
  BY <1>1, <1>4, <1>6 DEF Countable
<1>8. CarrierCount(n)' = CarrierCount(n) /\ CarrierCount(n) \in Nat
  BY <1>1, <1>5, <1>6, CountsAreNat, PartsAreNat, CarrierParts
<1>9. /\ Cardinality(Persisting(n)) \in Nat /\ Cardinality(Succeeding(n)) \in Nat
      /\ Duplications \in Nat /\ faults["task"] \in Nat
  BY <1>1, CountsAreNat
<1>10. QED
  BY <1>1, <1>5, <1>6, <1>7, <1>8, <1>9, BooksBalance

(* A call of provider.send is owed an attempt from now on.                 *)
LEMMA SendCounts ==
    ASSUME Inv, Inv', Counts, NEW w \in Worker, Send(w), NEW n \in Notification
    PROVE  CountsOf(n)'
<1> USE DEF clientVars, providerVars, storeVars
<1> DEFINE m == worker[w].notification_id
<1>1. EngineTypeOK /\ EngineTypeOK' /\ CountsOf(n) /\ Countable(n)
  BY DEF Counts, CountsOf, Inv
<1>2. PICK status \in DeliveryStatus :
         /\ worker' = [worker EXCEPT ![w].pc = "persisting", ![w].status = status]
         /\ receipts' = [receipts EXCEPT ![m] =
                             IF status = "success" THEN @ + 1 ELSE @]
  BY DEF Send
<1> DEFINE new == [worker[w] EXCEPT !.pc = "persisting", !.status = status]
           received == IF status = "success" THEN 1 ELSE 0
<1>3. /\ worker[w] # Idle /\ worker[w].pc = "sending"
      /\ worker[w] \in Task /\ m \in Notification
      /\ notifications' = notifications /\ delivery_attempts' = delivery_attempts
      /\ handler' = handler /\ claimed' = claimed /\ queue' = queue
      /\ faults' = faults
      /\ executions' = [executions EXCEPT ![m] = @ + 1]
  BY <1>1, RunningTask DEF Send
<1>4. worker' = [worker EXCEPT ![w] = new]
  BY <1>1, <1>2 DEF EngineTypeOK
<1>5. new.notification_id = m /\ new.pc = "persisting" /\ new.status = status
      /\ new # Idle
  BY <1>3 DEF Task, Idle
<1>6. /\ received \in {0, 1} /\ (status = "success" => received = 1)
      /\ receipts'[m] = receipts[m] + received
      /\ \A k \in Notification \ {m} : receipts'[k] = receipts[k]
  <2>1. receipts[m] \in Nat
    BY <1>1, <1>3 DEF EngineTypeOK
  <2>2. receipts'[m] = IF status = "success" THEN receipts[m] + 1 ELSE receipts[m]
    BY <1>1, <1>2, <1>3 DEF EngineTypeOK
  <2>3. \A k \in Notification \ {m} : receipts'[k] = receipts[k]
    BY <1>1, <1>2, <1>3 DEF EngineTypeOK
  <2>4. QED
    BY <2>1, <2>2, <2>3
<1> HIDE DEF new, received
<1>7. AttemptsOf(n)' = AttemptsOf(n) /\ Successes(n)' = Successes(n)
  BY <1>3, AttemptsStay
<1>8. CASE m # n
  <2>1. executions'[n] = executions[n] /\ receipts'[n] = receipts[n]
    BY <1>1, <1>3, <1>6, <1>8 DEF EngineTypeOK
  <2>2. QED
    BY <1>1, <1>3, <1>4, <1>5, <1>7, <1>8, <2>1, OtherWork
<1>9. CASE m = n
  <2>1. executions'[n] = executions[n] + 1 /\ receipts'[n] = receipts[n] + received
    BY <1>1, <1>3, <1>6, <1>9 DEF EngineTypeOK
  <2>2. /\ Works(worker[w], n) /\ Works(new, n)
        /\ ~Records(worker[w], n) /\ Records(new, n)
        /\ ~RecordsSuccess(worker[w], n)
        /\ RecordsSuccess(new, n) <=> status = "success"
    BY <1>3, <1>5, <1>9 DEF Works, Records, RecordsSuccess
  <2>3. /\ One(Works(worker[w], n)) = 1 /\ One(Works(new, n)) = 1
        /\ One(Records(worker[w], n)) = 0 /\ One(Records(new, n)) = 1
        /\ One(RecordsSuccess(worker[w], n)) = 0
        /\ One(RecordsSuccess(new, n)) <= received
        /\ One(RecordsSuccess(new, n)) \in {0, 1}
    BY <1>6, <2>2 DEF One
  <2>4. /\ IsFiniteSet(Tasks(n)') /\ IsFiniteSet(Persisting(n)')
        /\ IsFiniteSet(Succeeding(n)')
        /\ Cardinality(Tasks(n)') + One(Works(worker[w], n))
              = Cardinality(Tasks(n)) + One(Works(new, n))
        /\ Cardinality(Persisting(n)') + One(Records(worker[w], n))
              = Cardinality(Persisting(n)) + One(Records(new, n))
        /\ Cardinality(Succeeding(n)') + One(RecordsSuccess(worker[w], n))
              = Cardinality(Succeeding(n)) + One(RecordsSuccess(new, n))
    BY <1>1, <1>4, WorkerMoves
  <2>5. /\ Cardinality(Tasks(n)') = Cardinality(Tasks(n))
        /\ Cardinality(Persisting(n)') = Cardinality(Persisting(n)) + 1
        /\ Cardinality(Succeeding(n)') <= Cardinality(Succeeding(n)) + received
        /\ Cardinality(Succeeding(n)') \in Nat
    BY <1>1, <1>6, <2>3, <2>4, CountsAreNat, FS_CardinalityType
  <2>6. /\ Claims(n)' = Claims(n) /\ Held(n)' = Held(n) /\ Owed(n)' = Owed(n)
        /\ Done(n)' = Done(n) /\ Duplications' = Duplications
    BY <1>3 DEF Claims, Held, Owed, Done, Duplications
  <2>7. Countable(n)' /\ AllRecorded(n)'
    BY <1>1, <1>3, <1>7, <2>4, <2>6 DEF Countable, CountsOf, AllRecorded
  <2>8. CarrierCount(n)' = CarrierCount(n) /\ CarrierCount(n) \in Nat
    BY <1>1, <1>3, <2>5, <2>6, CountsAreNat, PartsAreNat, CarrierParts
  <2>9. Backed(n)'
    BY <1>1, <1>3, <1>6, <1>7, <2>1, <2>5, CountsAreNat DEF Backed, CountsOf
  <2>10. AloneUntilDone(n)' /\ Paid(n)'
    BY <1>1, <1>7, <2>6, <2>8 DEF AloneUntilDone, Paid, CountsOf
  <2>11. LossesPaid(n)'
    <3>1. Done(n) \in Nat
      BY PartsAreNat
    <3>2. QED
      BY <1>1, <1>3, <2>1, <2>5, <2>6, <2>8, <3>1, CountsAreNat
      DEF LossesPaid, CountsOf
  <2>12. QED
    BY <2>7, <2>9, <2>10, <2>11 DEF CountsOf
<1>10. QED
  BY <1>8, <1>9

(* What a commit of persist_delivery_result changes among the counts: the  *)
(* carrier becomes an end or a scheduled retry, the result an attempt.     *)
LEMMA CommitCounts ==
    ASSUME Inv, NEW n \in Notification, CountsOf(n),
           NEW status \in DeliveryStatus, NEW at \in {"later", "due"},
           PersistCommits(n, status, at)
    PROVE  /\ IsFiniteSet(AttemptsOf(n)') /\ IsFiniteSet(Successes(n)')
           /\ notifications'[n].attempt_count = notifications[n].attempt_count + 1
           /\ Cardinality(AttemptsOf(n)') = notifications[n].attempt_count + 1
           /\ Cardinality(Successes(n)') =
                 Cardinality(Successes(n)) + One(status = "success")
           /\ Owed(n)' + Done(n)' <= 1
           /\ One(status = "success") + Owed(n)' <= 1
<1>1. /\ EngineTypeOK /\ StoreTypeOK /\ Numbered(n) /\ Countable(n)
      /\ notifications[n] \in Row
  BY WhatIsTyped DEF CountsOf
<1> DEFINE row == increment_attempt_count(notifications[n])
           j == notifications[n].attempt_count
           new == [notification_id |-> n, attempt_number |-> j + 1,
                   status |-> status]
<1>2. /\ notifications'[n] = RecordedRow(row, status, at)
      /\ notifications'[n].attempt_count = j + 1
      /\ AttemptsOf(n)' = AttemptsOf(n) \cup {new}
      /\ j \in Nat
  <2>1. j \in Nat
    BY <1>1 DEF Row
  <2>2. QED
    BY <1>1, <2>1, PersistWrites
<1>3. new \notin AttemptsOf(n)
  <2>1. new \in AttemptsOf(n) => new.attempt_number \in 1..j
    BY <1>1 DEF Numbered
  <2>2. new.attempt_number = j + 1
    OBVIOUS
  <2>3. QED
    BY <1>2, <2>1, <2>2
<1>4. new.status = status
  OBVIOUS
<1> HIDE DEF new, row, j
<1>5. /\ IsFiniteSet(AttemptsOf(n)') /\ Cardinality(AttemptsOf(n)') = j + 1
  <2>1. IsFiniteSet(AttemptsOf(n)) /\ Cardinality(AttemptsOf(n)) = j
    BY <1>1 DEF Countable, CountsOf, AllRecorded, j
  <2>2. QED
    BY <1>2, <1>3, <2>1, FS_AddElement
<1>6. Successes(n)' = IF status = "success" THEN Successes(n) \cup {new}
                      ELSE Successes(n)
  BY <1>2, <1>4 DEF Successes
<1>7. new \notin Successes(n)
  BY <1>3 DEF Successes
<1>8. /\ IsFiniteSet(Successes(n)')
      /\ Cardinality(Successes(n)') =
            Cardinality(Successes(n)) + One(status = "success")
  <2>1. CASE status = "success"
    <3>1. IsFiniteSet(Successes(n)')
          /\ Cardinality(Successes(n)') = Cardinality(Successes(n)) + 1
      BY <1>1, <1>6, <1>7, <2>1, FS_AddElement DEF Countable
    <3>2. One(status = "success") = 1
      BY <2>1 DEF One
    <3>3. QED
      BY <3>1, <3>2
  <2>2. CASE status # "success"
    <3>1. One(status = "success") = 0
      BY <2>2 DEF One
    <3>2. QED
      BY <1>1, <1>6, <2>2, <3>1, CountsAreNat DEF Countable
  <2>3. QED
    BY <2>1, <2>2
<1>9. /\ Owed(n)' + Done(n)' <= 1
      /\ One(status = "success") + Owed(n)' <= 1
  <2>1. row \in Row
    BY <1>1, StatementTypes DEF row, RetryTime
  <2>2. /\ mark_sent(row).next_retry_at = "null"
        /\ mark_failed(row).next_retry_at = "null"
        /\ schedule_retry(row, at).state = "queued"
    BY <2>1 DEF mark_sent, mark_failed, schedule_retry, Row
  <2>3. \/ notifications'[n].next_retry_at = "null"
        \/ notifications'[n].state = "queued" /\ status # "success"
    BY <1>2, <2>2 DEF RecordedRow, DeliveryStatus
  <2>4. QED
    BY <2>3 DEF Owed, Done, One, Terminal
<1>10. QED
  BY <1>2, <1>5, <1>8, <1>9 DEF j

(* The transaction either records the result, or finds the notification    *)
(* done, so that the carrier was one too many.                             *)
LEMMA PersistCounts ==
    ASSUME Inv, Inv', Counts, NEW w \in Worker, Persist(w), NEW n \in Notification
    PROVE  CountsOf(n)'
<1> USE DEF clientVars, providerVars, storeVars
<1> DEFINE m == worker[w].notification_id
           status == worker[w].status
           new == [worker[w] EXCEPT !.pc = "acking"]
<1>1. EngineTypeOK /\ EngineTypeOK' /\ StoreTypeOK /\ CountsOf(n) /\ Countable(n)
  BY WhatIsTyped DEF Counts, CountsOf, Inv
<1>2. /\ worker[w] # Idle /\ worker[w].pc = "persisting"
      /\ worker[w] \in Task /\ m \in Notification /\ status \in DeliveryStatus
      /\ worker' = [worker EXCEPT ![w] = new]
      /\ handler' = handler /\ claimed' = claimed /\ queue' = queue
      /\ faults' = faults /\ executions' = executions /\ receipts' = receipts
  BY <1>1, RunningTask DEF Persist
<1>3. PICK at \in {"later", "due"} :
         PersistCommits(m, status, at) \/ PersistRollsBack(m, status, at)
  BY DEF Persist
<1>4. new.notification_id = m /\ new.pc = "acking"
  BY <1>2 DEF Task
<1> HIDE DEF new
<1>5. CASE m # n
  <2>1. notifications'[n] = notifications[n] /\ AttemptsOf(n)' = AttemptsOf(n)
    BY <1>1, <1>2, <1>3, <1>5, PersistWrites, AttemptsStay DEF PersistRollsBack
  <2>2. QED
    BY <1>1, <1>2, <1>4, <1>5, <2>1, OtherWork
<1>6. CASE m = n
  <2>1. /\ Works(worker[w], n) /\ ~Works(new, n)
        /\ Records(worker[w], n) /\ ~Records(new, n)
        /\ RecordsSuccess(worker[w], n) <=> status = "success"
        /\ ~RecordsSuccess(new, n)
    BY <1>2, <1>4, <1>6 DEF Works, Records, RecordsSuccess
  <2>2. /\ One(Works(worker[w], n)) = 1 /\ One(Works(new, n)) = 0
        /\ One(Records(worker[w], n)) = 1 /\ One(Records(new, n)) = 0
        /\ One(RecordsSuccess(worker[w], n)) = One(status = "success")
        /\ One(RecordsSuccess(new, n)) = 0
        /\ One(status = "success") \in {0, 1}
    BY <2>1 DEF One
  <2>3. /\ IsFiniteSet(Tasks(n)') /\ IsFiniteSet(Persisting(n)')
        /\ IsFiniteSet(Succeeding(n)')
        /\ Cardinality(Tasks(n)') + One(Works(worker[w], n))
              = Cardinality(Tasks(n)) + One(Works(new, n))
        /\ Cardinality(Persisting(n)') + One(Records(worker[w], n))
              = Cardinality(Persisting(n)) + One(Records(new, n))
        /\ Cardinality(Succeeding(n)') + One(RecordsSuccess(worker[w], n))
              = Cardinality(Succeeding(n)) + One(RecordsSuccess(new, n))
    BY <1>1, <1>2, WorkerMoves
  <2>4. /\ Cardinality(Tasks(n)') + 1 = Cardinality(Tasks(n))
        /\ Cardinality(Persisting(n)') + 1 = Cardinality(Persisting(n))
        /\ Cardinality(Succeeding(n)') + One(status = "success")
              = Cardinality(Succeeding(n))
        /\ Cardinality(Tasks(n)') \in Nat /\ Cardinality(Persisting(n)') \in Nat
        /\ Cardinality(Succeeding(n)') \in Nat
    BY <1>1, <2>2, <2>3, CountsAreNat, FS_CardinalityType
  <2>5. Claims(n)' = Claims(n) /\ Held(n)' = Held(n) /\ Duplications' = Duplications
    BY <1>2 DEF Claims, Held, Duplications
  <2>6. CASE PersistCommits(n, status, at)
    <3>1. /\ IsFiniteSet(AttemptsOf(n)') /\ IsFiniteSet(Successes(n)')
          /\ notifications'[n].attempt_count = notifications[n].attempt_count + 1
          /\ Cardinality(AttemptsOf(n)') = notifications[n].attempt_count + 1
          /\ Cardinality(Successes(n)') =
                Cardinality(Successes(n)) + One(status = "success")
          /\ Owed(n)' + Done(n)' <= 1
          /\ One(status = "success") + Owed(n)' <= 1
      BY <1>1, <1>2, <2>6, CommitCounts
    <3>2. Countable(n)' /\ AllRecorded(n)'
      BY <1>1, <2>3, <2>5, <3>1 DEF Countable, AllRecorded
    <3>3. /\ CarrierCount(n)' + 1 + Owed(n) = CarrierCount(n) + Owed(n)'
          /\ CarrierCount(n) \in Nat /\ CarrierCount(n)' \in Nat
      BY <1>1, <1>2, <2>4, <2>5, CountsAreNat, PartsAreNat, CarrierParts
    <3>4. Backed(n)'
      BY <1>1, <1>2, <2>2, <2>4, <3>1, CountsAreNat DEF Backed, CountsOf
    <3>5. AloneUntilDone(n)'
      BY <1>1, <2>5, <3>1, <3>3, CountsAreNat, PartsAreNat
      DEF AloneUntilDone, CountsOf
    <3>6. Paid(n)'
      BY <1>1, <2>2, <2>5, <3>1, <3>3, CountsAreNat, PartsAreNat
      DEF Paid, CountsOf
    <3>7. LossesPaid(n)'
      BY <1>1, <1>2, <2>4, <2>5, <3>1, <3>3, CountsAreNat, PartsAreNat
      DEF LossesPaid, CountsOf
    <3>8. QED
      BY <3>2, <3>4, <3>5, <3>6, <3>7 DEF CountsOf
  <2>7. CASE PersistRollsBack(n, status, at)
    <3>1. notifications' = notifications /\ delivery_attempts' = delivery_attempts
          /\ notifications[n].state \in Terminal
      BY <1>2, <2>7, RollbackOnlyWhenDone DEF PersistRollsBack
    <3>2. /\ AttemptsOf(n)' = AttemptsOf(n) /\ Successes(n)' = Successes(n)
          /\ Owed(n)' = Owed(n) /\ Done(n)' = 1 /\ Done(n) = 1
      BY <3>1, AttemptsStay DEF Owed, Done
    <3>3. Countable(n)' /\ AllRecorded(n)'
      BY <1>1, <2>3, <2>5, <3>1, <3>2 DEF Countable, AllRecorded, CountsOf
    <3>4. /\ CarrierCount(n)' + 1 = CarrierCount(n)
          /\ CarrierCount(n) \in Nat /\ CarrierCount(n)' \in Nat
      BY <1>1, <1>2, <2>4, <2>5, <3>2, CountsAreNat, PartsAreNat, CarrierParts
    <3>5. Backed(n)'
      BY <1>1, <1>2, <2>2, <2>4, <3>1, <3>2, CountsAreNat DEF Backed, CountsOf
    <3>6. AloneUntilDone(n)' /\ Paid(n)'
      BY <1>1, <2>5, <3>2, <3>4, CountsAreNat
      DEF AloneUntilDone, Paid, CountsOf
    <3>7. LossesPaid(n)'
      BY <1>1, <1>2, <2>4, <2>5, <3>1, <3>2, <3>4, CountsAreNat
      DEF LossesPaid, CountsOf
    <3>8. QED
      BY <3>3, <3>5, <3>6, <3>7 DEF CountsOf
  <2>8. QED
    BY <1>3, <1>6, <2>6, <2>7
<1>7. QED
  BY <1>5, <1>6

-----------------------------------------------------------------------------
(* The theorems.                                                           *)

LEMMA CountsInit == Init => Counts
<1> SUFFICES ASSUME Init, NEW n \in Notification PROVE CountsOf(n)
  BY DEF Counts
<1>1. /\ Tasks(n) = {} /\ Claims(n) = {} /\ Persisting(n) = {}
      /\ Succeeding(n) = {} /\ AttemptsOf(n) = {} /\ Successes(n) = {}
  BY DEF Init, StoreInit, Tasks, Claims, Persisting, Succeeding, AttemptsOf,
         Successes, Running
<1>2. /\ notifications[n].attempt_count = 0 /\ executions[n] = 0 /\ receipts[n] = 0
      /\ queue[n] = 0 /\ faults["task"] = 0 /\ Duplications = 0
      /\ Held(n) = 0 /\ Owed(n) = 0 /\ Done(n) = 0
  BY FaultKinds
  DEF Init, StoreInit, NoRow, Duplications, Held, Owed, Done, One,
                    Terminal
<1>3. CarrierCount(n) = 0
  <2>1. CarrierCount(n) = Held(n) + queue[n] + Cardinality(Tasks(n))
                             + Cardinality(Claims(n)) + Owed(n)
    BY CarrierParts
  <2>2. Cardinality(Tasks(n)) = 0 /\ Cardinality(Claims(n)) = 0
    BY <1>1, FS_EmptySet
  <2>3. QED
    BY <1>2, <2>1, <2>2
<1>4. QED
  BY <1>1, <1>2, <1>3, FS_EmptySet
  DEF CountsOf, Countable, AllRecorded, Backed, AloneUntilDone, Paid, LossesPaid

LEMMA CountsStep == Inv /\ Counts /\ [Next]_vars => Counts'
<1> SUFFICES ASSUME Inv, Counts, [Next]_vars, NEW n \in Notification
             PROVE  CountsOf(n)'
  BY DEF Counts
<1>1. Inv'
  BY InvStep
<1>2. ASSUME NEW w \in Worker, WorkerStep(w) PROVE CountsOf(n)'
  BY <1>1, <1>2, SendCounts, PersistCounts, MessageCounts
  DEF WorkerStep, MessageStep
<1>3. CASE UNCHANGED vars
  <2>1. /\ Tasks(n)' = Tasks(n) /\ Claims(n)' = Claims(n)
        /\ Persisting(n)' = Persisting(n) /\ Succeeding(n)' = Succeeding(n)
        /\ AttemptsOf(n)' = AttemptsOf(n) /\ Successes(n)' = Successes(n)
        /\ Done(n)' = Done(n) /\ CarrierCount(n)' = CarrierCount(n)
        /\ Duplications' = Duplications
    BY <1>3, WorkersStay, AttemptsStay
    DEF vars, storeVars, clientVars, Claims, Done, CarrierCount, Running, Duplications
  <2>2. QED
    BY <1>3, <2>1
    DEF Counts, CountsOf, Countable, AllRecorded, Backed, AloneUntilDone, Paid,
        LossesPaid, vars, storeVars, providerVars
<1>4. QED
  BY <1>1, <1>2, <1>3, ApiCounts, EnvironmentCounts, SchedulerCounts DEF Next

LEMMA CountsInvariant == Spec => [](Inv /\ Counts)
<1>1. Init => Inv /\ Counts
  BY InitInv, CountsInit
<1>2. Inv /\ Counts /\ [Next]_vars => (Inv /\ Counts)'
  BY InvStep, CountsStep
<1>3. QED
  BY <1>1, <1>2, PTL DEF Spec

(* Every recorded attempt, and every result about to be recorded, stands   *)
(* for a call of provider.send of its own, every recorded success for an   *)
(* email the provider took.                                                *)
THEOREM HistoryStaysBacked == Spec => []HistoryIsBacked
<1>1. Counts => HistoryIsBacked
  BY DEF Counts, CountsOf, Backed, HistoryIsBacked, Successes, Succeeding
<1>2. QED
  BY <1>1, CountsInvariant, PTL

(* A notification never has more carriers (handler, messages, tasks,       *)
(* claims, scheduled retry) than one and one for each redelivery or worker *)
(* crash, for any number of workers and schedulers.                        *)
THEOREM CarriersStayBounded == Spec => []CarriersBounded
<1>1. ASSUME Inv, Counts PROVE CarriersBounded
  <2> SUFFICES ASSUME NEW n \in Notification
               PROVE  CarrierCount(n) <= 1 + Duplications
    BY DEF CarriersBounded
  <2>1. EngineTypeOK /\ CountsOf(n) /\ Countable(n)
    BY <1>1 DEF Inv, Counts, CountsOf
  <2>2. CarrierCount(n) \in Nat
    BY <2>1, CountsAreNat, PartsAreNat, CarrierParts
  <2>3. QED
    BY <2>1, <2>2, CountsAreNat, PartsAreNat DEF CountsOf, AloneUntilDone
<1>2. QED
  BY <1>1, CountsInvariant, PTL

(* Each redelivery or worker crash costs at most one more successful       *)
(* attempt, and every call of provider.send missing from the history is    *)
(* paid for by one of these or by a failed task.                           *)
THEOREM DuplicatesStayBounded == Spec => []DuplicatesAreBounded
<1>1. ASSUME Inv, Counts PROVE DuplicatesAreBounded
  <2> SUFFICES ASSUME NEW n \in Notification
               PROVE  /\ Cardinality(Successes(n)) <= 1 + Duplications
                      /\ executions[n] <= Cardinality(AttemptsOf(n))
                            + Cardinality(Persisting(n)) + Duplications
                            + faults["task"]
    BY DEF DuplicatesAreBounded, Successes
  <2>1. EngineTypeOK /\ CountsOf(n) /\ Countable(n)
    BY <1>1 DEF Inv, Counts, CountsOf
  <2>2. CarrierCount(n) \in Nat
    BY <2>1, CountsAreNat, PartsAreNat, CarrierParts
  <2>3. QED
    BY <2>1, <2>2, CountsAreNat DEF CountsOf, Paid, LossesPaid, AllRecorded
<1>2. QED
  BY <1>1, CountsInvariant, PTL

(* A step that takes a notification out of failed is a second transaction  *)
(* of persist_delivery_result, run by a carrier that was a duplicate.      *)
LEMMA FailedStep ==
    ASSUME Inv, Counts, [Next]_vars, NEW n \in Notification,
           notifications[n].state = "failed", notifications'[n].state # "failed"
    PROVE  Duplications > 0
<1>1. /\ EngineTypeOK /\ StoreTypeOK /\ Explained(n) /\ CountsOf(n) /\ Countable(n)
      /\ notifications[n] \in Row
  BY WhatIsTyped DEF Counts, CountsOf
<1>2. ~UNCHANGED notifications
  OBVIOUS
<1>3. ASSUME NEW m \in Notification, Submit(m) \/ MarkQueued(m) \/ TimePasses(m)
      PROVE  FALSE
  <2>1. m = n
    BY <1>1, <1>3 DEF Submit, MarkQueued, TimePasses, RetryTimeArrives,
                      UpdateRow, StoreTypeOK
  <2>2. ~Submit(m) /\ ~TimePasses(m)
    BY <1>1, <2>1 DEF Submit, TimePasses, RetryTimeArrives, Inv,
       NothingBeforeCommit, Explained, ConstraintsHold
  <2>3. QED
    BY <1>1, <1>3, <2>1, <2>2
    DEF MarkQueued, UpdateRow, mark_queued, StoreTypeOK
<1>4. ASSUME NEW s \in Scheduler, Claim(s) PROVE FALSE
  <2>1. PICK S \in (SUBSET Due) \ {{}} : ClaimRows(S)
    BY <1>4 DEF Claim
  <2>2. n \notin S
    BY DEF Due, IsDue
  <2>3. QED
    BY <2>1, <2>2 DEF ClaimRows
<1>5. ASSUME NEW w \in Worker, Persist(w) PROVE Duplications > 0
  <2>1. worker[w] # Idle /\ worker[w].pc = "persisting"
    BY <1>5 DEF Persist
  <2>2. worker[w].notification_id \in Notification /\ worker[w].status \in DeliveryStatus
    BY <1>1, <2>1, RunningTask
  <2>3. worker[w].notification_id = n
    <3> SUFFICES ASSUME worker[w].notification_id # n PROVE FALSE
      OBVIOUS
    <3>1. notifications'[n] = notifications[n]
      BY <1>1, <1>5, <2>2, PersistWrites
      DEF Persist, PersistRollsBack, storeVars
    <3>2. QED
      BY <3>1
  <2>4. w \in Tasks(n)
    BY <2>1, <2>3 DEF Tasks, Running
  <2>5. Cardinality(Tasks(n)) # 0
    BY <1>1, <2>4, FS_EmptySet DEF Countable
  <2>6. Done(n) = 1
    BY DEF Done, Terminal
  <2>7. CarrierCount(n) \in Nat /\ CarrierCount(n) >= 1
    BY <1>1, <2>5, CountsAreNat, PartsAreNat, CarrierParts
  <2>8. QED
    BY <1>1, <2>6, <2>7, CountsAreNat DEF CountsOf, AloneUntilDone
<1>6. QED
  BY <1>2, <1>3, <1>4, <1>5
  DEF Next, vars, storeVars, ApiStep, WorkerStep, SchedulerStep, Enqueue,
      HandlerFails, HandlerCrash, Replay, LoseMessage, Reserve, Load, Send, Ack,
      TaskFails, WorkerCrash, Redeliver, EnqueueClaimed, SchedulerFails

(* Failed is final as long as no message was redelivered and no worker     *)
(* crashed, although no statement looks at the state it overwrites.        *)
THEOREM FailedStaysFailed == Spec => FailedIsFinal
<1>1. Inv /\ Counts /\ [Next]_vars =>
        [\A n \in Notification :
           notifications[n].state = "failed" /\ notifications'[n].state # "failed"
              => Duplications > 0]_vars
  BY FailedStep
<1>2. QED
  BY <1>1, CountsInvariant, PTL DEF Spec, FailedIsFinal

-----------------------------------------------------------------------------
(***************************************************************************)
(* Part 3.  submit_notification is Accept, a committed transaction of      *)
(* persist_delivery_result is Enter, a claim is Retry, and every other     *)
(* step leaves the ledger alone.                                           *)
(*                                                                         *)
(* The mapping reads the history off delivery_attempts with CHOOSE, so it  *)
(* rests on Numbered (one attempt row per number, no gaps); that a task    *)
(* enters nothing for an unknown notification rests on ExistsOnceSubmitted.*)
(***************************************************************************)

\* What the ledger is mapped to.
PhaseOf(n) == RowPhase(notifications[n])
HistoryOf(n) == [i \in 1..notifications[n].attempt_count |-> StatusOf(n, i)]

-----------------------------------------------------------------------------
(* Once its request is past "idle", a notification has a row for good.     *)

ExistsOnceSubmitted ==
    \A n \in Notification :
        notifications[n].state = "none" => handler[n] = "idle"

(* No statement takes a row away.                                          *)
LEMMA RowsStay ==
    ASSUME Inv, [Next]_vars, NEW n \in Notification,
           notifications[n].state # "none"
    PROVE  notifications'[n].state # "none"
<1>1. EngineTypeOK /\ StoreTypeOK /\ notifications[n] \in Row
  BY DEF Inv, EngineTypeOK, StoreTypeOK
<1>2. CASE UNCHANGED storeVars
  BY <1>2 DEF storeVars
<1>3. ASSUME NEW m \in Notification, Submit(m) \/ MarkQueued(m) \/ TimePasses(m)
      PROVE  notifications'[n].state # "none"
  <2>1. CASE m # n
    BY <1>1, <1>3, <2>1 DEF Submit, MarkQueued, TimePasses, RetryTimeArrives,
                            UpdateRow, StoreTypeOK
  <2>2. CASE m = n
    <3>1. \/ notifications'[n] = create_notification
          \/ notifications'[n] = mark_queued(notifications[n])
          \/ notifications'[n] = [notifications[n] EXCEPT !.next_retry_at = "due"]
      BY <1>1, <1>3, <2>2 DEF Submit, MarkQueued, TimePasses, RetryTimeArrives,
                              UpdateRow, StoreTypeOK
    <3>2. QED
      BY <1>1, <3>1 DEF create_notification, NoRow, mark_queued, Row
  <2>3. QED
    BY <2>1, <2>2
<1>4. ASSUME NEW w \in Worker, Persist(w) PROVE notifications'[n].state # "none"
  <2> DEFINE m == worker[w].notification_id
             status == worker[w].status
  <2>1. m \in Notification /\ status \in DeliveryStatus
    BY <1>1, <1>4, RunningTask DEF Persist
  <2>2. PICK at \in {"later", "due"} :
           PersistCommits(m, status, at) \/ PersistRollsBack(m, status, at)
    BY <1>4 DEF Persist
  <2>3. CASE PersistCommits(m, status, at) /\ m = n
    <3> DEFINE row == increment_attempt_count(notifications[n])
    <3>1. notifications'[n] = RecordedRow(row, status, at)
      BY <1>1, <2>1, <2>3, PersistWrites
    <3>2. row \in Row
      BY <1>1, StatementTypes DEF RetryTime
    <3>3. QED
      BY <2>1, <3>1, <3>2
      DEF RecordedRow, mark_sent, mark_failed, schedule_retry, DeliveryStatus, Row
  <2>4. CASE ~(PersistCommits(m, status, at) /\ m = n)
    BY <1>1, <2>1, <2>2, <2>4, PersistWrites DEF PersistRollsBack, storeVars
  <2>5. QED
    BY <2>3, <2>4
<1>5. ASSUME NEW s \in Scheduler, Claim(s) PROVE notifications'[n].state # "none"
  <2>1. PICK S \in (SUBSET Due) \ {{}} : ClaimRows(S)
    BY <1>5 DEF Claim
  <2>2. \/ notifications'[n] = claim(notifications[n])
        \/ notifications'[n] = notifications[n]
    BY <2>1 DEF ClaimRows
  <2>3. QED
    BY <1>1, <2>2 DEF claim, Row
<1>6. QED
  BY <1>2, <1>3, <1>4, <1>5
  DEF Next, vars, ApiStep, WorkerStep, SchedulerStep, Enqueue, HandlerFails,
      HandlerCrash, Replay, LoseMessage, Reserve, Load, Send, Ack, TaskFails,
      WorkerCrash, Redeliver, EnqueueClaimed, SchedulerFails

LEMMA ExistsStep ==
    Inv /\ ExistsOnceSubmitted /\ [Next]_vars => ExistsOnceSubmitted'
<1> SUFFICES ASSUME Inv, ExistsOnceSubmitted, [Next]_vars,
                    NEW n \in Notification, notifications'[n].state = "none"
             PROVE  handler'[n] = "idle"
  BY DEF ExistsOnceSubmitted
<1> USE DEF clientVars, providerVars, storeVars
<1>1. EngineTypeOK /\ StoreTypeOK
  BY DEF Inv, EngineTypeOK
<1>2. handler[n] = "idle"
  BY RowsStay DEF ExistsOnceSubmitted
<1>3. ASSUME NEW m \in Notification, ApiStep(m) PROVE handler'[n] = "idle"
  <2>1. ~(Submit(m) /\ m = n)
    BY <1>1 DEF Submit, UpdateRow, StoreTypeOK, create_notification, NoRow
  <2>2. QED
    BY <1>1, <1>2, <1>3, <2>1 DEF ApiStep, Submit, Enqueue, MarkQueued,
       HandlerFails, HandlerCrash, Replay, EngineTypeOK
<1>4. CASE UNCHANGED handler
  BY <1>2, <1>4
<1>5. QED
  BY <1>3, <1>4
  DEF Next, vars, WorkerStep, SchedulerStep, LoseMessage, TimePasses, Reserve,
      Load, Send, Persist, Ack, TaskFails, WorkerCrash, Redeliver, Claim,
      EnqueueClaimed, SchedulerFails

(* A task is always about a notification that has been inserted.           *)
LEMMA TasksHaveRows ==
    ASSUME Inv, ExistsOnceSubmitted, NEW w \in Worker, worker[w] # Idle
    PROVE  notifications[worker[w].notification_id].state # "none"
  BY RunningTask DEF Inv, ExistsOnceSubmitted, NothingBeforeCommit, Running

-----------------------------------------------------------------------------
(* The mapping.                                                            *)

(* The mapping depends on the attempts of a notification only, so its      *)
(* lemmas are about any set of attempt rows numbered 1..k.                 *)
StatusIn(attempts, i) ==
    (CHOOSE a \in attempts : a.attempt_number = i).status
HistoryIn(attempts, k) == [i \in 1..k |-> StatusIn(attempts, i)]
NumberedTo(attempts, k) ==
    /\ {a.attempt_number : a \in attempts} = 1..k
    /\ \A a, b \in attempts : a.attempt_number = b.attempt_number => a = b

LEMMA HistoryIsIn ==
    ASSUME NEW n \in Notification
    PROVE  /\ HistoryOf(n) =
                 HistoryIn(AttemptsOf(n), notifications[n].attempt_count)
           /\ HistoryOf(n)' =
                 HistoryIn(AttemptsOf(n)', notifications'[n].attempt_count)
  BY DEF HistoryOf, HistoryIn, StatusOf, StatusIn

(* The status the mapping reads for a number is that of the attempt row    *)
(* with this number.                                                       *)
LEMMA StatusIsRecorded ==
    ASSUME NEW attempts, NEW k, NumberedTo(attempts, k), NEW a \in attempts
    PROVE  StatusIn(attempts, a.attempt_number) = a.status
<1> DEFINE b == CHOOSE x \in attempts : x.attempt_number = a.attempt_number
<1>1. b \in attempts /\ b.attempt_number = a.attempt_number
  OBVIOUS
<1>2. b = a
  BY <1>1 DEF NumberedTo
<1>3. QED
  BY <1>2 DEF StatusIn

(* The history is a sequence of results, as long as there are attempts.    *)
LEMMA HistoryIsSeq ==
    ASSUME NEW attempts \in SUBSET AttemptRow, NEW k \in Nat,
           NumberedTo(attempts, k)
    PROVE  /\ HistoryIn(attempts, k) \in Seq(DeliveryStatus)
           /\ Len(HistoryIn(attempts, k)) = k
           /\ \A i \in 1..k : HistoryIn(attempts, k)[i] = StatusIn(attempts, i)
<1>1. ASSUME NEW i \in 1..k PROVE StatusIn(attempts, i) \in DeliveryStatus
  <2>1. PICK a \in attempts : a.attempt_number = i
    BY DEF NumberedTo
  <2>2. a.status \in DeliveryStatus
    BY DEF AttemptRow
  <2>3. QED
    BY <2>1, <2>2, StatusIsRecorded
<1>2. HistoryIn(attempts, k) = [i \in 1..k |-> StatusIn(attempts, i)]
  BY DEF HistoryIn
<1>3. HistoryIn(attempts, k) \in [1..k -> DeliveryStatus]
  BY <1>1, <1>2
<1>4. HistoryIn(attempts, k) \in Seq(DeliveryStatus)
  BY <1>3, SeqDef
<1>5. Len(HistoryIn(attempts, k)) = k
  BY <1>3, <1>4
<1>6. QED
  BY <1>2, <1>4, <1>5

(* One more attempt row, with the next number, appends its status.         *)
LEMMA HistoryGrows ==
    ASSUME NEW attempts \in SUBSET AttemptRow, NEW k \in Nat,
           NEW new \in AttemptRow, new.attempt_number = k + 1,
           NumberedTo(attempts, k), NumberedTo(attempts \cup {new}, k + 1)
    PROVE  HistoryIn(attempts \cup {new}, k + 1) =
              Append(HistoryIn(attempts, k), new.status)
<1> DEFINE grown == attempts \cup {new}
           before == HistoryIn(attempts, k)
           after == HistoryIn(grown, k + 1)
<1>1. /\ before \in Seq(DeliveryStatus) /\ Len(before) = k
      /\ \A i \in 1..k : before[i] = StatusIn(attempts, i)
  BY HistoryIsSeq
<1>2. /\ grown \in SUBSET AttemptRow /\ k + 1 \in Nat
      /\ NumberedTo(grown, k + 1)
      /\ new \in grown /\ attempts \subseteq grown
  OBVIOUS
<1>3. {a.attempt_number : a \in attempts} = 1..k
  BY DEF NumberedTo
<1> HIDE DEF grown
<1>4. /\ after \in Seq(DeliveryStatus) /\ Len(after) = k + 1
      /\ \A i \in 1..(k + 1) : after[i] = StatusIn(grown, i)
  BY <1>2, HistoryIsSeq
<1>5. ASSUME NEW i \in 1..k PROVE StatusIn(grown, i) = StatusIn(attempts, i)
  <2>1. PICK a \in attempts : a.attempt_number = i
    BY <1>3
  <2>2. StatusIn(attempts, i) = a.status /\ StatusIn(grown, i) = a.status
    BY <1>2, <2>1, StatusIsRecorded
  <2>3. QED
    BY <2>2
<1>6. StatusIn(grown, k + 1) = new.status /\ new.status \in DeliveryStatus
  BY <1>2, StatusIsRecorded DEF AttemptRow
<1> HIDE DEF before, after
<1> DEFINE appended == Append(before, new.status)
<1>7. /\ appended \in Seq(DeliveryStatus) /\ Len(appended) = Len(before) + 1
      /\ \A i \in 1..Len(before) : appended[i] = before[i]
      /\ appended[Len(before) + 1] = new.status
  BY <1>1, <1>6, AppendProperties
<1> HIDE DEF appended
<1>8. ASSUME NEW i \in 1..(k + 1) PROVE after[i] = appended[i]
  <2>1. CASE i \in 1..k
    BY <1>1, <1>4, <1>5, <1>7, <2>1
  <2>2. CASE i = k + 1
    BY <1>1, <1>4, <1>6, <1>7, <2>2
  <2>3. QED
    BY <2>1, <2>2
<1>9. after = appended
  BY <1>1, <1>4, <1>7, <1>8, SeqEqual
<1>10. QED
  BY <1>9 DEF after, appended, before, grown

-----------------------------------------------------------------------------
(* The steps.                                                              *)

\* The two variables of the ledger, as state functions of the engine.
phaseMap == [n \in Notification |-> PhaseOf(n)]
historyMap == [n \in Notification |-> HistoryOf(n)]

(* What the ledger's actions are under the mapping.                        *)
LEMMA MappedActions ==
    /\ \A n \in Notification :
         phaseMap[n] = "unknown" /\ phaseMap' = [phaseMap EXCEPT ![n] = "open"]
            /\ historyMap' = historyMap
         => Ledger!Accept(n)
    /\ \A n \in Notification, result \in DeliveryStatus :
         /\ phaseMap[n] # "unknown" /\ Len(historyMap[n]) < MaxAttempts
         /\ phaseMap[n] = "sent" => result = "success"
         /\ historyMap' = [historyMap EXCEPT ![n] = Append(@, result)]
         /\ phaseMap' = [phaseMap EXCEPT ![n] =
                            Ledger!PhaseAfter(result, Len(historyMap[n]) + 1)]
         => Ledger!Enter(n, result)
    /\ \A S \in SUBSET Notification :
         /\ S # {} /\ \A n \in S : phaseMap[n] = "waiting"
         /\ phaseMap' = [n \in Notification |->
                            IF n \in S THEN "retrying" ELSE phaseMap[n]]
         /\ historyMap' = historyMap
         => Ledger!Retry(S)
    /\ phaseMap' = phaseMap /\ historyMap' = historyMap
         => UNCHANGED Ledger!ledgerVars
  BY DEF phaseMap, historyMap, PhaseOf, HistoryOf, Ledger!Accept, Ledger!Enter,
         Ledger!Retry, Ledger!ledgerVars

(* The phase of a well-typed row.                                          *)
LEMMA PhaseCases ==
    ASSUME NEW row \in Row
    PROVE  /\ row.state = "none" => RowPhase(row) = "unknown"
           /\ row.state = "created" => RowPhase(row) = "open"
           /\ row.state = "queued" /\ row.next_retry_at = "null"
                 => RowPhase(row) = "open"
           /\ row.state = "queued" /\ row.next_retry_at # "null"
                 => RowPhase(row) = "waiting"
           /\ row.state = "processing" => RowPhase(row) = "retrying"
           /\ row.state = "sent" => RowPhase(row) = "sent"
           /\ row.state = "failed" => RowPhase(row) = "failed"
           /\ RowPhase(row) = "unknown" => row.state = "none"
           /\ RowPhase(row) = "sent" => row.state = "sent"
  BY DEF RowPhase, Terminal, Row, State

(* A step that leaves every phase and every attempt alone stutters.        *)
LEMMA StutterStep ==
    ASSUME \A n \in Notification :
              /\ PhaseOf(n)' = PhaseOf(n)
              /\ AttemptsOf(n)' = AttemptsOf(n)
              /\ notifications'[n].attempt_count = notifications[n].attempt_count
    PROVE  UNCHANGED Ledger!ledgerVars
<1>1. \A n \in Notification : HistoryOf(n)' = HistoryOf(n)
  BY HistoryIsIn
<1>2. phaseMap' = phaseMap /\ historyMap' = historyMap
  BY <1>1 DEF phaseMap, historyMap
<1>3. QED
  BY <1>2, MappedActions

(* submit_notification accepts the notification.                           *)
LEMMA SubmitAccepts ==
    ASSUME Inv, NEW n \in Notification, Submit(n)
    PROVE  Ledger!Accept(n)
<1>1. /\ StoreTypeOK /\ notifications[n].state = "none"
      /\ \A m \in Notification : notifications[m] \in Row
      /\ notifications[n].attempt_count = 0
  BY DEF Inv, EngineTypeOK, StoreTypeOK, NothingBeforeCommit, Submit,
         HistoryExplainsState, Explained, Untried
<1>2. /\ notifications'[n] = create_notification
      /\ \A m \in Notification \ {n} : notifications'[m] = notifications[m]
      /\ delivery_attempts' = delivery_attempts
  BY <1>1 DEF Submit, UpdateRow, StoreTypeOK
<1>3. /\ create_notification \in Row /\ create_notification.state = "created"
      /\ create_notification.attempt_count = 0
  BY DEF create_notification, NoRow, Row, State, RetryTime
<1>4. PhaseOf(n) = "unknown" /\ PhaseOf(n)' = "open"
  BY <1>1, <1>2, <1>3, PhaseCases DEF PhaseOf
<1>5. \A m \in Notification \ {n} : PhaseOf(m)' = PhaseOf(m)
  BY <1>2 DEF PhaseOf
<1>6. \A m \in Notification : HistoryOf(m)' = HistoryOf(m)
  <2>1. \A m \in Notification : AttemptsOf(m)' = AttemptsOf(m)
    BY <1>2 DEF AttemptsOf
  <2>2. \A m \in Notification :
           notifications'[m].attempt_count = notifications[m].attempt_count
    BY <1>1, <1>2, <1>3
  <2>3. QED
    BY <2>1, <2>2, HistoryIsIn
<1>7. /\ phaseMap[n] = "unknown"
      /\ phaseMap' = [phaseMap EXCEPT ![n] = "open"]
      /\ historyMap' = historyMap
  BY <1>4, <1>5, <1>6 DEF phaseMap, historyMap
<1>8. QED
  BY <1>7, MappedActions

(* mark_queued and the clock move a row within its phase.                  *)
LEMMA MarkQueuedStutters ==
    ASSUME Inv, NEW n \in Notification, MarkQueued(n)
    PROVE  UNCHANGED Ledger!ledgerVars
<1>1. StoreTypeOK /\ notifications[n] \in Row /\ Explained(n)
  BY DEF Inv, EngineTypeOK, StoreTypeOK, HistoryExplainsState
<1>2. /\ notifications'[n] = mark_queued(notifications[n])
      /\ \A m \in Notification \ {n} : notifications'[m] = notifications[m]
      /\ delivery_attempts' = delivery_attempts
  BY <1>1 DEF MarkQueued, UpdateRow, StoreTypeOK
<1>3. /\ mark_queued(notifications[n]) \in Row
      /\ mark_queued(notifications[n]).attempt_count = notifications[n].attempt_count
      /\ mark_queued(notifications[n]).next_retry_at = notifications[n].next_retry_at
      /\ IF notifications[n].state = "created"
         THEN mark_queued(notifications[n]).state = "queued"
         ELSE mark_queued(notifications[n]) = notifications[n]
  BY <1>1 DEF mark_queued, Row, State
<1>4. notifications[n].state = "created" => notifications[n].next_retry_at = "null"
  BY <1>1 DEF Explained
<1>5. PhaseOf(n)' = PhaseOf(n)
  BY <1>1, <1>2, <1>3, <1>4, PhaseCases DEF PhaseOf
<1>6. \A m \in Notification :
         /\ PhaseOf(m)' = PhaseOf(m)
         /\ AttemptsOf(m)' = AttemptsOf(m)
         /\ notifications'[m].attempt_count = notifications[m].attempt_count
  BY <1>2, <1>3, <1>5 DEF PhaseOf, AttemptsOf
<1>7. QED
  BY <1>6, StutterStep

LEMMA TimePassesStutters ==
    ASSUME Inv, NEW n \in Notification, TimePasses(n)
    PROVE  UNCHANGED Ledger!ledgerVars
<1> DEFINE row == [notifications[n] EXCEPT !.next_retry_at = "due"]
<1>1. StoreTypeOK /\ notifications[n] \in Row /\ Explained(n)
  BY DEF Inv, EngineTypeOK, StoreTypeOK, HistoryExplainsState
<1>2. /\ notifications'[n] = row /\ notifications[n].next_retry_at = "later"
      /\ \A m \in Notification \ {n} : notifications'[m] = notifications[m]
      /\ delivery_attempts' = delivery_attempts
  BY <1>1 DEF TimePasses, RetryTimeArrives, UpdateRow, StoreTypeOK
<1>3. /\ row \in Row /\ row.state = notifications[n].state
      /\ row.attempt_count = notifications[n].attempt_count
      /\ row.next_retry_at = "due"
  BY <1>1 DEF Row, RetryTime
<1> HIDE DEF row
<1>4. notifications[n].state = "queued"
  BY <1>1, <1>2 DEF Explained, ConstraintsHold
<1>5. PhaseOf(n) = "waiting" /\ PhaseOf(n)' = "waiting"
  BY <1>1, <1>2, <1>3, <1>4, PhaseCases DEF PhaseOf
<1>6. \A m \in Notification :
         /\ PhaseOf(m)' = PhaseOf(m)
         /\ AttemptsOf(m)' = AttemptsOf(m)
         /\ notifications'[m].attempt_count = notifications[m].attempt_count
  BY <1>2, <1>3, <1>5 DEF PhaseOf, AttemptsOf
<1>7. QED
  BY <1>6, StutterStep

(* A claim takes up the notifications it selects, all of them waiting.     *)
LEMMA ClaimRetries ==
    ASSUME Inv, NEW s \in Scheduler, Claim(s)
    PROVE  \E S \in SUBSET Notification : Ledger!Retry(S)
<1>1. PICK S \in (SUBSET Due) \ {{}} : ClaimRows(S)
  BY DEF Claim
<1>2. S \in SUBSET Notification /\ S # {}
  BY DEF Due
<1>3. \A n \in Notification : notifications[n] \in Row
  BY DEF Inv, EngineTypeOK, StoreTypeOK
<1>4. \A n \in S : notifications[n].state = "queued"
                   /\ notifications[n].next_retry_at = "due"
  BY DEF Due, IsDue
<1>5. /\ \A n \in Notification :
            notifications'[n] = IF n \in S THEN claim(notifications[n])
                                ELSE notifications[n]
      /\ delivery_attempts' = delivery_attempts
  BY <1>1 DEF ClaimRows
<1>6. \A n \in Notification :
         /\ claim(notifications[n]) \in Row
         /\ claim(notifications[n]).state = "processing"
         /\ claim(notifications[n]).attempt_count = notifications[n].attempt_count
  BY <1>3 DEF claim, Row, State, RetryTime
<1>7. \A n \in S : PhaseOf(n) = "waiting"
  BY <1>2, <1>3, <1>4, PhaseCases DEF PhaseOf
<1>8. \A n \in Notification :
         PhaseOf(n)' = IF n \in S THEN "retrying" ELSE PhaseOf(n)
  BY <1>5, <1>6, PhaseCases DEF PhaseOf
<1>9. \A n \in Notification : HistoryOf(n)' = HistoryOf(n)
  <2>1. \A n \in Notification : AttemptsOf(n)' = AttemptsOf(n)
    BY <1>5 DEF AttemptsOf
  <2>2. \A n \in Notification :
           notifications'[n].attempt_count = notifications[n].attempt_count
    BY <1>5, <1>6
  <2>3. QED
    BY <2>1, <2>2, HistoryIsIn
<1>10. /\ \A n \in S : phaseMap[n] = "waiting"
       /\ phaseMap' = [n \in Notification |->
                          IF n \in S THEN "retrying" ELSE phaseMap[n]]
       /\ historyMap' = historyMap
  BY <1>2, <1>7, <1>8, <1>9 DEF phaseMap, historyMap
<1>11. QED
  BY <1>2, <1>10, MappedActions

(* A committed transaction of persist_delivery_result enters one result.   *)
LEMMA CommitEnters ==
    ASSUME Inv, Inv', NEW n \in Notification, NEW status \in DeliveryStatus,
           NEW at \in {"later", "due"}, PersistCommits(n, status, at),
           notifications[n].state # "none",
           notifications[n].state = "sent" => status = "success"
    PROVE  Ledger!Enter(n, status)
<1> DEFINE k == notifications[n].attempt_count
           row == increment_attempt_count(notifications[n])
           new == [notification_id |-> n, attempt_number |-> k + 1,
                   status |-> status]
<1>1. /\ StoreTypeOK /\ StoreTypeOK' /\ notifications[n] \in Row /\ k \in Nat
      /\ Numbered(n) /\ Numbered(n)'
  BY DEF Inv, EngineTypeOK, StoreTypeOK, HistoryExplainsState, Row
<1>2. /\ notifications'[n] = RecordedRow(row, status, at)
      /\ notifications'[n].attempt_count = k + 1
      /\ AttemptsOf(n)' = AttemptsOf(n) \cup {new}
      /\ \A m \in Notification \ {n} :
            notifications'[m] = notifications[m] /\ AttemptsOf(m)' = AttemptsOf(m)
  BY <1>1, PersistWrites
<1>3. row \in Row /\ row.attempt_count = k + 1 /\ k + 1 <= MaxAttempts
  <2>1. row \in Row /\ row.attempt_count = k + 1
    BY <1>1, StatementTypes DEF increment_attempt_count, Row, RetryTime
  <2>2. QED
    BY <2>1 DEF PersistCommits, Committable, ConstraintsHold
<1>4. new \in AttemptRow /\ new.attempt_number = k + 1 /\ new.status = status
  BY <1>1 DEF AttemptRow
<1>5. /\ AttemptsOf(n) \in SUBSET AttemptRow
      /\ NumberedTo(AttemptsOf(n), k)
      /\ NumberedTo(AttemptsOf(n) \cup {new}, k + 1)
  <2>1. AttemptsOf(n) \in SUBSET AttemptRow
    BY <1>1 DEF StoreTypeOK, AttemptsOf
  <2>2. NumberedTo(AttemptsOf(n), k)
    BY <1>1 DEF Numbered, NumberedTo
  <2>3. NumberedTo(AttemptsOf(n)', notifications'[n].attempt_count)
    BY <1>1 DEF Numbered, NumberedTo
  <2>4. QED
    BY <1>2, <2>1, <2>2, <2>3
<1> HIDE DEF new, row, k
<1>6. HistoryOf(n)' = Append(HistoryOf(n), status) /\ Len(HistoryOf(n)) = k
  <2>1. /\ HistoryOf(n) = HistoryIn(AttemptsOf(n), k)
        /\ HistoryOf(n)' = HistoryIn(AttemptsOf(n) \cup {new}, k + 1)
    BY <1>2, HistoryIsIn DEF k
  <2>2. k \in Nat
    BY <1>1
  <2>3. HistoryIn(AttemptsOf(n) \cup {new}, k + 1) =
           Append(HistoryIn(AttemptsOf(n), k), new.status)
    BY <1>4, <1>5, <2>2, HistoryGrows
  <2>4. Len(HistoryIn(AttemptsOf(n), k)) = k
    BY <1>5, <2>2, HistoryIsSeq
  <2>5. QED
    BY <1>4, <2>1, <2>3, <2>4
<1>7. \A m \in Notification \ {n} :
         PhaseOf(m)' = PhaseOf(m) /\ HistoryOf(m)' = HistoryOf(m)
  BY <1>2, HistoryIsIn DEF PhaseOf
<1>8. PhaseOf(n)' = Ledger!PhaseAfter(status, k + 1)
  <2>1. /\ notifications'[n] \in Row
        /\ \/ status = "success" /\ notifications'[n].state = "sent"
           \/ /\ \/ status = "permanent_failure"
                 \/ status = "temporary_failure" /\ k + 1 >= MaxAttempts
              /\ notifications'[n].state = "failed"
           \/ /\ status = "temporary_failure" /\ ~(k + 1 >= MaxAttempts)
              /\ notifications'[n].state = "queued"
              /\ notifications'[n].next_retry_at # "null"
    <3>1. /\ mark_sent(row).state = "sent" /\ mark_failed(row).state = "failed"
          /\ schedule_retry(row, at).state = "queued"
          /\ schedule_retry(row, at).next_retry_at = at
      BY <1>3 DEF mark_sent, mark_failed, schedule_retry, Row
    <3>2. notifications'[n] \in Row
      BY <1>1 DEF StoreTypeOK
    <3>3. QED
      BY <1>2, <1>3, <3>1, <3>2 DEF RecordedRow, DeliveryStatus
  <2>2. QED
    BY <2>1, PhaseCases DEF PhaseOf, Ledger!PhaseAfter
<1>9. PhaseOf(n) # "unknown" /\ (PhaseOf(n) = "sent" => status = "success")
  BY <1>1, PhaseCases DEF PhaseOf
<1>10. k < MaxAttempts
  BY <1>1, <1>3, MaxAttemptsAssumption
<1>11. /\ phaseMap[n] # "unknown" /\ Len(historyMap[n]) < MaxAttempts
       /\ phaseMap[n] = "sent" => status = "success"
       /\ historyMap' = [historyMap EXCEPT ![n] = Append(@, status)]
       /\ phaseMap' = [phaseMap EXCEPT ![n] =
                          Ledger!PhaseAfter(status, Len(historyMap[n]) + 1)]
  BY <1>6, <1>7, <1>8, <1>9, <1>10 DEF phaseMap, historyMap
<1>12. QED
  BY <1>11, MappedActions

LEMMA PersistRefines ==
    ASSUME Inv, Inv', ExistsOnceSubmitted, [Next]_vars, NEW w \in Worker, Persist(w)
    PROVE  \/ \E n \in Notification, result \in DeliveryStatus : Ledger!Enter(n, result)
           \/ UNCHANGED Ledger!ledgerVars
<1> DEFINE n == worker[w].notification_id
           status == worker[w].status
<1>1. EngineTypeOK /\ worker[w] # Idle
  BY DEF Inv, Persist
<1>2. n \in Notification /\ status \in DeliveryStatus
  BY <1>1, RunningTask
<1>3. PICK at \in {"later", "due"} :
         PersistCommits(n, status, at) \/ PersistRollsBack(n, status, at)
  BY DEF Persist
<1>4. CASE PersistCommits(n, status, at)
  <2>1. notifications[n].state # "none"
    BY <1>1, TasksHaveRows
  <2>2. notifications[n].state = "sent" => status = "success"
    <3> SUFFICES ASSUME notifications[n].state = "sent" PROVE status = "success"
      OBVIOUS
    <3> DEFINE number == increment_attempt_count(notifications[n]).attempt_count
               new == [notification_id |-> n, attempt_number |-> number,
                       status |-> status]
    <3>1. new \in delivery_attempts'
      BY <1>4 DEF PersistCommits
    <3>2. new.notification_id = n /\ new.attempt_number = number /\ new.status = status
      OBVIOUS
    <3>3. new \notin delivery_attempts
      BY <1>4, <3>2 DEF PersistCommits, Committable, AttemptIsUnique
    <3> HIDE DEF new
    <3>4. QED
      BY <1>2, <3>1, <3>2, <3>3, SentStep
  <2>3. QED
    BY <1>2, <1>4, <2>1, <2>2, CommitEnters
<1>5. CASE PersistRollsBack(n, status, at)
  <2>1. \A m \in Notification :
           /\ PhaseOf(m)' = PhaseOf(m)
           /\ AttemptsOf(m)' = AttemptsOf(m)
           /\ notifications'[m].attempt_count = notifications[m].attempt_count
    BY <1>5 DEF PersistRollsBack, storeVars, PhaseOf, AttemptsOf
  <2>2. QED
    BY <2>1, StutterStep
<1>6. QED
  BY <1>3, <1>4, <1>5

LEMMA StepsRefine ==
    Inv /\ Inv' /\ ExistsOnceSubmitted /\ [Next]_vars
       => [Ledger!LedgerNext]_(Ledger!ledgerVars)
<1> SUFFICES ASSUME Inv, Inv', ExistsOnceSubmitted, [Next]_vars
             PROVE  Ledger!LedgerNext \/ UNCHANGED Ledger!ledgerVars
  OBVIOUS
<1>1. CASE UNCHANGED storeVars
  <2>1. \A m \in Notification :
           /\ PhaseOf(m)' = PhaseOf(m)
           /\ AttemptsOf(m)' = AttemptsOf(m)
           /\ notifications'[m].attempt_count = notifications[m].attempt_count
    BY <1>1 DEF storeVars, PhaseOf, AttemptsOf
  <2>2. QED
    BY <2>1, StutterStep
<1>2. ASSUME NEW n \in Notification, Submit(n) PROVE Ledger!LedgerNext
  BY <1>2, SubmitAccepts DEF Ledger!LedgerNext
<1>3. ASSUME NEW n \in Notification, MarkQueued(n) \/ TimePasses(n)
      PROVE  UNCHANGED Ledger!ledgerVars
  BY <1>3, MarkQueuedStutters, TimePassesStutters
<1>4. ASSUME NEW w \in Worker, Persist(w)
      PROVE  Ledger!LedgerNext \/ UNCHANGED Ledger!ledgerVars
  BY <1>4, PersistRefines DEF Ledger!LedgerNext, Ledger!Result, DeliveryStatus
<1>5. ASSUME NEW s \in Scheduler, Claim(s) PROVE Ledger!LedgerNext
  BY <1>5, ClaimRetries DEF Ledger!LedgerNext
<1>6. QED
  BY <1>1, <1>2, <1>3, <1>4, <1>5
  DEF Next, vars, ApiStep, WorkerStep, SchedulerStep, Enqueue, HandlerFails,
      HandlerCrash, Replay, LoseMessage, Reserve, Load, Send, Ack, TaskFails,
      WorkerCrash, Redeliver, EnqueueClaimed, SchedulerFails

LEMMA InitRefines == Init => Ledger!LedgerInit
<1> SUFFICES ASSUME Init PROVE Ledger!LedgerInit
  OBVIOUS
<1>1. \A n \in Notification : notifications[n] = NoRow
  BY DEF Init, StoreInit
<1>2. NoRow.attempt_count = 0 /\ RowPhase(NoRow) = "unknown"
  BY DEF NoRow, RowPhase, Terminal
<1>3. \A n \in Notification : PhaseOf(n) = "unknown"
  BY <1>1, <1>2 DEF PhaseOf
<1>4. \A n \in Notification : HistoryOf(n) = << >>
  BY <1>1, <1>2 DEF HistoryOf
<1>5. QED
  BY <1>3, <1>4 DEF Ledger!LedgerInit, PhaseOf, HistoryOf

(* An observer of the two tables sees the ledger, whatever workers, broker *)
(* and faults do: attempts are entered one at a time and never change, the *)
(* newest one decides the phase, none is entered beyond max_attempts, and  *)
(* a sent notification takes up nothing but further successes.             *)
THEOREM EngineImplementsLedger == Spec => ImplementsLedger
<1>1. Init => ExistsOnceSubmitted
  BY DEF Init, ExistsOnceSubmitted
<1>2. Spec => []ExistsOnceSubmitted
  BY <1>1, ExistsStep, Invariance, PTL DEF Spec
<1>3. QED
  BY <1>2, InitRefines, StepsRefine, Invariance, PTL
  DEF Spec, ImplementsLedger, Ledger!LedgerSpec
==============================================================================
