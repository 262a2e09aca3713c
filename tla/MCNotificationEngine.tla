------------------------- MODULE MCNotificationEngine -------------------------
(***************************************************************************)
(* Small instances of NotificationEngine.  A fault budget names how often  *)
(* each kind of fault may happen in a behaviour.                           *)
(***************************************************************************)
EXTENDS NotificationRefinement, TLC

\* every kind of fault, once
EachFaultOnce == [k \in FaultKind |-> 1]

\* a redelivery and a scheduler that dies
RedeliveryAndScheduler ==
    [k \in FaultKind |-> IF k \in {"redelivery", "scheduler"} THEN 1 ELSE 0]

\* one request whose enqueue fails
OneApiFault == [k \in FaultKind |-> IF k = "api" THEN 1 ELSE 0]
=============================================================================
