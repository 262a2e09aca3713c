------------------------------ MODULE LoginCodes ------------------------------
(***************************************************************************)
(* Codes for signing in.  request_login_otp closes its transaction after   *)
(* reading the user, so its DELETE and its INSERT commit one by one, and   *)
(* created_at is the time at which the INSERT started, whatever it waited  *)
(* for.  Grant is authenticate_account's create_session.                   *)
(***************************************************************************)
EXTENDS OneTimeCodes

\* The DELETE starts, with the row it sees.
AskLogin(q) ==
    /\ request[q] = None
    /\ request' = [request EXCEPT ![q] =
          [pc |-> "deleting", started |-> 0, target |-> RowNow]]
    /\ UNCHANGED <<otp, lock, clock, verify>>

\* a faulty variant: DELETE ... AND consumed_at IS NULL
DeleteUnconsumed(q) ==
    /\ RequestAt(q, "deleting")
    /\ request[q].target # None => lock = None
    /\ otp' = IF request[q].target # None /\ StillThere(request[q].target)
                 /\ Unconsumed
              THEN None ELSE otp
    /\ RequestGoto(q, "deleted")
    /\ UNCHANGED <<lock, clock, verify>>

\* delete_login_otp waits for the row lock; it also deletes a consumed row.
DeleteCode(q) ==
    /\ RequestAt(q, "deleting")
    /\ request[q].target # None => lock = None
    /\ otp' = IF request[q].target # None /\ StillThere(request[q].target)
              THEN None ELSE otp
    /\ RequestGoto(q, "deleted")
    /\ UNCHANGED <<lock, clock, verify>>

\* create_login_otp starts.  It is a transaction of its own: its NOW() is now.
StartInsert(q) ==
    /\ RequestAt(q, "deleted")
    /\ request' = [request EXCEPT ![q].pc = "inserting", ![q].started = clock]
    /\ clock' = clock + 1
    /\ UNCHANGED <<otp, lock, verify>>

\* Under uq_user_id it waits for a verification that has changed the row;
\* a row that stays means 409.
InsertCode(q) ==
    /\ RequestAt(q, "inserting")
    /\ lock = None
    /\ IF otp # None THEN RequestGoto(q, "conflict") /\ UNCHANGED otp
       ELSE /\ otp' = [code |-> q, created_at |-> request[q].started,
                       expired |-> FALSE, consumed_by |-> None]
            /\ RequestGoto(q, "issued")
    /\ UNCHANGED <<lock, clock, verify>>

\* The process dies or a statement fails; what committed stays.
FailLogin(q) ==
    /\ \E pc \in {"deleting", "deleted", "inserting"} : RequestAt(q, pc)
    /\ request' = [request EXCEPT ![q].pc = "error",
          ![q].target = IF RequestAt(q, "deleting") THEN None ELSE @]
    /\ UNCHANGED <<otp, lock, clock, verify>>

RequestStep(q) == DeleteCode(q) \/ StartInsert(q) \/ InsertCode(q)

Next == \/ \E q \in Request : AskLogin(q) \/ RequestStep(q) \/ FailLogin(q)
        \/ \E v \in Verify : VerifyNext(v)
        \/ ExpireCode

Spec == CodesInit /\ [][Next]_codeVars

=============================================================================
