----------------------------- MODULE OneTimeCodes -----------------------------
(***************************************************************************)
(* One row of login_otp or registration_otp, and the verifications that    *)
(* consume it: authenticate_account and verify_registration_otp differ in  *)
(* the table, the key and what they grant, not in their steps.  How codes  *)
(* are issued differs and is added by LoginCodes and RegistrationCodes.    *)
(*                                                                         *)
(* Transactions are READ COMMITTED.  NOW() is the start of a transaction,  *)
(* taken from a logical clock; equal timestamps do not occur.  A code is   *)
(* named by the request that issued it (two random codes that happen to be *)
(* equal are not modelled), and stands for its hash.                       *)
(***************************************************************************)
EXTENDS Naturals, FiniteSets

CONSTANTS Request,      \* calls that issue a code
          Verify,       \* calls that present one
          None

VerifyPc == {"begun", "matched", "updating", "consumed",
             "granted", "refused", "expired", "error"}
RequestPc == {"begun", "replacing", "deleting", "deleted", "inserting",
              "inserted", "issued", "conflict", "error"}

Otp == [code : Request, created_at : Nat, expired : BOOLEAN,
        consumed_by : Verify \cup {None}]     \* None: consumed_at IS NULL
VerifyCall == [pc : VerifyPc, code : Request, started : Nat,
               target : Request \cup {None}]
RequestCall == [pc : RequestPc, started : Nat, target : Request \cup {None}]

ASSUME CodeAssumption ==
    /\ Request \cap Verify = {}
    /\ None \notin Request \cup Verify
    /\ None \notin Otp \cup VerifyCall \cup RequestCall

VARIABLES otp,        \* the committed row of the user or email, or None
          lock,       \* the call whose open transaction changed the row
          clock,      \* the time
          verify,     \* verify[v]: a verification and its transaction
          request     \* request[q]: a request for a code

codeVars == <<otp, lock, clock, verify, request>>

CodesTypeOK ==
    /\ otp \in Otp \cup {None}
    /\ lock \in Request \cup Verify \cup {None}
    /\ clock \in Nat
    /\ verify \in [Verify -> VerifyCall \cup {None}]
    /\ request \in [Request -> RequestCall \cup {None}]

CodesInit ==
    /\ otp = None
    /\ lock = None
    /\ clock = 0
    /\ verify = [v \in Verify |-> None]
    /\ request = [q \in Request |-> None]

VerifyAt(v, pc) == verify[v] # None /\ verify[v].pc = pc
RequestAt(q, pc) == request[q] # None /\ request[q].pc = pc

VerifyGoto(v, pc) == verify' = [verify EXCEPT ![v].pc = pc]
RequestGoto(q, pc) == request' = [request EXCEPT ![q].pc = pc]

Release(p) == lock' = IF lock = p THEN None ELSE lock

Unconsumed == otp # None /\ otp.consumed_by = None

\* The row an UPDATE or DELETE statement that starts now will work on.
RowNow == IF otp = None THEN None ELSE otp.code

\* The row that statement found is still there once its lock is free.
StillThere(target) == otp # None /\ otp.code = target

-----------------------------------------------------------------------------

\* A code is sent out after its INSERT, in registration before the commit.
Present(v, code) ==
    /\ verify[v] = None
    /\ RequestAt(code, "inserted") \/ RequestAt(code, "issued")
    /\ verify' = [verify EXCEPT ![v] =
          [pc |-> "begun", code |-> code, started |-> clock, target |-> None]]
    /\ clock' = clock + 1
    /\ UNCHANGED <<otp, lock, request>>

\* The SELECT and the checks of the row it returned.  The DELETE of an
\* expired row is rolled back by the exception that follows it.
Check(v) ==
    /\ VerifyAt(v, "begun")
    /\ VerifyGoto(v, IF ~Unconsumed THEN "refused"
                     ELSE IF otp.expired THEN "expired"
                     ELSE IF otp.code # verify[v].code THEN "refused"
                     ELSE "matched")
    /\ UNCHANGED <<otp, lock, clock, request>>

\* UPDATE ... SET consumed_at = NOW() WHERE ... consumed_at IS NULL starts
\* with the row it sees then, which need not be the one checked before.
StartConsume(v) ==
    /\ VerifyAt(v, "matched")
    /\ verify' = [verify EXCEPT ![v].pc = "updating",
                     ![v].target = IF Unconsumed THEN RowNow ELSE None]
    /\ UNCHANGED <<otp, lock, clock, request>>

\* a faulty variant: no chk_consumed_after_creation
ConsumeUnchecked(v) ==
    /\ VerifyAt(v, "updating")
    /\ IF verify[v].target = None THEN VerifyGoto(v, "refused") /\ UNCHANGED lock
       ELSE /\ lock = None
            /\ IF ~(StillThere(verify[v].target) /\ Unconsumed)
               THEN VerifyGoto(v, "refused") /\ UNCHANGED lock
               ELSE VerifyGoto(v, "consumed") /\ lock' = v
    /\ UNCHANGED <<otp, clock, request>>

\* a faulty variant: no AND consumed_at IS NULL in the UPDATE
ConsumeAgain(v) ==
    /\ VerifyAt(v, "updating")
    /\ IF verify[v].target = None THEN VerifyGoto(v, "refused") /\ UNCHANGED lock
       ELSE /\ lock = None
            /\ IF ~StillThere(verify[v].target)
               THEN VerifyGoto(v, "refused") /\ UNCHANGED lock
               ELSE IF verify[v].started < otp.created_at
               THEN VerifyGoto(v, "error") /\ UNCHANGED lock
               ELSE VerifyGoto(v, "consumed") /\ lock' = v
    /\ UNCHANGED <<otp, clock, request>>

\* It waits for the row lock, rechecks the row, and must satisfy
\* chk_consumed_after_creation.
Consume(v) ==
    /\ VerifyAt(v, "updating")
    /\ IF verify[v].target = None THEN VerifyGoto(v, "refused") /\ UNCHANGED lock
       ELSE /\ lock = None
            /\ IF ~(StillThere(verify[v].target) /\ Unconsumed)
               THEN VerifyGoto(v, "refused") /\ UNCHANGED lock
               ELSE IF verify[v].started < otp.created_at
               THEN VerifyGoto(v, "error") /\ UNCHANGED lock
               ELSE VerifyGoto(v, "consumed") /\ lock' = v
    /\ UNCHANGED <<otp, clock, request>>

\* The session or registration token is made and the transaction commits.
Grant(v) ==
    /\ VerifyAt(v, "consumed")
    /\ otp' = [otp EXCEPT !.consumed_by = v]
    /\ VerifyGoto(v, "granted")
    /\ Release(v)
    /\ UNCHANGED <<clock, request>>

\* a faulty variant: the failed transaction is left open
FailVerifyKeepsLock(v) ==
    /\ \E pc \in {"begun", "matched", "updating", "consumed"} : VerifyAt(v, pc)
    /\ VerifyGoto(v, "error")
    /\ UNCHANGED <<otp, lock, clock, request>>

\* A statement or the connection fails: the transaction is rolled back.
FailVerify(v) ==
    /\ \E pc \in {"begun", "matched", "updating", "consumed"} : VerifyAt(v, pc)
    /\ VerifyGoto(v, "error")
    /\ Release(v)
    /\ UNCHANGED <<otp, clock, request>>

\* OTP_EXPIRY_MINUTES pass.
ExpireCode ==
    /\ otp # None /\ ~otp.expired
    /\ otp' = [otp EXCEPT !.expired = TRUE]
    /\ UNCHANGED <<lock, clock, verify, request>>

VerifyStep(v) == Check(v) \/ StartConsume(v) \/ Consume(v) \/ Grant(v)

VerifyNext(v) == (\E code \in Request : Present(v, code))
                 \/ VerifyStep(v) \/ FailVerify(v)

-----------------------------------------------------------------------------
(* What the two flows promise.                                             *)

Granted == {v \in Verify : VerifyAt(v, "granted")}

(* Every grant has used up an issued code of its own, whichever code it    *)
(* presented: racing verifications and requests never get more sessions,   *)
(* or registration tokens, out of the codes than codes were issued         *)
(* (consume_login_otp, consume_registration_otp, uq_user_id, uq_email).    *)
GrantsHaveCodes ==
    Cardinality(Granted) + Cardinality({u \in {otp} : Unconsumed})
    <= Cardinality({q \in Request : RequestAt(q, "issued")})

Ended(v) == \E pc \in {"granted", "refused", "expired", "error"} : VerifyAt(v, pc)

RequestEnded(q) == \E pc \in {"issued", "conflict", "error"} : RequestAt(q, pc)

(* No call waits forever for the row of another one.  There are finitely   *)
(* many calls and an ended one stays ended, so that is to say that some    *)
(* time all that have begun have ended.                                    *)
EveryCallEnds ==
    <>[](/\ \A v \in Verify : verify[v] # None => Ended(v)
         /\ \A q \in Request : request[q] # None => RequestEnded(q))
=============================================================================
