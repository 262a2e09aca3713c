--------------------------- MODULE RegistrationCodes ---------------------------
(***************************************************************************)
(* Codes for registering an email address.  request_registration_otp runs  *)
(* in one transaction, so created_at is the start of that transaction, and *)
(* it deletes the old row only if it has read one that is not consumed.    *)
(* Grant is verify_registration_otp's registration token; the account that *)
(* create_account makes of it is AccountCreation.                          *)
(***************************************************************************)
EXTENDS OneTimeCodes

VARIABLES tokens,     \* registration tokens that have not expired
          account     \* the email has an account

vars == <<codeVars, tokens, account>>

Init == CodesInit /\ tokens = {} /\ account = FALSE

RegistrationTypeOK == CodesTypeOK /\ tokens \subseteq Verify /\ account \in BOOLEAN

\* get_user_by_email: a registered address gets 409 and nothing happens.
AskRegistration(q) ==
    /\ request[q] = None
    /\ ~account
    /\ request' = [request EXCEPT ![q] =
          [pc |-> "begun", started |-> clock, target |-> None]]
    /\ clock' = clock + 1
    /\ UNCHANGED <<otp, lock, verify, tokens, account>>

\* get_registration_otp_by_email
ReadExisting(q) ==
    /\ RequestAt(q, "begun")
    /\ RequestGoto(q, IF Unconsumed THEN "replacing" ELSE "inserting")
    /\ UNCHANGED <<otp, lock, clock, verify, tokens, account>>

\* delete_registration_otp starts, with the row it sees: by now it may be
\* another row, or consumed.
StartDelete(q) ==
    /\ RequestAt(q, "replacing")
    /\ request' = [request EXCEPT ![q].pc = "deleting", ![q].target = RowNow]
    /\ UNCHANGED <<otp, lock, clock, verify, tokens, account>>

DeleteCode(q) ==
    /\ RequestAt(q, "deleting")
    /\ request[q].target # None => lock = None
    /\ lock' = IF request[q].target # None /\ StillThere(request[q].target)
               THEN q ELSE lock
    /\ RequestGoto(q, "inserting")
    /\ UNCHANGED <<otp, clock, verify, tokens, account>>

\* create_registration_otp under uq_email waits for a transaction that has
\* changed the row or inserted one; a row that stays means 409.
InsertCode(q) ==
    /\ RequestAt(q, "inserting")
    /\ lock \in {None, q}
    /\ \A p \in Request : ~RequestAt(p, "inserted")
    /\ IF otp # None /\ lock # q
       THEN RequestGoto(q, "conflict") ELSE RequestGoto(q, "inserted")
    /\ UNCHANGED <<otp, lock, clock, verify, tokens, account>>

CommitRequest(q) ==
    /\ RequestAt(q, "inserted")
    /\ otp' = [code |-> q, created_at |-> request[q].started,
               expired |-> FALSE, consumed_by |-> None]
    /\ RequestGoto(q, "issued")
    /\ Release(q)
    /\ UNCHANGED <<clock, verify, tokens, account>>

\* A statement or the connection fails: the transaction is rolled back.
FailRequest(q) ==
    /\ request[q] # None /\ ~RequestEnded(q)
    /\ RequestGoto(q, "error")
    /\ Release(q)
    /\ UNCHANGED <<otp, clock, verify, tokens, account>>

\* A verification; one that is granted hands out a registration token.
Verification(v) ==
    /\ VerifyNext(v)
    /\ tokens' = tokens \cup {w \in Verify :
                    w = v /\ verify[w] # None /\ verify[w].pc = "consumed"
                    /\ verify'[w].pc = "granted"}
    /\ UNCHANGED account

\* REGISTRATION_TOKEN_TTL passes.
TokenExpires(v) ==
    /\ v \in tokens
    /\ tokens' = tokens \ {v}
    /\ UNCHANGED <<codeVars, account>>

\* create_account with an unexpired token, see AccountCreation.
CreateAccount ==
    /\ tokens # {} /\ ~account
    /\ account' = TRUE
    /\ UNCHANGED <<codeVars, tokens>>

RequestStep(q) == \/ ReadExisting(q) \/ StartDelete(q) \/ DeleteCode(q)
                  \/ InsertCode(q) \/ CommitRequest(q)

Next == \/ \E q \in Request : AskRegistration(q) \/ RequestStep(q) \/ FailRequest(q)
        \/ \E v \in Verify : Verification(v) \/ TokenExpires(v)
        \/ CreateAccount
        \/ ExpireCode /\ UNCHANGED <<tokens, account>>

Spec == Init /\ [][Next]_vars

\* Handlers that run go on.
FairSpec ==
    /\ Spec
    /\ \A v \in Verify : WF_vars(VerifyStep(v) /\ Verification(v))
    /\ \A q \in Request : WF_vars(RequestStep(q))

(* docs/AUTH.md on the registration token: "Once expired, the user must    *)
(* verify their email again."  Here: a request made when no token is left  *)
(* leads to a code that can be verified, unless it meets a fault           *)
(* (get_registration_otp_by_email overlooks the consumed row).             *)
CanVerifyAgain ==
    \A q \in Request :
        (RequestAt(q, "begun") /\ tokens = {} /\ ~account) ~>
            (Unconsumed \/ tokens # {} \/ account \/ RequestAt(q, "error"))
=============================================================================
