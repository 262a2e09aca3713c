------------------------------- MODULE OtpFlows -------------------------------
(***************************************************************************)
(* The two flows of one-time codes, OTPFlow.  They share no row, so a      *)
(* behaviour takes one of them: a user's login_otp row under LoginCodes,   *)
(* or an email's registration_otp row under RegistrationCodes.             *)
(***************************************************************************)
EXTENDS OneTimeCodes

VARIABLES tokens, account,    \* of RegistrationCodes
          flow                \* the flow this behaviour is about

vars == <<codeVars, tokens, account, flow>>

L == INSTANCE LoginCodes
R == INSTANCE RegistrationCodes

OTPFlow == {"login", "registration"}

InLogin(A) == flow = "login" /\ A /\ UNCHANGED <<tokens, account, flow>>
InRegistration(A) == flow = "registration" /\ A /\ UNCHANGED flow

Init == R!Init /\ flow \in OTPFlow

Next == InLogin(L!Next) \/ InRegistration(R!Next)

Spec == Init /\ [][Next]_vars

\* Handlers that run go on, see the two modules.
FairSpec ==
    /\ Spec
    /\ \A v \in Verify : WF_vars(\/ InLogin(VerifyStep(v))
                                \/ InRegistration(VerifyStep(v) /\ R!Verification(v)))
    /\ \A q \in Request : WF_vars(\/ InLogin(L!RequestStep(q))
                                 \/ InRegistration(R!RequestStep(q)))

\* The DELETE of a request for a sign-in code worked on this one.
Deleted(q, code) ==
    /\ request[q] # None /\ request[q].target = code
    /\ ~RequestAt(q, "deleting")

\* The one way in which a verification uses up a newer code: the INSERT of
\* that code started no later than the verification, and a third request
\* deleted the code presented before that INSERT came to its end.
TookNewerCode(v) ==
    LET presented == verify[v].code
        used      == verify[v].target
    IN  /\ used # presented
        /\ request[used].started <= verify[v].started
        /\ \E q \in Request \ {presented, used} : Deleted(q, presented)

(* docs/AUTH.md: "A consumed OTP can never be used again."  One sign-in    *)
(* code opens two sessions only when one of them used up a newer code as   *)
(* well, in the case that TookNewerCode says (consume_login_otp).          *)
OneSignInPerCode ==
    flow = "login" =>
        \A v, w \in Granted :
            v # w /\ verify[v].code = verify[w].code =>
                TookNewerCode(v) \/ TookNewerCode(w)

(* A sign-in uses up the code presented and no other: the checks and       *)
(* chk_consumed_after_creation, which compares the starts of two           *)
(* transactions, keep a late one off a newer code, except in the case that *)
(* TookNewerCode says (consume_login_otp, create_login_otp).               *)
SignInBurnsOwnCode ==
    flow = "login" =>
        \A v \in Verify :
            VerifyAt(v, "consumed") \/ VerifyAt(v, "granted") =>
                verify[v].target = verify[v].code \/ TookNewerCode(v)

(* A request for a sign-in code is refused with 409 only over a code that  *)
(* was not there when its DELETE started, so the user has a newer code     *)
(* from a request that ran meanwhile; an old code, expired, used or locked *)
(* by a verification, never refuses a new one (request_login_otp).         *)
LoginConflictIsRecent ==
    [][\A q \in Request :
          flow = "login" /\ RequestAt(q, "inserting") /\ RequestAt(q, "conflict")' =>
             otp.code \notin {q, request[q].target}]_vars
=============================================================================
