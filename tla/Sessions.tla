------------------------------- MODULE Sessions -------------------------------
(***************************************************************************)
(* One row of the sessions table under refresh_access_token and logout,    *)
(* each a READ COMMITTED transaction: it reads the row by the hash of the  *)
(* token it was given, then updates the row by id.  The update waits for   *)
(* the row lock and then only rechecks revoked_at IS NULL.  Sessions share *)
(* nothing, so one row shows what can happen.                              *)
(*                                                                         *)
(* A refresh token and its hash are one value.  A refresh call's new       *)
(* random token is named by the call, the session's first one FirstToken.  *)
(* The access tokens that a sign-in and refreshes hand out are judged by   *)
(* AccessTokens, whatever becomes of the session.                          *)
(***************************************************************************)
EXTENDS AccessTokens, FiniteSets

CONSTANTS Refresh, Logout,      \* calls of the two workflows
          FirstToken, None,
          User,                 \* the session's user
          MaxTime               \* bound on the clock

Call == Refresh \cup Logout
Token == Refresh \cup {FirstToken}

Pc == {"begun", "found", "updated", "minted",
       "ok", "refused", "expired", "error"}
Transaction ==
    [pc : Pc, token : Token,
     started : Nat,      \* now() in all the statements of a logout
     minted : Nat,       \* when a refresh made its access token
     answered : Nat]     \* when a logout committed

ASSUME CallAssumption ==
    /\ Refresh \cap Logout = {}
    /\ FirstToken \notin Call
    /\ None \notin Call \cup {FirstToken} \cup Nat \cup Transaction
ASSUME ClockAssumption == MaxTime \in Nat

VARIABLES session,     \* the committed row
          call,        \* call[c]: a request and its transaction
          lock,        \* the call whose open transaction updated the row
          superseded,  \* tokens the row has held and no longer holds
          clock        \* the time, in the seconds of access tokens

vars == <<session, call, lock, superseded, clock>>

SessionsTypeOK ==
    /\ session \in [refresh_token_hash : Token, expired : BOOLEAN,
                    revoked_at : Nat \cup {None}]
    /\ call \in [Call -> Transaction \cup {None}]
    /\ clock \in 0..MaxTime
    /\ lock \in Call \cup {None}
    /\ superseded \subseteq Token

\* create_session has committed, at time 0.
Init ==
    /\ session = [refresh_token_hash |-> FirstToken, expired |-> FALSE,
                  revoked_at |-> None]
    /\ clock = 0
    /\ call = [c \in Call |-> None]
    /\ lock = None
    /\ superseded = {}

At(c, pc) == call[c] # None /\ call[c].pc = pc

Goto(c, pc) == call' = [call EXCEPT ![c].pc = pc]

Release(c) == lock' = IF lock = c THEN None ELSE lock

\* A token somebody was given: the first, or that of an answered refresh.
Given(t) == t = FirstToken \/ (t \in Refresh /\ At(t, "ok"))

\* The access tokens that came with them.
GivenAccess ==
    {create_access_token(User, 0)} \cup
    {create_access_token(User, call[r].minted) : r \in {r \in Refresh : At(r, "ok")}}

-----------------------------------------------------------------------------

Begin(c, t) ==
    /\ call[c] = None
    /\ Given(t)
    /\ call' = [call EXCEPT ![c] =
           [pc |-> "begun", token |-> t,
            started |-> IF c \in Logout THEN clock ELSE 0,
            minted |-> 0, answered |-> 0]]
    /\ UNCHANGED <<session, lock, superseded, clock>>

\* get_session_by_refresh_token_hash, and in a refresh the expiry check.  The
\* revoke_session of an expired row is rolled back by the exception after it.
Find(c) ==
    /\ At(c, "begun")
    /\ LET found == /\ session.refresh_token_hash = call[c].token
                    /\ session.revoked_at = None
       IN  Goto(c, IF ~found THEN "refused"
                   ELSE IF c \in Refresh /\ session.expired THEN "expired"
                   ELSE "found")
    /\ UNCHANGED <<session, lock, superseded, clock>>

\* a faulty variant: the update does not recheck revoked_at IS NULL
UpdateAnyway(c) ==
    /\ At(c, "found")
    /\ lock = None
    /\ Goto(c, "updated") /\ lock' = c
    /\ UNCHANGED <<session, superseded, clock>>

\* rotate_session_refresh_token or revoke_session: UPDATE ... WHERE id = $1
\* AND revoked_at IS NULL, decided when the row lock is free.
Update(c) ==
    /\ At(c, "found")
    /\ lock = None
    /\ IF session.revoked_at = None
       THEN Goto(c, "updated") /\ lock' = c
       ELSE Goto(c, "refused") /\ UNCHANGED lock
    /\ UNCHANGED <<session, superseded, clock>>

\* create_access_token, still in the transaction.
Mint(c) ==
    /\ c \in Refresh /\ At(c, "updated")
    /\ call' = [call EXCEPT ![c].pc = "minted", ![c].minted = clock]
    /\ UNCHANGED <<session, lock, superseded, clock>>

\* a faulty variant: the rotation binds the presented token again
CommitRefreshOldToken(c) ==
    /\ At(c, "minted")
    /\ session' = [session EXCEPT !.refresh_token_hash = call[c].token]
    /\ superseded' = superseded \cup {session.refresh_token_hash}
    /\ Goto(c, "ok")
    /\ Release(c)
    /\ UNCHANGED clock

CommitRefresh(c) ==
    /\ At(c, "minted")
    /\ session' = [session EXCEPT !.refresh_token_hash = c, !.expired = FALSE]
    /\ superseded' = superseded \cup {session.refresh_token_hash}
    /\ Goto(c, "ok")
    /\ Release(c)
    /\ UNCHANGED clock

\* a faulty variant: an expired session is not worth revoking
CommitLogoutUnlessExpired(c) ==
    /\ c \in Logout /\ At(c, "updated")
    /\ session' = IF session.expired THEN session
                  ELSE [session EXCEPT !.revoked_at = call[c].started]
    /\ call' = [call EXCEPT ![c].pc = "ok", ![c].answered = clock]
    /\ Release(c)
    /\ UNCHANGED <<superseded, clock>>

\* revoked_at is the start of the transaction: the wait for the row lock comes
\* after it.
CommitLogout(c) ==
    /\ c \in Logout /\ At(c, "updated")
    /\ session' = [session EXCEPT !.revoked_at = call[c].started]
    /\ call' = [call EXCEPT ![c].pc = "ok", ![c].answered = clock]
    /\ Release(c)
    /\ UNCHANGED <<superseded, clock>>

\* A statement or the connection fails: the transaction is rolled back.
Fail(c) ==
    /\ \E pc \in {"begun", "found", "updated", "minted"} : At(c, pc)
    /\ Goto(c, "error")
    /\ Release(c)
    /\ UNCHANGED <<session, superseded, clock>>

\* REFRESH_TOKEN_TTL_DAYS pass.
Expire ==
    /\ ~session.expired
    /\ session' = [session EXCEPT !.expired = TRUE]
    /\ UNCHANGED <<call, lock, superseded, clock>>

Tick ==
    /\ clock < MaxTime
    /\ clock' = clock + 1
    /\ UNCHANGED <<session, call, lock, superseded>>

-----------------------------------------------------------------------------

Step(c) == \/ Find(c) \/ Update(c) \/ Mint(c)
           \/ CommitRefresh(c) \/ CommitLogout(c)

Next == \/ \E c \in Call : \/ \E t \in Token : Begin(c, t)
                           \/ Step(c) \/ Fail(c)
        \/ Expire \/ Tick

Spec == Init /\ [][Next]_vars

-----------------------------------------------------------------------------

(* A logout is final: once revoked_at is set, no refresh that read the row *)
(* earlier brings the session back, and its token never changes again      *)
(* (rotate_session_refresh_token, revoke_session).                         *)
RevokedIsFinal ==
    [][session.revoked_at # None =>
          /\ session'.revoked_at = session.revoked_at
          /\ session'.refresh_token_hash = session.refresh_token_hash]_vars

(* A token the session has moved on from is never its token again, and the *)
(* current token is always one a refresh committed (or the first one), so  *)
(* of several racing refreshes exactly the last to commit has the session. *)
SupersededIsDead ==
    /\ session.refresh_token_hash \notin superseded
    /\ Given(session.refresh_token_hash)
    /\ {r \in Refresh : At(r, "ok")} \cup {FirstToken} =
          superseded \cup {session.refresh_token_hash}

(* Of all the logouts of a session exactly one is answered with success,   *)
(* and only then is the session revoked (logout, revoke_session).          *)
OneLogoutSucceeds ==
    Cardinality({c \in Logout : At(c, "ok")}) =
        IF session.revoked_at # None THEN 1 ELSE 0

(* A logout cannot call back access tokens, but it bounds them: one time   *)
(* to live after it was answered with success, no access token that was    *)
(* handed out for the session is accepted, whichever refreshes raced with  *)
(* the logout (refresh_access_token mints before its commit, and           *)
(* rotate_session_refresh_token rechecks revoked_at;                       *)
(* decode_access_token).  The bound is on the answer and not on            *)
(* revoked_at, which is earlier when the logout waited for the row.        *)
AccessEndsAfterLogout ==
    \A l \in Logout :
        (At(l, "ok") /\ clock >= call[l].answered + JWT_ACCESS_TOKEN_TTL_SECONDS)
        => \A t \in GivenAccess : decode_access_token(t, clock) # "ok"
=============================================================================
