---------------------------- MODULE AccountCreation ----------------------------
(***************************************************************************)
(* create_account: one READ COMMITTED transaction that looks for the email *)
(* and the slug and then inserts a user, a workspace, the membership of    *)
(* its owner and a session.  Inserts under the UNIQUE constraints of       *)
(* users.email and workspaces.slug wait for an open transaction that has   *)
(* inserted the same value.  With it what the new accounts are good for:   *)
(* the JWT guard and the routes that read users and workspaces.            *)
(*                                                                         *)
(* Every email has one registration token, made at time 0                  *)
(* (verify_registration_otp, see RegistrationCodes).  A user and a         *)
(* workspace are named by the call that created them.                      *)
(***************************************************************************)
EXTENDS AccessTokens, WorkspaceNames, FiniteSets

CONSTANTS Call,        \* requests to POST /auth/register
          Roster,      \* requests to GET /workspaces/{id}/members
          Email,
          Name,        \* workspace names that are asked for
          MaxTime,     \* bound on the clock
          None

\* The slugs of the names that pass validation, the others never reach
\* create_account.
Slug == {slugify(Cleaned(name)) :
            name \in {name \in Name : validate_workspace_name(name)}}

Pc == {"begun", "email_free", "slug_free", "user", "workspace",
       "ok", "unauthorized", "invalid", "conflict", "error"}

RosterPc == {"begun", "found", "missing", "answered", "not_found"}

CreateCall == [pc : Pc, email : Email \cup {None}, slug : Slug, minted : Nat]
RosterCall == [pc : RosterPc, workspace : Call,
               members : SUBSET (Call \X {"OWNER", "MEMBER"})]

ASSUME NoneAssumption == None \notin Call \cup CreateCall \cup RosterCall
ASSUME ClockAssumption == MaxTime \in Nat
ASSUME ForgedAssumption ==
    \A c \in Call, now \in 0..MaxTime : Forged # create_access_token(c, now)

VARIABLES users,               \* the committed user of each email
          workspaces,          \* the committed workspace of each slug
          workspace_members,   \* committed <<workspace, user, role>>
          sessions,            \* users with a committed session
          call,                \* call[c]: a request and its transaction
          roster,              \* roster[r]: a request for a roster
          clock

tables == <<users, workspaces, workspace_members, sessions>>
vars == <<tables, call, roster, clock>>

AccountTypeOK ==
    /\ users \in [Email -> Call \cup {None}]
    /\ workspaces \in [Slug -> Call \cup {None}]
    /\ workspace_members \subseteq Call \X Call \X {"OWNER", "MEMBER"}
    /\ sessions \subseteq Call
    /\ call \in [Call -> CreateCall \cup {None}]
    /\ roster \in [Roster -> RosterCall \cup {None}]
    /\ clock \in 0..MaxTime

Init ==
    /\ users = [e \in Email |-> None]
    /\ workspaces = [s \in Slug |-> None]
    /\ workspace_members = {}
    /\ sessions = {}
    /\ call = [c \in Call |-> None]
    /\ roster = [r \in Roster |-> None]
    /\ clock = 0

At(c, pc) == call[c] # None /\ call[c].pc = pc

Goto(c, pc) == /\ call' = [call EXCEPT ![c].pc = pc]
               /\ UNCHANGED <<tables, roster, clock>>

\* c has inserted its user (and perhaps its workspace) and not ended yet.
HoldsEmail(c) == At(c, "user") \/ At(c, "workspace")

\* a faulty variant: a failed call leaves its transaction open
HoldsSlugAfterError(c) == At(c, "workspace") \/ At(c, "error")

HoldsSlug(c) == At(c, "workspace")

\* The calls an INSERT of c waits for: under users.email once it has seen
\* email and slug free, under workspaces.slug with its user inserted.
WaitsFor(c) ==
    {d \in Call : \/ /\ At(c, "slug_free") /\ HoldsEmail(d)
                     /\ call[d].email = call[c].email
                  \/ /\ At(c, "user") /\ HoldsSlug(d)
                     /\ call[d].slug = call[c].slug}

\* The access token that c was answered with.
AccessToken(c) == create_access_token(c, call[c].minted)

RegistrationTokens == {create_registration_token(e, 0) : e \in Email}

\* Tokens a client may send: registration tokens, an access token, forgeries.
Presentable ==
    RegistrationTokens \cup {AccessToken(c) : c \in {c \in Call : At(c, "ok")}}
                       \cup {Forged}

-----------------------------------------------------------------------------
(* create_account                                                          *)

\* The token and the slug are judged before anything is read.
Begin(c, token, slug) ==
    LET proven == decode_registration_token(token, clock) = "ok"
    IN  /\ call[c] = None
        /\ call' = [call EXCEPT ![c] =
              [pc |-> IF ~proven THEN "unauthorized"
                      ELSE IF ~validate_workspace_slug(slug) THEN "invalid"
                      ELSE "begun",
               email |-> IF proven THEN token.email ELSE None,
               slug |-> slug, minted |-> 0]]
        /\ UNCHANGED <<tables, roster, clock>>

\* get_user_by_email
FindUser(c) ==
    /\ At(c, "begun")
    /\ Goto(c, IF users[call[c].email] = None THEN "email_free" ELSE "conflict")

\* get_workspace_by_slug
FindWorkspace(c) ==
    /\ At(c, "email_free")
    /\ Goto(c, IF workspaces[call[c].slug] = None THEN "slug_free" ELSE "conflict")

\* create_user; a unique violation is a 409
InsertUser(c) ==
    /\ At(c, "slug_free")
    /\ WaitsFor(c) = {}
    /\ Goto(c, IF users[call[c].email] = None THEN "user" ELSE "conflict")

\* a faulty variant: the workspace is committed by itself
InsertWorkspaceAlone(c) ==
    /\ At(c, "user")
    /\ workspaces[call[c].slug] = None
    /\ workspaces' = [workspaces EXCEPT ![call[c].slug] = c]
    /\ call' = [call EXCEPT ![c].pc = "workspace", ![c].minted = clock]
    /\ UNCHANGED <<users, workspace_members, sessions, roster, clock>>

\* create_workspace
InsertWorkspace(c) ==
    /\ At(c, "user")
    /\ WaitsFor(c) = {}
    /\ IF workspaces[call[c].slug] = None
       THEN \* create_workspace_membership contends with nobody, and
            \* create_access_token follows
            /\ call' = [call EXCEPT ![c].pc = "workspace", ![c].minted = clock]
            /\ UNCHANGED <<tables, roster, clock>>
       ELSE Goto(c, "conflict")

\* a faulty variant: the membership is left to a later request
CommitWithoutMembership(c) ==
    /\ At(c, "workspace")
    /\ users' = [users EXCEPT ![call[c].email] = c]
    /\ workspaces' = [workspaces EXCEPT ![call[c].slug] = c]
    /\ sessions' = sessions \cup {c}
    /\ call' = [call EXCEPT ![c].pc = "ok"]
    /\ UNCHANGED <<workspace_members, roster, clock>>

\* create_session contends with nobody; the transaction commits, and the
\* tokens are handed out.
Commit(c) ==
    /\ At(c, "workspace")
    /\ users' = [users EXCEPT ![call[c].email] = c]
    /\ workspaces' = [workspaces EXCEPT ![call[c].slug] = c]
    /\ workspace_members' = workspace_members \cup {<<c, c, "OWNER">>}
    /\ sessions' = sessions \cup {c}
    /\ call' = [call EXCEPT ![c].pc = "ok"]
    /\ UNCHANGED <<roster, clock>>

Busy(c) == \E pc \in {"begun", "email_free", "slug_free", "user", "workspace"} :
              At(c, pc)

\* a faulty variant: no transaction, what was inserted stays
FailPartway(c) ==
    /\ Busy(c)
    /\ users' = IF HoldsEmail(c) THEN [users EXCEPT ![call[c].email] = c] ELSE users
    /\ call' = [call EXCEPT ![c].pc = "error"]
    /\ UNCHANGED <<workspaces, workspace_members, sessions, roster, clock>>

\* A statement or the connection fails: the transaction is rolled back.
Fail(c) == Busy(c) /\ Goto(c, "error")

-----------------------------------------------------------------------------
(* Reading accounts                                                        *)

User == {users[e] : e \in Email} \ {None}
Workspace == {workspaces[s] : s \in Slug} \ {None}

\* get_workspace_context, and get_current_user_context in GET /auth/me
get_workspace_context(u) ==
    {[user_id |-> m[2], workspace_id |-> m[1], role |-> m[3]] :
        m \in {m \in workspace_members : m[2] = u /\ u \in User}}

get_current_user_context(u) ==
    {context \in get_workspace_context(u) : context.workspace_id \in Workspace}

\* authenticate_jwt: the contexts it may give a request, none for a 401
authenticate_jwt(token, now) ==
    IF decode_access_token(token, now) # "ok" THEN {}
    ELSE get_workspace_context(token.sub)

\* A client asks for the roster of a workspace by an id it may have heard of.
AskRoster(r, w) ==
    /\ roster[r] = None
    /\ roster' = [roster EXCEPT ![r] =
          [pc |-> "begun", workspace |-> w, members |-> {}]]
    /\ UNCHANGED <<tables, call, clock>>

\* get_workspace_by_id
ReadWorkspace(r) ==
    /\ roster[r] # None /\ roster[r].pc = "begun"
    /\ roster' = [roster EXCEPT ![r].pc =
          IF roster[r].workspace \in Workspace THEN "found" ELSE "missing"]
    /\ UNCHANGED <<tables, call, clock>>

\* get_workspace_members, a statement and a snapshot of its own; then the 404
ReadMembers(r) ==
    /\ roster[r] # None /\ roster[r].pc \in {"found", "missing"}
    /\ roster' = [roster EXCEPT
          ![r].pc = IF roster[r].pc = "found" THEN "answered" ELSE "not_found",
          ![r].members = {<<m[2], m[3]>> : m \in
              {m \in workspace_members : m[1] = roster[r].workspace /\ m[2] \in User}}]
    /\ UNCHANGED <<tables, call, clock>>

Tick ==
    /\ clock < MaxTime
    /\ clock' = clock + 1
    /\ UNCHANGED <<tables, call, roster>>

-----------------------------------------------------------------------------

Step(c) == \/ FindUser(c) \/ FindWorkspace(c)
           \/ InsertUser(c) \/ InsertWorkspace(c) \/ Commit(c)

Next == \/ \E c \in Call : \/ \E t \in Presentable, s \in Slug : Begin(c, t, s)
                           \/ Step(c) \/ Fail(c)
        \/ \E r \in Roster : \/ \E w \in Call : AskRoster(r, w)
                             \/ ReadWorkspace(r) \/ ReadMembers(r)
        \/ Tick

Spec == Init /\ [][Next]_vars

-----------------------------------------------------------------------------

(* All or nothing: every user has one workspace, which it owns alone, and  *)
(* a session, and every workspace belongs to such a user, whatever calls   *)
(* race on emails and slugs or fail half way (create_account; DATA_MODEL:  *)
(* exactly one OWNER per workspace, one workspace per user).               *)
AccountsAreWhole ==
    /\ User = Workspace /\ User = sessions
    /\ workspace_members = {<<c, c, "OWNER">> : c \in User}
    /\ User = {c \in Call : At(c, "ok")}

(* An access token works from the moment a client has it until it expires: *)
(* the guard takes it for its user, as the owner of the user's workspace,  *)
(* and /auth/me finds both (create_account returns after the commit;       *)
(* authenticate_jwt, get_current_user).                                    *)
GivenTokensWork ==
    \A c \in Call : At(c, "ok") /\ clock < AccessToken(c).exp =>
        LET mine == {[user_id |-> c, workspace_id |-> c, role |-> "OWNER"]}
        IN  /\ authenticate_jwt(AccessToken(c), clock) = mine
            /\ get_current_user_context(c) = mine

(* A roster that is answered at all has the owner on it, although the      *)
(* workspace and its members are read by two statements, between which an  *)
(* account may be committed (get_workspace_members_route).                 *)
RosterIsComplete ==
    \A r \in Roster :
        roster[r] # None /\ roster[r].pc = "answered" =>
            roster[r].members = {<<roster[r].workspace, "OWNER">>}

(* Calls that wait for each other's emails and slugs never wait in a       *)
(* circle or for a call that has ended: a call waits for one other at      *)
(* most, the only holder of the value, and that one runs, or waits for one *)
(* that runs (create_user before create_workspace).                        *)
NobodyWaitsForever ==
    \A c \in Call : \A d \in WaitsFor(c) :
        /\ WaitsFor(c) = {d} /\ Busy(d)
        /\ \A e \in WaitsFor(d) : Busy(e) /\ WaitsFor(e) = {}
=============================================================================
