-------------------------------- MODULE ApiKeys --------------------------------
(***************************************************************************)
(* The api_keys table: creating a key, revoking it, and the guard that     *)
(* lets requests in with it.  Transactions are READ COMMITTED; the guard   *)
(* reads the row on a connection of its own and gives it back before the   *)
(* handler runs, so a key may be revoked while a request it let in is      *)
(* still being served.                                                     *)
(*                                                                         *)
(* A key, its prefix and its hash are one value, named by the call that    *)
(* created it; two random prefixes that happen to be equal are not         *)
(* modelled.  The workspace of create and revoke calls is the one          *)
(* authenticate_jwt found.                                                 *)
(***************************************************************************)
EXTENDS Naturals, FiniteSets

CONSTANTS Create, Revoke,     \* calls of the two routes
          Use,                \* requests that present an API key
          Workspace, Name, None

VARIABLES api_keys,   \* the committed rows, by the call that created them
          create,     \* create[c]: a create call and its transaction
          revoke,     \* revoke[r]: a revoke call and its transaction
          use         \* use[u]: a request authenticated by key

vars == <<api_keys, create, revoke, use>>

Row == [workspace_id : Workspace, name : Name, status : {"active", "revoked"},
        expired : BOOLEAN]
CallPc == {"begun", "written", "ok", "refused", "error"}
UsePc == {"begun", "authenticated", "served", "refused"}
CreateCall == [pc : CallPc, workspace_id : Workspace, name : Name]
RevokeCall == [pc : CallPc, workspace_id : Workspace, key : Create]
\* late: the key was known to be revoked, or past expires_at, on arrival
UseCall == [pc : UsePc, key : Create, late : BOOLEAN,
            workspace_id : Workspace \cup {None}]

ASSUME ApiKeyAssumption ==
    /\ Create \cap Revoke = {} /\ Create \cap Use = {} /\ Revoke \cap Use = {}
    /\ None \notin Create \cup Workspace
    /\ None \notin Row \cup CreateCall \cup RevokeCall \cup UseCall

ApiKeysTypeOK ==
    /\ api_keys \in [Create -> Row \cup {None}]
    /\ create \in [Create -> CreateCall \cup {None}]
    /\ revoke \in [Revoke -> RevokeCall \cup {None}]
    /\ use \in [Use -> UseCall \cup {None}]

Init ==
    /\ api_keys = [c \in Create |-> None]
    /\ create = [c \in Create |-> None]
    /\ revoke = [r \in Revoke |-> None]
    /\ use = [u \in Use |-> None]

CreateAt(c, pc) == create[c] # None /\ create[c].pc = pc
RevokeAt(r, pc) == revoke[r] # None /\ revoke[r].pc = pc
UseAt(u, pc) == use[u] # None /\ use[u].pc = pc

SameName(c, d) == /\ create[c].workspace_id = create[d].workspace_id
                  /\ create[c].name = create[d].name

-----------------------------------------------------------------------------
(* create_api_key_route.                                                   *)

BeginCreate(c, w, name) ==
    /\ create[c] = None
    /\ create' = [create EXCEPT ![c] =
          [pc |-> "begun", workspace_id |-> w, name |-> name]]
    /\ UNCHANGED <<api_keys, revoke, use>>

\* INSERT under uq_workspace_id_name: waits for an open transaction with the
\* same name; a committed row, revoked or not, means 409.
InsertKey(c) ==
    /\ CreateAt(c, "begun")
    /\ \A d \in Create : CreateAt(d, "written") => ~SameName(c, d)
    /\ LET taken == \E d \in Create : api_keys[d] # None /\ SameName(c, d)
       IN  create' = [create EXCEPT ![c].pc = IF taken THEN "refused" ELSE "written"]
    /\ UNCHANGED <<api_keys, revoke, use>>

CommitKey(c) ==
    /\ CreateAt(c, "written")
    /\ api_keys' = [api_keys EXCEPT ![c] =
          [workspace_id |-> create[c].workspace_id, name |-> create[c].name,
           status |-> "active", expired |-> FALSE]]
    /\ create' = [create EXCEPT ![c].pc = "ok"]
    /\ UNCHANGED <<revoke, use>>

\* A statement or the connection fails: the transaction is rolled back.
FailCreate(c) ==
    /\ CreateAt(c, "begun") \/ CreateAt(c, "written")
    /\ create' = [create EXCEPT ![c].pc = "error"]
    /\ UNCHANGED <<api_keys, revoke, use>>

-----------------------------------------------------------------------------
(* revoke_api_key_route.                                                   *)

BeginRevoke(r, w, k) ==
    /\ revoke[r] = None
    /\ revoke' = [revoke EXCEPT ![r] =
          [pc |-> "begun", workspace_id |-> w, key |-> k]]
    /\ UNCHANGED <<api_keys, create, use>>

\* a faulty variant: no AND workspace_id = $2
UpdateAnyKey(r) ==
    /\ RevokeAt(r, "begun")
    /\ \A s \in Revoke : RevokeAt(s, "written") => revoke[s].key # revoke[r].key
    /\ LET row == api_keys[revoke[r].key]
       IN  revoke' = [revoke EXCEPT ![r].pc =
              IF row = None THEN "refused"
              ELSE IF row.status = "active" THEN "written" ELSE "refused"]
    /\ UNCHANGED <<api_keys, create, use>>

\* UPDATE ... WHERE id = $1 AND workspace_id = $2 AND status = 'active',
\* decided when no open transaction has updated the row; no row means 404.
UpdateKey(r) ==
    /\ RevokeAt(r, "begun")
    /\ \A s \in Revoke : RevokeAt(s, "written") => revoke[s].key # revoke[r].key
    /\ LET row == api_keys[revoke[r].key]
       IN  revoke' = [revoke EXCEPT ![r].pc =
              IF row = None THEN "refused"
              ELSE IF row.workspace_id = revoke[r].workspace_id
                      /\ row.status = "active"
              THEN "written" ELSE "refused"]
    /\ UNCHANGED <<api_keys, create, use>>

CommitRevoke(r) ==
    /\ RevokeAt(r, "written")
    /\ api_keys' = [api_keys EXCEPT ![revoke[r].key].status = "revoked"]
    /\ revoke' = [revoke EXCEPT ![r].pc = "ok"]
    /\ UNCHANGED <<create, use>>

FailRevoke(r) ==
    /\ RevokeAt(r, "begun") \/ RevokeAt(r, "written")
    /\ revoke' = [revoke EXCEPT ![r].pc = "error"]
    /\ UNCHANGED <<api_keys, create, use>>

-----------------------------------------------------------------------------
(* authenticate_api_key, and the handler behind it.                        *)

KnownDead(k) ==
    \/ \E r \in Revoke : RevokeAt(r, "ok") /\ revoke[r].key = k
    \/ api_keys[k] # None /\ api_keys[k].expired

Arrive(u, k) ==
    /\ use[u] = None
    /\ use' = [use EXCEPT ![u] =
          [pc |-> "begun", key |-> k, late |-> KnownDead(k), workspace_id |-> None]]
    /\ UNCHANGED <<api_keys, create, revoke>>

\* a faulty variant: the status of the key is not looked at
AuthenticateByHash(u) ==
    /\ UseAt(u, "begun")
    /\ LET row == api_keys[use[u].key]
       IN  use' = IF row = None THEN [use EXCEPT ![u].pc = "refused"]
                  ELSE [use EXCEPT ![u].pc = "authenticated",
                                   ![u].workspace_id = row.workspace_id]
    /\ UNCHANGED <<api_keys, create, revoke>>

\* get_api_key_by_prefix and the checks of the row, in one step: what they
\* look at was read at once.  Nothing calls update_api_key_last_used.
Authenticate(u) ==
    /\ UseAt(u, "begun")
    /\ LET row == api_keys[use[u].key]
       IN  use' = IF row = None THEN [use EXCEPT ![u].pc = "refused"]
                  ELSE IF row.status # "active" \/ row.expired
                  THEN [use EXCEPT ![u].pc = "refused"]
                  ELSE [use EXCEPT ![u].pc = "authenticated",
                                   ![u].workspace_id = row.workspace_id]
    /\ UNCHANGED <<api_keys, create, revoke>>

\* create_notify or get_notify, with the workspace the guard stored.
Serve(u) ==
    /\ UseAt(u, "authenticated")
    /\ use' = [use EXCEPT ![u].pc = "served"]
    /\ UNCHANGED <<api_keys, create, revoke>>

\* expires_at passes.
Expire(k) ==
    /\ api_keys[k] # None /\ ~api_keys[k].expired
    /\ api_keys' = [api_keys EXCEPT ![k].expired = TRUE]
    /\ UNCHANGED <<create, revoke, use>>

-----------------------------------------------------------------------------

CreateStep(c) == InsertKey(c) \/ CommitKey(c)
RevokeStep(r) == UpdateKey(r) \/ CommitRevoke(r)
UseStep(u) == Authenticate(u) \/ Serve(u)

Next ==
    \/ \E c \in Create :
          \/ \E w \in Workspace, name \in Name : BeginCreate(c, w, name)
          \/ CreateStep(c) \/ FailCreate(c) \/ Expire(c)
    \/ \E r \in Revoke :
          \/ \E w \in Workspace, k \in Create : BeginRevoke(r, w, k)
          \/ RevokeStep(r) \/ FailRevoke(r)
    \/ \E u \in Use : (\E k \in Create : Arrive(u, k)) \/ UseStep(u)

Spec == Init /\ [][Next]_vars

-----------------------------------------------------------------------------

(* A key is revoked exactly by one call, of its own workspace, that was    *)
(* answered with success: racing calls and other workspaces get 404        *)
(* (revoke_api_key).                                                       *)
RevokedOnceByItsOwner ==
    \A k \in Create :
        LET revokers == {r \in Revoke : RevokeAt(r, "ok") /\ revoke[r].key = k}
        IN  IF api_keys[k] # None /\ api_keys[k].status = "revoked"
            THEN \E r \in revokers :
                    /\ revokers = {r}
                    /\ revoke[r].workspace_id = api_keys[k].workspace_id
            ELSE revokers = {}

(* No request that arrives after its key has expired, or after its         *)
(* revocation was confirmed, is served, and a request is served for the    *)
(* workspace its key was created for.  Requests the guard has let in       *)
(* before are (authenticate_api_key).                                      *)
DeadKeysOpenNothing ==
    \A u \in Use : UseAt(u, "served") =>
        /\ ~use[u].late
        /\ use[u].workspace_id = create[use[u].key].workspace_id
=============================================================================
