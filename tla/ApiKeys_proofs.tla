---------------------------- MODULE ApiKeys_proofs ----------------------------
(***************************************************************************)
(* Proofs about ApiKeys, for every set of calls, workspaces and names.     *)
(*                                                                         *)
(* The argument: the row a revocation has updated and not committed is     *)
(* active and updated by nobody else (UpdatesAreAlone), so every commit is *)
(* the only one.  A key that was dead when a request arrived stays dead    *)
(* (DeadOnArrival), so the guard refuses the request whenever it looks.    *)
(***************************************************************************)
EXTENDS ApiKeys, TLAPS

USE ApiKeyAssumption

-----------------------------------------------------------------------------
(* The inductive invariant.                                                *)

KeysAreCommitted ==
    \A c \in Create :
        /\ api_keys[c] # None <=> CreateAt(c, "ok")
        /\ api_keys[c] # None => api_keys[c].workspace_id = create[c].workspace_id

UpdatesAreAlone ==
    \A r \in Revoke : RevokeAt(r, "written") =>
        /\ api_keys[revoke[r].key] # None
        /\ api_keys[revoke[r].key].status = "active"
        /\ api_keys[revoke[r].key].workspace_id = revoke[r].workspace_id
        /\ \A s \in Revoke \ {r} : RevokeAt(s, "written") => revoke[s].key # revoke[r].key

Dead(k) == /\ api_keys[k] # None
           /\ api_keys[k].status = "revoked" \/ api_keys[k].expired

DeadOnArrival == \A u \in Use : use[u] # None /\ use[u].late => Dead(use[u].key)

LetInRightly ==
    \A u \in Use : UseAt(u, "authenticated") \/ UseAt(u, "served") =>
        /\ ~use[u].late
        /\ create[use[u].key] # None
        /\ use[u].workspace_id = create[use[u].key].workspace_id

ApiKeysInv ==
    /\ ApiKeysTypeOK
    /\ KeysAreCommitted
    /\ UpdatesAreAlone
    /\ RevokedOnceByItsOwner
    /\ DeadOnArrival
    /\ LetInRightly

LEMMA InitApiKeysInv == Init => ApiKeysInv
  BY DEF Init, ApiKeysInv, ApiKeysTypeOK, KeysAreCommitted, UpdatesAreAlone,
     RevokedOnceByItsOwner, DeadOnArrival, LetInRightly, CreateAt, RevokeAt, UseAt

-----------------------------------------------------------------------------
(* Creating.                                                               *)

(* A create call that begins, inserts or fails touches no key.             *)
LEMMA CreateMoves ==
    ASSUME ApiKeysInv, NEW c \in Create, NEW new \in CreateCall,
           create' = [create EXCEPT ![c] = new],
           create[c] # None => new.workspace_id = create[c].workspace_id,
           ~CreateAt(c, "ok"), new.pc # "ok", UNCHANGED <<api_keys, revoke, use>>
    PROVE  ApiKeysInv'
<1> USE DEF ApiKeysInv
<1>1. /\ create'[c] = new /\ new # None
      /\ \A d \in Create \ {c} : create'[d] = create[d]
      /\ create' \in [Create -> CreateCall \cup {None}]
  BY DEF ApiKeysTypeOK
<1>2. ApiKeysTypeOK'
  BY <1>1 DEF ApiKeysTypeOK
<1>3. KeysAreCommitted'
  BY <1>1 DEF KeysAreCommitted, CreateAt
<1>4. UpdatesAreAlone' /\ RevokedOnceByItsOwner' /\ DeadOnArrival'
  BY DEF UpdatesAreAlone, RevokedOnceByItsOwner, DeadOnArrival, Dead, RevokeAt
<1>5. LetInRightly'
  BY <1>1 DEF LetInRightly, UseAt, ApiKeysTypeOK, UseCall
<1>6. QED
  BY <1>2, <1>3, <1>4, <1>5

LEMMA CommitKeyStep ==
    ASSUME ApiKeysInv, NEW c \in Create, CommitKey(c)
    PROVE  ApiKeysInv'
<1> USE DEF ApiKeysInv
<1> DEFINE row == [workspace_id |-> create[c].workspace_id, name |-> create[c].name,
                   status |-> "active", expired |-> FALSE]
           new == [create[c] EXCEPT !.pc = "ok"]
<1>1. create[c] \in CreateCall /\ create[c] # None /\ create[c].pc = "written"
  BY DEF CommitKey, CreateAt, ApiKeysTypeOK
<1>2. /\ new \in CreateCall /\ new # None /\ new.pc = "ok"
      /\ new.workspace_id = create[c].workspace_id
  BY <1>1 DEF CreateCall, CallPc
<1>3. /\ row \in Row /\ row # None /\ row.workspace_id = create[c].workspace_id
      /\ row.status = "active"
  <2>1. create[c].workspace_id \in Workspace /\ create[c].name \in Name
    BY <1>1 DEF CreateCall
  <2>2. row \in Row
    BY <2>1 DEF Row
  <2>3. QED
    BY <2>2
<1>4. /\ create' = [create EXCEPT ![c] = new] /\ api_keys' = [api_keys EXCEPT ![c] = row]
      /\ revoke' = revoke /\ use' = use
  BY <1>1 DEF CommitKey, ApiKeysTypeOK
<1> HIDE DEF row, new
<1>5. /\ create'[c] = new /\ api_keys'[c] = row
      /\ \A d \in Create \ {c} : create'[d] = create[d] /\ api_keys'[d] = api_keys[d]
      /\ create' \in [Create -> CreateCall \cup {None}]
      /\ api_keys' \in [Create -> Row \cup {None}]
  BY <1>2, <1>3, <1>4 DEF ApiKeysTypeOK
<1>6. api_keys[c] = None
  BY <1>1 DEF KeysAreCommitted, CreateAt
<1>7. ApiKeysTypeOK'
  BY <1>4, <1>5 DEF ApiKeysTypeOK
<1>8. KeysAreCommitted'
  BY <1>2, <1>3, <1>5 DEF KeysAreCommitted, CreateAt
<1>9. \A r \in Revoke : revoke[r] # None => revoke[r].key \in Create
  BY DEF ApiKeysTypeOK, RevokeCall
<1>10. UpdatesAreAlone'
  <2>1. \A r \in Revoke : RevokeAt(r, "written") => revoke[r].key \in Create \ {c}
    BY <1>6, <1>9 DEF UpdatesAreAlone, RevokeAt
  <2>2. QED
    BY <1>4, <1>5, <2>1 DEF UpdatesAreAlone, RevokeAt
<1>11. RevokedOnceByItsOwner'
  <2>1. \A k \in Create : /\ api_keys'[k] # None /\ api_keys'[k].status = "revoked"
                             <=> api_keys[k] # None /\ api_keys[k].status = "revoked"
                          /\ api_keys[k] # None => api_keys'[k] = api_keys[k]
    BY <1>3, <1>5, <1>6
  <2>2. QED
    BY <1>4, <2>1 DEF RevokedOnceByItsOwner, RevokeAt
<1>12. DeadOnArrival'
  <2>1. \A u \in Use : use[u] # None => use[u].key \in Create
    BY DEF ApiKeysTypeOK, UseCall
  <2>2. QED
    BY <1>4, <1>5, <1>6, <2>1 DEF DeadOnArrival, Dead
<1>13. LetInRightly'
  <2>1. \A u \in Use : use[u] # None => use[u].key \in Create
    BY DEF ApiKeysTypeOK, UseCall
  <2>2. \A d \in Create : create[d] # None =>
           create'[d] # None /\ create'[d].workspace_id = create[d].workspace_id
    BY <1>2, <1>5
  <2>3. QED
    BY <1>4, <2>1, <2>2 DEF LetInRightly, UseAt
<1>14. QED
  BY <1>7, <1>8, <1>10, <1>11, <1>12, <1>13

-----------------------------------------------------------------------------
(* Revoking.                                                               *)

(* A revoke call that begins, is refused or fails touches no key; one that *)
(* updates has waited for the others.                                      *)
LEMMA RevokeMoves ==
    ASSUME ApiKeysInv, NEW r \in Revoke, NEW new \in RevokeCall,
           revoke' = [revoke EXCEPT ![r] = new], ~RevokeAt(r, "ok"), new.pc # "ok",
           new.pc = "written" =>
              /\ api_keys[new.key] # None
              /\ api_keys[new.key].status = "active"
              /\ api_keys[new.key].workspace_id = new.workspace_id
              /\ \A s \in Revoke : RevokeAt(s, "written") => revoke[s].key # new.key,
           UNCHANGED <<api_keys, create, use>>
    PROVE  ApiKeysInv'
<1> USE DEF ApiKeysInv
<1>1. /\ revoke'[r] = new /\ new # None
      /\ \A s \in Revoke \ {r} : revoke'[s] = revoke[s]
      /\ revoke' \in [Revoke -> RevokeCall \cup {None}]
  BY DEF ApiKeysTypeOK
<1>2. ApiKeysTypeOK'
  BY <1>1 DEF ApiKeysTypeOK
<1>3. KeysAreCommitted' /\ DeadOnArrival' /\ LetInRightly'
  BY DEF KeysAreCommitted, CreateAt, DeadOnArrival, Dead, LetInRightly, UseAt
<1>4. UpdatesAreAlone'
  BY <1>1 DEF UpdatesAreAlone, RevokeAt
<1>5. RevokedOnceByItsOwner'
  <2>1. \A s \in Revoke : /\ RevokeAt(s, "ok")' <=> RevokeAt(s, "ok")
                          /\ RevokeAt(s, "ok") => revoke'[s] = revoke[s]
    BY <1>1 DEF RevokeAt
  <2>2. \A k \in Create : {s \in Revoke : RevokeAt(s, "ok")' /\ revoke'[s].key = k}
                        = {s \in Revoke : RevokeAt(s, "ok") /\ revoke[s].key = k}
    BY <2>1
  <2>3. QED
    BY <2>1, <2>2 DEF RevokedOnceByItsOwner
<1>6. QED
  BY <1>2, <1>3, <1>4, <1>5

LEMMA CommitRevokeStep ==
    ASSUME ApiKeysInv, NEW r \in Revoke, CommitRevoke(r)
    PROVE  ApiKeysInv'
<1> USE DEF ApiKeysInv
<1> DEFINE k == revoke[r].key
           row == [api_keys[k] EXCEPT !.status = "revoked"]
           new == [revoke[r] EXCEPT !.pc = "ok"]
<1>1. /\ revoke[r] \in RevokeCall /\ revoke[r] # None /\ revoke[r].pc = "written"
      /\ k \in Create
  BY DEF CommitRevoke, RevokeAt, ApiKeysTypeOK, RevokeCall
<1>2. /\ api_keys[k] # None /\ api_keys[k] \in Row /\ api_keys[k].status = "active"
      /\ api_keys[k].workspace_id = revoke[r].workspace_id
      /\ \A s \in Revoke \ {r} : RevokeAt(s, "written") => revoke[s].key # k
  BY <1>1 DEF CommitRevoke, UpdatesAreAlone, ApiKeysTypeOK
<1>3. /\ new \in RevokeCall /\ new # None /\ new.pc = "ok"
      /\ new.key = k /\ new.workspace_id = revoke[r].workspace_id
  BY <1>1 DEF RevokeCall, CallPc
<1>4. /\ row \in Row /\ row # None /\ row.status = "revoked"
      /\ row.workspace_id = api_keys[k].workspace_id
      /\ row.expired = api_keys[k].expired
  BY <1>2 DEF Row
<1>5. /\ revoke' = [revoke EXCEPT ![r] = new]
      /\ api_keys' = [api_keys EXCEPT ![k] = row]
      /\ create' = create /\ use' = use
  BY <1>1, <1>2 DEF CommitRevoke, ApiKeysTypeOK
<1> HIDE DEF row, new
<1>6. /\ revoke'[r] = new /\ api_keys'[k] = row
      /\ \A s \in Revoke \ {r} : revoke'[s] = revoke[s]
      /\ \A d \in Create \ {k} : api_keys'[d] = api_keys[d]
      /\ revoke' \in [Revoke -> RevokeCall \cup {None}]
      /\ api_keys' \in [Create -> Row \cup {None}]
  BY <1>1, <1>3, <1>4, <1>5 DEF ApiKeysTypeOK
<1>7. ApiKeysTypeOK'
  BY <1>5, <1>6 DEF ApiKeysTypeOK
<1>8. \A d \in Create : /\ api_keys'[d] # None <=> api_keys[d] # None
                        /\ api_keys[d] # None =>
                              /\ api_keys'[d].workspace_id = api_keys[d].workspace_id
                              /\ Dead(d) => Dead(d)'
  BY <1>2, <1>4, <1>6 DEF Dead
<1>9. KeysAreCommitted' /\ LetInRightly'
  BY <1>5, <1>8 DEF KeysAreCommitted, CreateAt, LetInRightly, UseAt
<1>10. DeadOnArrival'
  <2>1. \A u \in Use : use[u] # None => use[u].key \in Create
    BY DEF ApiKeysTypeOK, UseCall
  <2>2. QED
    BY <1>5, <1>8, <2>1 DEF DeadOnArrival, Dead
<1>11. UpdatesAreAlone'
  <2>1. \A s \in Revoke : RevokeAt(s, "written")' =>
           RevokeAt(s, "written") /\ s # r /\ revoke'[s] = revoke[s]
    BY <1>3, <1>6 DEF RevokeAt
  <2>2. \A s \in Revoke \ {r} : RevokeAt(s, "written") => revoke[s].key \in Create \ {k}
    BY <1>2 DEF RevokeAt, ApiKeysTypeOK, RevokeCall
  <2>3. QED
    BY <1>6, <2>1, <2>2 DEF UpdatesAreAlone
<1>12. RevokedOnceByItsOwner'
  <2> DEFINE revokers(d) == {s \in Revoke : RevokeAt(s, "ok") /\ revoke[s].key = d}
             after(d) == {s \in Revoke : RevokeAt(s, "ok")' /\ revoke'[s].key = d}
  <2>1. \A s \in Revoke \ {r} : RevokeAt(s, "ok")' <=> RevokeAt(s, "ok")
    BY <1>6 DEF RevokeAt
  <2>2. ~RevokeAt(r, "ok") /\ RevokeAt(r, "ok")' /\ revoke'[r].key = k
    BY <1>1, <1>3, <1>6 DEF RevokeAt
  <2>3. revokers(k) = {}
    BY <1>1, <1>2 DEF RevokedOnceByItsOwner
  <2>4. after(k) = {r}
    BY <1>6, <2>1, <2>2, <2>3
  <2>5. \A d \in Create \ {k} : after(d) = revokers(d)
    BY <1>6, <2>1, <2>2
  <2>6. \A d \in Create \ {k} :
           IF api_keys'[d] # None /\ api_keys'[d].status = "revoked"
           THEN \E s \in after(d) :
                   /\ after(d) = {s}
                   /\ revoke'[s].workspace_id = api_keys'[d].workspace_id
           ELSE after(d) = {}
    <3> SUFFICES ASSUME NEW d \in Create \ {k}
                 PROVE  IF api_keys[d] # None /\ api_keys[d].status = "revoked"
                        THEN \E s \in revokers(d) :
                                /\ revokers(d) = {s}
                                /\ revoke'[s].workspace_id = api_keys[d].workspace_id
                        ELSE revokers(d) = {}
      BY <1>6, <2>5
    <3>1. \A s \in revokers(d) : revoke'[s] = revoke[s]
      BY <1>6, <2>2
    <3>2. QED
      BY <3>1 DEF RevokedOnceByItsOwner
  <2>7. /\ api_keys'[k] # None /\ api_keys'[k].status = "revoked"
        /\ revoke'[r].workspace_id = api_keys'[k].workspace_id
    BY <1>2, <1>3, <1>4, <1>6
  <2>8. QED
    BY <2>4, <2>6, <2>7 DEF RevokedOnceByItsOwner
<1>13. QED
  BY <1>7, <1>9, <1>10, <1>11, <1>12

-----------------------------------------------------------------------------
(* Using.                                                                  *)

\* A key known to be revoked, or past expires_at, is dead.
LEMMA KnownDeadIsDead ==
    ASSUME ApiKeysInv, NEW k \in Create, KnownDead(k)
    PROVE  Dead(k)
<1>1. CASE api_keys[k] # None /\ api_keys[k].expired
  BY <1>1 DEF Dead
<1>2. ASSUME NEW r \in Revoke, RevokeAt(r, "ok"), revoke[r].key = k
      PROVE  Dead(k)
  BY <1>2 DEF ApiKeysInv, RevokedOnceByItsOwner, Dead
<1>3. QED
  BY <1>1, <1>2 DEF KnownDead

LEMMA UseMoves ==
    ASSUME ApiKeysInv, NEW u \in Use, NEW new \in UseCall,
           use' = [use EXCEPT ![u] = new],
           new.late => Dead(new.key),
           new.pc \in {"authenticated", "served"} =>
               /\ ~new.late
               /\ create[new.key] # None
               /\ new.workspace_id = create[new.key].workspace_id,
           UNCHANGED <<api_keys, create, revoke>>
    PROVE  ApiKeysInv'
<1> USE DEF ApiKeysInv
<1>1. /\ use'[u] = new /\ new # None
      /\ \A v \in Use \ {u} : use'[v] = use[v]
      /\ use' \in [Use -> UseCall \cup {None}]
  BY DEF ApiKeysTypeOK
<1>2. ApiKeysTypeOK'
  BY <1>1 DEF ApiKeysTypeOK
<1>3. KeysAreCommitted' /\ UpdatesAreAlone' /\ RevokedOnceByItsOwner'
  BY DEF KeysAreCommitted, CreateAt, UpdatesAreAlone, RevokedOnceByItsOwner,
     RevokeAt
<1>4. DeadOnArrival'
  BY <1>1 DEF DeadOnArrival, Dead
<1>5. LetInRightly'
  BY <1>1 DEF LetInRightly, UseAt
<1>6. QED
  BY <1>2, <1>3, <1>4, <1>5

LEMMA AuthenticateStep ==
    ASSUME ApiKeysInv, NEW u \in Use, Authenticate(u)
    PROVE  ApiKeysInv'
<1> USE DEF ApiKeysInv
<1> DEFINE k == use[u].key
           row == api_keys[k]
<1>1. use[u] \in UseCall /\ k \in Create /\ use[u].late \in BOOLEAN
      /\ (use[u].late => Dead(k))
  BY DEF Authenticate, UseAt, ApiKeysTypeOK, UseCall, DeadOnArrival
<1>2. CASE row # None /\ row.status = "active" /\ ~row.expired
  <2> DEFINE new == [use[u] EXCEPT !.pc = "authenticated",
                                   !.workspace_id = row.workspace_id]
  <2>1. row \in Row /\ ~use[u].late
    BY <1>1, <1>2 DEF ApiKeysTypeOK, Dead
  <2>2. /\ new \in UseCall /\ new.key = k /\ new.late = use[u].late
        /\ new.workspace_id = row.workspace_id
    BY <1>1, <2>1 DEF UseCall, UsePc, Row
  <2>3. use' = [use EXCEPT ![u] = new]
    BY <1>1, <1>2 DEF Authenticate, ApiKeysTypeOK
  <2>4. create[k] # None /\ create[k].workspace_id = row.workspace_id
    BY <1>1, <1>2 DEF KeysAreCommitted, CreateAt
  <2>5. UNCHANGED <<api_keys, create, revoke>>
    BY DEF Authenticate
  <2> HIDE DEF new
  <2>6. QED
    BY <2>1, <2>2, <2>3, <2>4, <2>5, UseMoves
<1>3. CASE ~(row # None /\ row.status = "active" /\ ~row.expired)
  <2> DEFINE new == [use[u] EXCEPT !.pc = "refused"]
  <2>1. /\ new \in UseCall /\ new.key = k /\ new.late = use[u].late /\ new.pc = "refused"
    BY <1>1 DEF UseCall, UsePc
  <2>2. use' = [use EXCEPT ![u] = new]
    BY <1>1, <1>3 DEF Authenticate, ApiKeysTypeOK
  <2>3. UNCHANGED <<api_keys, create, revoke>>
    BY DEF Authenticate
  <2> HIDE DEF new
  <2>4. QED
    BY <1>1, <2>1, <2>2, <2>3, UseMoves
<1>4. QED
  BY <1>2, <1>3

-----------------------------------------------------------------------------

LEMMA ExpireStep ==
    ASSUME ApiKeysInv, NEW k \in Create, Expire(k)
    PROVE  ApiKeysInv'
<1> USE DEF ApiKeysInv
<1> DEFINE row == [api_keys[k] EXCEPT !.expired = TRUE]
<1>1. api_keys[k] \in Row /\ api_keys[k] # None
  BY DEF Expire, ApiKeysTypeOK
<1>2. /\ row \in Row /\ row # None /\ row.expired
      /\ row.workspace_id = api_keys[k].workspace_id /\ row.status = api_keys[k].status
  BY <1>1 DEF Row
<1>3. api_keys' = [api_keys EXCEPT ![k] = row]
      /\ create' = create /\ revoke' = revoke /\ use' = use
  BY <1>1 DEF Expire, ApiKeysTypeOK
<1> HIDE DEF row
<1>4. /\ api_keys'[k] = row
      /\ \A d \in Create \ {k} : api_keys'[d] = api_keys[d]
      /\ api_keys' \in [Create -> Row \cup {None}]
  BY <1>2, <1>3 DEF ApiKeysTypeOK
<1>5. \A d \in Create : /\ api_keys'[d] # None <=> api_keys[d] # None
                        /\ api_keys[d] # None =>
                              /\ api_keys'[d].workspace_id = api_keys[d].workspace_id
                              /\ api_keys'[d].status = api_keys[d].status
                        /\ Dead(d) => Dead(d)'
  BY <1>1, <1>2, <1>4 DEF Dead
<1>6. ApiKeysTypeOK'
  BY <1>3, <1>4 DEF ApiKeysTypeOK
<1>7. KeysAreCommitted' /\ LetInRightly'
  BY <1>3, <1>5 DEF KeysAreCommitted, CreateAt, LetInRightly, UseAt
<1>8. UpdatesAreAlone'
  <2>1. \A r \in Revoke : RevokeAt(r, "written") => revoke[r].key \in Create
    BY DEF RevokeAt, ApiKeysTypeOK, RevokeCall
  <2>2. QED
    BY <1>3, <1>5, <2>1 DEF UpdatesAreAlone, RevokeAt
<1>9. RevokedOnceByItsOwner'
  BY <1>3, <1>5 DEF RevokedOnceByItsOwner, RevokeAt
<1>10. DeadOnArrival'
  <2>1. \A u \in Use : use[u] # None => use[u].key \in Create
    BY DEF ApiKeysTypeOK, UseCall
  <2>2. QED
    BY <1>3, <1>5, <2>1 DEF DeadOnArrival, Dead
<1>11. QED
  BY <1>6, <1>7, <1>8, <1>9, <1>10

LEMMA ApiKeysInvStep == ApiKeysInv /\ [Next]_vars => ApiKeysInv'
<1> SUFFICES ASSUME ApiKeysInv, [Next]_vars PROVE ApiKeysInv'
  OBVIOUS
<1>0. ApiKeysTypeOK
  BY DEF ApiKeysInv
<1>1. ASSUME NEW c \in Create, NEW w \in Workspace, NEW name \in Name,
             BeginCreate(c, w, name)
      PROVE  ApiKeysInv'
  <2>1. [pc |-> "begun", workspace_id |-> w, name |-> name] \in CreateCall
    BY DEF CreateCall, CallPc
  <2>2. QED
    BY <1>1, <2>1, CreateMoves DEF BeginCreate, CreateAt
<1>2. ASSUME NEW c \in Create, NEW pc \in CallPc \ {"ok"}, create[c] # None,
             ~CreateAt(c, "ok"), create' = [create EXCEPT ![c].pc = pc],
             UNCHANGED <<api_keys, revoke, use>>
      PROVE  ApiKeysInv'
  <2> DEFINE new == [create[c] EXCEPT !.pc = pc]
  <2>1. create[c] \in CreateCall
    BY <1>0, <1>2 DEF ApiKeysTypeOK
  <2>2. new \in CreateCall /\ new.pc = pc /\ new.workspace_id = create[c].workspace_id
    BY <2>1 DEF CreateCall
  <2>3. create' = [create EXCEPT ![c] = new]
    BY <1>0, <1>2, <2>1 DEF ApiKeysTypeOK
  <2> HIDE DEF new
  <2>4. QED
    BY <1>2, <2>2, <2>3, CreateMoves
<1>3. ASSUME NEW c \in Create, InsertKey(c) \/ FailCreate(c) PROVE ApiKeysInv'
  <2>1. \E pc \in CallPc \ {"ok"} : create' = [create EXCEPT ![c].pc = pc]
    BY <1>3 DEF InsertKey, FailCreate, CallPc
  <2>2. create[c] # None /\ ~CreateAt(c, "ok") /\ UNCHANGED <<api_keys, revoke, use>>
    BY <1>3 DEF InsertKey, FailCreate, CreateAt
  <2>3. QED
    BY <1>2, <2>1, <2>2
<1>4. ASSUME NEW r \in Revoke, NEW w \in Workspace, NEW k \in Create,
             BeginRevoke(r, w, k)
      PROVE  ApiKeysInv'
  <2>1. [pc |-> "begun", workspace_id |-> w, key |-> k] \in RevokeCall
    BY DEF RevokeCall, CallPc
  <2>2. QED
    BY <1>4, <2>1, RevokeMoves DEF BeginRevoke, RevokeAt
<1>5. ASSUME NEW r \in Revoke, UpdateKey(r) \/ FailRevoke(r) PROVE ApiKeysInv'
  <2> DEFINE k == revoke[r].key
             free == \A s \in Revoke : RevokeAt(s, "written") => revoke[s].key # k
             mine == /\ api_keys[k] # None
                     /\ api_keys[k].workspace_id = revoke[r].workspace_id
                     /\ api_keys[k].status = "active"
  <2>1. revoke[r] \in RevokeCall /\ revoke[r] # None /\ ~RevokeAt(r, "ok")
        /\ UNCHANGED <<api_keys, create, use>>
    BY <1>0, <1>5 DEF UpdateKey, FailRevoke, RevokeAt, ApiKeysTypeOK
  <2>2. PICK pc \in CallPc \ {"ok"} :
           /\ revoke' = [revoke EXCEPT ![r].pc = pc]
           /\ pc = "written" => free /\ mine
    <3>1. CASE FailRevoke(r)
      <4>1. revoke' = [revoke EXCEPT ![r].pc = "error"]
        BY <3>1 DEF FailRevoke
      <4>2. "error" \in CallPc \ {"ok"} /\ "error" # "written"
        BY DEF CallPc
      <4>3. QED
        BY <4>1, <4>2, Zenon
    <3>2. CASE UpdateKey(r)
      <4>1. CASE mine
        <5>1. free /\ revoke' = [revoke EXCEPT ![r].pc = "written"]
          BY <3>2, <4>1 DEF UpdateKey
        <5>2. QED
          BY <4>1, <5>1 DEF CallPc
      <4>2. CASE ~mine
        <5>1. revoke' = [revoke EXCEPT ![r].pc = "refused"]
          BY <3>2, <4>2 DEF UpdateKey
        <5>2. "refused" \in CallPc \ {"ok"} /\ "refused" # "written"
          BY DEF CallPc
        <5>3. QED
          BY <5>1, <5>2, Zenon
      <4>3. QED
        BY <4>1, <4>2
    <3>3. QED
      BY <1>5, <3>1, <3>2
  <2> DEFINE new == [revoke[r] EXCEPT !.pc = pc]
  <2>3. /\ new \in RevokeCall /\ new.pc = pc /\ new.key = k
        /\ new.workspace_id = revoke[r].workspace_id
    BY <2>1 DEF RevokeCall
  <2>4. revoke' = [revoke EXCEPT ![r] = new]
    BY <1>0, <2>1, <2>2 DEF ApiKeysTypeOK
  <2> HIDE DEF new
  <2>5. QED
    BY <2>1, <2>2, <2>3, <2>4, RevokeMoves
<1>6. ASSUME NEW u \in Use, NEW k \in Create, Arrive(u, k) PROVE ApiKeysInv'
  <2> DEFINE new == [pc |-> "begun", key |-> k, late |-> KnownDead(k),
                     workspace_id |-> None]
  <2>1. KnownDead(k) \in BOOLEAN
    BY DEF KnownDead
  <2>2. new \in UseCall /\ new.pc = "begun" /\ (new.late => Dead(new.key))
    BY <2>1, KnownDeadIsDead DEF UseCall, UsePc
  <2>3. use' = [use EXCEPT ![u] = new] /\ UNCHANGED <<api_keys, create, revoke>>
    BY <1>6 DEF Arrive
  <2> HIDE DEF new
  <2>4. QED
    BY <2>2, <2>3, UseMoves
<1>7. ASSUME NEW u \in Use, Serve(u) PROVE ApiKeysInv'
  <2> DEFINE new == [use[u] EXCEPT !.pc = "served"]
  <2>1. use[u] \in UseCall
    BY <1>0, <1>7 DEF Serve, UseAt, ApiKeysTypeOK
  <2>2. /\ new \in UseCall /\ new.key = use[u].key /\ new.late = use[u].late
        /\ new.workspace_id = use[u].workspace_id
    BY <2>1 DEF UseCall, UsePc
  <2>3. use' = [use EXCEPT ![u] = new] /\ UNCHANGED <<api_keys, create, revoke>>
    BY <1>0, <1>7, <2>1 DEF Serve, ApiKeysTypeOK
  <2>4. /\ ~use[u].late /\ create[use[u].key] # None
        /\ use[u].workspace_id = create[use[u].key].workspace_id
    BY <1>7 DEF Serve, ApiKeysInv, LetInRightly
  <2> HIDE DEF new
  <2>5. QED
    BY <2>2, <2>3, <2>4, UseMoves
<1>8. CASE UNCHANGED vars
  BY <1>8
  DEF vars, ApiKeysInv, ApiKeysTypeOK, KeysAreCommitted, UpdatesAreAlone,
     RevokedOnceByItsOwner, DeadOnArrival, Dead, LetInRightly, CreateAt, RevokeAt, UseAt
<1>9. QED
  BY <1>1, <1>3, <1>4, <1>5, <1>6, <1>7, <1>8, CommitKeyStep, CommitRevokeStep,
     AuthenticateStep, ExpireStep
  DEF Next, CreateStep, RevokeStep, UseStep

LEMMA ApiKeysInvariance == Spec => []ApiKeysInv
  BY InitApiKeysInv, ApiKeysInvStep, PTL DEF Spec

THEOREM ApiKeysTypeCorrect == Spec => []ApiKeysTypeOK
<1>1. ApiKeysInv => ApiKeysTypeOK
  BY DEF ApiKeysInv
<1>2. QED
  BY <1>1, ApiKeysInvariance, PTL

(* However many calls race to revoke a key, one succeeds, and it is of the *)
(* workspace the key belongs to.                                           *)
THEOREM KeysAreRevokedOnce == Spec => []RevokedOnceByItsOwner
<1>1. ApiKeysInv => RevokedOnceByItsOwner
  BY DEF ApiKeysInv
<1>2. QED
  BY <1>1, ApiKeysInvariance, PTL

(* No request is served that arrived after its key had died, and none for  *)
(* another workspace than its key's.                                       *)
THEOREM DeadKeysStayShut == Spec => []DeadKeysOpenNothing
<1>1. ApiKeysInv => DeadKeysOpenNothing
  BY DEF ApiKeysInv, LetInRightly, DeadKeysOpenNothing
<1>2. QED
  BY <1>1, ApiKeysInvariance, PTL
=============================================================================
