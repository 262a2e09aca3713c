--------------------------- MODULE Sessions_proofs ---------------------------
(***************************************************************************)
(* Proofs about AccessTokens and Sessions, for every set of refreshes and  *)
(* logouts, every time to live and every bound on the clock.               *)
(*                                                                         *)
(* The argument: whoever has updated the row holds its lock, and the row   *)
(* is not revoked while it does (RowIsHeld).  So nothing commits after a   *)
(* logout, and the tokens in circulation are the ones of refreshes that    *)
(* committed, and so minted, before it was answered (MintedInTime).        *)
(***************************************************************************)
EXTENDS Sessions, TLAPS, FiniteSetTheorems

USE CallAssumption, ClockAssumption, TtlAssumption

-----------------------------------------------------------------------------
(* The tokens.                                                             *)

(* A token of either kind opens only what its kind is for, exactly from    *)
(* the second it was made until its time to live is over                   *)
(* (create_access_token, create_registration_token and their decoders).    *)
THEOREM TokensOpenTheirOwn ==
    ASSUME NEW holder, NEW made \in Nat, NEW now \in Nat,
           Forged \notin {create_access_token(holder, made),
                          create_registration_token(holder, made)}
    PROVE  KindsApart(holder, made, now)
<1> DEFINE access == create_access_token(holder, made)
           registration == create_registration_token(holder, made)
<1>1. decode_access_token(registration, now) # "ok"
  BY DEF decode_access_token, JwtDecode, create_registration_token
<1>2. decode_registration_token(access, now) # "ok"
  BY DEF decode_registration_token, JwtDecode, create_access_token
<1>3. decode_access_token(access, now) = "ok" <=>
         now \in made..made + JWT_ACCESS_TOKEN_TTL_SECONDS - 1
  BY DEF decode_access_token, JwtDecode, create_access_token, JWT_ISSUER,
         JWT_VERSION, JWT_ACCESS_TOKEN_TYPE
<1>4. decode_registration_token(registration, now) = "ok" <=>
         now \in made..made + REGISTRATION_TOKEN_TTL_SECONDS - 1
  BY DEF decode_registration_token, JwtDecode, create_registration_token,
         JWT_ISSUER, REGISTRATION_TOKEN_TYPE
<1>5. QED
  BY <1>1, <1>2, <1>3, <1>4 DEF KindsApart

(* Whatever Forged is, an access token is not accepted past its exp.       *)
LEMMA ExpiredIsRefused ==
    ASSUME NEW holder, NEW made \in Nat, NEW now \in Nat,
           now >= made + JWT_ACCESS_TOKEN_TTL_SECONDS
    PROVE  decode_access_token(create_access_token(holder, made), now) # "ok"
  BY DEF decode_access_token, JwtDecode, create_access_token

-----------------------------------------------------------------------------
(* The inductive invariant.                                                *)

\* Between its update and its end, a transaction holds the row, not revoked.
RowIsHeld ==
    \A c \in Call : At(c, "updated") \/ At(c, "minted") =>
        lock = c /\ session.revoked_at = None

OnlyRefreshesMint == \A c \in Call : At(c, "minted") => c \in Refresh

MintedInTime ==
    /\ \A r \in Refresh : At(r, "minted") \/ At(r, "ok") => call[r].minted <= clock
    /\ \A l \in Logout : At(l, "ok") =>
          /\ call[l].answered <= clock
          /\ \A r \in Refresh : At(r, "ok") => call[r].minted <= call[l].answered

LogoutsAnswered ==
    LET answered == {c \in Logout : At(c, "ok")}
    IN  IF session.revoked_at = None THEN answered = {}
        ELSE \E c \in Logout : answered = {c}

SessionInv ==
    /\ SessionsTypeOK
    /\ RowIsHeld
    /\ OnlyRefreshesMint
    /\ MintedInTime
    /\ SupersededIsDead
    /\ LogoutsAnswered

LEMMA InitSessionInv == Init => SessionInv
<1> SUFFICES ASSUME Init PROVE SessionInv
  OBVIOUS
<1>1. SessionsTypeOK
  BY DEF Init, SessionsTypeOK, Token, Call
<1>2. \A c \in Call, pc \in Pc : ~At(c, pc)
  BY DEF Init, At
<1>3. RowIsHeld /\ OnlyRefreshesMint /\ MintedInTime
  BY <1>2 DEF Init, RowIsHeld, OnlyRefreshesMint, MintedInTime, Pc, Call
<1>4. SupersededIsDead
  BY <1>2 DEF Init, SupersededIsDead, Given, Pc, Call
<1>5. LogoutsAnswered
  BY <1>2 DEF Init, LogoutsAnswered, Pc, Call
<1>6. QED
  BY <1>1, <1>3, <1>4, <1>5 DEF SessionInv

(* A call that moves on is where it went; the others are where they were.  *)
LEMMA MovingOn ==
    ASSUME SessionsTypeOK, NEW c \in Call, NEW pc \in Pc, call[c] # None,
           Goto(c, pc)
    PROVE  /\ call' \in [Call -> Transaction \cup {None}]
           /\ \A d \in Call \ {c} : call'[d] = call[d]
           /\ call'[c] = [call[c] EXCEPT !.pc = pc]
           /\ call'[c] # None
           /\ \A other \in Pc : At(c, other)' <=> other = pc
           /\ call'[c].minted = call[c].minted
<1>1. call[c] \in Transaction
  BY DEF SessionsTypeOK
<1>2. [call[c] EXCEPT !.pc = pc] \in Transaction
  BY <1>1 DEF Transaction
<1>3. /\ call'[c] = [call[c] EXCEPT !.pc = pc]
      /\ \A d \in Call \ {c} : call'[d] = call[d]
      /\ call' \in [Call -> Transaction \cup {None}]
  BY <1>2 DEF Goto, SessionsTypeOK
<1>4. call'[c] # None
  BY <1>2, <1>3
<1>5. call'[c].pc = pc /\ call'[c].minted = call[c].minted
  BY <1>1, <1>3 DEF Transaction
<1>6. QED
  BY <1>3, <1>4, <1>5 DEF At

(* A step that leaves the row alone and moves no call to or from the pcs   *)
(* the invariant speaks of keeps it.                                       *)
LEMMA QuietMove ==
    ASSUME SessionInv, NEW c \in Call, NEW pc \in {"found", "refused", "expired", "error"},
           call[c] # None, ~At(c, "ok"), Goto(c, pc),
           lock' = lock \/ Release(c),
           UNCHANGED <<session, superseded, clock>>
    PROVE  SessionInv'
<1> USE DEF SessionInv
<1>1. pc \in Pc
  BY DEF Pc
<1>2. /\ call' \in [Call -> Transaction \cup {None}]
      /\ \A d \in Call \ {c} : call'[d] = call[d]
      /\ \A other \in Pc : At(c, other)' <=> other = pc
  BY <1>1, MovingOn
<1>3. SessionsTypeOK'
  BY <1>2 DEF SessionsTypeOK, Release
<1>4. \A d \in Call : /\ At(d, "ok")' <=> At(d, "ok")
                      /\ At(d, "updated")' => At(d, "updated") /\ d # c
                      /\ At(d, "minted")' => At(d, "minted") /\ d # c
                      /\ At(d, "ok")' \/ At(d, "minted")' => call'[d] = call[d]
  BY <1>2 DEF At, Pc
<1>5. RowIsHeld'
  BY <1>4 DEF RowIsHeld, Release
<1>6. OnlyRefreshesMint' /\ MintedInTime'
  BY <1>4 DEF OnlyRefreshesMint, MintedInTime, Call
<1>7. SupersededIsDead'
  BY <1>4 DEF SupersededIsDead, Given, Call
<1>8. LogoutsAnswered'
  BY <1>4 DEF LogoutsAnswered, Call
<1>9. QED
  BY <1>3, <1>5, <1>6, <1>7, <1>8

LEMMA SessionInvStep == SessionInv /\ [Next]_vars => SessionInv'
<1> SUFFICES ASSUME SessionInv, [Next]_vars PROVE SessionInv'
  OBVIOUS
<1> USE DEF SessionInv
<1>1. ASSUME NEW c \in Call, NEW t \in Token, Begin(c, t) PROVE SessionInv'
  <2>1. /\ call'[c] = [pc |-> "begun", token |-> t,
                       started |-> IF c \in Logout THEN clock ELSE 0,
                       minted |-> 0, answered |-> 0]
        /\ \A d \in Call \ {c} : call'[d] = call[d]
        /\ call' \in [Call -> Transaction \cup {None}]
    <3>1. (IF c \in Logout THEN clock ELSE 0) \in Nat
      BY DEF SessionsTypeOK
    <3>2. QED
      BY <1>1, <3>1 DEF Begin, SessionsTypeOK, Transaction, Pc
  <2>2. SessionsTypeOK'
    BY <1>1, <2>1 DEF Begin, SessionsTypeOK
  <2>3. \A d \in Call, pc \in {"updated", "minted", "ok"} : At(d, pc)' <=> At(d, pc)
    BY <1>1, <2>1 DEF Begin, At
  <2>4. RowIsHeld' /\ OnlyRefreshesMint'
    BY <1>1, <2>3 DEF Begin, RowIsHeld, OnlyRefreshesMint
  <2>5. MintedInTime'
    BY <1>1, <2>1, <2>3 DEF Begin, MintedInTime, Call, At
  <2>6. SupersededIsDead' /\ LogoutsAnswered'
    BY <1>1, <2>3 DEF Begin, SupersededIsDead, Given, LogoutsAnswered, Call
  <2>7. QED
    BY <2>2, <2>4, <2>5, <2>6
<1>2. ASSUME NEW c \in Call, Find(c) PROVE SessionInv'
  BY <1>2, QuietMove DEF Find, At
<1>3. ASSUME NEW c \in Call, Update(c) PROVE SessionInv'
  <2>1. CASE session.revoked_at = None
    <3>1. Goto(c, "updated") /\ lock' = c /\ call[c] # None
      BY <1>3, <2>1 DEF Update, At
    <3>2. /\ call' \in [Call -> Transaction \cup {None}]
          /\ \A d \in Call \ {c} : call'[d] = call[d]
          /\ \A other \in Pc : At(c, other)' <=> other = "updated"
      BY <3>1, MovingOn DEF Pc
    <3>3. SessionsTypeOK'
      BY <1>3, <3>1, <3>2 DEF Update, SessionsTypeOK
    <3>4. \A d \in Call \ {c} : ~At(d, "updated") /\ ~At(d, "minted")
      BY <1>3 DEF Update, RowIsHeld
    <3>5. \A d \in Call \ {c}, pc \in Pc : At(d, pc)' <=> At(d, pc)
      BY <3>2 DEF At
    <3>6. RowIsHeld' /\ OnlyRefreshesMint'
      BY <1>3, <2>1, <3>1, <3>2, <3>4, <3>5
      DEF Update, RowIsHeld, OnlyRefreshesMint, Pc
    <3>7. \A d \in Call : At(d, "ok")' <=> At(d, "ok")
      BY <1>3, <3>2, <3>5 DEF Update, At, Pc
    <3>8. MintedInTime'
      BY <1>3, <2>1, <3>2, <3>4, <3>5, <3>7
      DEF Update, MintedInTime, Call, Pc, At
    <3>9. SupersededIsDead' /\ LogoutsAnswered'
      BY <1>3, <3>7 DEF Update, SupersededIsDead, Given, LogoutsAnswered, Call
    <3>10. QED
      BY <3>3, <3>6, <3>8, <3>9
  <2>2. CASE session.revoked_at # None
    BY <1>3, <2>2, QuietMove DEF Update, At
  <2>3. QED
    BY <2>1, <2>2
<1>4. ASSUME NEW c \in Call, Mint(c) PROVE SessionInv'
  <2>1. call[c] \in Transaction /\ clock \in Nat
    BY <1>4 DEF Mint, At, SessionsTypeOK
  <2>2. [call[c] EXCEPT !.pc = "minted", !.minted = clock] \in Transaction
    BY <2>1 DEF Transaction, Pc
  <2>3. /\ call'[c] = [call[c] EXCEPT !.pc = "minted", !.minted = clock]
        /\ \A d \in Call \ {c} : call'[d] = call[d]
        /\ call' \in [Call -> Transaction \cup {None}]
    BY <1>4, <2>1, <2>2 DEF Mint, SessionsTypeOK
  <2>4. SessionsTypeOK'
    BY <1>4, <2>3 DEF Mint, SessionsTypeOK
  <2>5. call'[c].pc = "minted" /\ call'[c].minted = clock /\ call'[c] # None
    BY <2>1, <2>2, <2>3 DEF Transaction
  <2>6. \A d \in Call : /\ At(d, "ok")' <=> At(d, "ok")
                        /\ At(d, "updated")' => At(d, "updated")
                        /\ At(d, "minted")' => d = c \/ At(d, "minted")
    BY <1>4, <2>3, <2>5 DEF Mint, At
  <2>7. RowIsHeld' /\ OnlyRefreshesMint'
    BY <1>4, <2>6 DEF Mint, RowIsHeld, OnlyRefreshesMint
  <2>8. MintedInTime'
    <3>1. session.revoked_at = None
      BY <1>4 DEF Mint, RowIsHeld
    <3>2. \A r \in Refresh : At(r, "minted")' \/ At(r, "ok")' => call'[r].minted <= clock
      <4>1. call'[c].minted <= clock
        BY <2>1, <2>5
      <4>2. ASSUME NEW r \in Refresh \ {c}, At(r, "minted")' \/ At(r, "ok")'
            PROVE  call'[r].minted <= clock
        BY <2>3, <2>6, <4>2 DEF MintedInTime, Call
      <4>3. QED
        BY <4>1, <4>2
    <3>3. \A l \in Logout : ~At(l, "ok")'
      BY <2>6, <3>1 DEF LogoutsAnswered, Call
    <3>4. QED
      BY <1>4, <3>2, <3>3 DEF Mint, MintedInTime
  <2>9. SupersededIsDead' /\ LogoutsAnswered'
    BY <1>4, <2>6 DEF Mint, SupersededIsDead, Given, LogoutsAnswered, Call
  <2>10. QED
    BY <2>4, <2>7, <2>8, <2>9
<1>5. ASSUME NEW c \in Call, CommitRefresh(c) PROVE SessionInv'
  <2>1. /\ c \in Refresh /\ call[c] # None /\ lock = c
        /\ session.revoked_at = None /\ session'.revoked_at = None
        /\ session'.refresh_token_hash = c
    BY <1>5 DEF CommitRefresh, OnlyRefreshesMint, RowIsHeld, At, SessionsTypeOK
  <2>2. /\ call' \in [Call -> Transaction \cup {None}]
        /\ \A d \in Call \ {c} : call'[d] = call[d]
        /\ call'[c].minted = call[c].minted
        /\ \A other \in Pc : At(c, other)' <=> other = "ok"
    BY <1>5, <2>1, MovingOn DEF CommitRefresh, Pc
  <2>3. SessionsTypeOK'
    BY <1>5, <2>1, <2>2 DEF CommitRefresh, Release, SessionsTypeOK, Token
  <2>4. \A d \in Call \ {c}, pc \in Pc : At(d, pc)' <=> At(d, pc)
    BY <2>2 DEF At
  <2>5. \A d \in Call : ~At(d, "updated")' /\ ~At(d, "minted")'
    BY <2>1, <2>2, <2>4 DEF RowIsHeld, Pc
  <2>6. RowIsHeld' /\ OnlyRefreshesMint'
    BY <2>5 DEF RowIsHeld, OnlyRefreshesMint
  <2>7. MintedInTime'
    <3>1. \A l \in Logout : ~At(l, "ok")'
      BY <2>1, <2>4 DEF LogoutsAnswered, Call, Pc
    <3>2. QED
      BY <1>5, <2>2, <2>4, <2>5, <3>1 DEF CommitRefresh, MintedInTime, Call, Pc
  <2>8. SupersededIsDead'
    <3>1. superseded' = {r \in Refresh : At(r, "ok")} \cup {FirstToken}
      BY <1>5 DEF CommitRefresh, SupersededIsDead
    <3>2. {r \in Refresh : At(r, "ok")'} = {r \in Refresh : At(r, "ok")} \cup {c}
      BY <2>1, <2>2, <2>4 DEF Call, Pc
    <3>3. ~At(c, "ok") /\ c # FirstToken
      BY <1>5, <2>1 DEF CommitRefresh, At, Call
    <3>4. QED
      BY <2>1, <2>2, <3>1, <3>2, <3>3 DEF SupersededIsDead, Given, Pc
  <2>9. LogoutsAnswered'
    BY <2>1, <2>4 DEF LogoutsAnswered, Call, Pc
  <2>10. QED
    BY <2>3, <2>6, <2>7, <2>8, <2>9
<1>6. ASSUME NEW c \in Call, CommitLogout(c) PROVE SessionInv'
  <2>1. /\ c \in Logout /\ c \notin Refresh /\ call[c] # None /\ lock = c
        /\ session.revoked_at = None
        /\ clock \in Nat /\ call[c] \in Transaction
    BY <1>6 DEF CommitLogout, RowIsHeld, At, SessionsTypeOK, Call
  <2>0. /\ session'.revoked_at = call[c].started
        /\ session'.revoked_at \in Nat /\ session'.revoked_at # None
        /\ session'.refresh_token_hash = session.refresh_token_hash
        /\ session' \in [refresh_token_hash : Token, expired : BOOLEAN,
                         revoked_at : Nat \cup {None}]
    BY <1>6, <2>1 DEF CommitLogout, SessionsTypeOK, Transaction
  <2>2. /\ call' \in [Call -> Transaction \cup {None}]
        /\ \A d \in Call \ {c} : call'[d] = call[d]
        /\ call'[c].answered = clock
        /\ \A other \in Pc : At(c, other)' <=> other = "ok"
    <3>1. [call[c] EXCEPT !.pc = "ok", !.answered = clock] \in Transaction
      BY <2>1 DEF Transaction, Pc
    <3>2. /\ call'[c] = [call[c] EXCEPT !.pc = "ok", !.answered = clock]
          /\ \A d \in Call \ {c} : call'[d] = call[d]
          /\ call' \in [Call -> Transaction \cup {None}]
      BY <1>6, <3>1 DEF CommitLogout, SessionsTypeOK
    <3>3. call'[c].pc = "ok" /\ call'[c].answered = clock /\ call'[c] # None
      BY <2>1, <3>1, <3>2 DEF Transaction
    <3>4. QED
      BY <3>2, <3>3 DEF At
  <2>3. SessionsTypeOK'
    BY <1>6, <2>1, <2>0, <2>2 DEF CommitLogout, Release, SessionsTypeOK
  <2>4. \A d \in Call \ {c}, pc \in Pc : At(d, pc)' <=> At(d, pc)
    BY <2>2 DEF At
  <2>5. \A d \in Call : ~At(d, "updated")' /\ ~At(d, "minted")'
    BY <2>1, <2>2, <2>4 DEF RowIsHeld, Pc
  <2>6. RowIsHeld' /\ OnlyRefreshesMint'
    BY <2>5 DEF RowIsHeld, OnlyRefreshesMint
  <2>7. \A r \in Refresh : call'[r] = call[r] /\ (At(r, "ok")' <=> At(r, "ok"))
    BY <2>1, <2>2, <2>4 DEF Call, Pc
  <2>8. MintedInTime'
    <3>1. \A l \in Logout : At(l, "ok")' => l = c
      BY <2>1, <2>4 DEF LogoutsAnswered, Call, Pc
    <3>2. QED
      BY <1>6, <2>1, <2>2, <2>5, <2>7, <3>1 DEF CommitLogout, MintedInTime, Call
  <2>9. SupersededIsDead'
    BY <1>6, <2>0, <2>7 DEF CommitLogout, SupersededIsDead, Given
  <2>10. LogoutsAnswered'
    <3>1. {d \in Logout : At(d, "ok")'} = {c}
      BY <2>1, <2>2, <2>4 DEF LogoutsAnswered, Call, Pc
    <3>2. QED
      BY <2>1, <2>0, <3>1 DEF LogoutsAnswered
  <2>11. QED
    BY <2>3, <2>6, <2>8, <2>9, <2>10
<1>7. ASSUME NEW c \in Call, Fail(c) PROVE SessionInv'
  BY <1>7, QuietMove DEF Fail, At
<1>8. CASE Expire
  <2>1. session'.revoked_at = session.revoked_at
        /\ session'.refresh_token_hash = session.refresh_token_hash
    BY <1>8 DEF Expire, SessionsTypeOK
  <2>2. SessionsTypeOK'
    BY <1>8 DEF Expire, SessionsTypeOK
  <2>3. \A d \in Call, pc \in Pc : At(d, pc)' <=> At(d, pc)
    BY <1>8 DEF Expire, At
  <2>4. QED
    BY <1>8, <2>1, <2>2, <2>3
    DEF Expire, RowIsHeld, OnlyRefreshesMint, MintedInTime,
       SupersededIsDead, Given, LogoutsAnswered, Pc, Call
<1>9. CASE Tick
  <2>1. clock \in Nat /\ clock' \in 0..MaxTime /\ clock' = clock + 1
    BY <1>9 DEF Tick, SessionsTypeOK
  <2>2. SessionsTypeOK'
    BY <1>9, <2>1 DEF Tick, SessionsTypeOK
  <2>3. \A d \in Call, pc \in Pc : At(d, pc)' <=> At(d, pc)
    BY <1>9 DEF Tick, At
  <2>4. RowIsHeld' /\ OnlyRefreshesMint' /\ SupersededIsDead' /\ LogoutsAnswered'
    BY <1>9, <2>3
    DEF Tick, RowIsHeld, OnlyRefreshesMint, SupersededIsDead, Given,
       LogoutsAnswered, Pc, Call
  <2>5. \A r \in Refresh : At(r, "minted") \/ At(r, "ok") => call[r].minted \in Nat
    BY DEF At, SessionsTypeOK, Call, Transaction
  <2>6. \A l \in Logout : At(l, "ok") => call[l].answered \in Nat
    BY DEF At, SessionsTypeOK, Call, Transaction
  <2>7. MintedInTime'
    BY <1>9, <2>1, <2>3, <2>5, <2>6 DEF Tick, MintedInTime, Pc, Call
  <2>8. QED
    BY <2>2, <2>4, <2>7
<1>10. CASE UNCHANGED vars
  BY <1>10
  DEF vars, SessionsTypeOK, RowIsHeld, OnlyRefreshesMint, MintedInTime,
     SupersededIsDead, Given, LogoutsAnswered, At
<1>11. QED
  BY <1>1, <1>2, <1>3, <1>4, <1>5, <1>6, <1>7, <1>8, <1>9, <1>10 DEF Next, Step

LEMMA SessionInvariance == Spec => []SessionInv
  BY InitSessionInv, SessionInvStep, PTL DEF Spec

-----------------------------------------------------------------------------

THEOREM SessionsTypeCorrect == Spec => []SessionsTypeOK
<1>1. SessionInv => SessionsTypeOK
  BY DEF SessionInv
<1>2. QED
  BY <1>1, SessionInvariance, PTL

(* Of racing refreshes the last to commit has the session, and a token it  *)
(* has moved on from never opens it again.                                 *)
THEOREM OutdatedTokensStayDead == Spec => []SupersededIsDead
<1>1. SessionInv => SupersededIsDead
  BY DEF SessionInv
<1>2. QED
  BY <1>1, SessionInvariance, PTL

(* However many logouts race, one is answered with success.                *)
THEOREM ExactlyOneLogout == Spec => []OneLogoutSucceeds
<1>1. SessionInv => OneLogoutSucceeds
  BY FS_EmptySet, FS_Singleton
  DEF SessionInv, LogoutsAnswered, OneLogoutSucceeds
<1>2. QED
  BY <1>1, SessionInvariance, PTL

(* One time to live after a logout was answered nothing that was handed    *)
(* out is accepted, because a refresh that mints late can no longer        *)
(* commit.                                                                 *)
THEOREM LogoutEndsAccess == Spec => []AccessEndsAfterLogout
<1>1. SessionInv => AccessEndsAfterLogout
  <2> SUFFICES ASSUME SessionInv, NEW l \in Logout, At(l, "ok"),
                      clock >= call[l].answered + JWT_ACCESS_TOKEN_TTL_SECONDS,
                      NEW t \in GivenAccess
               PROVE  decode_access_token(t, clock) # "ok"
    BY DEF AccessEndsAfterLogout
  <2>1. call[l].answered \in Nat /\ clock \in Nat
    BY DEF SessionInv, SessionsTypeOK, At, Call, Transaction
  <2>2. PICK made \in Nat : /\ t = create_access_token(User, made)
                            /\ made <= call[l].answered
    <3>1. CASE t = create_access_token(User, 0)
      BY <2>1, <3>1
    <3>2. ASSUME NEW r \in Refresh, At(r, "ok"),
                 t = create_access_token(User, call[r].minted)
          PROVE  call[r].minted \in Nat /\ call[r].minted <= call[l].answered
      BY <3>2
      DEF SessionInv, SessionsTypeOK, MintedInTime, At, Call, Transaction
    <3>3. QED
      BY <3>1, <3>2 DEF GivenAccess
  <2>3. clock >= made + JWT_ACCESS_TOKEN_TTL_SECONDS
    BY <2>1, <2>2
  <2>4. QED
    BY <2>1, <2>2, <2>3, ExpiredIsRefused
<1>2. QED
  BY <1>1, SessionInvariance, PTL

(* No refresh that read the session before the logout revives it.          *)
THEOREM LogoutIsFinal == Spec => RevokedIsFinal
<1>1. SessionInv /\ [Next]_vars =>
         [session.revoked_at # None =>
            /\ session'.revoked_at = session.revoked_at
            /\ session'.refresh_token_hash = session.refresh_token_hash]_vars
  <2> SUFFICES ASSUME SessionInv, Next, session.revoked_at # None
               PROVE  /\ session'.revoked_at = session.revoked_at
                      /\ session'.refresh_token_hash = session.refresh_token_hash
    BY DEF vars
  <2>1. \A c \in Call : ~CommitRefresh(c) /\ ~CommitLogout(c)
    BY DEF SessionInv, RowIsHeld, CommitRefresh, CommitLogout
  <2>2. CASE Expire
    BY <2>2 DEF Expire, SessionInv, SessionsTypeOK
  <2>3. CASE session' = session
    BY <2>3
  <2>4. QED
    BY <2>1, <2>2, <2>3 DEF Next, Step, Begin, Find, Update, Mint, Fail, Tick
<1>2. QED
  BY <1>1, SessionInvariance, PTL DEF Spec, RevokedIsFinal
=============================================================================
