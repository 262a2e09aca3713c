------------------------------ MODULE Otp_proofs ------------------------------
(***************************************************************************)
(* Proofs about the one-time codes: in part 1 about OtpFlows, for every    *)
(* set of requests and verifications; in part 2 about OtpRateLimiter, for  *)
(* every set of calls, windows, limits and lengths.                        *)
(***************************************************************************)
EXTENDS OtpFlows, OtpRateLimiter, TLAPS, FiniteSetTheorems

-----------------------------------------------------------------------------
(***************************************************************************)
(* Part 1.  In both flows a verification that has consumed a code holds    *)
(* the row until it ends (HolderIsReady), so every grant uses up an        *)
(* unconsumed row of its own.  That the row is the one whose code was      *)
(* presented is a matter of time, and of sign-in only.  A code that is no  *)
(* longer there was deleted by a request (IssuedIsThere).  When that is    *)
(* the request that issued the row used up, its INSERT started after the   *)
(* verification had begun (MatchedBefore), which is what                   *)
(* chk_consumed_after_creation rejects; so it was a third one.             *)
(***************************************************************************)

-----------------------------------------------------------------------------
(* The inductive invariant.                                                *)

FlowsTypeOK ==
    /\ CodesTypeOK
    /\ tokens \subseteq Verify
    /\ account \in BOOLEAN
    /\ flow \in OTPFlow

\* What has begun has begun in the past.
Past ==
    /\ \A v \in Verify : verify[v] # None => verify[v].started < clock
    /\ \A q \in Request : request[q] # None => request[q].started <= clock

RowIsIssued == otp # None => RequestAt(otp.code, "issued")

Matched(v) == \E pc \in {"matched", "updating", "consumed", "granted"} : VerifyAt(v, pc)

MatchedIsIssued == \A v \in Verify : Matched(v) => RequestAt(verify[v].code, "issued")

HolderIsReady ==
    \A v \in Verify : VerifyAt(v, "consumed") =>
        /\ lock = v /\ Unconsumed
        /\ flow = "login" => otp.code = verify[v].target

\* A DELETE is about a code of another request that was there.
TargetsWereIssued ==
    \A q \in Request : request[q] # None /\ request[q].target # None =>
        request[q].target # q /\ RequestAt(request[q].target, "issued")

DeletedIsGone ==
    otp # None => \A q \in Request : ~Deleted(q, otp.code)

\* A code that has gone was deleted.
IssuedIsThere ==
    \A p \in Request : RequestAt(p, "issued") =>
        \/ otp # None /\ otp.code = p
        \/ \E q \in Request : Deleted(q, p)

\* The INSERT after the DELETE of a code starts after whoever found the code.
MatchedBefore ==
    \A v \in Verify, q \in Request :
        /\ Matched(v)
        /\ RequestAt(q, "inserting") \/ RequestAt(q, "issued")
        /\ request[q].target = verify[v].code
        => verify[v].started < request[q].started

RowIsDated == otp # None => otp.created_at = request[otp.code].started

\* The row of a code that a grant used up is gone, or consumed by the grant.
GrantedIsUsed ==
    \A v \in Granted :
        /\ verify[v].target \in Request /\ RequestAt(verify[v].target, "issued")
        /\ otp # None /\ otp.code = verify[v].target => otp.consumed_by = v

OneGrantPerRow ==
    \A v, w \in Granted : verify[v].target = verify[w].target => v = w

TakesItsOwn ==
    \A v \in Verify :
        VerifyAt(v, "consumed") \/ VerifyAt(v, "granted") =>
            verify[v].target = verify[v].code \/ TookNewerCode(v)

SignIn ==
    /\ TargetsWereIssued
    /\ DeletedIsGone
    /\ IssuedIsThere
    /\ MatchedBefore
    /\ RowIsDated
    /\ GrantedIsUsed
    /\ OneGrantPerRow
    /\ TakesItsOwn

Issued == {q \in Request : RequestAt(q, "issued")}

Open == IF Unconsumed THEN 1 ELSE 0

\* GrantsHaveCodes, of sets that are finite.
GrantsAreBacked ==
    /\ IsFiniteSet(Granted) /\ IsFiniteSet(Issued)
    /\ Cardinality(Granted) + Open <= Cardinality(Issued)

FlowsInv ==
    /\ FlowsTypeOK
    /\ Past
    /\ RowIsIssued
    /\ MatchedIsIssued
    /\ HolderIsReady
    /\ flow = "login" => SignIn
    /\ GrantsAreBacked

USE CodeAssumption

LEMMA InitFlowsInv == Init => FlowsInv
<1> SUFFICES ASSUME Init
             PROVE  FlowsInv
  OBVIOUS
<1>1. /\ otp = None /\ lock = None /\ clock = 0 /\ tokens = {} /\ account = FALSE
      /\ verify = [v \in Verify |-> None] /\ request = [q \in Request |-> None]
      /\ flow \in OTPFlow
  BY DEF Init, R!Init, R!CodesInit
<1>2. FlowsTypeOK
  BY <1>1 DEF FlowsTypeOK, CodesTypeOK
<1>3. Past /\ RowIsIssued /\ MatchedIsIssued /\ HolderIsReady
  BY <1>1 DEF Past, RowIsIssued, MatchedIsIssued, Matched, HolderIsReady,
     VerifyAt, RequestAt
<1>0. SignIn
  BY <1>1 DEF SignIn, TargetsWereIssued, DeletedIsGone, IssuedIsThere,
     MatchedBefore, Matched, RowIsDated, GrantedIsUsed, OneGrantPerRow,
     TakesItsOwn, Granted, VerifyAt, RequestAt
<1>4. Granted = {} /\ Issued = {} /\ Open = 0
  BY <1>1 DEF Granted, Issued, Open, Unconsumed, VerifyAt, RequestAt
<1>5. GrantsAreBacked
  BY <1>4, FS_EmptySet DEF GrantsAreBacked
<1>6. QED
  BY <1>0, <1>2, <1>3, <1>5 DEF FlowsInv

-----------------------------------------------------------------------------
(* Verifications.                                                          *)

(* A verification that becomes `new', short of consuming or granting,      *)
(* touches no code: at most it lets go of the row.                         *)
LEMMA VerifyMoves ==
    ASSUME FlowsInv, NEW v \in Verify, NEW new \in VerifyCall,
           verify' = [verify EXCEPT ![v] = new],
           ~VerifyAt(v, "granted"), new.pc \notin {"consumed", "granted"},
           new.started < clock',
           new.pc \in {"matched", "updating"} =>
              \/ Matched(v) /\ new.code = verify[v].code /\ new.started = verify[v].started
              \/ otp # None /\ otp.code = new.code,
           lock' = lock \/ (lock = v /\ lock' = None),
           clock' \in {clock, clock + 1}, UNCHANGED <<otp, request, flow>>,
           tokens' \subseteq Verify, account' \in BOOLEAN
    PROVE  FlowsInv'
<1> USE DEF VerifyAt, RequestAt
<1>1. FlowsTypeOK'
  BY DEF FlowsInv, FlowsTypeOK, CodesTypeOK
<1>2. Past' /\ RowIsIssued'
  BY DEF FlowsInv, Past, RowIsIssued, FlowsTypeOK, CodesTypeOK, VerifyCall,
     RequestCall
<1>3. \A u \in Verify : u # v => verify'[u] = verify[u]
  BY DEF FlowsInv, FlowsTypeOK, CodesTypeOK
<1>4. verify'[v] = new /\ new # None
  BY DEF FlowsInv, FlowsTypeOK, CodesTypeOK
<1>5. HolderIsReady'
  BY <1>3, <1>4 DEF FlowsInv, HolderIsReady, Unconsumed
<1>6. MatchedIsIssued'
  BY <1>3, <1>4 DEF FlowsInv, MatchedIsIssued, Matched, RowIsIssued
<1>7. Granted' = Granted /\ \A u \in Granted : u # v
  BY <1>3, <1>4 DEF Granted
<1>8. ASSUME flow = "login"
      PROVE  SignIn'
  <2>1. TargetsWereIssued' /\ DeletedIsGone' /\ IssuedIsThere' /\ RowIsDated'
    BY <1>8 DEF FlowsInv, SignIn, TargetsWereIssued, DeletedIsGone,
       IssuedIsThere, RowIsDated, Deleted
  <2>2. MatchedBefore'
    <3> SUFFICES ASSUME NEW u \in Verify, NEW q \in Request, Matched(u)',
                        RequestAt(q, "inserting") \/ RequestAt(q, "issued"),
                        request[q].target = verify'[u].code
                 PROVE  verify'[u].started < request[q].started
      BY DEF MatchedBefore
    <3>1. CASE Matched(u) /\ verify'[u].code = verify[u].code
                          /\ verify'[u].started = verify[u].started
      BY <1>8, <3>1 DEF FlowsInv, SignIn, MatchedBefore
    <3>2. CASE u = v /\ otp # None /\ otp.code = new.code
      BY <1>4, <1>8, <3>2 DEF FlowsInv, SignIn, DeletedIsGone, Deleted
    <3>3. QED
      BY <1>3, <1>4, <3>1, <3>2 DEF Matched
  <2>3. GrantedIsUsed' /\ OneGrantPerRow'
    BY <1>3, <1>7, <1>8
    DEF FlowsInv, SignIn, GrantedIsUsed, OneGrantPerRow, Granted
  <2>4. TakesItsOwn'
    BY <1>3, <1>4, <1>8
    DEF FlowsInv, SignIn, TakesItsOwn, TookNewerCode, Deleted
  <2>5. QED
    BY <2>1, <2>2, <2>3, <2>4 DEF SignIn
<1>9. Issued' = Issued /\ Open' = Open
  BY DEF Issued, Open, Unconsumed
<1>10. GrantsAreBacked'
  BY <1>7, <1>9 DEF FlowsInv, GrantsAreBacked
<1>11. QED
  BY <1>1, <1>2, <1>5, <1>6, <1>8, <1>10 DEF FlowsInv

(* A verification that may use up the row it found, and so finds its code  *)
(* or meets the case of TookNewerCode.                                     *)
LEMMA UsesItsOwn ==
    ASSUME FlowsInv, flow = "login", NEW v \in Verify, VerifyAt(v, "updating"),
           otp # None, otp.code = verify[v].target,
           otp.created_at <= verify[v].started
    PROVE  verify[v].target = verify[v].code \/ TookNewerCode(v)
<1> DEFINE presented == verify[v].code
           used == verify[v].target
<1> SUFFICES ASSUME used # presented
             PROVE  TookNewerCode(v)
  OBVIOUS
<1>1. Matched(v) /\ RequestAt(presented, "issued") /\ RequestAt(used, "issued")
  BY DEF FlowsInv, Matched, MatchedIsIssued, RowIsIssued
<1>2. presented \in Request /\ used \in Request /\ verify[v].started \in Nat
  <2>1. verify[v] \in VerifyCall /\ otp \in Otp
    BY DEF FlowsInv, FlowsTypeOK, CodesTypeOK, VerifyAt
  <2>2. QED
    BY <2>1 DEF VerifyCall, Otp
<1>3. PICK q \in Request : Deleted(q, presented)
  BY <1>1, <1>2 DEF FlowsInv, SignIn, IssuedIsThere
<1>4. request[used].started = otp.created_at
  BY DEF FlowsInv, SignIn, RowIsDated
<1>5. q # presented
  <2>1. request[q] \in RequestCall /\ request[q].target = presented /\ request[q] # None
    BY <1>3 DEF Deleted, FlowsInv, FlowsTypeOK, CodesTypeOK
  <2>2. QED
    BY <1>2, <2>1 DEF FlowsInv, SignIn, TargetsWereIssued
<1>6. q # used
  <2>1. SUFFICES ASSUME q = used
                 PROVE  FALSE
    OBVIOUS
  <2>2. verify[v].started < request[used].started
    BY <1>1, <1>2, <1>3, <2>1 DEF FlowsInv, SignIn, MatchedBefore, Deleted
  <2>3. request[used].started \in Nat
    BY <1>1, <1>2 DEF RequestAt, FlowsInv, FlowsTypeOK, CodesTypeOK, RequestCall
  <2>4. QED
    BY <1>2, <1>4, <2>2, <2>3
<1>7. QED
  BY <1>3, <1>4, <1>5, <1>6 DEF TookNewerCode

(* Consuming takes the row the verification found, while it is free.       *)
LEMMA ConsumeKeeps ==
    ASSUME FlowsInv, NEW v \in Verify, Consume(v), UNCHANGED flow,
           tokens' \subseteq Verify, account' \in BOOLEAN
    PROVE  FlowsInv'
<1> DEFINE goto(pc) == [verify[v] EXCEPT !.pc = pc]
<1>1. /\ verify[v] \in VerifyCall /\ verify[v].pc = "updating" /\ VerifyAt(v, "updating")
      /\ verify[v].started < clock /\ verify[v] # None
  BY DEF FlowsInv, FlowsTypeOK, CodesTypeOK, Consume, Past, VerifyAt
<1>2. CASE verify' = [verify EXCEPT ![v] = goto("consumed")] /\ lock' = v
  <2>1. /\ lock = None /\ Unconsumed /\ otp \in Otp /\ otp.code = verify[v].target
        /\ otp # None /\ otp.created_at <= verify[v].started
    <3>1. /\ lock = None /\ otp # None /\ Unconsumed /\ otp.code = verify[v].target
          /\ ~(verify[v].started < otp.created_at)
      <4>1. verify'[v].pc = "consumed"
        BY <1>1, <1>2 DEF FlowsInv, FlowsTypeOK, CodesTypeOK, VerifyCall
      <4>2. "consumed" \notin {"refused", "error"}
        OBVIOUS
      <4>3. \A pc : VerifyGoto(v, pc) => verify'[v].pc = pc
        BY <1>1 DEF VerifyGoto, FlowsInv, FlowsTypeOK, CodesTypeOK, VerifyCall
      <4>4. QED
        BY <1>2, <4>1, <4>2, <4>3 DEF Consume, StillThere
    <3>2. otp \in Otp
      BY <3>1 DEF FlowsInv, FlowsTypeOK, CodesTypeOK
    <3>3. QED
      BY <1>1, <3>1, <3>2 DEF Otp, VerifyCall
  <2>2. UNCHANGED <<otp, clock, request, flow>>
    BY DEF Consume
  <2>3. \A u \in Verify : u # v => verify'[u] = verify[u]
    BY <1>2 DEF FlowsInv, FlowsTypeOK, CodesTypeOK
  <2>4. /\ verify'[v] = goto("consumed") /\ goto("consumed") \in VerifyCall
        /\ verify'[v].pc = "consumed" /\ verify'[v].code = verify[v].code
        /\ verify'[v].target = verify[v].target
        /\ verify'[v].started = verify[v].started /\ verify'[v] # None
    BY <1>1, <1>2 DEF FlowsInv, FlowsTypeOK, CodesTypeOK, VerifyCall, VerifyPc
  <2> HIDE DEF goto
  <2>5. FlowsTypeOK'
    BY <1>2, <2>2, <2>4 DEF FlowsInv, FlowsTypeOK, CodesTypeOK
  <2>6. Past' /\ RowIsIssued'
    BY <1>1, <2>2, <2>3, <2>4 DEF FlowsInv, Past, RowIsIssued, RequestAt
  <2>7. HolderIsReady'
    BY <1>2, <2>1, <2>2, <2>3, <2>4 DEF FlowsInv, HolderIsReady, Unconsumed, VerifyAt
  <2>8. \A u \in Verify : Matched(u)' <=> Matched(u)
    BY <1>1, <2>3, <2>4 DEF Matched, VerifyAt
  <2>9. MatchedIsIssued'
    BY <2>2, <2>3, <2>4, <2>8 DEF FlowsInv, MatchedIsIssued, RequestAt
  <2>10. /\ Granted' = Granted /\ v \notin Granted /\ Granted \subseteq Verify
         /\ Issued' = Issued /\ Open' = Open
    BY <1>1, <2>2, <2>3, <2>4
    DEF Granted, Issued, Open, Unconsumed, VerifyAt, RequestAt
  <2>11. ASSUME flow = "login"
         PROVE  SignIn'
    <3>1. TargetsWereIssued' /\ DeletedIsGone' /\ IssuedIsThere' /\ RowIsDated'
      BY <2>2, <2>11 DEF FlowsInv, SignIn, TargetsWereIssued, DeletedIsGone,
         IssuedIsThere, RowIsDated, Deleted, RequestAt
    <3>2. MatchedBefore'
      BY <2>2, <2>3, <2>4, <2>8, <2>11
      DEF FlowsInv, SignIn, MatchedBefore, RequestAt
    <3>3. GrantedIsUsed' /\ OneGrantPerRow'
      BY <2>2, <2>3, <2>10, <2>11
      DEF FlowsInv, SignIn, GrantedIsUsed, OneGrantPerRow, RequestAt
    <3>4. \A u \in Verify : u # v =>
             /\ VerifyAt(u, "consumed")' <=> VerifyAt(u, "consumed")
             /\ VerifyAt(u, "granted")' <=> VerifyAt(u, "granted")
             /\ TookNewerCode(u)' <=> TookNewerCode(u)
      BY <2>2, <2>3 DEF VerifyAt, TookNewerCode, Deleted, RequestAt
    <3>5. TookNewerCode(v)' <=> TookNewerCode(v)
      BY <2>2, <2>4 DEF TookNewerCode, Deleted, RequestAt
    <3>6. verify[v].target = verify[v].code \/ TookNewerCode(v)
      BY <1>1, <2>1, <2>11, UsesItsOwn
    <3>7. TakesItsOwn'
      BY <2>3, <2>4, <2>11, <3>4, <3>5, <3>6 DEF FlowsInv, SignIn, TakesItsOwn
    <3>8. QED
      BY <3>1, <3>2, <3>3, <3>7 DEF SignIn
  <2>12. GrantsAreBacked'
    BY <2>10 DEF FlowsInv, GrantsAreBacked
  <2>13. QED
    BY <2>2, <2>5, <2>6, <2>7, <2>9, <2>11, <2>12 DEF FlowsInv
<1>3. ASSUME NEW pc \in {"refused", "error"}, UNCHANGED lock,
             verify' = [verify EXCEPT ![v] = goto(pc)]
      PROVE  FlowsInv'
  <2>1. /\ goto(pc) \in VerifyCall /\ goto(pc).pc = pc
        /\ goto(pc).started = verify[v].started
    BY <1>1 DEF VerifyCall, VerifyPc
  <2>2. UNCHANGED <<otp, clock, request>>
    BY DEF Consume
  <2>3. ~VerifyAt(v, "granted")
    BY <1>1 DEF VerifyAt
  <2> HIDE DEF goto
  <2>4. QED
    BY <1>1, <1>3, <2>1, <2>2, <2>3, VerifyMoves
<1>4. QED
  BY <1>2, <1>3 DEF Consume, VerifyGoto

(* A grant uses up the row it holds.                                       *)
LEMMA GrantKeeps ==
    ASSUME FlowsInv, NEW v \in Verify, Grant(v), UNCHANGED flow,
           tokens' \subseteq Verify, account' \in BOOLEAN
    PROVE  FlowsInv'
<1>1. /\ verify[v] \in VerifyCall /\ verify[v].pc = "consumed" /\ verify[v] # None
      /\ VerifyAt(v, "consumed") /\ verify[v].started < clock
  BY DEF FlowsInv, FlowsTypeOK, CodesTypeOK, Grant, Past, VerifyAt
<1>2. /\ lock = v /\ Unconsumed /\ otp \in Otp /\ otp # None
      /\ flow = "login" => otp.code = verify[v].target
  BY <1>1 DEF FlowsInv, HolderIsReady, Unconsumed, FlowsTypeOK, CodesTypeOK
<1>3. UNCHANGED <<clock, request, flow>> /\ lock' = None
  BY <1>2 DEF Grant, Release
<1>4. /\ otp' \in Otp /\ otp' # None /\ otp'.code = otp.code
      /\ otp'.created_at = otp.created_at /\ otp'.consumed_by = v
  BY <1>2 DEF Grant, Otp
<1>5. \A u \in Verify : u # v => verify'[u] = verify[u]
  BY DEF Grant, VerifyGoto, FlowsInv, FlowsTypeOK, CodesTypeOK
<1>6. /\ verify'[v] \in VerifyCall /\ verify'[v] # None
      /\ verify'[v].pc = "granted" /\ verify'[v].code = verify[v].code
      /\ verify'[v].target = verify[v].target
      /\ verify'[v].started = verify[v].started
  BY <1>1
  DEF Grant, VerifyGoto, FlowsInv, FlowsTypeOK, CodesTypeOK, VerifyCall,
      VerifyPc
<1>7. FlowsTypeOK'
  <2>1. verify' \in [Verify -> VerifyCall \cup {None}]
    BY <1>6 DEF Grant, VerifyGoto, FlowsInv, FlowsTypeOK, CodesTypeOK
  <2>2. QED
    BY <1>3, <1>4, <2>1 DEF FlowsInv, FlowsTypeOK, CodesTypeOK
<1>8. Past' /\ RowIsIssued'
  BY <1>1, <1>2, <1>3, <1>4, <1>5, <1>6 DEF FlowsInv, Past, RowIsIssued, RequestAt
<1>9. \A u \in Verify : u # v => ~VerifyAt(u, "consumed")
  BY <1>2 DEF FlowsInv, HolderIsReady
<1>10. HolderIsReady'
  BY <1>5, <1>6, <1>9 DEF HolderIsReady, VerifyAt
<1>11. \A u \in Verify : Matched(u)' <=> Matched(u)
  BY <1>1, <1>5, <1>6 DEF Matched, VerifyAt
<1>12. MatchedIsIssued'
  BY <1>3, <1>5, <1>6, <1>11 DEF FlowsInv, MatchedIsIssued, RequestAt
<1>13. Granted' = Granted \cup {v} /\ v \notin Granted /\ Granted \subseteq Verify
  BY <1>1, <1>5, <1>6 DEF Granted, VerifyAt
<1>14. ASSUME flow = "login"
       PROVE  SignIn'
  <2>1. TargetsWereIssued' /\ DeletedIsGone' /\ IssuedIsThere' /\ RowIsDated'
    BY <1>2, <1>3, <1>4, <1>14 DEF FlowsInv, SignIn, TargetsWereIssued,
       DeletedIsGone, IssuedIsThere, RowIsDated, Deleted, RequestAt
  <2>2. MatchedBefore'
    BY <1>3, <1>5, <1>6, <1>11, <1>14 DEF FlowsInv, SignIn, MatchedBefore, RequestAt
  <2>3. \A u \in Granted : verify[u].target # otp.code
    BY <1>2, <1>14 DEF FlowsInv, SignIn, GrantedIsUsed, Unconsumed, Granted, VerifyAt
  <2>4. RequestAt(otp.code, "issued") /\ otp.code \in Request
    BY <1>2 DEF FlowsInv, RowIsIssued, Otp
  <2>5. GrantedIsUsed'
    BY <1>2, <1>3, <1>4, <1>5, <1>6, <1>13, <1>14, <2>3, <2>4
    DEF FlowsInv, SignIn, GrantedIsUsed, RequestAt
  <2>6. OneGrantPerRow'
    BY <1>2, <1>5, <1>6, <1>13, <1>14, <2>3 DEF FlowsInv, SignIn, OneGrantPerRow
  <2>7. \A u \in Verify : u # v =>
             /\ VerifyAt(u, "consumed")' <=> VerifyAt(u, "consumed")
             /\ VerifyAt(u, "granted")' <=> VerifyAt(u, "granted")
             /\ TookNewerCode(u)' <=> TookNewerCode(u)
    BY <1>3, <1>5 DEF VerifyAt, TookNewerCode, Deleted, RequestAt
  <2>8. TookNewerCode(v)' <=> TookNewerCode(v)
    BY <1>3, <1>6 DEF TookNewerCode, Deleted, RequestAt
  <2>9. TakesItsOwn'
    BY <1>1, <1>5, <1>6, <1>14, <2>7, <2>8 DEF FlowsInv, SignIn, TakesItsOwn
  <2>10. QED
    BY <2>1, <2>2, <2>5, <2>6, <2>9 DEF SignIn
<1>15. GrantsAreBacked'
  <2>1. Issued' = Issued
    BY <1>3 DEF Issued, RequestAt
  <2>2. Open = 1 /\ Open' = 0
    BY <1>2, <1>4 DEF Open, Unconsumed
  <2>3. /\ IsFiniteSet(Granted) /\ IsFiniteSet(Issued)
        /\ Cardinality(Granted) + 1 <= Cardinality(Issued)
    BY <2>2 DEF FlowsInv, GrantsAreBacked
  <2>4. /\ IsFiniteSet(Granted') /\ Cardinality(Granted') = Cardinality(Granted) + 1
        /\ Cardinality(Granted) \in Nat
    BY <1>13, <2>3, FS_AddElement, FS_CardinalityType
  <2>5. QED
    BY <2>1, <2>2, <2>3, <2>4 DEF GrantsAreBacked
<1>16. QED
  BY <1>3, <1>7, <1>8, <1>10, <1>12, <1>14, <1>15 DEF FlowsInv

(* Every step of a verification, in either flow.                           *)
LEMMA VerificationKeeps ==
    ASSUME FlowsInv, NEW v \in Verify, VerifyNext(v), UNCHANGED flow,
           tokens' \subseteq Verify, account' \in BOOLEAN
    PROVE  FlowsInv'
<1> USE DEF VerifyAt
<1> DEFINE goto(pc) == [verify[v] EXCEPT !.pc = pc]
<1>1. ASSUME NEW code \in Request, Present(v, code)
      PROVE  FlowsInv'
  <2> DEFINE new == [pc |-> "begun", code |-> code, started |-> clock, target |-> None]
  <2>1. clock \in Nat
    BY DEF FlowsInv, FlowsTypeOK, CodesTypeOK
  <2>2. /\ new \in VerifyCall /\ new.pc = "begun" /\ new.started = clock
        /\ clock < clock' /\ clock' = clock + 1
    BY <1>1, <2>1 DEF Present, VerifyCall, VerifyPc
  <2>3. /\ verify' = [verify EXCEPT ![v] = new] /\ verify[v] = None
        /\ UNCHANGED <<otp, lock, request>>
    BY <1>1 DEF Present
  <2> HIDE DEF new
  <2>4. QED
    BY <2>2, <2>3, VerifyMoves
<1>2. ASSUME verify[v] # None
      PROVE  /\ verify[v] \in VerifyCall /\ verify[v].started < clock
             /\ \A pc \in VerifyPc : /\ goto(pc) \in VerifyCall
                                     /\ goto(pc).pc = pc
                                     /\ goto(pc).code = verify[v].code
                                     /\ goto(pc).started = verify[v].started
  BY <1>2 DEF FlowsInv, FlowsTypeOK, CodesTypeOK, Past, VerifyCall
<1>3. ASSUME Check(v)
      PROVE  FlowsInv'
  <2>1. PICK pc \in {"refused", "expired", "matched"} :
            /\ verify' = [verify EXCEPT ![v] = goto(pc)]
            /\ pc = "matched" => otp # None /\ otp.code = verify[v].code
    BY <1>3 DEF Check, VerifyGoto, Unconsumed
  <2>2. pc \in VerifyPc /\ pc \notin {"consumed", "granted", "updating"}
    BY DEF VerifyPc
  <2>3. /\ verify[v] # None /\ verify[v].pc = "begun"
        /\ UNCHANGED <<otp, lock, clock, request>>
    BY <1>3 DEF Check
  <2> HIDE DEF goto
  <2>4. QED
    BY <1>2, <2>1, <2>2, <2>3, VerifyMoves
<1>4. ASSUME StartConsume(v)
      PROVE  FlowsInv'
  <2> DEFINE new == [verify[v] EXCEPT !.pc = "updating",
                        !.target = IF Unconsumed THEN RowNow ELSE None]
  <2>1. /\ verify[v] # None /\ verify[v].pc = "matched"
        /\ UNCHANGED <<otp, lock, clock, request>>
        /\ verify' = [verify EXCEPT ![v] = new]
    BY <1>4 DEF StartConsume
  <2>2. /\ new \in VerifyCall /\ new.pc = "updating" /\ new.code = verify[v].code
        /\ new.started = verify[v].started
    <3>1. (IF Unconsumed THEN RowNow ELSE None) \in Request \cup {None}
      BY DEF Unconsumed, RowNow, FlowsInv, FlowsTypeOK, CodesTypeOK, Otp
    <3>2. QED
      BY <1>2, <2>1, <3>1 DEF VerifyCall, VerifyPc
  <2> HIDE DEF new
  <2>3. Matched(v)
    BY <2>1 DEF Matched
  <2>4. QED
    BY <1>2, <2>1, <2>2, <2>3, VerifyMoves
<1>5. ASSUME FailVerify(v)
      PROVE  FlowsInv'
  <2>1. /\ verify' = [verify EXCEPT ![v] = goto("error")] /\ verify[v] # None
        /\ verify[v].pc # "granted" /\ UNCHANGED <<otp, clock, request>>
        /\ lock' = lock \/ (lock = v /\ lock' = None)
        /\ "error" \in VerifyPc
    BY <1>5 DEF FailVerify, VerifyGoto, Release, VerifyPc
  <2> HIDE DEF goto
  <2>2. QED
    BY <1>2, <2>1, VerifyMoves
<1>6. QED
  BY <1>1, <1>3, <1>4, <1>5, ConsumeKeeps, GrantKeeps
  DEF VerifyNext, VerifyStep

LEMMA ExpiryKeeps ==
    ASSUME FlowsInv, ExpireCode, UNCHANGED <<tokens, account, flow>>
    PROVE  FlowsInv'
<1> USE DEF VerifyAt, RequestAt
<1>1. /\ otp' \in Otp /\ otp' # None /\ otp # None /\ otp'.code = otp.code
      /\ otp'.created_at = otp.created_at /\ otp'.consumed_by = otp.consumed_by
      /\ UNCHANGED <<lock, clock, verify, request>>
  BY DEF FlowsInv, FlowsTypeOK, CodesTypeOK, ExpireCode, Otp
<1>2. FlowsTypeOK' /\ Past' /\ RowIsIssued' /\ MatchedIsIssued' /\ HolderIsReady'
  BY <1>1 DEF FlowsInv, FlowsTypeOK, CodesTypeOK, Past, RowIsIssued,
     MatchedIsIssued, Matched, HolderIsReady, Unconsumed
<1>3. flow = "login" => SignIn'
  BY <1>1 DEF FlowsInv, SignIn, TargetsWereIssued, DeletedIsGone, IssuedIsThere,
     MatchedBefore, Matched, RowIsDated, GrantedIsUsed, OneGrantPerRow,
     TakesItsOwn, TookNewerCode, Granted, Deleted
<1>4. GrantsAreBacked'
  <2>1. Granted' = Granted /\ Issued' = Issued /\ Open' = Open
    BY <1>1 DEF Granted, Issued, Open, Unconsumed
  <2>2. QED
    BY <2>1 DEF FlowsInv, GrantsAreBacked
<1>5. QED
  BY <1>2, <1>3, <1>4 DEF FlowsInv

-----------------------------------------------------------------------------
(* Requests.                                                               *)

(* A request that issues nothing at most deletes a row nobody holds, or    *)
(* takes or frees the lock.                                                *)
LEMMA RequestMoves ==
    ASSUME FlowsInv, NEW q \in Request, NEW new \in RequestCall,
           request' = [request EXCEPT ![q] = new],
           ~RequestAt(q, "issued"), new.pc # "issued", new.started <= clock',
           otp' = otp \/ (lock = None /\ otp' = None /\ flow = "login"),
           flow = "login" =>
              /\ new.target # None =>
                    new.target # q /\ RequestAt(new.target, "issued")
              /\ \A p \in Request : Deleted(q, p) => Deleted(q, p)'
              /\ \A p \in Request : otp # None /\ otp.code = p =>
                    IF otp' = None THEN Deleted(q, p)' ELSE ~Deleted(q, p)'
              /\ new.pc = "inserting" => new.started = clock,
           \/ lock' = lock
           \/ lock = None /\ lock' = q
           \/ lock = q /\ lock' = None,
           clock' \in {clock, clock + 1},
           UNCHANGED <<verify, flow, tokens, account>>
    PROVE  FlowsInv'
<1> USE DEF RequestAt
<1>1. FlowsTypeOK'
  BY DEF FlowsInv, FlowsTypeOK, CodesTypeOK
<1>2. \A p \in Request : p # q => request'[p] = request[p]
  BY DEF FlowsInv, FlowsTypeOK, CodesTypeOK
<1>3. request'[q] = new /\ new # None
  BY DEF FlowsInv, FlowsTypeOK, CodesTypeOK
<1>4. Past'
  BY DEF FlowsInv, Past, FlowsTypeOK, CodesTypeOK, VerifyCall, RequestCall
<1>5. \A p \in Request : /\ RequestAt(p, "issued")' <=> RequestAt(p, "issued")
                         /\ RequestAt(p, "issued") => request'[p] = request[p]
  BY <1>2, <1>3
<1>6. /\ otp # None => otp.code \in Request
      /\ \A v \in Verify : verify[v] # None =>
             verify[v].code \in Request /\ verify[v].target \in Request \cup {None}
      /\ \A p \in Request : request[p] # None => request[p].target \in Request \cup {None}
  BY DEF FlowsInv, FlowsTypeOK, CodesTypeOK, Otp, VerifyCall, RequestCall
<1>7. RowIsIssued' /\ HolderIsReady'
  BY <1>5, <1>6 DEF FlowsInv, RowIsIssued, HolderIsReady, Unconsumed, VerifyAt
<1>8. MatchedIsIssued'
  BY <1>5, <1>6 DEF FlowsInv, MatchedIsIssued, Matched, VerifyAt
<1>9. ASSUME flow = "login"
      PROVE  SignIn'
  <2>1. TargetsWereIssued'
    BY <1>2, <1>3, <1>5, <1>6, <1>9 DEF FlowsInv, SignIn, TargetsWereIssued, RequestCall
  <2>2. \A p \in Request, c \in Request : Deleted(p, c) => Deleted(p, c)'
    BY <1>2, <1>9 DEF Deleted
  <2>3. DeletedIsGone'
    <3> SUFFICES ASSUME otp' # None, NEW x \in Request
                 PROVE  ~Deleted(x, otp.code)'
      BY DEF DeletedIsGone
    <3>1. otp' = otp /\ otp.code \in Request
      BY <1>6
    <3>2. CASE x = q
      BY <1>9, <3>1, <3>2
    <3>3. CASE x # q
      BY <1>2, <1>9, <3>1, <3>3 DEF FlowsInv, SignIn, DeletedIsGone, Deleted
    <3>4. QED
      BY <3>2, <3>3
  <2>4. IssuedIsThere'
    <3> SUFFICES ASSUME NEW p \in Request, RequestAt(p, "issued")',
                        ~\E x \in Request : Deleted(x, p)'
                 PROVE  otp' # None /\ otp'.code = p
      BY DEF IssuedIsThere
    <3>1. RequestAt(p, "issued") /\ ~\E x \in Request : Deleted(x, p)
      BY <1>5, <2>2
    <3>2. otp # None /\ otp.code = p
      BY <1>9, <3>1 DEF FlowsInv, SignIn, IssuedIsThere
    <3>3. QED
      BY <1>9, <3>2
  <2>5. MatchedBefore'
    <3> SUFFICES ASSUME NEW v \in Verify, NEW p \in Request, Matched(v),
                        RequestAt(p, "inserting")' \/ RequestAt(p, "issued")',
                        request'[p].target = verify[v].code
                 PROVE  verify[v].started < request'[p].started
      BY DEF MatchedBefore, Matched, VerifyAt
    <3>1. CASE p # q
      BY <1>2, <1>9, <3>1 DEF FlowsInv, SignIn, MatchedBefore
    <3>2. CASE p = q
      <4>1. request'[p].started = clock
        BY <1>3, <1>9, <3>2
      <4>2. verify[v].started < clock
        BY DEF FlowsInv, Past, Matched, VerifyAt
      <4>3. QED
        BY <4>1, <4>2
    <3>3. QED
      BY <3>1, <3>2
  <2>6. RowIsDated'
    BY <1>5, <1>6, <1>9 DEF FlowsInv, SignIn, RowIsDated, RowIsIssued
  <2>7. \A v \in Granted : /\ verify[v].target \in Request
                           /\ RequestAt(verify[v].target, "issued")
    BY <1>6, <1>9 DEF FlowsInv, SignIn, GrantedIsUsed, Granted, VerifyAt
  <2>8. GrantedIsUsed' /\ OneGrantPerRow'
    BY <1>5, <1>9, <2>7 DEF FlowsInv, SignIn, GrantedIsUsed, OneGrantPerRow,
       Granted, VerifyAt
  <2>9. TakesItsOwn'
    <3> SUFFICES ASSUME NEW v \in Verify,
                        VerifyAt(v, "consumed") \/ VerifyAt(v, "granted"),
                        verify[v].target # verify[v].code
                 PROVE  TookNewerCode(v)'
      BY DEF TakesItsOwn, VerifyAt
    <3>1. verify[v].target \in Request /\ RequestAt(verify[v].target, "issued")
      BY <1>6, <1>9, <2>7 DEF FlowsInv, HolderIsReady, RowIsIssued, Unconsumed, Granted
    <3>2. verify[v].code \in Request
      BY <1>6 DEF VerifyAt
    <3>3. TookNewerCode(v)
      BY <1>9 DEF FlowsInv, SignIn, TakesItsOwn
    <3>4. QED
      BY <1>5, <2>2, <3>1, <3>2, <3>3 DEF TookNewerCode
  <2>10. QED
    BY <2>1, <2>3, <2>4, <2>5, <2>6, <2>8, <2>9 DEF SignIn
<1>10. GrantsAreBacked'
  <2>1. Granted' = Granted /\ Issued' = Issued
    BY <1>5 DEF Granted, Issued, VerifyAt
  <2>2. Open' = Open \/ (Open' = 0 /\ Open \in {0, 1})
    BY DEF Open, Unconsumed
  <2>3. Cardinality(Granted) \in Nat /\ Cardinality(Issued) \in Nat
    BY FS_CardinalityType DEF FlowsInv, GrantsAreBacked
  <2>4. QED
    BY <2>1, <2>2, <2>3 DEF FlowsInv, GrantsAreBacked
<1>11. QED
  BY <1>1, <1>4, <1>7, <1>8, <1>9, <1>10 DEF FlowsInv

(* A code is issued: a row for it, in sign-in where there was none, with   *)
(* the time at which its INSERT started.                                   *)
LEMMA IssueKeeps ==
    ASSUME FlowsInv, NEW q \in Request, request[q] # None,
           ~RequestAt(q, "issued"), RequestGoto(q, "issued"),
           otp' \in Otp, otp'.code = q, otp'.consumed_by = None,
           flow = "login" =>
              /\ otp = None /\ RequestAt(q, "inserting")
              /\ otp'.created_at = request[q].started,
           lock' = lock \/ (lock = q /\ lock' = None),
           UNCHANGED <<clock, verify, flow, tokens, account>>
    PROVE  FlowsInv'
<1> USE DEF RequestAt
<1>1. request[q] \in RequestCall /\ request[q].started <= clock
  BY DEF FlowsInv, FlowsTypeOK, CodesTypeOK, Past
<1>2. \A p \in Request : p # q => request'[p] = request[p]
  BY DEF RequestGoto, FlowsInv, FlowsTypeOK, CodesTypeOK
<1>3. /\ request'[q] \in RequestCall /\ request'[q] # None
      /\ request'[q].pc = "issued" /\ request'[q].started = request[q].started
      /\ request'[q].target = request[q].target
  BY <1>1
  DEF RequestGoto, FlowsInv, FlowsTypeOK, CodesTypeOK, RequestCall, RequestPc
<1>4. FlowsTypeOK'
  <2>1. request' \in [Request -> RequestCall \cup {None}]
    BY <1>3 DEF RequestGoto, FlowsInv, FlowsTypeOK, CodesTypeOK
  <2>2. QED
    BY <2>1 DEF FlowsInv, FlowsTypeOK, CodesTypeOK
<1>5. Past'
  BY <1>1, <1>2, <1>3 DEF FlowsInv, Past
<1>6. otp' # None
  OBVIOUS
<1>7. RowIsIssued' /\ HolderIsReady'
  BY <1>3, <1>6 DEF FlowsInv, RowIsIssued, HolderIsReady, Unconsumed, VerifyAt
<1>8. /\ \A v \in Verify : verify[v] # None =>
             verify[v].code \in Request /\ verify[v].target \in Request \cup {None}
      /\ \A p \in Request : request[p] # None => request[p].target \in Request \cup {None}
  BY DEF FlowsInv, FlowsTypeOK, CodesTypeOK, VerifyCall, RequestCall
<1>9. \A p \in Request : RequestAt(p, "issued") =>
         p # q /\ RequestAt(p, "issued")' /\ request'[p] = request[p]
  BY <1>2
<1>10. MatchedIsIssued'
  BY <1>8, <1>9 DEF FlowsInv, MatchedIsIssued, Matched, VerifyAt
<1>11. ASSUME flow = "login"
       PROVE  SignIn'
  <2>1. \A v \in Verify : ~VerifyAt(v, "consumed")
    BY <1>11 DEF FlowsInv, HolderIsReady, Unconsumed
  <2>2. \A p \in Request : /\ request'[p] # None => request[p] # None
                           /\ request[p] # None => request'[p].target = request[p].target
    BY <1>2, <1>3
  <2>3. \A p, c \in Request : Deleted(p, c)' <=> Deleted(p, c)
    BY <1>2, <1>3, <1>11 DEF Deleted
  <2>4. TargetsWereIssued'
    BY <1>8, <1>9, <1>11, <2>2 DEF FlowsInv, SignIn, TargetsWereIssued
  <2>5. DeletedIsGone'
    BY <1>11, <2>3 DEF FlowsInv, SignIn, DeletedIsGone, TargetsWereIssued, Deleted
  <2>6. IssuedIsThere'
    BY <1>2, <1>6, <1>11, <2>3 DEF FlowsInv, SignIn, IssuedIsThere
  <2>7. MatchedBefore'
    BY <1>2, <1>3, <1>11 DEF FlowsInv, SignIn, MatchedBefore, Matched, VerifyAt
  <2>8. RowIsDated'
    BY <1>3, <1>11 DEF RowIsDated
  <2>9. \A v \in Granted : /\ verify[v].target \in Request
                           /\ RequestAt(verify[v].target, "issued")
    BY <1>8, <1>11 DEF FlowsInv, SignIn, GrantedIsUsed, Granted, VerifyAt
  <2>10. GrantedIsUsed' /\ OneGrantPerRow'
    BY <1>9, <1>11, <2>9 DEF FlowsInv, SignIn, GrantedIsUsed, OneGrantPerRow,
       Granted, VerifyAt
  <2>11. TakesItsOwn'
    BY <1>8, <1>9, <1>11, <2>1, <2>3, <2>9
    DEF FlowsInv, SignIn, TakesItsOwn, TookNewerCode, Granted, VerifyAt
  <2>12. QED
    BY <2>4, <2>5, <2>6, <2>7, <2>8, <2>10, <2>11 DEF SignIn
<1>12. GrantsAreBacked'
  <2>1. Granted' = Granted /\ Issued' = Issued \cup {q} /\ q \notin Issued
    BY <1>2, <1>3 DEF Granted, Issued, VerifyAt
  <2>2. Open' = 1 /\ Open \in {0, 1}
    BY <1>6 DEF Open, Unconsumed
  <2>3. /\ IsFiniteSet(Granted) /\ IsFiniteSet(Issued)
        /\ Cardinality(Granted) + Open <= Cardinality(Issued)
    BY DEF FlowsInv, GrantsAreBacked
  <2>4. /\ IsFiniteSet(Issued') /\ Cardinality(Issued') = Cardinality(Issued) + 1
        /\ Cardinality(Granted) \in Nat /\ Cardinality(Issued) \in Nat
    BY <2>1, <2>3, FS_AddElement, FS_CardinalityType
  <2>5. QED
    BY <2>1, <2>2, <2>3, <2>4 DEF GrantsAreBacked
<1>13. QED
  BY <1>4, <1>5, <1>7, <1>10, <1>11, <1>12 DEF FlowsInv

(* What a request becomes when only its pc changes.                        *)
LEMMA GotoRequest ==
    ASSUME FlowsInv, NEW q \in Request, request[q] # None,
           NEW pc \in RequestPc, NEW new, new = [request[q] EXCEPT !.pc = pc]
    PROVE  /\ new \in RequestCall /\ new.pc = pc
           /\ new.started = request[q].started /\ new.target = request[q].target
           /\ request[q] \in RequestCall /\ request[q].started <= clock
BY DEF FlowsInv, FlowsTypeOK, CodesTypeOK, Past, RequestCall

\* Both instances speak of the same variables.
LEMMA SameVerification ==
    ASSUME NEW v \in Verify, L!VerifyNext(v) \/ R!VerifyNext(v)
    PROVE  VerifyNext(v)
BY DEF RequestAt, L!RequestAt, R!RequestAt,
   VerifyNext, VerifyStep, Present, Check, StartConsume, Consume, Grant,
   FailVerify, VerifyAt, VerifyGoto, Release, Unconsumed, RowNow, StillThere,
   L!VerifyNext, L!VerifyStep, L!Present, L!Check, L!StartConsume, L!Consume,
   L!Grant, L!FailVerify, L!VerifyAt, L!VerifyGoto, L!Release, L!Unconsumed,
   L!RowNow, L!StillThere,
   R!VerifyNext, R!VerifyStep, R!Present, R!Check, R!StartConsume, R!Consume,
   R!Grant, R!FailVerify, R!VerifyAt, R!VerifyGoto, R!Release, R!Unconsumed,
   R!RowNow, R!StillThere

LEMMA LoginKeeps == FlowsInv /\ InLogin(L!Next) => FlowsInv'
<1> SUFFICES ASSUME FlowsInv, flow = "login", L!Next,
                    UNCHANGED <<tokens, account, flow>>
             PROVE  FlowsInv'
  BY DEF InLogin
<1> USE DEF RequestAt, L!RequestAt, L!RequestGoto
<1>1. tokens' \subseteq Verify /\ account' \in BOOLEAN /\ clock \in Nat
  BY DEF FlowsInv, FlowsTypeOK, CodesTypeOK
<1>2. ASSUME NEW v \in Verify, L!VerifyNext(v)
      PROVE  FlowsInv'
  BY <1>1, <1>2, SameVerification, VerificationKeeps
<1>3. ASSUME L!ExpireCode
      PROVE  FlowsInv'
  BY <1>3, ExpiryKeeps DEF L!ExpireCode, ExpireCode
<1>4. ASSUME NEW q \in Request, L!AskLogin(q)
      PROVE  FlowsInv'
  <2> DEFINE new == [pc |-> "deleting", started |-> 0, target |-> L!RowNow]
  <2>1. L!RowNow = IF otp = None THEN None ELSE otp.code
    BY DEF L!RowNow
  <2>2. L!RowNow \in Request \cup {None}
    BY <2>1 DEF FlowsInv, FlowsTypeOK, CodesTypeOK, Otp
  <2>3. /\ new \in RequestCall /\ new.pc = "deleting" /\ new.started = 0
        /\ new.target = L!RowNow
    BY <1>1, <2>2 DEF RequestCall, RequestPc
  <2>4. /\ request' = [request EXCEPT ![q] = new] /\ request[q] = None
        /\ UNCHANGED <<otp, lock, clock, verify>>
    BY <1>4 DEF L!AskLogin
  <2> HIDE DEF new
  <2>5. new.target # None => new.target # q /\ RequestAt(new.target, "issued")
    BY <2>1, <2>3, <2>4 DEF FlowsInv, RowIsIssued
  <2>6. \A p \in Request : ~Deleted(q, p) /\ ~Deleted(q, p)'
    BY <2>3, <2>4 DEF Deleted, FlowsInv, FlowsTypeOK, CodesTypeOK
  <2>7. new.started <= clock' /\ new.pc \notin {"issued", "inserting"}
    BY <1>1, <2>3, <2>4
  <2>8. \A p \in Request : otp # None /\ otp.code = p =>
                    IF otp' = None THEN Deleted(q, p)' ELSE ~Deleted(q, p)'
    BY <2>4, <2>6
  <2>9. QED
    BY <1>1, <2>3, <2>4, <2>5, <2>6, <2>7, <2>8, RequestMoves
<1>5. ASSUME NEW q \in Request, L!DeleteCode(q)
      PROVE  FlowsInv'
  <2> DEFINE new == [request[q] EXCEPT !.pc = "deleted"]
  <2>1. /\ request[q] # None /\ request[q].pc = "deleting"
        /\ request' = [request EXCEPT ![q] = new]
        /\ UNCHANGED <<lock, clock, verify>> /\ "deleted" \in RequestPc
    BY <1>5 DEF L!DeleteCode, RequestPc
  <2>2. /\ new \in RequestCall /\ new.pc = "deleted" /\ new.target = request[q].target
        /\ new.started = request[q].started /\ request[q].started <= clock
    BY <2>1, GotoRequest
  <2>3. \/ otp' = otp /\ (otp # None => otp.code # request[q].target)
        \/ lock = None /\ otp' = None /\ otp # None /\ otp.code = request[q].target
    <3>1. otp # None => otp.code # None
      BY DEF FlowsInv, FlowsTypeOK, CodesTypeOK, Otp
    <3>2. QED
      BY <1>5, <3>1 DEF L!DeleteCode, L!StillThere
  <2> HIDE DEF new
  <2>4. request'[q] = new
    BY <2>1 DEF FlowsInv, FlowsTypeOK, CodesTypeOK
  <2>5. \A p \in Request : ~Deleted(q, p) /\ (Deleted(q, p)' <=> new.target = p)
    BY <2>1, <2>2, <2>4 DEF Deleted
  <2>6. new.target # None => new.target # q /\ RequestAt(new.target, "issued")
    BY <2>1, <2>2 DEF FlowsInv, SignIn, TargetsWereIssued
  <2>7. otp # None => otp.code \in Request
    BY DEF FlowsInv, FlowsTypeOK, CodesTypeOK, Otp
  <2>8. QED
    BY <1>1, <2>1, <2>2, <2>3, <2>5, <2>6, <2>7, RequestMoves
<1>6. ASSUME NEW q \in Request, NEW new \in RequestCall, request[q] # None,
             request[q].pc \in {"deleted", "inserting"},
             request' = [request EXCEPT ![q] = new],
             new.target = request[q].target, new.started <= clock',
             new.pc \in {"inserting", "conflict", "error"},
             new.pc = "inserting" => new.started = clock,
             clock' \in {clock, clock + 1}, UNCHANGED <<otp, lock, verify>>
      PROVE  FlowsInv'
  <2>1. request'[q] = new
    BY <1>6 DEF FlowsInv, FlowsTypeOK, CodesTypeOK
  <2>2. \A p : Deleted(q, p)' <=> Deleted(q, p)
    BY <1>6, <2>1 DEF Deleted
  <2>3. new.target # None => new.target # q /\ RequestAt(new.target, "issued")
    BY <1>6 DEF FlowsInv, SignIn, TargetsWereIssued
  <2>4. otp # None => ~Deleted(q, otp.code)
    BY DEF FlowsInv, SignIn, DeletedIsGone
  <2>5. QED
    BY <1>1, <1>6, <2>2, <2>3, <2>4, RequestMoves
<1>7. ASSUME NEW q \in Request, L!StartInsert(q)
      PROVE  FlowsInv'
  <2> DEFINE new == [request[q] EXCEPT !.pc = "inserting", !.started = clock]
  <2>1. /\ request[q] # None /\ request[q].pc = "deleted" /\ clock' = clock + 1
        /\ request' = [request EXCEPT ![q] = new] /\ UNCHANGED <<otp, lock, verify>>
    BY <1>7 DEF L!StartInsert
  <2>2. /\ new \in RequestCall /\ new.pc = "inserting" /\ new.started = clock
        /\ new.target = request[q].target
    <3>1. request[q] \in RequestCall
      BY <2>1 DEF FlowsInv, FlowsTypeOK, CodesTypeOK
    <3>2. QED
      BY <1>1, <3>1 DEF RequestCall, RequestPc
  <2> HIDE DEF new
  <2>3. new.started <= clock'
    BY <1>1, <2>1, <2>2
  <2>4. QED
    BY <1>6, <2>1, <2>2, <2>3
<1>8. ASSUME NEW q \in Request, L!InsertCode(q)
      PROVE  FlowsInv'
  <2>1. /\ request[q] # None /\ request[q].pc = "inserting"
        /\ UNCHANGED <<lock, clock, verify>>
    BY <1>8 DEF L!InsertCode
  <2>2. CASE otp = None
    <3>1. /\ otp' = [code |-> q, created_at |-> request[q].started, expired |-> FALSE,
                     consumed_by |-> None]
          /\ RequestGoto(q, "issued")
      BY <1>8, <2>2 DEF L!InsertCode, RequestGoto
    <3>2. request[q].started \in Nat
      BY <2>1 DEF FlowsInv, FlowsTypeOK, CodesTypeOK, RequestCall
    <3>3. /\ otp' \in Otp /\ otp'.code = q /\ otp'.consumed_by = None
          /\ otp'.created_at = request[q].started
      BY <3>1, <3>2 DEF Otp
    <3>4. QED
      BY <2>1, <2>2, <3>1, <3>3, IssueKeeps
  <2>3. CASE otp # None
    <3> DEFINE new == [request[q] EXCEPT !.pc = "conflict"]
    <3>1. /\ request' = [request EXCEPT ![q] = new] /\ UNCHANGED otp
          /\ "conflict" \in RequestPc
      BY <1>8, <2>3 DEF L!InsertCode, RequestPc
    <3>2. /\ new \in RequestCall /\ new.pc = "conflict" /\ new.target = request[q].target
          /\ new.started = request[q].started /\ request[q].started <= clock
      BY <2>1, <3>1, GotoRequest
    <3> HIDE DEF new
    <3>3. QED
      BY <1>6, <2>1, <3>1, <3>2
  <2>4. QED
    BY <2>2, <2>3
<1>9. ASSUME NEW q \in Request, L!FailLogin(q)
      PROVE  FlowsInv'
  <2>1. /\ request[q] # None /\ request[q].pc \in {"deleting", "deleted", "inserting"}
        /\ request[q] \in RequestCall /\ request[q].started <= clock
        /\ "error" \in RequestPc /\ UNCHANGED <<otp, lock, clock, verify>>
    BY <1>9 DEF L!FailLogin, RequestPc, FlowsInv, FlowsTypeOK, CodesTypeOK, Past
  <2>2. CASE request[q].pc # "deleting"
    <3> DEFINE new == [request[q] EXCEPT !.pc = "error"]
    <3>1. request' = [request EXCEPT ![q] = new]
      BY <1>9, <2>1, <2>2 DEF L!FailLogin, RequestCall
    <3>2. /\ new \in RequestCall /\ new.pc = "error" /\ new.target = request[q].target
          /\ new.started = request[q].started
      BY <2>1, GotoRequest
    <3> HIDE DEF new
    <3>3. QED
      BY <1>6, <2>1, <2>2, <3>1, <3>2
  <2>3. CASE request[q].pc = "deleting"
    <3> DEFINE new == [request[q] EXCEPT !.pc = "error", !.target = None]
    <3>1. request' = [request EXCEPT ![q] = new]
      BY <1>9, <2>1, <2>3 DEF L!FailLogin
    <3>2. /\ new \in RequestCall /\ new.pc = "error" /\ new.target = None
          /\ new.started = request[q].started
      BY <2>1 DEF RequestCall
    <3> HIDE DEF new
    <3>3. request'[q] = new
      BY <3>1 DEF FlowsInv, FlowsTypeOK, CodesTypeOK
    <3>4. \A p \in Request : ~Deleted(q, p) /\ ~Deleted(q, p)'
      BY <2>1, <2>3, <3>2, <3>3 DEF Deleted
    <3>5. otp # None => otp.code \in Request
      BY DEF FlowsInv, FlowsTypeOK, CodesTypeOK, Otp
    <3>6. QED
      BY <1>1, <2>1, <2>3, <3>1, <3>2, <3>4, <3>5, RequestMoves
  <2>4. QED
    BY <2>2, <2>3
<1>10. QED
  BY <1>2, <1>3, <1>4, <1>5, <1>7, <1>8, <1>9 DEF L!Next, L!RequestStep

LEMMA RegistrationKeeps == FlowsInv /\ InRegistration(R!Next) => FlowsInv'
<1> SUFFICES ASSUME FlowsInv, flow = "registration", R!Next, UNCHANGED flow
             PROVE  FlowsInv'
  BY DEF InRegistration
<1> USE DEF RequestAt, R!RequestAt, R!RequestGoto
<1>1. tokens \subseteq Verify /\ account \in BOOLEAN /\ clock \in Nat
  BY DEF FlowsInv, FlowsTypeOK, CodesTypeOK
<1>2. ASSUME NEW v \in Verify, R!Verification(v)
      PROVE  FlowsInv'
  <2>1. tokens' \subseteq Verify /\ account' \in BOOLEAN /\ VerifyNext(v)
    BY <1>1, <1>2, SameVerification DEF R!Verification
  <2>2. QED
    BY <2>1, VerificationKeeps
<1>3. ASSUME R!ExpireCode /\ UNCHANGED <<tokens, account>>
      PROVE  FlowsInv'
  BY <1>3, ExpiryKeeps DEF R!ExpireCode, ExpireCode
<1>4. ASSUME UNCHANGED codeVars, tokens' \subseteq Verify, account' \in BOOLEAN
      PROVE  FlowsInv'
  BY <1>4 DEF codeVars, FlowsInv, FlowsTypeOK, CodesTypeOK, Past, RowIsIssued,
     MatchedIsIssued, Matched, HolderIsReady, GrantsAreBacked, Granted, Issued, Open, Unconsumed,
     VerifyAt
<1>5. ASSUME (\E v \in Verify : R!TokenExpires(v)) \/ R!CreateAccount
      PROVE  FlowsInv'
  BY <1>1, <1>4, <1>5 DEF R!TokenExpires, R!CreateAccount, R!codeVars, codeVars
<1>6. ASSUME NEW q \in Request, R!AskRegistration(q)
      PROVE  FlowsInv'
  <2> DEFINE new == [pc |-> "begun", started |-> clock, target |-> None]
  <2>1. new \in RequestCall /\ new.pc = "begun" /\ new.started = clock
    BY <1>1 DEF RequestCall, RequestPc
  <2>2. /\ request' = [request EXCEPT ![q] = new] /\ request[q] = None
        /\ clock' = clock + 1 /\ UNCHANGED <<otp, lock, verify, tokens, account>>
    BY <1>6 DEF R!AskRegistration
  <2> HIDE DEF new
  <2>3. new.started <= clock'
    BY <1>1, <2>1, <2>2
  <2>4. QED
    BY <2>1, <2>2, <2>3, RequestMoves
<1>7. ASSUME NEW q \in Request, request[q] # None, ~RequestAt(q, "issued"),
             NEW pc \in RequestPc \ {"issued"}, NEW new,
             new = [request[q] EXCEPT !.pc = pc],
             request' = [request EXCEPT ![q] = new],
             \/ lock' = lock
             \/ lock = None /\ lock' = q
             \/ lock = q /\ lock' = None,
             UNCHANGED <<otp, clock, verify, tokens, account>>
      PROVE  FlowsInv'
  <2>1. /\ new \in RequestCall /\ new.pc = pc
        /\ new.started = request[q].started /\ request[q].started <= clock
    BY <1>7, GotoRequest
  <2>2. QED
    BY <1>7, <2>1, RequestMoves
<1>8. ASSUME NEW q \in Request, R!ReadExisting(q) \/ R!InsertCode(q)
      PROVE  FlowsInv'
  <2>1. PICK pc \in {"replacing", "inserting", "conflict", "inserted"} :
            request' = [request EXCEPT ![q].pc = pc]
    BY <1>8 DEF R!ReadExisting, R!InsertCode
  <2>2. /\ request[q] # None /\ ~RequestAt(q, "issued") /\ pc \in RequestPc \ {"issued"}
        /\ UNCHANGED <<otp, lock, clock, verify, tokens, account>>
    BY <1>8 DEF R!ReadExisting, R!InsertCode, RequestPc
  <2>3. QED
    BY <1>7, <2>1, <2>2
<1>9. ASSUME NEW q \in Request, R!DeleteCode(q)
      PROVE  FlowsInv'
  <2>1. /\ request[q] # None /\ request[q].pc = "deleting"
        /\ "inserting" \in RequestPc \ {"issued"}
        /\ request' = [request EXCEPT ![q].pc = "inserting"]
        /\ lock' = lock \/ (lock = None /\ lock' = q)
        /\ UNCHANGED <<otp, clock, verify, tokens, account>>
    BY <1>9 DEF R!DeleteCode, RequestPc
  <2>2. QED
    BY <1>7, <2>1
<1>10. ASSUME NEW q \in Request, R!FailRequest(q)
       PROVE  FlowsInv'
  <2>1. /\ request[q] # None /\ request[q].pc # "issued"
        /\ "error" \in RequestPc \ {"issued"}
        /\ request' = [request EXCEPT ![q].pc = "error"]
        /\ lock' = lock \/ (lock = q /\ lock' = None)
        /\ UNCHANGED <<otp, clock, verify, tokens, account>>
    BY <1>10 DEF R!FailRequest, R!RequestEnded, R!Release, RequestPc
  <2>2. QED
    BY <1>7, <2>1
<1>11. ASSUME NEW q \in Request, R!StartDelete(q)
       PROVE  FlowsInv'
  <2> DEFINE new == [request[q] EXCEPT !.pc = "deleting", !.target = R!RowNow]
  <2>1. /\ request[q] # None /\ request[q].pc = "replacing"
        /\ request' = [request EXCEPT ![q] = new]
        /\ UNCHANGED <<otp, lock, clock, verify, tokens, account>>
    BY <1>11 DEF R!StartDelete
  <2>2. request[q] \in RequestCall /\ request[q].started <= clock
    BY <2>1 DEF FlowsInv, FlowsTypeOK, CodesTypeOK, Past
  <2>3. R!RowNow \in Request \cup {None}
    BY DEF R!RowNow, FlowsInv, FlowsTypeOK, CodesTypeOK, Otp
  <2>4. new \in RequestCall /\ new.pc = "deleting" /\ new.started = request[q].started
    BY <2>2, <2>3 DEF RequestCall, RequestPc
  <2> HIDE DEF new
  <2>5. QED
    BY <2>1, <2>2, <2>4, RequestMoves
<1>12. ASSUME NEW q \in Request, R!CommitRequest(q)
       PROVE  FlowsInv'
  <2>1. /\ request[q] # None /\ request[q].pc = "inserted"
        /\ otp' = [code |-> q, created_at |-> request[q].started,
                   expired |-> FALSE, consumed_by |-> None]
        /\ RequestGoto(q, "issued")
        /\ lock' = lock \/ (lock = q /\ lock' = None)
        /\ UNCHANGED <<clock, verify, tokens, account>>
    BY <1>12 DEF R!CommitRequest, R!Release, RequestGoto
  <2>2. otp' \in Otp /\ otp'.code = q /\ otp'.consumed_by = None
    BY <2>1 DEF FlowsInv, FlowsTypeOK, CodesTypeOK, Otp, RequestCall
  <2>3. QED
    BY <2>1, <2>2, IssueKeeps
<1>13. QED
  BY <1>2, <1>3, <1>5, <1>6, <1>8, <1>9, <1>10, <1>11, <1>12
  DEF R!Next, R!RequestStep

LEMMA NextFlowsInv == FlowsInv /\ [Next]_vars => FlowsInv'
<1>1. FlowsInv /\ UNCHANGED vars => FlowsInv'
  BY DEF vars, codeVars, FlowsInv, FlowsTypeOK, CodesTypeOK, Past, RowIsIssued,
     MatchedIsIssued, Matched, HolderIsReady, GrantsAreBacked, Granted, Issued, Open, Unconsumed,
     VerifyAt, RequestAt, SignIn, TargetsWereIssued, DeletedIsGone,
     IssuedIsThere, MatchedBefore, RowIsDated, GrantedIsUsed, OneGrantPerRow,
     TakesItsOwn, TookNewerCode, Deleted
<1>2. QED
  BY <1>1, LoginKeeps, RegistrationKeeps DEF Next

LEMMA FlowsAreSafe == Spec => []FlowsInv
  BY InitFlowsInv, NextFlowsInv, PTL DEF Spec

-----------------------------------------------------------------------------
(* The theorems.                                                           *)

(* The row, its lock and the calls around them have their types.           *)
THEOREM FlowsTypeCorrect == Spec => []FlowsTypeOK
  BY FlowsAreSafe, PTL DEF FlowsInv

(* A sign-in code opens two sessions only if one of them used up a newer   *)
(* code, whose INSERT had started before, as well: each row is used up     *)
(* once (consume_login_otp).                                               *)
THEOREM SignInOncePerCode == Spec => []OneSignInPerCode
<1>1. FlowsInv => OneSignInPerCode
  BY DEF FlowsInv, SignIn, OneGrantPerRow, TakesItsOwn, OneSignInPerCode, Granted
<1>2. QED
  BY <1>1, FlowsAreSafe, PTL

(* What a sign-in consumes is the code that was presented, or one that     *)
(* replaced it while a third request deleted it                            *)
(* (chk_consumed_after_creation).                                          *)
THEOREM SignInConsumesItsOwn == Spec => []SignInBurnsOwnCode
<1>1. FlowsInv => SignInBurnsOwnCode
  BY DEF FlowsInv, SignIn, TakesItsOwn, SignInBurnsOwnCode
<1>2. QED
  BY <1>1, FlowsAreSafe, PTL

LEMMA AtMostOne ==
    ASSUME NEW x, NEW b \in BOOLEAN
    PROVE  Cardinality({u \in {x} : b}) = IF b THEN 1 ELSE 0
<1>1. CASE b
  <2>1. {u \in {x} : b} = {x}
    BY <1>1
  <2>2. QED
    BY <1>1, <2>1, FS_Singleton
<1>2. CASE ~b
  <2>1. {u \in {x} : b} = {}
    BY <1>2
  <2>2. QED
    BY <1>2, <2>1, FS_EmptySet
<1>3. QED
  BY <1>1, <1>2

(* In both flows there are never more grants, and codes left to be         *)
(* verified, than codes that were issued (consume_login_otp,               *)
(* consume_registration_otp, uq_user_id, uq_email).                        *)
THEOREM GrantsNeverExceedCodes == Spec => []GrantsHaveCodes
<1>1. FlowsInv => GrantsHaveCodes
  <2>1. Unconsumed \in BOOLEAN
    BY DEF Unconsumed
  <2>2. Cardinality({u \in {otp} : Unconsumed}) = Open
    BY <2>1, AtMostOne DEF Open
  <2>3. QED
    BY <2>2 DEF FlowsInv, GrantsAreBacked, GrantsHaveCodes, Issued
<1>2. QED
  BY <1>1, FlowsAreSafe, PTL

(* A request for a sign-in code is refused only because of a code that     *)
(* came after its DELETE had started (request_login_otp).                  *)
THEOREM ConflictsAreRecent == Spec => LoginConflictIsRecent
<1> DEFINE Fresh == \A q \in Request :
              flow = "login" /\ RequestAt(q, "inserting") /\ RequestAt(q, "conflict")' =>
                 otp.code \notin {q, request[q].target}
<1>1. FlowsInv /\ [Next]_vars => [Fresh]_vars
  <2> SUFFICES ASSUME FlowsInv, Next, NEW q \in Request, flow = "login",
                      RequestAt(q, "inserting"), RequestAt(q, "conflict")'
               PROVE  otp.code \notin {q, request[q].target}
    OBVIOUS
  <2>1. /\ request[q] \in RequestCall /\ request[q].pc = "inserting" /\ request[q] # None
        /\ request'[q] # None /\ request'[q].pc = "conflict"
    BY DEF RequestAt, FlowsInv, FlowsTypeOK, CodesTypeOK
  <2>2. L!Next
    BY DEF Next, InLogin, InRegistration
  <2>3. otp # None
    <3>1. SUFFICES ASSUME otp = None
                   PROVE  FALSE
      OBVIOUS
    <3>2. ASSUME NEW p \in Request, p # q, NEW new, request' = [request EXCEPT ![p] = new]
          PROVE  FALSE
      BY <2>1, <3>2 DEF FlowsInv, FlowsTypeOK, CodesTypeOK
    <3>3. ASSUME NEW pc, pc # "conflict", RequestGoto(q, pc)
          PROVE  FALSE
      BY <2>1, <3>3
      DEF RequestGoto, FlowsInv, FlowsTypeOK, CodesTypeOK, RequestCall
    <3>4. UNCHANGED request => FALSE
      BY <2>1
    <3>5. \A v \in Verify : ~L!VerifyNext(v)
      BY <3>4, SameVerification DEF VerifyNext, VerifyStep, Present, Check,
         StartConsume, Consume, Grant, FailVerify
    <3>6. ~L!ExpireCode
      BY <3>4 DEF L!ExpireCode
    <3>7. ASSUME NEW p \in Request, p # q
          PROVE  ~(L!AskLogin(p) \/ L!RequestStep(p) \/ L!FailLogin(p))
      BY <3>2, <3>7, <3>1
      DEF L!AskLogin, L!RequestStep, L!DeleteCode, L!StartInsert, L!InsertCode,
         L!FailLogin, L!RequestGoto
    <3>8. ~L!AskLogin(q) /\ ~L!DeleteCode(q) /\ ~L!StartInsert(q)
      BY <2>1 DEF L!AskLogin, L!DeleteCode, L!StartInsert, L!RequestAt
    <3>9. ~L!InsertCode(q)
      BY <3>1, <3>3 DEF L!InsertCode, L!RequestGoto, RequestGoto
    <3>10. ~L!FailLogin(q)
      <4>1. SUFFICES ASSUME L!FailLogin(q)
                     PROVE  FALSE
        OBVIOUS
      <4>2. request'[q] = [request[q] EXCEPT !.pc = "error",
               !.target = IF L!RequestAt(q, "deleting") THEN None ELSE @]
        BY <4>1 DEF L!FailLogin, FlowsInv, FlowsTypeOK, CodesTypeOK
      <4>3. QED
        BY <2>1, <4>2 DEF RequestCall
    <3>11. QED
      BY <2>2, <3>5, <3>6, <3>7, <3>8, <3>9, <3>10 DEF L!Next, L!RequestStep
  <2>4. RequestAt(otp.code, "issued")
    BY <2>3 DEF FlowsInv, RowIsIssued
  <2>5. ~Deleted(q, otp.code)
    BY <2>3 DEF FlowsInv, SignIn, DeletedIsGone
  <2>6. QED
    BY <2>1, <2>4, <2>5 DEF RequestAt, Deleted
<1>2. QED
  BY <1>1, FlowsAreSafe, PTL DEF Spec, LoginConflictIsRecent

-----------------------------------------------------------------------------
(***************************************************************************)
(* Part 2.  A call's clock may be old when it trims and counts, which      *)
(* removes no entry that still counts and counts no entry less (ClocksPast *)
(* and EntriesPast), and each expire outlasts every entry there is         *)
(* (TtlOutlasts).  So what was let through in a window and was there to be *)
(* renewed is in the set that Count counts, which found less than the      *)
(* limit; the calls that have been counted and not answered are running    *)
(* ones, of which there are at most Concurrency (OverrunOf).  Entries that *)
(* go before they are renewed go at once, with the key: the next time to   *)
(* live ends after the window (LossOf).                                    *)
(***************************************************************************)

HIDE CodeAssumption
USE LimiterAssumption

-----------------------------------------------------------------------------
(* The inductive invariant.                                                *)

RunningCalls == {c \in Call : Running(c)}

RunningBounded ==
    IsFiniteSet(RunningCalls) /\ Cardinality(RunningCalls) <= Concurrency

ClocksPast == \A c \in Call : Running(c) => call[c].now <= time

\* Entries and admissions are of the past, and a set is finite.
EntriesPast ==
    /\ \A w \in Window : IsFiniteSet(zset[w]) /\ \A m \in zset[w] : m.score <= time
    /\ \A a \in admitted : a.at <= a.done /\ a.done <= time

TtlOutlasts ==
    \A a \in admitted : a.kept /\ time < a.at + Length[a.window] =>
        a.at + Length[a.window] <= ttl[a.window]

\* EveryKeyExpires while calls are under way.
EntriesExpire ==
    \A w \in Window : \A m \in zset[w] :
        \/ At(m.member, "crashed")
        \/ At(m.member, "expire") /\ KeyOf(m.member) = w
        \/ m.score + Length[w] <= ttl[w]

\* A call under way that has read its clock in the window that ends at t.
Within(c, w, t) == KeyOf(c) = w /\ t - Length[w] < call[c].now /\ time <= t

\* Calls that a limiter has counted and not answered, and those whose entry
\* is gone before they renew the key.
Counted(w, t) == {c \in Call : (At(c, "add") \/ At(c, "expire")) /\ Within(c, w, t)}
Missing(w, t) == {c \in Call : At(c, "expire") /\ Within(c, w, t) /\ Entry(c) \notin zset[w]}

Passed(w, t) == Through(w, t, TRUE) \cup Counted(w, t)
Lost(w, t) == Through(w, t, FALSE) \cup Missing(w, t)

OverrunOf(w, t) ==
    IsFiniteSet(Passed(w, t)) /\ Cardinality(Passed(w, t)) <= Limit[w] + Concurrency - 1

\* The time to live of a key ends at most once in a window.
LossOf(w, t) ==
    /\ IsFiniteSet(Lost(w, t)) /\ Cardinality(Lost(w, t)) <= Concurrency
    /\ time <= t /\ Lost(w, t) # {} => ttl[w] = -1 \/ t < ttl[w]

LimiterInv ==
    /\ LimiterTypeOK
    /\ RunningBounded
    /\ ClocksPast
    /\ EntriesPast
    /\ AdmittedIsCounted
    /\ TtlOutlasts
    /\ EntriesExpire
    /\ \A w \in Window, t \in 0..MaxTime : OverrunOf(w, t) /\ LossOf(w, t)

LEMMA InitLimiterInv == LimiterInit => LimiterInv
<1> SUFFICES ASSUME LimiterInit
             PROVE  LimiterInv
  OBVIOUS
<1>1. LimiterTypeOK
  BY DEF LimiterInit, LimiterTypeOK
<1>2. RunningCalls = {}
  BY DEF LimiterInit, RunningCalls, Running
<1>3. RunningBounded
  BY <1>2, FS_EmptySet DEF RunningBounded
<1>4. EntriesPast
  BY FS_EmptySet DEF LimiterInit, EntriesPast
<1>5. ClocksPast /\ AdmittedIsCounted /\ TtlOutlasts /\ EntriesExpire
  BY DEF LimiterInit, ClocksPast, AdmittedIsCounted, TtlOutlasts, EntriesExpire,
     Running
<1>6. ASSUME NEW w \in Window, NEW t \in 0..MaxTime
      PROVE  OverrunOf(w, t) /\ LossOf(w, t)
  <2>1. Passed(w, t) = {} /\ Lost(w, t) = {}
    BY DEF LimiterInit, Passed, Lost, Through, Counted, Missing, At
  <2>2. Limit[w] \in Nat \ {0}
    OBVIOUS
  <2>3. QED
    BY <2>1, <2>2, FS_EmptySet DEF OverrunOf, LossOf
<1>7. QED
  BY <1>1, <1>3, <1>4, <1>5, <1>6 DEF LimiterInv

-----------------------------------------------------------------------------
(* What the steps share.                                                   *)

(* A call that becomes `new'.                                              *)
LEMMA CallBecomes ==
    ASSUME LimiterTypeOK, NEW c \in Call, NEW new \in LimiterCall,
           call' = [call EXCEPT ![c] = new]
    PROVE  /\ call' \in [Call -> LimiterCall \cup {NoCall}]
           /\ call'[c] = new /\ new # NoCall
           /\ \A d \in Call \ {c} : call'[d] = call[d]
BY DEF LimiterTypeOK

LEMMA KeysAreWindows ==
    ASSUME LimiterTypeOK
    PROVE  \A c \in Call : call[c] # NoCall =>
              call[c] \in LimiterCall /\ KeyOf(c) \in Window /\ call[c].now \in Nat
BY DEF LimiterTypeOK, LimiterCall, KeyOf, Window

(* A call that has ended.                                                  *)
LEMMA EndedCall ==
    ASSUME NEW pc \in Pc
    PROVE  LET new == [pc |-> pc, window |-> 1, now |-> 0]
           IN  new \in LimiterCall /\ new.pc = pc /\ new.now = 0
<1>1. 1 \in DOMAIN Windows
  OBVIOUS
<1>2. QED
  BY <1>1 DEF LimiterCall

LEMMA RunningKeeps ==
    ASSUME LimiterTypeOK, RunningBounded, NEW c \in Call, NEW new \in LimiterCall,
           call' = [call EXCEPT ![c] = new],
           Running(c) \/ Cardinality(RunningCalls) < Concurrency
    PROVE  RunningBounded'
<1>1. RunningCalls' \subseteq RunningCalls \cup {c}
  BY CallBecomes DEF RunningCalls, Running
<1>2. IsFiniteSet(RunningCalls) /\ Cardinality(RunningCalls) \in Nat
  BY FS_CardinalityType DEF RunningBounded
<1>3. /\ IsFiniteSet(RunningCalls \cup {c})
      /\ Cardinality(RunningCalls \cup {c}) =
            IF c \in RunningCalls THEN Cardinality(RunningCalls)
            ELSE Cardinality(RunningCalls) + 1
  BY <1>2, FS_AddElement
<1>4. /\ IsFiniteSet(RunningCalls')
      /\ Cardinality(RunningCalls') <= Cardinality(RunningCalls \cup {c})
  BY <1>1, <1>3, FS_Subset
<1>5. Cardinality(RunningCalls') \in Nat
  BY <1>4, FS_CardinalityType
<1>6. Cardinality(RunningCalls \cup {c}) <= Concurrency
  BY <1>2, <1>3 DEF RunningBounded, RunningCalls
<1>7. QED
  BY <1>2, <1>3, <1>4, <1>5, <1>6 DEF RunningBounded

(* Fewer calls passed, or lost, under the same time to live or a later one. *)
LEMMA FewerPassed ==
    ASSUME NEW w \in Window, NEW t \in 0..MaxTime, OverrunOf(w, t),
           Passed(w, t)' \subseteq Passed(w, t)
    PROVE  OverrunOf(w, t)'
<1>1. /\ IsFiniteSet(Passed(w, t)')
      /\ Cardinality(Passed(w, t)') <= Cardinality(Passed(w, t))
  BY FS_Subset DEF OverrunOf
<1>2. /\ Cardinality(Passed(w, t)') \in Nat /\ Cardinality(Passed(w, t)) \in Nat
      /\ Limit[w] \in Nat
  BY <1>1, FS_CardinalityType DEF OverrunOf
<1>3. QED
  BY <1>1, <1>2 DEF OverrunOf

LEMMA FewerLost ==
    ASSUME NEW w \in Window, NEW t \in 0..MaxTime, LossOf(w, t),
           time \in Nat, time' \in Nat, time <= time',
           Lost(w, t)' \subseteq Lost(w, t),
           (time <= t /\ Lost(w, t) # {}) =>
               (ttl'[w] = ttl[w] \/ ttl'[w] = -1 \/ t < ttl'[w])
    PROVE  LossOf(w, t)'
<1>1. /\ IsFiniteSet(Lost(w, t)')
      /\ Cardinality(Lost(w, t)') <= Cardinality(Lost(w, t))
  BY FS_Subset DEF LossOf
<1>2. Cardinality(Lost(w, t)') \in Nat /\ Cardinality(Lost(w, t)) \in Nat
  BY <1>1, FS_CardinalityType DEF LossOf
<1>3. Cardinality(Lost(w, t)') <= Concurrency
  BY <1>1, <1>2 DEF LossOf
<1>4. ASSUME time' <= t, Lost(w, t)' # {}
      PROVE  ttl'[w] = -1 \/ t < ttl'[w]
  <2>1. time <= t /\ Lost(w, t) # {}
    BY <1>4
  <2>2. QED
    BY <2>1 DEF LossOf
<1>5. QED
  BY <1>1, <1>3, <1>4 DEF LossOf

(* A call that changes nothing but where it has got to.                    *)
LEMMA CallMoves ==
    ASSUME LimiterInv, NEW c \in Call, NEW new \in LimiterCall,
           call' = [call EXCEPT ![c] = new],
           UNCHANGED <<time, zset, ttl, admitted>>,
           new.pc \notin {"add", "expire"}, ~At(c, "crashed"),
           At(c, "expire") => new.pc = "crashed",
           Running(c) \/ Cardinality(RunningCalls) < Concurrency,
           new.now <= time
    PROVE  LimiterInv'
<1>1. /\ call' \in [Call -> LimiterCall \cup {NoCall}]
      /\ call'[c] = new /\ new # NoCall
      /\ \A d \in Call \ {c} : call'[d] = call[d]
  BY CallBecomes DEF LimiterInv
<1>2. LimiterTypeOK' /\ RunningBounded'
  BY <1>1, RunningKeeps DEF LimiterInv, LimiterTypeOK
<1>3. ClocksPast'
  BY <1>1 DEF LimiterInv, ClocksPast, Running
<1>4. EntriesPast' /\ AdmittedIsCounted' /\ TtlOutlasts'
  BY DEF LimiterInv, EntriesPast, AdmittedIsCounted, TtlOutlasts
<1>5. EntriesExpire'
  <2> SUFFICES ASSUME NEW w \in Window, NEW m \in zset[w]
               PROVE  \/ At(m.member, "crashed")'
                      \/ At(m.member, "expire")' /\ KeyOf(m.member)' = w
                      \/ m.score + Length[w] <= ttl[w]
    BY DEF EntriesExpire
  <2>1. m.member \in Call
    BY DEF LimiterInv, LimiterTypeOK, Member
  <2>2. QED
    BY <1>1, <2>1 DEF LimiterInv, EntriesExpire, At, KeyOf
<1>6. ASSUME NEW w \in Window, NEW t \in 0..MaxTime
      PROVE  OverrunOf(w, t)' /\ LossOf(w, t)'
  <2>1. Counted(w, t)' \subseteq Counted(w, t) /\ Missing(w, t)' \subseteq Missing(w, t)
    BY <1>1 DEF Counted, Missing, Within, Entry, At, KeyOf
  <2>2. \A k \in BOOLEAN : Through(w, t, k)' = Through(w, t, k)
    BY DEF Through
  <2>3. Passed(w, t)' \subseteq Passed(w, t) /\ Lost(w, t)' \subseteq Lost(w, t)
    BY <2>1, <2>2 DEF Passed, Lost
  <2>4. time \in Nat
    BY DEF LimiterInv, LimiterTypeOK
  <2>5. QED
    BY <2>3, <2>4, FewerPassed, FewerLost DEF LimiterInv
<1>7. QED
  BY <1>2, <1>3, <1>4, <1>5, <1>6 DEF LimiterInv

-----------------------------------------------------------------------------
(* One lemma per action.                                                   *)

LEMMA BeginKeeps == ASSUME LimiterInv, NEW c \in Call, Begin(c) PROVE LimiterInv'
<1> DEFINE new == [pc |-> "clock", window |-> 1, now |-> 0]
<1>1. new \in LimiterCall /\ new.pc = "clock" /\ new.now = 0
  BY EndedCall DEF Pc
<1>2. call' = [call EXCEPT ![c] = new] /\ UNCHANGED <<time, zset, ttl, admitted>>
  BY DEF Begin
<1>3. call[c] = NoCall /\ Cardinality(RunningCalls) < Concurrency
  BY DEF Begin, RunningCalls
<1>4. 0 <= time
  BY DEF LimiterInv, LimiterTypeOK
<1> HIDE DEF new
<1>5. QED
  BY <1>1, <1>2, <1>3, <1>4, CallMoves DEF At

LEMMA ReadClockKeeps ==
    ASSUME LimiterInv, NEW c \in Call, ReadClock(c)
    PROVE  LimiterInv'
<1>1. call[c] \in LimiterCall /\ call[c].pc = "clock"
  BY KeysAreWindows DEF LimiterInv, ReadClock, At
<1> DEFINE new == [call[c] EXCEPT !.pc = "trim", !.now = time]
<1>2. time \in Nat
  BY DEF LimiterInv, LimiterTypeOK
<1>3. new \in LimiterCall /\ new.pc = "trim" /\ new.now <= time
  <2> DEFINE mid == [call[c] EXCEPT !.pc = "trim"]
  <2>1. mid \in LimiterCall /\ mid.pc = "trim"
    BY <1>1 DEF LimiterCall, Pc
  <2>2. new = [mid EXCEPT !.now = time]
    OBVIOUS
  <2> HIDE DEF mid, new
  <2>3. new \in LimiterCall /\ new.pc = "trim" /\ new.now = time
    BY <1>2, <2>1, <2>2 DEF LimiterCall
  <2>4. QED
    BY <1>2, <2>3
<1>4. call' = [call EXCEPT ![c] = new] /\ UNCHANGED <<time, zset, ttl, admitted>>
  BY DEF ReadClock
<1>5. Running(c)
  BY DEF ReadClock, At, Running, Finished
<1> HIDE DEF new
<1>6. QED
  BY <1>1, <1>3, <1>4, <1>5, CallMoves DEF At

LEMMA CrashKeeps == ASSUME LimiterInv, NEW c \in Call, Crash(c) PROVE LimiterInv'
<1> DEFINE new == [pc |-> "crashed", window |-> 1, now |-> 0]
<1>1. new \in LimiterCall /\ new.pc = "crashed" /\ new.now = 0
  BY EndedCall DEF Pc, Finished
<1>2. call' = [call EXCEPT ![c] = new] /\ UNCHANGED <<time, zset, ttl, admitted>>
  BY DEF Crash, End
<1>3. Running(c) /\ ~At(c, "crashed")
  BY DEF Crash, Running, At, Finished
<1>4. 0 <= time
  BY DEF LimiterInv, LimiterTypeOK
<1> HIDE DEF new
<1>5. QED
  BY <1>1, <1>2, <1>3, <1>4, CallMoves

(* What Trim leaves of an entry that still counts, and of the time to live. *)
LEMMA TrimKeeps == ASSUME LimiterInv, NEW c \in Call, Trim(c) PROVE LimiterInv'
<1>1. /\ call[c] \in LimiterCall /\ call[c].pc = "trim"
      /\ call[c].now \in Nat /\ call[c].now <= time
      /\ KeyOf(c) \in Window /\ Running(c)
  BY KeysAreWindows DEF LimiterInv, Trim, At, ClocksPast, Running, Finished
<1> DEFINE new == [call[c] EXCEPT !.pc = "count"]
<1>2. new \in LimiterCall /\ new.pc = "count" /\ new.now = call[c].now
  BY <1>1 DEF LimiterCall, Pc
<1>3. call' = [call EXCEPT ![c] = new] /\ UNCHANGED <<time, admitted>>
  BY DEF Trim, Goto
<1> HIDE DEF new
<1>4. /\ call' \in [Call -> LimiterCall \cup {NoCall}]
      /\ call'[c] = new /\ new # NoCall
      /\ \A d \in Call \ {c} : call'[d] = call[d]
  BY <1>2, <1>3, CallBecomes DEF LimiterInv
<1>5. /\ zset \in [Window -> SUBSET Member] /\ ttl \in [Window -> Int]
      /\ time \in Nat /\ Length \in [Window -> Nat \ {0}]
  BY DEF LimiterInv, LimiterTypeOK
<1>6. zset'[KeyOf(c)] =
         {m \in zset[KeyOf(c)] : m.score > call[c].now - Length[KeyOf(c)]}
  BY <1>1, <1>5 DEF Trim
<1>7. \A w \in Window : zset'[w] \subseteq zset[w]
  BY <1>1, <1>5, <1>6 DEF Trim
<1>8. ASSUME NEW w \in Window, NEW m \in zset[w], m.score > time - Length[w]
      PROVE  m \in zset'[w]
  <2>1. m.score \in Nat /\ Length[w] \in Nat
    BY <1>5 DEF Member
  <2>2. CASE w = KeyOf(c)
    BY <1>1, <1>5, <1>6, <1>8, <2>1, <2>2
  <2>3. CASE w # KeyOf(c)
    BY <1>1, <1>5, <2>3 DEF Trim
  <2>4. QED
    BY <2>2, <2>3
<1>9. \A w \in Window : ttl'[w] = ttl[w] \/ (zset'[w] = {} /\ ttl'[w] = -1)
  BY <1>1, <1>5 DEF Trim
<1>10. LimiterTypeOK' /\ RunningBounded'
  <2>1. zset' \in [Window -> SUBSET Member] /\ ttl' \in [Window -> Int]
    BY <1>1, <1>5, <1>7, <1>9 DEF Trim
  <2>2. LimiterTypeOK'
    BY <1>3, <1>4, <2>1 DEF LimiterInv, LimiterTypeOK
  <2>3. RunningBounded'
    BY <1>1, <1>2, <1>3, RunningKeeps DEF LimiterInv
  <2>4. QED
    BY <2>2, <2>3
<1>11. ClocksPast'
  BY <1>1, <1>2, <1>3, <1>4 DEF LimiterInv, ClocksPast, Running
<1>12. EntriesPast'
  BY <1>3, <1>7, FS_Subset DEF LimiterInv, EntriesPast
<1>13. AdmittedIsCounted'
  <2> SUFFICES ASSUME NEW a \in admitted, a.kept, time < a.at + Length[a.window]
               PROVE  [member |-> a.member, score |-> a.at] \in zset'[a.window]
    BY <1>3 DEF AdmittedIsCounted
  <2>1. a.at \in Nat /\ a.window \in Window
    BY DEF LimiterInv, LimiterTypeOK, Admission
  <2>2. [member |-> a.member, score |-> a.at] \in zset[a.window]
    BY DEF LimiterInv, AdmittedIsCounted
  <2>3. [member |-> a.member, score |-> a.at].score > time - Length[a.window]
    BY <1>5, <2>1
  <2>4. QED
    BY <1>8, <2>1, <2>2, <2>3
<1>14. TtlOutlasts'
  <2> SUFFICES ASSUME NEW a \in admitted, a.kept, time < a.at + Length[a.window]
               PROVE  a.at + Length[a.window] <= ttl'[a.window]
    BY <1>3 DEF TtlOutlasts
  <2>1. a.window \in Window
    BY DEF LimiterInv, LimiterTypeOK, Admission
  <2>2. zset'[a.window] # {}
    BY <1>3, <1>13 DEF AdmittedIsCounted
  <2>3. QED
    BY <1>9, <2>1, <2>2 DEF LimiterInv, TtlOutlasts
<1>15. EntriesExpire'
  <2> SUFFICES ASSUME NEW w \in Window, NEW m \in zset'[w]
               PROVE  \/ At(m.member, "crashed")'
                      \/ At(m.member, "expire")' /\ KeyOf(m.member)' = w
                      \/ m.score + Length[w] <= ttl'[w]
    BY DEF EntriesExpire
  <2>1. m \in zset[w] /\ m.member \in Call /\ ttl'[w] = ttl[w]
    BY <1>5, <1>7, <1>9 DEF Member
  <2>2. ~At(c, "crashed") /\ ~At(c, "expire")
    BY <1>1 DEF At
  <2>3. QED
    BY <1>4, <2>1, <2>2 DEF LimiterInv, EntriesExpire, At, KeyOf
<1>16. ASSUME NEW w \in Window, NEW t \in 0..MaxTime
       PROVE  OverrunOf(w, t)' /\ LossOf(w, t)'
  <2>1. \A k \in BOOLEAN : Through(w, t, k)' = Through(w, t, k)
    BY <1>3 DEF Through
  <2>2. Counted(w, t)' \subseteq Counted(w, t)
    BY <1>2, <1>3, <1>4 DEF Counted, Within, At, KeyOf
  <2>3. ASSUME NEW d \in Missing(w, t)'
        PROVE  d \in Missing(w, t)
    <3>1. d \in Call /\ At(d, "expire")' /\ Within(d, w, t)' /\ (Entry(d) \notin zset[w])'
      BY DEF Missing
    <3>2. d # c /\ call'[d] = call[d]
      BY <1>2, <1>4, <3>1 DEF At
    <3>3. At(d, "expire") /\ Within(d, w, t) /\ Entry(d)' = Entry(d)
      BY <1>3, <3>1, <3>2 DEF At, Within, KeyOf, Entry
    <3>4. call[d].now \in Nat /\ Length[w] \in Nat
      BY <1>5, <3>1, <3>3, KeysAreWindows DEF LimiterInv, At
    <3>5. Entry(d).score > time - Length[w]
      BY <1>5, <3>3, <3>4 DEF Within, Entry
    <3>6. Entry(d) \notin zset[w]
      BY <1>8, <3>1, <3>3, <3>5
    <3>7. QED
      BY <3>1, <3>3, <3>6 DEF Missing
  <2>4. Passed(w, t)' \subseteq Passed(w, t) /\ Lost(w, t)' \subseteq Lost(w, t)
    BY <2>1, <2>2, <2>3 DEF Passed, Lost
  <2>5. ttl'[w] = ttl[w] \/ ttl'[w] = -1
    BY <1>9
  <2>6. time' \in Nat /\ time <= time'
    BY <1>3, <1>5
  <2>7. QED
    BY <1>5, <2>4, <2>5, <2>6, FewerPassed, FewerLost DEF LimiterInv
<1>17. QED
  BY <1>10, <1>11, <1>12, <1>13, <1>14, <1>15, <1>16 DEF LimiterInv

(* What a limiter has let through in a window that is still open, and was  *)
(* there to be renewed, is in the sorted set, once for every call, and the *)
(* clock of no call is too late to count it.                               *)
LEMMA ThroughIsCounted ==
    ASSUME LimiterInv, NEW w \in Window, NEW t \in 0..MaxTime, time <= t,
           NEW now \in Nat, now <= time
    PROVE  LET inWindow == {m \in zset[w] : m.score >= now - Length[w]}
           IN  /\ IsFiniteSet(inWindow) /\ IsFiniteSet(Through(w, t, TRUE))
               /\ Cardinality(Through(w, t, TRUE)) <= Cardinality(inWindow)
<1> DEFINE inWindow == {m \in zset[w] : m.score >= now - Length[w]}
           entry == [c \in Through(w, t, TRUE) |->
                        CHOOSE m \in inWindow : m.member = c]
<1>1. IsFiniteSet(inWindow)
  BY FS_Subset DEF LimiterInv, EntriesPast
<1>2. /\ time \in Nat /\ Length[w] \in Nat /\ t \in Nat
      /\ admitted \subseteq Admission
  BY DEF LimiterInv, LimiterTypeOK
<1>3. ASSUME NEW c \in Through(w, t, TRUE)
      PROVE  entry[c] \in inWindow /\ entry[c].member = c
  <2>1. PICK a \in admitted : /\ a.window = w /\ a.member = c /\ a.kept = TRUE
                              /\ t - Length[w] < a.at /\ a.done <= t
    BY DEF Through
  <2>2. a.at \in Nat
    BY <1>2 DEF Admission
  <2>3. time < a.at + Length[w] /\ a.at >= now - Length[w]
    BY <1>2, <2>1, <2>2
  <2>4. [member |-> c, score |-> a.at] \in zset[w]
    BY <2>1, <2>3 DEF LimiterInv, AdmittedIsCounted
  <2> DEFINE m == [member |-> c, score |-> a.at]
  <2>5. m.member = c /\ m.score = a.at /\ m \in zset[w]
    BY <2>4
  <2> HIDE DEF m
  <2>6. m \in inWindow
    BY <2>3, <2>5
  <2> HIDE DEF inWindow
  <2>7. QED
    BY <2>5, <2>6
<1> HIDE DEF inWindow
<1>4. entry \in Injection(Through(w, t, TRUE), inWindow)
  BY <1>3 DEF Injection, IsInjective
<1> HIDE DEF entry
<1>5. /\ IsFiniteSet(Through(w, t, TRUE))
      /\ Cardinality(Through(w, t, TRUE)) <= Cardinality(inWindow)
  BY <1>1, <1>4, FS_Injection
<1>6. QED
  BY <1>1, <1>5 DEF inWindow

LEMMA CountKeeps == ASSUME LimiterInv, NEW c \in Call, Count(c) PROVE LimiterInv'
<1> DEFINE inWindow == {m \in zset[KeyOf(c)] :
                           m.score >= call[c].now - Length[KeyOf(c)]}
<1>1. /\ call[c] \in LimiterCall /\ call[c].pc = "count"
      /\ call[c].now \in Nat /\ call[c].now <= time
      /\ KeyOf(c) \in Window /\ Running(c)
  BY KeysAreWindows DEF LimiterInv, Count, At, ClocksPast, Running, Finished
<1>2. UNCHANGED <<time, zset, ttl, admitted>> /\ time \in Nat
  BY DEF Count, LimiterInv, LimiterTypeOK
<1>3. CASE Cardinality(inWindow) >= Limit[KeyOf(c)]
  <2> DEFINE new == [pc |-> "denied", window |-> 1, now |-> 0]
  <2>1. new \in LimiterCall /\ new.pc = "denied" /\ new.now = 0
    BY EndedCall DEF Pc, Finished
  <2>2. call' = [call EXCEPT ![c] = new]
    BY <1>3 DEF Count, End
  <2>3. 0 <= time
    BY <1>2
  <2> HIDE DEF new
  <2>4. QED
    BY <1>1, <1>2, <2>1, <2>2, <2>3, CallMoves DEF At
<1>4. CASE ~(Cardinality(inWindow) >= Limit[KeyOf(c)])
  <2> DEFINE new == [call[c] EXCEPT !.pc = "add"]
  <2>1. /\ new \in LimiterCall /\ new.pc = "add"
        /\ new.now = call[c].now /\ new.window = call[c].window
    BY <1>1 DEF LimiterCall, Pc
  <2>2. call' = [call EXCEPT ![c] = new]
    BY <1>4 DEF Count, Goto
  <2> HIDE DEF new
  <2>3. /\ call' \in [Call -> LimiterCall \cup {NoCall}]
        /\ call'[c] = new /\ new # NoCall
        /\ \A d \in Call \ {c} : call'[d] = call[d]
    BY <2>1, <2>2, CallBecomes DEF LimiterInv
  <2>4. LimiterTypeOK' /\ RunningBounded'
    BY <1>1, <1>2, <2>1, <2>2, <2>3, RunningKeeps DEF LimiterInv, LimiterTypeOK
  <2>5. ClocksPast'
    BY <1>1, <1>2, <2>1, <2>3 DEF LimiterInv, ClocksPast, Running
  <2>6. EntriesPast' /\ AdmittedIsCounted' /\ TtlOutlasts'
    BY <1>2 DEF LimiterInv, EntriesPast, AdmittedIsCounted, TtlOutlasts
  <2>7. EntriesExpire'
    <3> SUFFICES ASSUME NEW w \in Window, NEW m \in zset[w]
                 PROVE  \/ At(m.member, "crashed")'
                        \/ At(m.member, "expire")' /\ KeyOf(m.member)' = w
                        \/ m.score + Length[w] <= ttl[w]
      BY <1>2 DEF EntriesExpire
    <3>1. m.member \in Call
      BY DEF LimiterInv, LimiterTypeOK, Member
    <3>2. ~At(c, "crashed") /\ ~At(c, "expire")
      BY <1>1 DEF At
    <3>3. QED
      BY <2>3, <3>1, <3>2 DEF LimiterInv, EntriesExpire, At, KeyOf
  <2>8. ASSUME NEW w \in Window, NEW t \in 0..MaxTime
        PROVE  OverrunOf(w, t)' /\ LossOf(w, t)'
    <3>1. \A k \in BOOLEAN : Through(w, t, k)' = Through(w, t, k)
      BY <1>2 DEF Through
    <3>2. Missing(w, t)' \subseteq Missing(w, t)
      BY <1>2, <2>1, <2>3 DEF Missing, Within, Entry, At, KeyOf
    <3>3. Lost(w, t)' \subseteq Lost(w, t)
      BY <3>1, <3>2 DEF Lost
    <3>4. LossOf(w, t)'
      <4>1. time' \in Nat /\ time <= time' /\ ttl'[w] = ttl[w]
        BY <1>2
      <4>2. QED
        BY <1>2, <3>3, <4>1, FewerLost DEF LimiterInv
    <3>5. CASE w = KeyOf(c) /\ time <= t
      <4>1. /\ IsFiniteSet(inWindow) /\ IsFiniteSet(Through(w, t, TRUE))
            /\ Cardinality(Through(w, t, TRUE)) <= Cardinality(inWindow)
        BY <1>1, <1>2, <3>5, ThroughIsCounted
      <4>2. /\ Cardinality(inWindow) \in Nat /\ Limit[w] \in Nat
            /\ Cardinality(inWindow) < Limit[w]
        BY <1>4, <3>5, <4>1, FS_CardinalityType
      <4>3. Passed(w, t)' \subseteq Through(w, t, TRUE) \cup RunningCalls'
        BY <2>3, <3>1 DEF Passed, Counted, RunningCalls, Running, At, Finished
      <4>4. IsFiniteSet(RunningCalls') /\ Cardinality(RunningCalls') <= Concurrency
        BY <2>4 DEF RunningBounded
      <4> DEFINE T == Through(w, t, TRUE)
                 Busy == RunningCalls'
      <4>5. /\ IsFiniteSet(T \cup Busy) /\ IsFiniteSet(T \cap Busy)
            /\ Cardinality(T \cup Busy) =
                  Cardinality(T) + Cardinality(Busy) - Cardinality(T \cap Busy)
        BY <4>1, <4>4, FS_Union, FS_Intersection
      <4>6. /\ IsFiniteSet(Passed(w, t)')
            /\ Cardinality(Passed(w, t)') <= Cardinality(T \cup Busy)
        BY <4>3, <4>5, FS_Subset
      <4>7. /\ Cardinality(T) \in Nat /\ Cardinality(Busy) \in Nat
            /\ Cardinality(T \cap Busy) \in Nat /\ Cardinality(T \cup Busy) \in Nat
            /\ Cardinality(Passed(w, t)') \in Nat
        BY <4>1, <4>4, <4>5, <4>6, FS_CardinalityType
      <4>8. Cardinality(Passed(w, t)') <= Limit[w] + Concurrency - 1
        <5> HIDE DEF T, Busy, inWindow
        <5>1. Cardinality(T) <= Cardinality(inWindow) /\ Cardinality(Busy) <= Concurrency
          BY <4>1, <4>4 DEF T, Busy
        <5>2. QED
          BY <4>2, <4>5, <4>6, <4>7, <5>1
      <4>9. QED
        BY <3>4, <4>6, <4>8 DEF OverrunOf
    <3>6. CASE ~(w = KeyOf(c) /\ time <= t)
      <4>1. Counted(w, t)' \subseteq Counted(w, t)
        BY <1>2, <2>1, <2>3, <3>6 DEF Counted, Within, At, KeyOf
      <4>2. Passed(w, t)' \subseteq Passed(w, t)
        BY <3>1, <4>1 DEF Passed
      <4>3. QED
        BY <3>4, <4>2, FewerPassed DEF LimiterInv
    <3>7. QED
      BY <3>5, <3>6
  <2>9. QED
    BY <2>4, <2>5, <2>6, <2>7, <2>8 DEF LimiterInv
<1>5. QED
  BY <1>3, <1>4

LEMMA AddKeeps == ASSUME LimiterInv, NEW c \in Call, Add(c) PROVE LimiterInv'
<1> DEFINE new == [call[c] EXCEPT !.pc = "expire"]
<1>1. /\ call[c] \in LimiterCall /\ call[c].pc = "add"
      /\ call[c].now \in Nat /\ call[c].now <= time
      /\ KeyOf(c) \in Window /\ Running(c)
  BY KeysAreWindows DEF LimiterInv, Add, At, ClocksPast, Running, Finished
<1>2. /\ new \in LimiterCall /\ new.pc = "expire" /\ new.now = call[c].now
      /\ new.window = call[c].window
  BY <1>1 DEF LimiterCall, Pc
<1>3. call' = [call EXCEPT ![c] = new] /\ UNCHANGED <<time, ttl, admitted>>
  BY DEF Add, Goto
<1> HIDE DEF new
<1>4. /\ call' \in [Call -> LimiterCall \cup {NoCall}]
      /\ call'[c] = new /\ new # NoCall
      /\ \A d \in Call \ {c} : call'[d] = call[d]
  BY <1>2, <1>3, CallBecomes DEF LimiterInv
<1>5. /\ zset \in [Window -> SUBSET Member] /\ time \in Nat /\ Entry(c) \in Member
      /\ Entry(c).member = c /\ Entry(c).score = call[c].now
  BY <1>1 DEF LimiterInv, LimiterTypeOK, Member, LimiterCall, Entry
<1>6. /\ \A w \in Window : zset[w] \subseteq zset'[w]
      /\ zset'[KeyOf(c)] = zset[KeyOf(c)] \cup {Entry(c)}
      /\ \A w \in Window \ {KeyOf(c)} : zset'[w] = zset[w]
  BY <1>1, <1>5 DEF Add
<1>7. LimiterTypeOK' /\ RunningBounded'
  <2>1. zset' \in [Window -> SUBSET Member]
    BY <1>1, <1>5 DEF Add
  <2>2. LimiterTypeOK'
    BY <1>3, <1>4, <2>1 DEF LimiterInv, LimiterTypeOK
  <2>3. RunningBounded'
    BY <1>1, <1>2, <1>3, RunningKeeps DEF LimiterInv
  <2>4. QED
    BY <2>2, <2>3
<1>8. ClocksPast'
  BY <1>1, <1>2, <1>3, <1>4 DEF LimiterInv, ClocksPast, Running
<1>9. KeyOf(c)' = KeyOf(c) /\ Entry(c)' = Entry(c)
  BY <1>2, <1>4 DEF KeyOf, Entry
<1>10. EntriesPast'
  <2>1. ASSUME NEW w \in Window
        PROVE  IsFiniteSet(zset'[w]) /\ \A m \in zset'[w] : m.score <= time
    <3>1. zset'[w] = zset[w] \/ zset'[w] = zset[w] \cup {Entry(c)}
      BY <1>6
    <3>2. IsFiniteSet(zset[w]) /\ \A m \in zset[w] : m.score <= time
      BY DEF LimiterInv, EntriesPast
    <3>3. IsFiniteSet(zset[w] \cup {Entry(c)})
      BY <3>2, FS_AddElement
    <3>4. \A m \in zset[w] \cup {Entry(c)} : m.score <= time
      BY <1>1, <1>5, <3>2
    <3>5. QED
      BY <3>1, <3>2, <3>3, <3>4
  <2>2. QED
    BY <1>3, <2>1 DEF LimiterInv, EntriesPast
<1>11. AdmittedIsCounted' /\ TtlOutlasts'
  <2>1. \A a \in admitted : a.window \in Window
    BY DEF LimiterInv, LimiterTypeOK, Admission
  <2>2. AdmittedIsCounted'
    BY <1>3, <1>6, <2>1 DEF LimiterInv, AdmittedIsCounted
  <2>3. TtlOutlasts'
    BY <1>3 DEF LimiterInv, TtlOutlasts
  <2>4. QED
    BY <2>2, <2>3
<1>12. EntriesExpire'
  <2> SUFFICES ASSUME NEW w \in Window, NEW m \in zset'[w]
               PROVE  \/ At(m.member, "crashed")'
                      \/ At(m.member, "expire")' /\ KeyOf(m.member)' = w
                      \/ m.score + Length[w] <= ttl[w]
    BY <1>3 DEF EntriesExpire
  <2>1. CASE m \in zset[w]
    <3>1. m.member \in Call
      BY <1>5, <2>1 DEF Member
    <3>2. ~At(c, "crashed") /\ ~At(c, "expire")
      BY <1>1 DEF At
    <3>3. QED
      BY <1>4, <2>1, <3>1, <3>2 DEF LimiterInv, EntriesExpire, At, KeyOf
  <2>2. CASE m \notin zset[w]
    <3>1. m = Entry(c) /\ w = KeyOf(c)
      BY <1>6, <2>2
    <3>2. QED
      BY <1>2, <1>4, <1>5, <1>9, <3>1 DEF At
  <2>3. QED
    BY <2>1, <2>2
<1>13. ASSUME NEW w \in Window, NEW t \in 0..MaxTime
       PROVE  OverrunOf(w, t)' /\ LossOf(w, t)'
  <2>1. \A k \in BOOLEAN : Through(w, t, k)' = Through(w, t, k)
    BY <1>3 DEF Through
  <2>2. Counted(w, t)' \subseteq Counted(w, t)
    BY <1>1, <1>2, <1>3, <1>4 DEF Counted, Within, At, KeyOf
  <2>3. ASSUME NEW d \in Missing(w, t)'
        PROVE  d \in Missing(w, t)
    <3>1. d \in Call /\ At(d, "expire")' /\ Within(d, w, t)' /\ (Entry(d) \notin zset[w])'
      BY DEF Missing
    <3>2. d # c
      BY <1>6, <1>9, <3>1 DEF Within
    <3>3. At(d, "expire") /\ Within(d, w, t) /\ Entry(d)' = Entry(d)
      BY <1>3, <1>4, <3>1, <3>2 DEF At, Within, KeyOf, Entry
    <3>4. QED
      BY <1>6, <3>1, <3>3 DEF Missing
  <2>4. Passed(w, t)' \subseteq Passed(w, t) /\ Lost(w, t)' \subseteq Lost(w, t)
    BY <2>1, <2>2, <2>3 DEF Passed, Lost
  <2>5. time' \in Nat /\ time <= time' /\ ttl' = ttl
    BY <1>3, <1>5
  <2>6. QED
    BY <1>5, <2>4, <2>5, FewerPassed, FewerLost DEF LimiterInv
<1>14. QED
  BY <1>7, <1>8, <1>10, <1>11, <1>12, <1>13 DEF LimiterInv

LEMMA SetTtlKeeps == ASSUME LimiterInv, NEW c \in Call, SetTtl(c) PROVE LimiterInv'
<1> DEFINE ended == [pc |-> "allowed", window |-> 1, now |-> 0]
           asks == [pc |-> "clock", window |-> call[c].window + 1, now |-> 0]
           new == IF call[c].window = Len(Windows) THEN ended ELSE asks
           kept == Entry(c) \in zset[KeyOf(c)]
           given == [window |-> KeyOf(c), member |-> c, at |-> call[c].now,
                     done |-> time, kept |-> kept]
<1>1. /\ call[c] \in LimiterCall /\ At(c, "expire") /\ ~At(c, "crashed")
      /\ call[c].now \in Nat /\ call[c].now <= time
      /\ KeyOf(c) \in Window /\ Running(c)
  BY KeysAreWindows DEF LimiterInv, SetTtl, At, ClocksPast, Running, Finished
<1>2. /\ time \in Nat /\ Length \in [Window -> Nat \ {0}]
      /\ ttl \in [Window -> Int] /\ zset \in [Window -> SUBSET Member]
      /\ admitted \subseteq Admission
  BY DEF LimiterInv, LimiterTypeOK
<1>3. new \in LimiterCall /\ new.pc \in {"allowed", "clock"} /\ new.now = 0
  <2>1. ended \in LimiterCall /\ ended.pc = "allowed" /\ ended.now = 0
    BY EndedCall DEF Pc, Finished
  <2>2. DOMAIN Windows = 1..Len(Windows) /\ Len(Windows) \in Nat
    OBVIOUS
  <2>3. call[c].window \in 1..Len(Windows)
    BY <1>1, <2>2 DEF LimiterCall
  <2>4. ASSUME call[c].window # Len(Windows)
        PROVE  asks \in LimiterCall /\ asks.pc = "clock" /\ asks.now = 0
    <3> DEFINE i == call[c].window
               n == Len(Windows)
    <3>1. n \in Nat /\ i \in 1..n /\ i # n
      BY <2>2, <2>3, <2>4
    <3> HIDE DEF i, n
    <3>2. i + 1 \in 1..n
      BY <3>1
    <3>3. call[c].window + 1 \in DOMAIN Windows
      BY <2>2, <3>2 DEF i, n
    <3>4. QED
      BY <3>3 DEF LimiterCall, Pc
  <2> HIDE DEF ended, asks
  <2>5. QED
    BY <2>1, <2>4
<1>4. /\ call' = [call EXCEPT ![c] = new]
      /\ admitted' = admitted \cup {given} /\ UNCHANGED <<time, zset>>
  BY DEF SetTtl, LetThrough, End
<1>5. /\ zset[KeyOf(c)] # {} => ttl'[KeyOf(c)] = time + Length[KeyOf(c)]
      /\ zset[KeyOf(c)] = {} => ttl'[KeyOf(c)] = -1
      /\ \A w \in Window \ {KeyOf(c)} : ttl'[w] = ttl[w]
      /\ ttl' \in [Window -> Int]
  BY <1>1, <1>2 DEF SetTtl
<1> HIDE DEF new, kept
<1>6. /\ call' \in [Call -> LimiterCall \cup {NoCall}]
      /\ call'[c] = new /\ new # NoCall
      /\ \A d \in Call \ {c} : call'[d] = call[d]
  BY <1>3, <1>4, CallBecomes DEF LimiterInv
<1>7. /\ given \in Admission
      /\ given.window = KeyOf(c) /\ given.member = c
      /\ given.at = call[c].now /\ given.done = time /\ given.kept = kept
  BY <1>1, <1>2 DEF Admission, kept
<1> HIDE DEF given
<1>8. LimiterTypeOK' /\ RunningBounded'
  <2>1. LimiterTypeOK'
    BY <1>2, <1>4, <1>5, <1>6, <1>7 DEF LimiterInv, LimiterTypeOK
  <2>2. RunningBounded'
    BY <1>1, <1>3, <1>4, RunningKeeps DEF LimiterInv
  <2>3. QED
    BY <2>1, <2>2
<1>9. ClocksPast'
  BY <1>2, <1>3, <1>4, <1>6 DEF LimiterInv, ClocksPast, Running
<1>10. EntriesPast'
  <2>1. given.at <= given.done /\ given.done <= time
    BY <1>1, <1>2, <1>7
  <2>2. QED
    BY <1>4, <2>1 DEF LimiterInv, EntriesPast
<1>11. AdmittedIsCounted'
  <2> SUFFICES ASSUME NEW a \in admitted', a.kept, time < a.at + Length[a.window]
               PROVE  [member |-> a.member, score |-> a.at] \in zset[a.window]
    BY <1>4 DEF AdmittedIsCounted
  <2>1. CASE a \in admitted
    BY <2>1 DEF LimiterInv, AdmittedIsCounted
  <2>2. CASE a = given
    BY <1>7, <2>2 DEF kept, Entry
  <2>3. QED
    BY <1>4, <2>1, <2>2
<1>12. TtlOutlasts'
  <2> SUFFICES ASSUME NEW a \in admitted', a.kept, time < a.at + Length[a.window]
               PROVE  a.at + Length[a.window] <= ttl'[a.window]
    BY <1>4 DEF TtlOutlasts
  <2>1. a \in Admission /\ a.at <= a.done /\ a.done <= time
    BY <1>2, <1>4, <1>7, <1>10 DEF EntriesPast
  <2>2. /\ a.window \in Window /\ a.at \in Nat /\ a.done \in Nat
        /\ Length[a.window] \in Nat
    BY <1>2, <2>1 DEF Admission
  <2>3. CASE a.window = KeyOf(c)
    <3>1. zset[a.window] # {}
      BY <1>4, <1>11 DEF AdmittedIsCounted
    <3>2. ttl'[a.window] = time + Length[a.window]
      BY <1>5, <2>3, <3>1
    <3>3. a.at <= time
      BY <1>2, <2>1, <2>2
    <3>4. ttl'[a.window] \in Int /\ time \in Nat
      BY <1>2, <1>5, <2>2
    <3>5. QED
      BY <2>2, <3>2, <3>3, <3>4
  <2>4. CASE a.window # KeyOf(c)
    <3>1. a \in admitted
      BY <1>4, <1>7, <2>4
    <3>2. QED
      BY <1>5, <2>2, <2>4, <3>1 DEF LimiterInv, TtlOutlasts
  <2>5. QED
    BY <2>3, <2>4
<1>13. EntriesExpire'
  <2> SUFFICES ASSUME NEW w \in Window, NEW m \in zset[w]
               PROVE  \/ At(m.member, "crashed")'
                      \/ At(m.member, "expire")' /\ KeyOf(m.member)' = w
                      \/ m.score + Length[w] <= ttl'[w]
    BY <1>4 DEF EntriesExpire
  <2>1. m.member \in Call /\ m.score \in Nat /\ m.score <= time
    BY <1>2 DEF Member, LimiterInv, EntriesPast
  <2>2. CASE w = KeyOf(c)
    <3>1. Length[w] \in Nat
      BY <1>2
    <3>2. ttl'[w] = time + Length[w]
      BY <1>5, <2>2
    <3>3. m.score + Length[w] <= time + Length[w]
      BY <1>2, <2>1, <3>1
    <3>4. QED
      BY <3>2, <3>3
  <2>3. CASE w # KeyOf(c)
    <3>1. ttl'[w] = ttl[w]
      BY <1>5, <2>3
    <3>2. \/ At(m.member, "crashed")
          \/ At(m.member, "expire") /\ KeyOf(m.member) = w
          \/ m.score + Length[w] <= ttl[w]
      BY DEF LimiterInv, EntriesExpire
    <3>3. CASE m.member = c
      BY <1>1, <2>3, <3>1, <3>2, <3>3
    <3>4. CASE m.member # c
      BY <1>6, <2>1, <3>1, <3>2, <3>4 DEF At, KeyOf
    <3>5. QED
      BY <3>3, <3>4
  <2>4. QED
    BY <2>2, <2>3
<1>14. ASSUME NEW w \in Window, NEW t \in 0..MaxTime
       PROVE  OverrunOf(w, t)' /\ LossOf(w, t)'
  <2>1. ASSUME NEW k \in BOOLEAN, NEW d \in Through(w, t, k)'
        PROVE  d \in Through(w, t, k) \/ (d = c /\ Within(c, w, t) /\ k = kept)
    <3>1. PICK a \in admitted' : /\ a.window = w /\ a.member = d /\ a.kept = k
                                 /\ t - Length[w] < a.at /\ a.done <= t
      BY DEF Through
    <3>2. CASE a \in admitted
      BY <3>1, <3>2 DEF Through
    <3>3. CASE a = given
      BY <1>7, <3>1, <3>3 DEF Within
    <3>4. QED
      BY <1>4, <3>2, <3>3
  <2>2. Counted(w, t)' \subseteq Counted(w, t)
    BY <1>3, <1>4, <1>6 DEF Counted, Within, At, KeyOf
  <2>3. Missing(w, t)' \subseteq Missing(w, t)
    BY <1>3, <1>4, <1>6 DEF Missing, Within, Entry, At, KeyOf
  <2>4. Within(c, w, t) => c \in Counted(w, t)
    BY <1>1 DEF Counted
  <2>5. Within(c, w, t) /\ kept = FALSE => c \in Missing(w, t)
    BY <1>1 DEF Missing, Within, kept
  <2>6. Passed(w, t)' \subseteq Passed(w, t)
    BY <2>1, <2>2, <2>4 DEF Passed
  <2>7. Lost(w, t)' \subseteq Lost(w, t)
    BY <2>1, <2>3, <2>5 DEF Lost
  <2>8. ASSUME time <= t, NEW d \in Lost(w, t)
        PROVE  ttl'[w] = ttl[w] \/ ttl'[w] = -1 \/ t < ttl'[w]
    <3>1. Length[w] \in Nat /\ t \in Nat
      BY <1>2
    <3>2. CASE d \in Through(w, t, FALSE)
      <4>1. PICK a \in admitted : t - Length[w] < a.at
        BY <3>2 DEF Through
      <4>2. a.at \in Nat /\ a.done \in Nat /\ a.at <= a.done /\ a.done <= time
        BY <1>2 DEF LimiterInv, EntriesPast, Admission
      <4>3. t < time + Length[w]
        BY <1>2, <3>1, <4>1, <4>2
      <4>4. QED
        BY <1>5, <4>3
    <3>3. CASE d \in Missing(w, t)
      <4>1. d \in Call /\ At(d, "expire") /\ t - Length[w] < call[d].now
        BY <3>3 DEF Missing, Within
      <4>2. call[d].now \in Nat /\ call[d].now <= time
        BY <4>1, KeysAreWindows DEF LimiterInv, ClocksPast, Running, At, Finished
      <4>3. t < time + Length[w]
        BY <1>2, <3>1, <4>1, <4>2
      <4>4. QED
        BY <1>5, <4>3
    <3>4. QED
      BY <3>2, <3>3 DEF Lost
  <2>9. time' \in Nat /\ time <= time'
    BY <1>2, <1>4
  <2>10. OverrunOf(w, t)'
    BY <2>6, FewerPassed DEF LimiterInv
  <2>11. LossOf(w, t)'
    BY <1>2, <2>7, <2>8, <2>9, FewerLost DEF LimiterInv
  <2>12. QED
    BY <2>10, <2>11
<1>15. QED
  BY <1>8, <1>9, <1>10, <1>11, <1>12, <1>13, <1>14 DEF LimiterInv

(* Redis drops a key only when every entry that counts is out of its       *)
(* window or of a call that has yet to renew it, and only when no entry of *)
(* the windows still open has been lost before.                            *)
LEMMA TickKeeps == ASSUME LimiterInv, Tick PROVE LimiterInv'
<1>1. /\ time \in Nat /\ MaxTime \in Nat /\ time' = time + 1 /\ time' \in 0..MaxTime
      /\ Length \in [Window -> Nat \ {0}]
      /\ ttl \in [Window -> Int] /\ zset \in [Window -> SUBSET Member]
      /\ admitted \subseteq Admission
      /\ UNCHANGED <<call, admitted>>
  BY DEF LimiterInv, LimiterTypeOK, Tick
<1>2. \A w \in Window :
         \/ ttl[w] = time' /\ zset'[w] = {} /\ ttl'[w] = -1
         \/ ttl[w] # time' /\ zset'[w] = zset[w] /\ ttl'[w] = ttl[w]
  BY DEF Tick
<1>3. LimiterTypeOK'
  <2>1. zset' \in [Window -> SUBSET Member] /\ ttl' \in [Window -> Int]
    BY <1>1 DEF Tick
  <2>2. QED
    BY <1>1, <2>1 DEF LimiterInv, LimiterTypeOK
<1>4. RunningCalls' = RunningCalls
  BY <1>1 DEF RunningCalls, Running
<1>5. RunningBounded'
  BY <1>4 DEF LimiterInv, RunningBounded
<1>6. ClocksPast'
  <2> SUFFICES ASSUME NEW c \in Call, Running(c)
               PROVE  call[c].now <= time'
    BY <1>1 DEF ClocksPast, Running
  <2>1. call[c].now \in Nat /\ call[c].now <= time
    BY KeysAreWindows DEF LimiterInv, ClocksPast, Running
  <2>2. QED
    BY <1>1, <2>1
<1>7. EntriesPast'
  <2>1. ASSUME NEW w \in Window
        PROVE  IsFiniteSet(zset'[w]) /\ \A m \in zset'[w] : m.score <= time'
    <3>1. IsFiniteSet(zset[w]) /\ \A m \in zset[w] : m.score \in Nat /\ m.score <= time
      BY <1>1 DEF LimiterInv, EntriesPast, Member
    <3>2. \A m \in zset[w] : m.score <= time'
      BY <1>1, <3>1
    <3>3. zset'[w] = {} \/ zset'[w] = zset[w]
      BY <1>2
    <3>4. QED
      BY <3>1, <3>2, <3>3, FS_EmptySet
  <2>2. \A a \in admitted : a.done \in Nat /\ a.at <= a.done /\ a.done <= time
    BY <1>1 DEF LimiterInv, EntriesPast, Admission
  <2>3. \A a \in admitted : a.at <= a.done /\ a.done <= time'
    BY <1>1, <2>2
  <2>4. QED
    BY <1>1, <2>1, <2>3 DEF EntriesPast
<1>8. ASSUME NEW a \in admitted, a.kept, time' < a.at + Length[a.window]
      PROVE  /\ [member |-> a.member, score |-> a.at] \in zset'[a.window]
             /\ a.at + Length[a.window] <= ttl'[a.window]
  <2>1. a.window \in Window /\ a.at \in Nat /\ Length[a.window] \in Nat
        /\ ttl[a.window] \in Int
    BY <1>1 DEF Admission
  <2>2. time < a.at + Length[a.window]
    BY <1>1, <1>8, <2>1
  <2>3. /\ [member |-> a.member, score |-> a.at] \in zset[a.window]
        /\ a.at + Length[a.window] <= ttl[a.window]
    BY <1>8, <2>2 DEF LimiterInv, AdmittedIsCounted, TtlOutlasts
  <2>4. ttl[a.window] # time'
    BY <1>1, <1>8, <2>1, <2>3
  <2>5. QED
    BY <1>2, <2>1, <2>3, <2>4
<1>9. AdmittedIsCounted' /\ TtlOutlasts'
  BY <1>1, <1>8 DEF AdmittedIsCounted, TtlOutlasts
<1>10. EntriesExpire'
  <2> SUFFICES ASSUME NEW w \in Window, NEW m \in zset'[w]
               PROVE  \/ At(m.member, "crashed")'
                      \/ At(m.member, "expire")' /\ KeyOf(m.member)' = w
                      \/ m.score + Length[w] <= ttl'[w]
    BY DEF EntriesExpire
  <2>1. m \in zset[w] /\ ttl'[w] = ttl[w]
    BY <1>2
  <2>2. QED
    BY <1>1, <2>1 DEF LimiterInv, EntriesExpire, At, KeyOf
<1>11. ASSUME NEW w \in Window, NEW t \in 0..MaxTime
       PROVE  OverrunOf(w, t)' /\ LossOf(w, t)'
  <2>1. \A k \in BOOLEAN : Through(w, t, k)' = Through(w, t, k)
    BY <1>1 DEF Through
  <2>2. time' <= t => time <= t
    BY <1>1
  <2>3. Counted(w, t)' \subseteq Counted(w, t)
    BY <1>1, <2>2 DEF Counted, Within, At, KeyOf
  <2>4. Passed(w, t)' \subseteq Passed(w, t)
    BY <2>1, <2>3 DEF Passed
  <2>5. OverrunOf(w, t)'
    BY <2>4, FewerPassed DEF LimiterInv
  <2>6. time' \in Nat /\ time <= time' /\ LossOf(w, t)
    BY <1>1 DEF LimiterInv
  <2>7. CASE time' <= t /\ ttl[w] = time'
    <3>1. Lost(w, t) = {}
      <4>1. ttl[w] # -1 /\ ~(t < ttl[w]) /\ time <= t
        BY <1>1, <2>2, <2>7
      <4>2. QED
        BY <2>6, <4>1 DEF LossOf
    <3>2. Lost(w, t)' \subseteq RunningCalls'
      BY <2>1, <3>1 DEF Lost, Missing, RunningCalls, Running, At, Finished
    <3>3. IsFiniteSet(RunningCalls') /\ Cardinality(RunningCalls') <= Concurrency
      BY <1>5 DEF RunningBounded
    <3>4. /\ IsFiniteSet(Lost(w, t)')
          /\ Cardinality(Lost(w, t)') <= Cardinality(RunningCalls')
      BY <3>2, <3>3, FS_Subset
    <3>5. Cardinality(Lost(w, t)') \in Nat /\ Cardinality(RunningCalls') \in Nat
      BY <3>3, <3>4, FS_CardinalityType
    <3>6. Cardinality(Lost(w, t)') <= Concurrency
      BY <3>3, <3>4, <3>5
    <3>7. ttl'[w] = -1
      BY <1>2, <2>7
    <3>8. QED
      BY <2>5, <3>4, <3>6, <3>7 DEF LossOf
  <2>8. CASE ~(time' <= t)
    <3>1. Missing(w, t)' = {}
      BY <2>8 DEF Missing, Within
    <3>2. Lost(w, t)' \subseteq Lost(w, t)
      BY <2>1, <3>1 DEF Lost
    <3>3. ttl'[w] = ttl[w] \/ ttl'[w] = -1
      BY <1>2
    <3>4. QED
      BY <1>1, <2>5, <2>6, <3>2, <3>3, FewerLost
  <2>9. CASE ttl[w] # time'
    <3>1. zset'[w] = zset[w] /\ ttl'[w] = ttl[w]
      BY <1>2, <2>9
    <3>2. Missing(w, t)' \subseteq Missing(w, t)
      BY <1>1, <2>2, <3>1 DEF Missing, Within, Entry, At, KeyOf
    <3>3. Lost(w, t)' \subseteq Lost(w, t)
      BY <2>1, <3>2 DEF Lost
    <3>4. QED
      BY <1>1, <2>5, <2>6, <3>1, <3>3, FewerLost
  <2>10. QED
    BY <2>7, <2>8, <2>9
<1>12. QED
  BY <1>3, <1>5, <1>6, <1>7, <1>9, <1>10, <1>11 DEF LimiterInv

-----------------------------------------------------------------------------
(* The theorems.                                                           *)

LEMMA NextLimiterInv == LimiterInv /\ [LimiterNext]_limiterVars => LimiterInv'
<1> SUFFICES ASSUME LimiterInv, [LimiterNext]_limiterVars
             PROVE  LimiterInv'
  OBVIOUS
<1>1. CASE UNCHANGED limiterVars
  <2>1. LimiterTypeOK' /\ RunningBounded'
    <3>1. RunningCalls' = RunningCalls
      BY <1>1 DEF limiterVars, RunningCalls, Running
    <3>2. QED
      BY <1>1, <3>1 DEF limiterVars, LimiterInv, LimiterTypeOK, RunningBounded
  <2>2. ClocksPast' /\ EntriesPast'
    BY <1>1 DEF limiterVars, LimiterInv, ClocksPast, EntriesPast, Running
  <2>3. AdmittedIsCounted' /\ TtlOutlasts' /\ EntriesExpire'
    BY <1>1
    DEF limiterVars, LimiterInv, AdmittedIsCounted, TtlOutlasts, EntriesExpire,
       At, KeyOf
  <2>4. ASSUME NEW w \in Window, NEW t \in 0..MaxTime
        PROVE  OverrunOf(w, t)' /\ LossOf(w, t)'
    <3>1. Passed(w, t)' = Passed(w, t) /\ Lost(w, t)' = Lost(w, t)
      BY <1>1
      DEF limiterVars, Passed, Lost, Through, Counted, Missing, Within, Entry, At, KeyOf
    <3>2. QED
      BY <1>1, <3>1 DEF limiterVars, LimiterInv, OverrunOf, LossOf
  <2>5. QED
    BY <2>1, <2>2, <2>3, <2>4 DEF LimiterInv
<1>2. CASE Tick
  BY <1>2, TickKeeps
<1>3. ASSUME NEW c \in Call, Step(c)
      PROVE  LimiterInv'
  BY <1>3, BeginKeeps, ReadClockKeeps, TrimKeeps, CountKeeps, AddKeeps,
     SetTtlKeeps, CrashKeeps DEF Step
<1>4. QED
  BY <1>1, <1>2, <1>3 DEF LimiterNext

LEMMA LimiterInvariant == LimiterSpec => []LimiterInv
BY InitLimiterInv, NextLimiterInv, PTL DEF LimiterSpec

(* Every entry, time to live and call stays of its type.                   *)
THEOREM LimiterTypeCorrect == LimiterSpec => []LimiterTypeOK
<1>1. LimiterInv => LimiterTypeOK
  BY DEF LimiterInv
<1>2. QED
  BY LimiterInvariant, <1>1, PTL

(* Of the requests made and answered in any window, a limiter lets through *)
(* no more than its limit, one for each call that may overlap another, and *)
(* one for each call whose entry may go with its key before it renews it.  *)
THEOREM LimitsHold == LimiterSpec => []OverrunBounded
<1>1. LimiterInv => OverrunBounded
  <2> SUFFICES ASSUME LimiterInv, NEW w \in Window, NEW t \in 0..MaxTime
               PROVE  /\ Cardinality(Through(w, t, TRUE)) <= Limit[w] + Concurrency - 1
                      /\ Cardinality(Through(w, t, FALSE)) <= Concurrency
    BY DEF OverrunBounded
  <2>1. OverrunOf(w, t) /\ LossOf(w, t)
    BY DEF LimiterInv
  <2>2. /\ Through(w, t, TRUE) \subseteq Passed(w, t)
        /\ Through(w, t, FALSE) \subseteq Lost(w, t)
    BY DEF Passed, Lost
  <2> DEFINE renewed == Through(w, t, TRUE)
             gone == Through(w, t, FALSE)
  <2>3. renewed \subseteq Passed(w, t) /\ gone \subseteq Lost(w, t)
    BY <2>2
  <2> HIDE DEF renewed, gone
  <2>4. /\ IsFiniteSet(renewed) /\ IsFiniteSet(gone)
        /\ Cardinality(renewed) <= Cardinality(Passed(w, t))
        /\ Cardinality(gone) <= Cardinality(Lost(w, t))
    BY <2>1, <2>3, FS_Subset DEF OverrunOf, LossOf
  <2>5. /\ Cardinality(renewed) \in Nat /\ Cardinality(gone) \in Nat
        /\ Cardinality(Passed(w, t)) \in Nat /\ Cardinality(Lost(w, t)) \in Nat
        /\ Limit[w] \in Nat
    BY <2>1, <2>4, FS_CardinalityType DEF OverrunOf, LossOf
  <2>6. /\ Cardinality(renewed) <= Limit[w] + Concurrency - 1
        /\ Cardinality(gone) <= Concurrency
    BY <2>1, <2>4, <2>5 DEF OverrunOf, LossOf
  <2>7. QED
    BY <2>6 DEF renewed, gone
<1>2. QED
  BY LimiterInvariant, <1>1, PTL

(* A request whose entry was given its time to live is counted until its   *)
(* window has passed.                                                      *)
THEOREM AdmittedStaysCounted == LimiterSpec => []AdmittedIsCounted
<1>1. LimiterInv => AdmittedIsCounted
  BY DEF LimiterInv
<1>2. QED
  BY LimiterInvariant, <1>1, PTL

(* Between calls every key has a time to live that outlasts its entries,   *)
(* save those a dead call left.                                            *)
THEOREM KeysExpire == LimiterSpec => []EveryKeyExpires
<1>1. LimiterInv => EveryKeyExpires
  <2> SUFFICES ASSUME LimiterInv, \A c \in Call : ~Running(c),
                      NEW w \in Window, NEW m \in zset[w]
               PROVE  At(m.member, "crashed") \/ m.score + Length[w] <= ttl[w]
    BY DEF EveryKeyExpires
  <2>1. m.member \in Call
    BY DEF LimiterInv, LimiterTypeOK, Member
  <2>2. ~At(m.member, "expire")
    BY <2>1 DEF At, Running, Finished
  <2>3. QED
    BY <2>2 DEF LimiterInv, EntriesExpire
<1>2. QED
  BY LimiterInvariant, <1>1, PTL
==============================================================================
