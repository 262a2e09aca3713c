------------------------ MODULE AccountCreation_proofs ------------------------
(***************************************************************************)
(* Proofs about AccountCreation, for every set of calls, emails and names. *)
(*                                                                         *)
(* The argument: a call that has inserted its user is alone with its email *)
(* and finds the email without a committed user, and the same holds for    *)
(* its slug (EmailsAreHeld, SlugsAreHeld).  A commit therefore overwrites  *)
(* nothing, and the tables always hold exactly what the calls answered     *)
(* "ok" have put there (TablesMatch).                                      *)
(***************************************************************************)
EXTENDS AccountCreation, TLAPS

-----------------------------------------------------------------------------
(* The inductive invariant.                                                *)

\* Whoever got past the token has an email, proven by it.
EmailsAreProven ==
    \A c \in Call : call[c] # None /\ call[c].pc # "unauthorized"
                       => call[c].email \in Email

EmailsAreHeld ==
    \A c \in Call : HoldsEmail(c) =>
        /\ users[call[c].email] = None
        /\ \A d \in Call : HoldsEmail(d) /\ call[d].email = call[c].email => d = c

SlugsAreHeld ==
    \A c \in Call : HoldsSlug(c) =>
        /\ workspaces[call[c].slug] = None
        /\ \A d \in Call : HoldsSlug(d) /\ call[d].slug = call[c].slug => d = c

Answered == {c \in Call : At(c, "ok")}

TablesMatch ==
    /\ \A e \in Email : users[e] # None =>
          users[e] \in Answered /\ call[users[e]].email = e
    /\ \A s \in Slug : workspaces[s] # None =>
          workspaces[s] \in Answered /\ call[workspaces[s]].slug = s
    /\ \A c \in Answered : users[call[c].email] = c /\ workspaces[call[c].slug] = c
    /\ workspace_members = {<<c, c, "OWNER">> : c \in Answered}
    /\ sessions = Answered

MintedInTime ==
    \A c \in Call : HoldsSlug(c) \/ At(c, "ok") => call[c].minted <= clock

RostersAreTrue ==
    \A r \in Roster : roster[r] # None =>
        /\ roster[r].pc \in {"found", "answered"} => roster[r].workspace \in Answered
        /\ roster[r].pc = "answered" =>
              roster[r].members = {<<roster[r].workspace, "OWNER">>}

AccountInv ==
    /\ AccountTypeOK
    /\ EmailsAreProven
    /\ EmailsAreHeld
    /\ SlugsAreHeld
    /\ TablesMatch
    /\ MintedInTime
    /\ RostersAreTrue

USE NoneAssumption, ClockAssumption

LEMMA InitAccountInv == Init => AccountInv
  BY DEF Init, AccountInv, AccountTypeOK, EmailsAreProven, EmailsAreHeld,
     SlugsAreHeld, TablesMatch, MintedInTime, RostersAreTrue, Answered,
     HoldsEmail, HoldsSlug, At

-----------------------------------------------------------------------------
(* create_account.                                                         *)

(* A call that is not answered "ok" now or next touches no table.  Where   *)
(* it comes to hold an email or a slug, nobody else has it.                *)
LEMMA CallMoves ==
    ASSUME AccountInv, NEW c \in Call, NEW new \in CreateCall,
           call' = [call EXCEPT ![c] = new], ~At(c, "ok"), new.pc # "ok",
           new.pc # "unauthorized" => new.email \in Email,
           new.pc \in {"user", "workspace"} =>
              /\ users[new.email] = None
              /\ \A d \in Call \ {c} : HoldsEmail(d) => call[d].email # new.email,
           new.pc = "workspace" =>
              /\ new.minted <= clock
              /\ workspaces[new.slug] = None
              /\ \A d \in Call \ {c} : HoldsSlug(d) => call[d].slug # new.slug,
           UNCHANGED <<tables, roster, clock>>
    PROVE  AccountInv'
<1> USE DEF At, HoldsEmail, HoldsSlug, tables
<1>1. AccountTypeOK'
  BY DEF AccountInv, AccountTypeOK
<1>2. call'[c] = new /\ new # None /\ \A d \in Call \ {c} : call'[d] = call[d]
  BY DEF AccountInv, AccountTypeOK
<1>3. EmailsAreProven'
  BY <1>2 DEF AccountInv, EmailsAreProven
<1>4. EmailsAreHeld'
  BY <1>2 DEF AccountInv, EmailsAreHeld
<1>5. SlugsAreHeld'
  BY <1>2 DEF AccountInv, SlugsAreHeld
<1>6. Answered' = Answered /\ \A d \in Answered : call'[d] = call[d]
  BY <1>2 DEF Answered
<1>7. TablesMatch'
  BY <1>6 DEF AccountInv, TablesMatch
<1>8. MintedInTime'
  BY <1>2 DEF AccountInv, MintedInTime
<1>9. RostersAreTrue'
  BY <1>6 DEF AccountInv, RostersAreTrue
<1>10. QED
  BY <1>1, <1>3, <1>4, <1>5, <1>7, <1>8, <1>9 DEF AccountInv

(* The claims of a token that is accepted as a registration token are      *)
(* those of one this service made for an email.                            *)
LEMMA AcceptedIsProven ==
    ASSUME NEW token \in Presentable, NEW now,
           decode_registration_token(token, now) = "ok"
    PROVE  token.email \in Email
<1>1. token # Forged /\ "email" \in DOMAIN token
  BY DEF decode_registration_token, JwtDecode
<1>2. CASE token \in RegistrationTokens
  BY <1>2 DEF RegistrationTokens, create_registration_token
<1>3. CASE \E c \in Call : token = AccessToken(c)
  BY <1>1, <1>3 DEF AccessToken, create_access_token
<1>4. QED
  BY <1>1, <1>2, <1>3 DEF Presentable

LEMMA BeginKeeps ==
    ASSUME AccountInv, NEW c \in Call, NEW token \in Presentable,
           NEW slug \in Slug, Begin(c, token, slug)
    PROVE  AccountInv'
<1> DEFINE proven == decode_registration_token(token, clock) = "ok"
           pc == IF ~proven THEN "unauthorized"
                 ELSE IF ~validate_workspace_slug(slug) THEN "invalid"
                 ELSE "begun"
           email == IF proven THEN token.email ELSE None
           new == [pc |-> pc, email |-> email, slug |-> slug, minted |-> 0]
<1>1. pc \in Pc /\ pc \in {"unauthorized", "invalid", "begun"}
  BY DEF Pc
<1>2. email \in Email \cup {None} /\ (pc # "unauthorized" => email \in Email)
  BY AcceptedIsProven
<1>3. /\ call[c] = None /\ call' = [call EXCEPT ![c] = new]
      /\ UNCHANGED <<tables, roster, clock>>
  BY DEF Begin
<1> HIDE DEF pc, email
<1>4. new \in CreateCall /\ new.pc = pc /\ new.email = email
  BY <1>1, <1>2 DEF CreateCall
<1> HIDE DEF new
<1>5. QED
  BY <1>1, <1>2, <1>3, <1>4, CallMoves DEF At

(* What a call that goes on or ends keeps.                                 *)
LEMMA GotoCall ==
    ASSUME AccountInv, NEW c \in Call, call[c] # None, NEW pc \in Pc,
           NEW new, new = [call[c] EXCEPT !.pc = pc]
    PROVE  /\ call[c] \in CreateCall /\ new \in CreateCall /\ new.pc = pc
           /\ new.email = call[c].email /\ new.slug = call[c].slug
           /\ call[c].slug \in Slug
BY DEF AccountInv, AccountTypeOK, CreateCall

LEMMA StepKeeps ==
    ASSUME AccountInv, NEW c \in Call, NEW pc \in Pc \ {"ok", "workspace"},
           call[c] # None, call[c].pc \notin {"ok", "unauthorized"}, Goto(c, pc),
           pc = "user" =>
              /\ users[call[c].email] = None
              /\ \A d \in Call \ {c} : HoldsEmail(d) => call[d].email # call[c].email
    PROVE  AccountInv'
<1> DEFINE new == [call[c] EXCEPT !.pc = pc]
<1>1. call' = [call EXCEPT ![c] = new] /\ UNCHANGED <<tables, roster, clock>>
  BY DEF Goto
<1>2. /\ new \in CreateCall /\ new.pc = pc /\ new.email = call[c].email
  BY GotoCall
<1>3. new.email \in Email
  BY <1>2 DEF AccountInv, EmailsAreProven
<1> HIDE DEF new
<1>4. QED
  BY <1>1, <1>2, <1>3, CallMoves DEF At

LEMMA FindsKeep ==
    ASSUME AccountInv, NEW c \in Call, FindUser(c) \/ FindWorkspace(c) \/ Fail(c)
    PROVE  AccountInv'
<1>1. PICK pc \in {"email_free", "slug_free", "conflict", "error"} : Goto(c, pc)
  BY DEF FindUser, FindWorkspace, Fail
<1>2. pc \in Pc \ {"ok", "workspace"} /\ pc # "user"
  BY DEF Pc
<1>3. call[c] # None /\ call[c].pc \notin {"ok", "unauthorized"}
  BY DEF FindUser, FindWorkspace, Fail, Busy, At
<1>4. QED
  BY <1>1, <1>2, <1>3, StepKeeps

LEMMA InsertUserKeeps ==
    ASSUME AccountInv, NEW c \in Call, InsertUser(c)
    PROVE  AccountInv'
<1>1. PICK pc \in {"user", "conflict"} :
          Goto(c, pc) /\ (pc = "user" => users[call[c].email] = None)
  BY DEF InsertUser
<1>2. pc \in Pc \ {"ok", "workspace"}
  BY DEF Pc
<1>3. call[c] # None /\ call[c].pc = "slug_free"
  BY DEF InsertUser, At
<1>4. \A d \in Call \ {c} : HoldsEmail(d) => call[d].email # call[c].email
  BY <1>3 DEF InsertUser, WaitsFor, At
<1>5. QED
  BY <1>1, <1>2, <1>3, <1>4, StepKeeps

LEMMA InsertWorkspaceKeeps ==
    ASSUME AccountInv, NEW c \in Call, InsertWorkspace(c)
    PROVE  AccountInv'
<1>1. call[c] # None /\ call[c].pc = "user" /\ HoldsEmail(c)
  BY DEF InsertWorkspace, At, HoldsEmail
<1>2. ASSUME Goto(c, "conflict")
      PROVE  AccountInv'
  <2>1. "conflict" \in Pc \ {"ok", "workspace"} /\ "conflict" # "user"
    BY DEF Pc
  <2>2. QED
    BY <1>1, <1>2, <2>1, StepKeeps
<1>3. ASSUME workspaces[call[c].slug] = None,
             call' = [call EXCEPT ![c].pc = "workspace", ![c].minted = clock],
             UNCHANGED <<tables, roster, clock>>
      PROVE  AccountInv'
  <2> DEFINE new == [call[c] EXCEPT !.pc = "workspace", !.minted = clock]
  <2>1. call[c] \in CreateCall /\ clock \in Nat
    BY <1>1 DEF AccountInv, AccountTypeOK
  <2>2. /\ new \in CreateCall /\ new.pc = "workspace" /\ new.minted = clock
        /\ new.email = call[c].email /\ new.slug = call[c].slug
    BY <2>1 DEF CreateCall, Pc
  <2>3. call' = [call EXCEPT ![c] = new]
    BY <1>3
  <2>4. /\ call[c].email \in Email /\ users[call[c].email] = None
        /\ \A d \in Call \ {c} : HoldsEmail(d) => call[d].email # call[c].email
    BY <1>1 DEF AccountInv, EmailsAreProven, EmailsAreHeld
  <2>5. \A d \in Call \ {c} : HoldsSlug(d) => call[d].slug # call[c].slug
    BY <1>1 DEF InsertWorkspace, WaitsFor, At
  <2> HIDE DEF new
  <2>6. ~At(c, "ok") /\ new.minted <= clock
    BY <1>1, <2>1, <2>2 DEF At
  <2>7. /\ new.email \in Email /\ users[new.email] = None
        /\ \A d \in Call \ {c} : HoldsEmail(d) => call[d].email # new.email
        /\ workspaces[new.slug] = None
        /\ \A d \in Call \ {c} : HoldsSlug(d) => call[d].slug # new.slug
    BY <1>3, <2>2, <2>4, <2>5
  <2>8. QED
    BY <1>3, <2>2, <2>3, <2>6, <2>7, CallMoves
<1>4. QED
  BY <1>2, <1>3 DEF InsertWorkspace

(* The commit puts one account into the tables, over nothing.              *)
LEMMA CommitKeeps ==
    ASSUME AccountInv, NEW c \in Call, Commit(c)
    PROVE  AccountInv'
<1> USE DEF At, HoldsEmail, HoldsSlug
<1> DEFINE new == [call[c] EXCEPT !.pc = "ok"]
<1>1. /\ call[c] \in CreateCall /\ call[c].pc = "workspace"
      /\ call[c].email \in Email /\ call[c].slug \in Slug
      /\ users[call[c].email] = None /\ workspaces[call[c].slug] = None
      /\ call[c].minted <= clock
  BY DEF Commit, AccountInv, AccountTypeOK, EmailsAreProven, EmailsAreHeld,
     SlugsAreHeld, MintedInTime, CreateCall
<1>2. /\ new \in CreateCall /\ new.pc = "ok" /\ new.email = call[c].email
      /\ new.slug = call[c].slug /\ new.minted = call[c].minted
  BY <1>1 DEF CreateCall, Pc
<1>3. call' = [call EXCEPT ![c] = new] /\ UNCHANGED <<roster, clock>>
  BY DEF Commit
<1> HIDE DEF new
<1>4. call'[c] = new /\ new # None /\ \A d \in Call \ {c} : call'[d] = call[d]
  BY <1>2, <1>3 DEF AccountInv, AccountTypeOK
<1>5. /\ \A e \in Email : users'[e] = IF e = call[c].email THEN c ELSE users[e]
      /\ \A s \in Slug :
            workspaces'[s] = IF s = call[c].slug THEN c ELSE workspaces[s]
      /\ workspace_members' = workspace_members \cup {<<c, c, "OWNER">>}
      /\ sessions' = sessions \cup {c}
  BY DEF Commit, AccountInv, AccountTypeOK
<1>6. AccountTypeOK'
  <2>1. /\ users' \in [Email -> Call \cup {None}]
        /\ workspaces' \in [Slug -> Call \cup {None}]
    BY DEF Commit, AccountInv, AccountTypeOK
  <2>2. call' \in [Call -> CreateCall \cup {None}]
    BY <1>2, <1>3 DEF AccountInv, AccountTypeOK
  <2>3. QED
    BY <1>3, <1>5, <2>1, <2>2 DEF AccountInv, AccountTypeOK
<1>7. EmailsAreProven'
  BY <1>1, <1>2, <1>4 DEF AccountInv, EmailsAreProven
<1>8. EmailsAreHeld'
  <2> SUFFICES ASSUME NEW d \in Call, HoldsEmail(d)'
               PROVE  /\ users'[call'[d].email] = None
                      /\ \A e \in Call : HoldsEmail(e)' /\ call'[e].email = call'[d].email
                                            => e = d
    BY DEF EmailsAreHeld
  <2>1. d # c /\ call'[d] = call[d] /\ HoldsEmail(d)
    BY <1>2, <1>4
  <2>2. /\ call[d].email \in Email /\ users[call[d].email] = None
        /\ call[d].email # call[c].email
    BY <1>1, <2>1 DEF AccountInv, EmailsAreProven, EmailsAreHeld
  <2>3. users'[call'[d].email] = None
    BY <1>5, <2>1, <2>2
  <2>4. \A e \in Call : HoldsEmail(e)' => HoldsEmail(e) /\ call'[e] = call[e]
    BY <1>2, <1>4
  <2>5. QED
    BY <2>1, <2>3, <2>4 DEF AccountInv, EmailsAreHeld
<1>9. SlugsAreHeld'
  <2> SUFFICES ASSUME NEW d \in Call, HoldsSlug(d)'
               PROVE  /\ workspaces'[call'[d].slug] = None
                      /\ \A e \in Call : HoldsSlug(e)' /\ call'[e].slug = call'[d].slug
                                            => e = d
    BY DEF SlugsAreHeld
  <2>1. d # c /\ call'[d] = call[d] /\ HoldsSlug(d)
    BY <1>2, <1>4
  <2>2. /\ call[d].slug \in Slug /\ workspaces[call[d].slug] = None
        /\ call[d].slug # call[c].slug
    BY <1>1, <2>1 DEF AccountInv, AccountTypeOK, CreateCall, SlugsAreHeld
  <2>3. workspaces'[call'[d].slug] = None
    BY <1>5, <2>1, <2>2
  <2>4. \A e \in Call : HoldsSlug(e)' => HoldsSlug(e) /\ call'[e] = call[e]
    BY <1>2, <1>4
  <2>5. QED
    BY <2>1, <2>3, <2>4 DEF AccountInv, SlugsAreHeld
<1>10. Answered' = Answered \cup {c} /\ c \notin Answered
  BY <1>1, <1>2, <1>4 DEF Answered
<1>11. \A d \in Answered : /\ call'[d] = call[d] /\ d \in Call
                           /\ call[d].email \in Email /\ call[d].slug \in Slug
  BY <1>4, <1>10
  DEF Answered, AccountInv, EmailsAreProven, AccountTypeOK, CreateCall
<1>12. TablesMatch'
  <2>1. \A e \in Email : users'[e] # None =>
           users'[e] \in Answered' /\ call'[users'[e]].email = e
    BY <1>2, <1>4, <1>5, <1>10, <1>11 DEF AccountInv, TablesMatch
  <2>2. \A s \in Slug : workspaces'[s] # None =>
           workspaces'[s] \in Answered' /\ call'[workspaces'[s]].slug = s
    BY <1>2, <1>4, <1>5, <1>10, <1>11 DEF AccountInv, TablesMatch
  <2>3. users'[call'[c].email] = c /\ workspaces'[call'[c].slug] = c
    BY <1>1, <1>2, <1>4, <1>5
  <2>4. ASSUME NEW d \in Answered
        PROVE  users'[call'[d].email] = d /\ workspaces'[call'[d].slug] = d
    <3>1. users[call[d].email] = d /\ workspaces[call[d].slug] = d
      BY DEF AccountInv, TablesMatch
    <3>2. d # None
      BY <1>11
    <3>3. QED
      BY <1>1, <1>5, <1>11, <3>1, <3>2
  <2>5. workspace_members' = {<<d, d, "OWNER">> : d \in Answered'}
    BY <1>5, <1>10 DEF AccountInv, TablesMatch
  <2>6. sessions' = Answered'
    BY <1>5, <1>10 DEF AccountInv, TablesMatch
  <2>7. QED
    BY <1>10, <2>1, <2>2, <2>3, <2>4, <2>5, <2>6 DEF TablesMatch
<1>13. MintedInTime'
  BY <1>1, <1>2, <1>3, <1>4 DEF AccountInv, MintedInTime
<1>14. RostersAreTrue'
  BY <1>3, <1>10 DEF AccountInv, RostersAreTrue
<1>15. QED
  BY <1>6, <1>7, <1>8, <1>9, <1>12, <1>13, <1>14 DEF AccountInv

-----------------------------------------------------------------------------
(* Rosters and the clock.                                                  *)

(* Users and workspaces are the calls that were answered.                  *)
LEMMA UsersAreAnswered ==
    ASSUME AccountInv
    PROVE  User = Answered /\ Workspace = Answered /\ None \notin Answered
<1>1. None \notin Answered
  BY DEF Answered
<1>2. ASSUME NEW c \in Answered
      PROVE  c \in User /\ c \in Workspace
  <2>1. /\ call[c].email \in Email /\ call[c].slug \in Slug
        /\ users[call[c].email] = c /\ workspaces[call[c].slug] = c
    BY DEF Answered, At, AccountInv, EmailsAreProven, AccountTypeOK,
       CreateCall,
       TablesMatch
  <2>2. QED
    BY <1>1, <2>1 DEF User, Workspace
<1>3. User \subseteq Answered /\ Workspace \subseteq Answered
  BY DEF User, Workspace, AccountInv, TablesMatch
<1>4. QED
  BY <1>1, <1>2, <1>3

(* What the statements about a user and about a workspace find.            *)
LEMMA MembersOf ==
    ASSUME AccountInv, NEW c \in Answered
    PROVE  /\ {m \in workspace_members : m[1] = c /\ m[2] \in User} = {<<c, c, "OWNER">>}
           /\ {m \in workspace_members : m[2] = c /\ c \in User} = {<<c, c, "OWNER">>}
<1>1. workspace_members = {<<d, d, "OWNER">> : d \in Answered} /\ User = Answered
  BY UsersAreAnswered DEF AccountInv, TablesMatch
<1>2. \A m \in workspace_members :
          m[1] = m[2] /\ m[2] \in Answered /\ m = <<m[1], m[1], "OWNER">>
  BY <1>1
<1>3. <<c, c, "OWNER">> \in workspace_members
  BY <1>1
<1>4. QED
  BY <1>1, <1>2, <1>3

LEMMA RosterMoves ==
    ASSUME AccountInv, NEW r \in Roster, NEW new \in RosterCall,
           roster' = [roster EXCEPT ![r] = new],
           new.pc \in {"found", "answered"} => new.workspace \in Answered,
           new.pc = "answered" => new.members = {<<new.workspace, "OWNER">>},
           UNCHANGED <<tables, call, clock>>
    PROVE  AccountInv'
<1> USE DEF tables
<1>1. AccountTypeOK' /\ RostersAreTrue'
  BY DEF AccountInv, AccountTypeOK, RostersAreTrue, Answered, At
<1>2. EmailsAreProven' /\ EmailsAreHeld' /\ SlugsAreHeld' /\ TablesMatch' /\ MintedInTime'
  BY DEF AccountInv, EmailsAreProven, EmailsAreHeld, SlugsAreHeld, TablesMatch,
     MintedInTime, Answered, HoldsEmail, HoldsSlug, At
<1>3. QED
  BY <1>1, <1>2 DEF AccountInv

LEMMA RostersKeep ==
    ASSUME AccountInv, NEW r \in Roster,
           (\E w \in Call : AskRoster(r, w)) \/ ReadWorkspace(r) \/ ReadMembers(r)
    PROVE  AccountInv'
<1>1. ASSUME NEW w \in Call, AskRoster(r, w)
      PROVE  AccountInv'
  <2> DEFINE new == [pc |-> "begun", workspace |-> w, members |-> {}]
  <2>1. new \in RosterCall /\ new.pc = "begun"
    BY DEF RosterCall, RosterPc
  <2>2. roster' = [roster EXCEPT ![r] = new] /\ UNCHANGED <<tables, call, clock>>
    BY <1>1 DEF AskRoster
  <2> HIDE DEF new
  <2>3. QED
    BY <2>1, <2>2, RosterMoves
<1>2. ASSUME ReadWorkspace(r)
      PROVE  AccountInv'
  <2> DEFINE pc == IF roster[r].workspace \in Workspace THEN "found" ELSE "missing"
             new == [roster[r] EXCEPT !.pc = pc]
  <2>1. roster[r] \in RosterCall /\ UNCHANGED <<tables, call, clock>>
    BY <1>2 DEF ReadWorkspace, AccountInv, AccountTypeOK
  <2>2. new \in RosterCall /\ new.pc = pc /\ new.workspace = roster[r].workspace
    BY <2>1 DEF RosterCall, RosterPc
  <2>3. roster' = [roster EXCEPT ![r] = new]
    BY <1>2 DEF ReadWorkspace
  <2>4. pc # "answered" /\ (pc = "found" => roster[r].workspace \in Answered)
    BY UsersAreAnswered
  <2> HIDE DEF new, pc
  <2>5. QED
    BY <2>1, <2>2, <2>3, <2>4, RosterMoves
<1>3. ASSUME ReadMembers(r)
      PROVE  AccountInv'
  <2> DEFINE pc == IF roster[r].pc = "found" THEN "answered" ELSE "not_found"
             members == {<<m[2], m[3]>> : m \in
              {m \in workspace_members : m[1] = roster[r].workspace /\ m[2] \in User}}
             new == [roster[r] EXCEPT !.pc = pc, !.members = members]
  <2>1. /\ roster[r] \in RosterCall /\ UNCHANGED <<tables, call, clock>>
        /\ roster[r] # None
    BY <1>3 DEF ReadMembers, AccountInv, AccountTypeOK
  <2>2. members \subseteq Call \X {"OWNER", "MEMBER"}
    BY DEF AccountInv, AccountTypeOK
  <2>3. ASSUME roster[r].workspace \in Answered
        PROVE  members = {<<roster[r].workspace, "OWNER">>}
    <3> DEFINE w == roster[r].workspace
               rows == {m \in workspace_members : m[1] = w /\ m[2] \in User}
    <3>1. rows = {<<w, w, "OWNER">>}
      BY <2>3, MembersOf
    <3>2. {<<m[2], m[3]>> : m \in {<<w, w, "OWNER">>}} = {<<w, "OWNER">>}
      OBVIOUS
    <3>3. QED
      BY <3>1, <3>2
  <2>4. pc = "answered" => roster[r].workspace \in Answered
    BY <2>1 DEF AccountInv, RostersAreTrue
  <2>5. pc \in RosterPc /\ pc # "found"
    BY DEF RosterPc
  <2>6. roster' = [roster EXCEPT ![r] = new]
    BY <1>3 DEF ReadMembers
  <2> HIDE DEF pc, members
  <2>7. /\ new \in RosterCall /\ new.pc = pc /\ new.members = members
        /\ new.workspace = roster[r].workspace
    BY <2>1, <2>2, <2>5 DEF RosterCall
  <2> HIDE DEF new
  <2>8. QED
    BY <2>1, <2>3, <2>4, <2>5, <2>6, <2>7, RosterMoves
<1>4. QED
  BY <1>1, <1>2, <1>3

LEMMA TickKeeps == AccountInv /\ Tick => AccountInv'
<1> SUFFICES ASSUME AccountInv, Tick
             PROVE  AccountInv'
  OBVIOUS
<1>1. clock \in Nat /\ clock' = clock + 1 /\ clock' \in 0..MaxTime
  BY DEF Tick, AccountInv, AccountTypeOK
<1>2. UNCHANGED <<users, workspaces, workspace_members, sessions, call, roster>>
  BY DEF Tick, tables
<1>3. AccountTypeOK'
  BY <1>1, <1>2 DEF AccountInv, AccountTypeOK
<1>4. MintedInTime'
  <2>1. \A c \in Call : call[c] # None => call[c].minted \in Nat
    BY DEF AccountInv, AccountTypeOK, CreateCall
  <2>2. QED
    BY <1>1, <1>2, <2>1 DEF AccountInv, MintedInTime, HoldsSlug, At
<1>5. /\ EmailsAreProven' /\ EmailsAreHeld' /\ SlugsAreHeld' /\ TablesMatch'
      /\ RostersAreTrue'
  BY <1>2
  DEF AccountInv, EmailsAreProven, EmailsAreHeld, SlugsAreHeld, TablesMatch,
     RostersAreTrue, Answered, HoldsEmail, HoldsSlug, At
<1>6. QED
  BY <1>3, <1>4, <1>5 DEF AccountInv

LEMMA NextAccountInv == AccountInv /\ [Next]_vars => AccountInv'
<1>1. AccountInv /\ UNCHANGED vars => AccountInv'
  BY DEF vars, tables, AccountInv, AccountTypeOK, EmailsAreProven,
     EmailsAreHeld,
     SlugsAreHeld, TablesMatch, MintedInTime, RostersAreTrue, Answered,
     HoldsEmail, HoldsSlug, At
<1>2. QED
  BY <1>1, BeginKeeps, FindsKeep, InsertUserKeeps, InsertWorkspaceKeeps,
     CommitKeeps, RostersKeep, TickKeeps DEF Next, Step

LEMMA AccountsAreSafe == Spec => []AccountInv
  BY InitAccountInv, NextAccountInv, PTL DEF Spec

-----------------------------------------------------------------------------
(* The theorems.                                                           *)

(* The tables, the calls and the rosters have their types.                 *)
THEOREM AccountsTypeCorrect == Spec => []AccountTypeOK
  BY AccountsAreSafe, PTL DEF AccountInv

(* An account is there with its user, workspace, membership and session or *)
(* not at all, whatever calls race and fail (create_account).              *)
THEOREM AccountsAllOrNothing == Spec => []AccountsAreWhole
<1>1. AccountInv => AccountsAreWhole
  BY UsersAreAnswered DEF AccountsAreWhole, AccountInv, TablesMatch, Answered
<1>2. QED
  BY <1>1, AccountsAreSafe, PTL

(* The access token that create_account answers with is accepted, with its *)
(* user's context, until it expires (authenticate_jwt).                    *)
THEOREM NewTokensWork == Spec => []GivenTokensWork
<1>1. AccountInv => GivenTokensWork
  <2> SUFFICES ASSUME AccountInv, NEW c \in Call, At(c, "ok"),
                      clock < AccessToken(c).exp
               PROVE  LET mine == {[user_id |-> c, workspace_id |-> c, role |-> "OWNER"]}
                      IN  /\ authenticate_jwt(AccessToken(c), clock) = mine
                          /\ get_current_user_context(c) = mine
    BY DEF GivenTokensWork
  <2> DEFINE mine == {[user_id |-> c, workspace_id |-> c, role |-> "OWNER"]}
  <2>1. c \in Answered
    BY DEF Answered
  <2>2. get_workspace_context(c) = mine
    <3> DEFINE context(m) == [user_id |-> m[2], workspace_id |-> m[1], role |-> m[3]]
               rows == {m \in workspace_members : m[2] = c /\ c \in User}
    <3>1. rows = {<<c, c, "OWNER">>}
      BY <2>1, MembersOf
    <3>2. {context(m) : m \in {<<c, c, "OWNER">>}} = mine
      OBVIOUS
    <3>3. get_workspace_context(c) = {context(m) : m \in rows}
      BY DEF get_workspace_context
    <3>4. QED
      BY <3>1, <3>2, <3>3
  <2>3. get_current_user_context(c) = mine
    BY <2>1, <2>2, UsersAreAnswered DEF get_current_user_context
  <2>4. /\ call[c].minted \in Nat /\ call[c].minted <= clock /\ clock \in 0..MaxTime
        /\ call[c].minted \in 0..MaxTime
    BY DEF At, AccountInv, AccountTypeOK, CreateCall, MintedInTime
  <2>5. Forged # AccessToken(c)
    BY <2>4, ForgedAssumption DEF AccessToken
  <2>6. decode_access_token(AccessToken(c), clock) = "ok"
    <3> DEFINE token == create_access_token(c, call[c].minted)
    <3>1. /\ token.iss = JWT_ISSUER /\ token.type = JWT_ACCESS_TOKEN_TYPE
          /\ token.ver = JWT_VERSION /\ token.iat = call[c].minted
          /\ {"iss", "sub", "type", "ver", "iat", "exp"} = DOMAIN token
      BY DEF create_access_token
    <3>2. clock < token.exp /\ token # Forged
      BY <2>5 DEF AccessToken
    <3>3. token.exp \in Nat /\ clock \in Nat
      BY <2>4, TtlAssumption DEF create_access_token
    <3> HIDE DEF token
    <3>4. ~(token.iat > clock) /\ ~(token.exp <= clock)
      BY <2>4, <3>1, <3>2, <3>3
    <3>5. decode_access_token(token, clock) = "ok"
      BY <3>1, <3>2, <3>4 DEF decode_access_token, JwtDecode
    <3>6. QED
      BY <3>5 DEF AccessToken, token
  <2>7. AccessToken(c).sub = c
    BY DEF AccessToken, create_access_token
  <2>8. QED
    BY <2>2, <2>3, <2>6, <2>7 DEF authenticate_jwt
<1>2. QED
  BY <1>1, AccountsAreSafe, PTL

(* A roster that is answered names the owner, and nobody else              *)
(* (get_workspace_members_route).                                          *)
THEOREM RostersNameTheOwner == Spec => []RosterIsComplete
<1>1. AccountInv => RosterIsComplete
  BY DEF AccountInv, RostersAreTrue, RosterIsComplete
<1>2. QED
  BY <1>1, AccountsAreSafe, PTL

(* Whoever waits for an email or a slug waits for one call, and that one   *)
(* runs or waits for one that runs (create_user before create_workspace).  *)
THEOREM WaitsEnd == Spec => []NobodyWaitsForever
<1>1. AccountInv => NobodyWaitsForever
  <2> SUFFICES ASSUME AccountInv, NEW c \in Call, NEW d \in WaitsFor(c)
               PROVE  /\ WaitsFor(c) = {d} /\ Busy(d)
                      /\ \A e \in WaitsFor(d) : Busy(e) /\ WaitsFor(e) = {}
    BY DEF NobodyWaitsForever
  <2>1. Busy(d) /\ \A e \in WaitsFor(d) : Busy(e) /\ WaitsFor(e) = {}
    BY DEF WaitsFor, Busy, HoldsEmail, HoldsSlug, At
  <2>2. WaitsFor(c) = {d}
    BY DEF AccountInv, EmailsAreHeld, SlugsAreHeld, WaitsFor, HoldsEmail,
       HoldsSlug, At
  <2>3. QED
    BY <2>1, <2>2
<1>2. QED
  BY <1>1, AccountsAreSafe, PTL
==============================================================================
