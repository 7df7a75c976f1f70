---------------------------- MODULE SessionProofs ----------------------------
(***************************************************************************)
(* The sessions of a user, for every number of handlers, requests and      *)
(* detections. RefreshTokens: a revoked token opens no session, and what   *)
(* outlives an archival or a change of role was in flight across it.       *)
(* AccessRevocation: the revocation epoch holds for every lifetime and     *)
(* buffer, as long as replies come within the buffer and stamps do not     *)
(* race.                                                                   *)
(***************************************************************************)
EXTENDS RefreshTokens, AccessRevocation, TLAPS

-----------------------------------------------------------------------------
\* Refresh tokens (RefreshTokens).

\* What a handler carries to its transaction.
LEMMA CallShapes ==
  ASSUME TypeOK, NEW k \in Calls
  PROVE  /\ call[k].pc = "issuing" =>
              call[k].from \in TokenNames /\ call[k].role \in Roles /\ call[k].readAt \in Nat
         /\ call[k].pc \in {"regrading", "inviting", "provisioning"} => call[k].role \in Roles
<1>1. ASSUME NEW x \in CallType, x.pc = "issuing"
      PROVE  x.from \in TokenNames /\ x.role \in Roles /\ x.readAt \in Nat
  BY <1>1 DEF CallType, Start, Done
<1>2. ASSUME NEW x \in CallType, x.pc \in {"regrading", "inviting", "provisioning"}
      PROVE  x.role \in Roles
  BY <1>2 DEF CallType, Start, Done
<1> QED
  BY <1>1, <1>2 DEF TypeOK

\* A token row whose status is updated in place keeps its type.
LEMMA StatusUpdated ==
  ASSUME TypeOK, NEW t \in Calls, token[t].status # "none",
         NEW s \in {"live", "lapsed", "revoked"}
  PROVE  [token[t] EXCEPT !.status = s] \in TokenType
<1>1. token[t] \in [status : {"live", "lapsed", "revoked"}, from : TokenNames,
                    role : Roles, readAt : Nat, bornAt : Nat]
  BY DEF TypeOK, TokenType, NoToken
<1> QED
  BY <1>1 DEF TokenType

\* RevokeAll keeps the table's type.
LEMMA RevokeAllTyped == TypeOK => RevokeAll \in [Calls -> TokenType]
<1> SUFFICES ASSUME TypeOK PROVE RevokeAll \in [Calls -> TokenType]
  OBVIOUS
<1>1. ASSUME NEW t \in Calls, Unrevoked(t)
      PROVE  [token[t] EXCEPT !.status = "revoked"] \in TokenType
  BY <1>1, StatusUpdated DEF Unrevoked
<1> QED
  BY <1>1 DEF RevokeAll, TypeOK

\* The types hold in the initial state.
LEMMA InitTyped == Init => TypeOK
<1> SUFFICES ASSUME Init PROVE TypeOK
  OBVIOUS
<1>1. user \in UserType
  BY DEF Init, UserType, NoUser
<1>2. token \in [Calls -> TokenType] /\ call \in [Calls -> CallType]
  BY DEF Init, TokenType, CallType
<1>3. log \in Seq(EventType)
  BY DEF Init
<1> QED
  BY <1>1, <1>2, <1>3 DEF TypeOK

\* A row exists before it is presented, and a handler mints at most one; without a user
\* nobody holds anything of his.
BirthInv ==
  /\ user = NoUser => \A k \in Calls :
       /\ call[k].pc \in {"start", "done", "inviting", "provisioning"}
       /\ token[k].status = "none"
  /\ \A k \in Calls : call[k].pc = "issuing" =>
       /\ call[k].readAt <= Now
       /\ call[k].from # None =>
            token[call[k].from].status # "none" /\ token[call[k].from].bornAt <= Now
  /\ \A t \in Calls : token[t].status # "none" =>
       /\ call[t].pc = "done"
       /\ token[t].readAt < token[t].bornAt /\ token[t].bornAt <= Now
       /\ token[t].from # None => token[token[t].from].status # "none"

\* Every step keeps the types.
LEMMA NextTyped == TypeOK /\ BirthInv /\ [Next]_vars => TypeOK'
<1> SUFFICES ASSUME TypeOK, BirthInv, [Next]_vars PROVE TypeOK'
  OBVIOUS
<1>a. /\ user \in UserType
      /\ token \in [Calls -> TokenType]
      /\ call \in [Calls -> CallType]
      /\ log \in Seq(EventType)
      /\ Now \in Nat
  BY DEF TypeOK, Now
<1>b. Done \in CallType
  BY DEF CallType
<1>c. ASSUME NEW k \in Calls, Finish(k) PROVE call' \in [Calls -> CallType]
  BY <1>a, <1>b, <1>c DEF Finish
<1>d. ASSUME NEW e \in EventType, Committed(e) PROVE log' \in Seq(EventType)
  BY <1>a, <1>d DEF Committed
<1>e. \A x \in {"reuse", "archive", "role", "accept", "invite", "provision"} :
        [kind |-> x, token |-> None] \in EventType
  BY DEF EventType, TokenNames
<1>f. ASSUME user # NoUser
      PROVE  user \in [status : {"invited", "active", "archived"}, role : Roles,
                       password : {"none", "invite", "set"}]
  BY <1>a, <1>f DEF UserType
<1>g. user.status = "active" => user.role \in Roles
  BY <1>f DEF NoUser
<1>1. ASSUME NEW k \in Calls, LoginRead(k) PROVE TypeOK'
  <2>1. user.status = "active" =>
          [pc |-> "issuing", from |-> None, role |-> user.role, readAt |-> Now] \in CallType
    BY <1>a, <1>g DEF CallType, TokenNames
  <2>2. call' \in [Calls -> CallType]
    BY <1>a, <1>b, <1>1, <2>1 DEF LoginRead
  <2> QED
    BY <1>a, <1>1, <2>2 DEF LoginRead, TypeOK
<1>2. ASSUME NEW k \in Calls, NEW t \in Calls, RefreshRead(k, t) PROVE TypeOK'
  <2>1. /\ user.status = "active" =>
             [pc |-> "issuing", from |-> t, role |-> user.role, readAt |-> Now] \in CallType
        /\ [pc |-> "reuse"] \in CallType
    BY <1>a, <1>g DEF CallType, TokenNames
  <2>2. call' \in [Calls -> CallType]
    BY <1>a, <1>b, <1>2, <2>1 DEF RefreshRead
  <2> QED
    BY <1>a, <1>2, <2>2 DEF RefreshRead, TypeOK
<1>3. ASSUME NEW k \in Calls, IssueCommit(k) PROVE TypeOK'
  <2> DEFINE rotated == [t \in Calls |-> IF t = call[k].from
                                         THEN [token[t] EXCEPT !.status = "revoked"]
                                         ELSE token[t]]
             new == [status |-> "live", from |-> call[k].from, role |-> call[k].role,
                     readAt |-> call[k].readAt, bornAt |-> Now + 1]
  <2>1. call[k].from \in TokenNames /\ call[k].role \in Roles /\ call[k].readAt \in Nat
    BY <1>3, CallShapes DEF IssueCommit
  <2>2. new \in TokenType
    BY <1>a, <2>1 DEF TokenType
  <2>3. [kind |-> "issue", token |-> call[k].from] \in EventType
    BY <2>1 DEF EventType
  <2>4. ASSUME NEW t \in Calls, t = call[k].from
        PROVE  [token[t] EXCEPT !.status = "revoked"] \in TokenType
    <3>1. token[t].status # "none"
      BY <1>3, <2>4, RefreshAssumption DEF IssueCommit, BirthInv
    <3> QED
      BY <3>1, StatusUpdated
  <2>5. rotated \in [Calls -> TokenType]
    BY <1>a, <2>4
  <2>6. token' = [rotated EXCEPT ![k] = new]
    BY <1>3 DEF IssueCommit
  <2> HIDE DEF rotated, new
  <2>7. token' \in [Calls -> TokenType]
    BY <2>2, <2>5, <2>6
  <2>8. log' \in Seq(EventType)
    BY <1>3, <1>d, <2>3 DEF IssueCommit
  <2> QED
    BY <1>a, <1>c, <1>3, <2>7, <2>8 DEF IssueCommit, TypeOK
<1>4. ASSUME NEW k \in Calls, ReuseCommit(k) PROVE TypeOK'
  BY <1>a, <1>c, <1>d, <1>e, <1>4, RevokeAllTyped DEF ReuseCommit, TypeOK
<1>5. ASSUME NEW k \in Calls, NEW t \in Calls, Logout(k, t) PROVE TypeOK'
  <2>1. token' \in [Calls -> TokenType]
    BY <1>a, <1>5, StatusUpdated DEF Logout
  <2>2. [kind |-> "logout", token |-> t] \in EventType
    BY DEF EventType, TokenNames
  <2> QED
    BY <1>a, <1>c, <1>d, <1>5, <2>1, <2>2 DEF Logout, TypeOK
<1>6. ASSUME NEW k \in Calls, ArchiveRead(k) PROVE TypeOK'
  <2>1. [pc |-> "archiving"] \in CallType
    BY DEF CallType
  <2> QED
    BY <1>a, <1>b, <1>6, <2>1 DEF ArchiveRead, TypeOK
<1>7. ASSUME NEW k \in Calls, ArchiveCommit(k) PROVE TypeOK'
  <2>1. user' \in UserType
    BY <1>f, <1>7 DEF ArchiveCommit, UserType, BirthInv
  <2> QED
    BY <1>c, <1>d, <1>e, <1>7, <2>1, RevokeAllTyped DEF ArchiveCommit, TypeOK
<1>8. ASSUME NEW k \in Calls, NEW r \in Roles, RoleRead(k, r) PROVE TypeOK'
  <2>1. [pc |-> "regrading", role |-> r] \in CallType
    BY DEF CallType
  <2> QED
    BY <1>a, <1>b, <1>8, <2>1 DEF RoleRead, TypeOK
<1>9. ASSUME NEW k \in Calls, RoleCommit(k) PROVE TypeOK'
  <2>1. user' \in UserType
    BY <1>f, <1>9, CallShapes DEF RoleCommit, UserType, BirthInv
  <2> QED
    BY <1>c, <1>d, <1>e, <1>9, <2>1, RevokeAllTyped DEF RoleCommit, TypeOK
<1>10. ASSUME NEW k \in Calls, AcceptRead(k) PROVE TypeOK'
  <2>1. [pc |-> "accepting"] \in CallType
    BY DEF CallType
  <2> QED
    BY <1>a, <1>b, <1>10, <2>1 DEF AcceptRead, TypeOK
<1>11. ASSUME NEW k \in Calls, AcceptCommit(k) PROVE TypeOK'
  <2>1. user' \in UserType
    BY <1>f, <1>11 DEF AcceptCommit, UserType, BirthInv
  <2> QED
    BY <1>a, <1>c, <1>d, <1>e, <1>11, <2>1 DEF AcceptCommit, TypeOK
<1>12. ASSUME NEW k \in Calls, Fail(k) PROVE TypeOK'
  BY <1>a, <1>c, <1>12 DEF Fail, TypeOK
<1>13. ASSUME NEW t \in Calls, LapseToken(t) PROVE TypeOK'
  <2>1. token' \in [Calls -> TokenType]
    BY <1>a, <1>13, StatusUpdated DEF LapseToken
  <2> QED
    BY <1>a, <1>13, <2>1 DEF LapseToken, TypeOK
<1>14. CASE LapseInvite
  <2>1. user' \in UserType
    BY <1>f, <1>14 DEF LapseInvite, UserType, NoUser
  <2> QED
    BY <1>a, <1>14, <2>1 DEF LapseInvite, TypeOK
<1>15. CASE UNCHANGED vars
  BY <1>a, <1>15 DEF vars, TypeOK
<1>16. ASSUME NEW k \in Calls, NEW r \in Roles, SsoRead(k, r) PROVE TypeOK'
  <2>1. /\ [pc |-> "provisioning", role |-> r] \in CallType
        /\ user.status = "active" =>
             [pc |-> "issuing", from |-> None, role |-> user.role, readAt |-> Now] \in CallType
    BY <1>a, <1>g DEF CallType, TokenNames
  <2>2. call' \in [Calls -> CallType]
    BY <1>a, <1>b, <1>16, <2>1 DEF SsoRead
  <2> QED
    BY <1>a, <1>16, <2>2 DEF SsoRead, TypeOK
<1>17. ASSUME NEW k \in Calls, NEW r \in Roles, InviteRead(k, r) PROVE TypeOK'
  <2>1. [pc |-> "inviting", role |-> r] \in CallType
    BY DEF CallType
  <2> QED
    BY <1>a, <1>b, <1>17, <2>1 DEF InviteRead, TypeOK
<1>18. ASSUME NEW k \in Calls, InviteCommit(k) PROVE TypeOK'
  <2>1. user' \in UserType
    BY <1>a, <1>18, CallShapes DEF InviteCommit, UserType
  <2>2. log' \in Seq(EventType)
    BY <1>a, <1>d, <1>e, <1>18 DEF InviteCommit
  <2> QED
    BY <1>a, <1>c, <1>18, <2>1, <2>2 DEF InviteCommit, TypeOK
<1>19. ASSUME NEW k \in Calls, ProvisionCommit(k) PROVE TypeOK'
  <2>1. call[k].role \in Roles
    BY <1>19, CallShapes DEF ProvisionCommit
  <2>2. [pc |-> "issuing", from |-> None, role |-> call[k].role, readAt |-> Now + 1] \in CallType
    BY <1>a, <2>1 DEF CallType, TokenNames
  <2>3. user' \in UserType
    BY <1>a, <1>19, <2>1 DEF ProvisionCommit, UserType
  <2>4. log' \in Seq(EventType)
    BY <1>a, <1>d, <1>e, <1>19 DEF ProvisionCommit
  <2>5. call' \in [Calls -> CallType]
    BY <1>a, <1>c, <1>19, <2>2 DEF ProvisionCommit
  <2> QED
    BY <1>a, <1>19, <2>3, <2>4, <2>5 DEF ProvisionCommit, TypeOK
<1> QED
  BY <1>1, <1>2, <1>3, <1>4, <1>5, <1>6, <1>7, <1>8, <1>9, <1>10, <1>11, <1>12, <1>13,
     <1>14, <1>15, <1>16, <1>17, <1>18, <1>19 DEF Next
-----------------------------------------------------------------------------
\* A commit appends to the log.
LEMMA LogStep ==
  ASSUME TypeOK, NEW e \in EventType, Committed(e)
  PROVE  /\ Now \in Nat /\ Now' = Now + 1
         /\ log'[Now + 1] = e
         /\ \A n \in 1 .. Now : log'[n] = log[n]
BY DEF TypeOK, Committed, Now

\* RevokeAll keeps every row, and leaves none unrevoked.
LEMMA RevokeAllStep ==
  ASSUME TypeOK, token' = RevokeAll, NEW t \in Calls
  PROVE  /\ token'[t].status = "none" <=> token[t].status = "none"
         /\ token'[t].from = token[t].from /\ token'[t].role = token[t].role
         /\ token'[t].readAt = token[t].readAt /\ token'[t].bornAt = token[t].bornAt
         /\ ~Unrevoked(t)'
<1>1. token[t] \in TokenType
  BY DEF TypeOK
<1>2. CASE Unrevoked(t)
  <2>1. token'[t] = [token[t] EXCEPT !.status = "revoked"]
    BY <1>2 DEF RevokeAll
  <2>2. token[t] \in [status : {"live", "lapsed", "revoked"}, from : TokenNames,
                      role : Roles, readAt : Nat, bornAt : Nat]
    BY <1>1, <1>2 DEF TokenType, NoToken, Unrevoked
  <2> QED
    BY <1>2, <2>1, <2>2 DEF Unrevoked
<1>3. CASE ~Unrevoked(t)
  BY <1>3 DEF RevokeAll, Unrevoked
<1> QED
  BY <1>2, <1>3

\* t keeps its row, and if it is unrevoked afterwards it was before.
Kept(t) ==
  /\ token'[t].status = "none" <=> token[t].status = "none"
  /\ token'[t].from = token[t].from /\ token'[t].role = token[t].role
  /\ token'[t].readAt = token[t].readAt /\ token'[t].bornAt = token[t].bornAt
  /\ Unrevoked(t)' => Unrevoked(t)

\* Every step keeps every token row, but for the one that IssueCommit mints.
LEMMA TokenStep ==
  ASSUME TypeOK, BirthInv, Next, NEW t \in Calls
  PROVE  Kept(t) \/ IssueCommit(t)
<1>a. token[t] \in TokenType /\ token \in [Calls -> TokenType]
  BY DEF TypeOK
<1>b. ASSUME NEW s \in {"lapsed", "revoked"}, token[t].status \in {"live", "lapsed"},
             token'[t] = [token[t] EXCEPT !.status = s]
      PROVE  Kept(t)
  <2>1. token[t] \in [status : {"live", "lapsed", "revoked"}, from : TokenNames,
                      role : Roles, readAt : Nat, bornAt : Nat]
    BY <1>a, <1>b DEF TokenType, NoToken
  <2> QED
    BY <1>b, <2>1 DEF Kept, Unrevoked
<1>1. ASSUME token' = token PROVE Kept(t)
  BY <1>1 DEF Kept, Unrevoked
<1>2. ASSUME token' = RevokeAll PROVE Kept(t)
  BY <1>2, RevokeAllStep DEF Kept
<1>3. ASSUME NEW k \in Calls, IssueCommit(k), k # t PROVE Kept(t)
  <2>1. CASE t # call[k].from
    BY <1>3, <2>1 DEF IssueCommit, Kept, Unrevoked
  <2>2. CASE t = call[k].from
    <3>1. token[t].status # "none"
      BY <1>3, <2>2, RefreshAssumption DEF IssueCommit, BirthInv
    <3>2. token[t] \in [status : {"live", "lapsed", "revoked"}, from : TokenNames,
                        role : Roles, readAt : Nat, bornAt : Nat]
      BY <1>a, <3>1 DEF TokenType, NoToken
    <3>3. token'[t] = [token[t] EXCEPT !.status = "revoked"]
      BY <1>a, <1>3, <2>2 DEF IssueCommit
    <3> QED
      BY <3>2, <3>3 DEF Kept, Unrevoked
  <2> QED
    BY <2>1, <2>2
<1>4. ASSUME NEW k \in Calls, NEW u \in Calls, Logout(k, u) PROVE Kept(t)
  <2>1. CASE u = t /\ Unrevoked(t)
    <3>1. token'[t] = [token[t] EXCEPT !.status = "revoked"]
      BY <1>a, <1>4, <2>1 DEF Logout
    <3> QED
      BY <1>b, <2>1, <3>1 DEF Unrevoked
  <2>2. CASE ~(u = t /\ Unrevoked(t))
    <3>1. token'[t] = token[t]
      BY <1>a, <1>4, <2>2 DEF Logout
    <3> QED
      BY <3>1 DEF Kept, Unrevoked
  <2> QED
    BY <2>1, <2>2
<1>5. ASSUME NEW u \in Calls, LapseToken(u) PROVE Kept(t)
  <2>1. CASE u = t
    <3>1. token'[t] = [token[t] EXCEPT !.status = "lapsed"]
      BY <1>a, <1>5, <2>1 DEF LapseToken
    <3> QED
      BY <1>b, <1>5, <2>1, <3>1 DEF LapseToken
  <2>2. CASE u # t
    <3>1. token'[t] = token[t]
      BY <1>a, <1>5, <2>2 DEF LapseToken
    <3> QED
      BY <3>1 DEF Kept, Unrevoked
  <2> QED
    BY <2>1, <2>2
<1>6. ASSUME NEW k \in Calls, ReuseCommit(k) \/ ArchiveCommit(k) \/ RoleCommit(k)
      PROVE  token' = RevokeAll
  BY <1>6 DEF ReuseCommit, ArchiveCommit, RoleCommit
<1> QED
  BY <1>1, <1>2, <1>3, <1>4, <1>5, <1>6
     DEF Next, LoginRead, SsoRead, ProvisionCommit, RefreshRead, InviteRead, InviteCommit,
         ArchiveRead, RoleRead, AcceptRead, AcceptCommit, Fail, LapseInvite

\* A handler about to issue was about to before, or has just read an active user
\* and, when it refreshes, an unrevoked token.
JustRead(k) ==
  /\ call'[k].readAt = Now /\ call'[k].role = user.role /\ user.status = "active"
  /\ call'[k].from = None \/ (call'[k].from \in Calls /\ Unrevoked(call'[k].from))
  /\ UNCHANGED <<user, token, log>>
  /\ call[k].pc = "start"

\* Or it has just made the user, and carries what it wrote.
JustProvisioned(k) ==
  /\ call'[k].from = None /\ call'[k].readAt = Now' /\ call'[k].role = user'.role
  /\ user = NoUser /\ user'.status = "active" /\ token' = token
  /\ Committed([kind |-> "provision", token |-> None])

\* Every step leaves a handler about to issue as it is, but for its own read or insert.
LEMMA IssuingStep ==
  ASSUME TypeOK, Next, NEW k \in Calls, call'[k].pc = "issuing"
  PROVE  call'[k] = call[k] \/ JustRead(k) \/ JustProvisioned(k)
<1>a. call \in [Calls -> CallType] /\ token[k] \in TokenType
  BY DEF TypeOK
<1>b. ASSUME NEW j \in Calls, Finish(j) PROVE call'[k] = call[k]
  BY <1>a, <1>b DEF Finish, Done
<1>1. ASSUME NEW j \in Calls, LoginRead(j) PROVE call'[k] = call[k] \/ JustRead(k)
  BY <1>a, <1>1 DEF LoginRead, JustRead, Done
<1>5. ASSUME NEW j \in Calls, NEW r \in Roles, SsoRead(j, r)
      PROVE  call'[k] = call[k] \/ JustRead(k)
  BY <1>a, <1>5 DEF SsoRead, JustRead, Done
<1>6. ASSUME NEW j \in Calls, ProvisionCommit(j)
      PROVE  call'[k] = call[k] \/ JustProvisioned(k)
  <2>1. CASE k # j \/ user # NoUser
    BY <1>a, <1>6, <2>1 DEF ProvisionCommit, Finish, Done
  <2>2. CASE k = j /\ user = NoUser
    <3>1. [kind |-> "provision", token |-> None] \in EventType
      BY DEF EventType, TokenNames
    <3>2. Now' = Now + 1
      BY <1>6, <2>2, <3>1 DEF ProvisionCommit, Committed, Now, TypeOK
    <3> QED
      BY <1>a, <1>6, <2>2, <3>2 DEF ProvisionCommit, JustProvisioned
  <2> QED
    BY <2>1, <2>2
<1>7. ASSUME NEW j \in Calls, NEW r \in Roles, InviteRead(j, r) PROVE call'[k] = call[k]
  BY <1>a, <1>7 DEF InviteRead, Done
<1>2. ASSUME NEW j \in Calls, NEW t \in Calls, RefreshRead(j, t)
      PROVE  call'[k] = call[k] \/ JustRead(k)
  <2>1. token[t] \in TokenType
    BY DEF TypeOK
  <2>2. token[t].status \in {"none", "live", "lapsed", "revoked"}
    BY <2>1 DEF TokenType, NoToken
  <2>3. CASE k # j
    BY <1>a, <1>2, <2>3 DEF RefreshRead
  <2>4. CASE k = j
    <3>1. call'[k] = [pc |-> "issuing", from |-> t, role |-> user.role, readAt |-> Now]
          /\ token[t].status \notin {"revoked", "lapsed"} /\ user.status = "active"
      BY <1>a, <1>2, <2>4 DEF RefreshRead, Done
    <3> QED
      BY <1>2, <2>2, <2>4, <3>1 DEF RefreshRead, JustRead, Unrevoked
  <2> QED
    BY <2>3, <2>4
<1>3. ASSUME NEW j \in Calls, NEW r \in Roles, RoleRead(j, r) PROVE call'[k] = call[k]
  BY <1>a, <1>3 DEF RoleRead, Done
<1>4. ASSUME NEW j \in Calls, ArchiveRead(j) \/ AcceptRead(j)
      PROVE  call'[k] = call[k]
  BY <1>a, <1>4 DEF ArchiveRead, AcceptRead, Done
<1> QED
  BY <1>b, <1>1, <1>2, <1>3, <1>4, <1>5, <1>6, <1>7
     DEF Next, IssueCommit, ReuseCommit, Logout, InviteCommit, ArchiveCommit, RoleCommit,
         AcceptCommit, Fail, LapseToken, LapseInvite
-----------------------------------------------------------------------------
\* The transaction e revokes no token but those it leaves revoked.
SoundCommit(e) ==
  /\ Committed(e)
  /\ \/ /\ e.kind \in {"issue", "logout"}
        /\ e.token # None => e.token \in Calls /\ token[e.token].status # "none"
        /\ \A t \in Calls : t = e.token => ~Unrevoked(t)'
     \/ /\ e.kind \in {"reuse", "archive", "role"} /\ e.token = None
        /\ \A t \in Calls : ~Unrevoked(t)'
     \/ e.kind \in {"accept", "invite", "provision"} /\ e.token = None

\* A token just issued is live, is none of the tokens there were, and carries
\* what its handler read.
IssuedBy(k) ==
  /\ call[k].pc = "issuing" /\ token[k].status = "none"
  /\ token'[k] = [status |-> "live", from |-> call[k].from, role |-> call[k].role,
                  readAt |-> call[k].readAt, bornAt |-> Now + 1]
  /\ SoundCommit([kind |-> "issue", token |-> call[k].from])
  /\ call' = [call EXCEPT ![k] = Done] /\ user' = user

\* IssueCommit does just that: the handler's own row is not there before.
LEMMA IssueStep ==
  ASSUME TypeOK, BirthInv, NEW k \in Calls, IssueCommit(k)
  PROVE  IssuedBy(k)
<1> DEFINE from == call[k].from
           e == [kind |-> "issue", token |-> from]
<1>1. token \in [Calls -> TokenType] /\ call[k].pc = "issuing"
  BY DEF TypeOK, IssueCommit
<1>2. token[k].status = "none"
  BY <1>1 DEF BirthInv
<1>3. from # None => from \in Calls /\ token[from].status # "none" /\ from # k
  BY <1>1, <1>2, CallShapes DEF BirthInv, TokenNames
<1>4. ASSUME NEW t \in Calls, t = from PROVE ~Unrevoked(t)'
  <2>0. token[t].status # "none" /\ t # k
    BY <1>3, <1>4, RefreshAssumption
  <2>1. token[t] \in [status : {"live", "lapsed", "revoked"}, from : TokenNames,
                      role : Roles, readAt : Nat, bornAt : Nat]
    BY <1>1, <2>0 DEF TokenType, NoToken
  <2>2. token'[t] = [token[t] EXCEPT !.status = "revoked"]
    BY <1>1, <1>4, <2>0 DEF IssueCommit
  <2> QED
    BY <2>1, <2>2 DEF Unrevoked
<1>5. e.kind = "issue" /\ e.token = from /\ Committed(e)
  BY DEF IssueCommit
<1>6. SoundCommit(e)
  <2> HIDE DEF e, from
  <2> QED
    BY <1>3, <1>4, <1>5 DEF SoundCommit
<1>7. token'[k] = [status |-> "live", from |-> call[k].from, role |-> call[k].role,
                   readAt |-> call[k].readAt, bornAt |-> Now + 1]
  BY <1>1 DEF IssueCommit
<1> QED
  BY <1>1, <1>2, <1>6, <1>7 DEF IssueCommit, IssuedBy, Finish

\* The transactions that end all sessions.
LEMMA KillStep ==
  ASSUME TypeOK, NEW x \in {"reuse", "archive", "role"}, token' = RevokeAll,
         Committed([kind |-> x, token |-> None])
  PROVE  SoundCommit([kind |-> x, token |-> None])
<1> DEFINE e == [kind |-> x, token |-> None]
<1>1. e.kind = x /\ e.token = None /\ Committed(e)
  OBVIOUS
<1> HIDE DEF e
<1>2. \A t \in Calls : ~Unrevoked(t)'
  BY RevokeAllStep
<1>3. SoundCommit(e)
  BY <1>1, <1>2 DEF SoundCommit
<1> QED
  BY <1>3 DEF e

\* Every step leaves the log alone or appends a transaction that leaves revoked
\* what it revokes.
LEMMA CommitStep ==
  ASSUME TypeOK, BirthInv, Next
  PROVE  log' = log \/ \E e \in EventType : SoundCommit(e)
<1>e. \A x \in {"reuse", "archive", "role", "accept", "invite", "provision"} :
        [kind |-> x, token |-> None] \in EventType
  BY DEF EventType, TokenNames
<1>1. ASSUME NEW k \in Calls, IssueCommit(k) PROVE \E e \in EventType : SoundCommit(e)
  <2>1. [kind |-> "issue", token |-> call[k].from] \in EventType
    BY <1>1, CallShapes DEF IssueCommit, EventType
  <2> QED
    BY <1>1, <2>1, IssueStep DEF IssuedBy
<1>2. ASSUME NEW k \in Calls, ReuseCommit(k) \/ ArchiveCommit(k) \/ RoleCommit(k)
      PROVE  \E e \in EventType : SoundCommit(e)
  BY <1>2, <1>e, KillStep DEF ReuseCommit, ArchiveCommit, RoleCommit
<1>3. ASSUME NEW k \in Calls, NEW t \in Calls, Logout(k, t)
      PROVE  \E e \in EventType : SoundCommit(e)
  <2> DEFINE e == [kind |-> "logout", token |-> t]
  <2>1. e \in EventType /\ e.kind = "logout" /\ e.token = t /\ Committed(e)
    BY <1>3 DEF Logout, EventType, TokenNames
  <2> HIDE DEF e
  <2>2. token \in [Calls -> TokenType] /\ token[t].status # "none"
    BY <1>3 DEF TypeOK, Logout
  <2>3. token[t] \in [status : {"live", "lapsed", "revoked"}, from : TokenNames,
                      role : Roles, readAt : Nat, bornAt : Nat]
    BY <2>2 DEF TokenType, NoToken
  <2>4. ~Unrevoked(t)'
    BY <1>3, <2>2, <2>3 DEF Logout, Unrevoked
  <2> QED
    BY <2>1, <2>2, <2>4 DEF SoundCommit
<1>4. ASSUME NEW x \in {"accept", "invite", "provision"}, Committed([kind |-> x, token |-> None])
      PROVE  \E e \in EventType : SoundCommit(e)
  <2> DEFINE e == [kind |-> x, token |-> None]
  <2>1. e \in EventType /\ e.kind = x /\ e.token = None /\ Committed(e)
    BY <1>4, <1>e
  <2> HIDE DEF e
  <2> QED
    BY <2>1 DEF SoundCommit
<1>5. ASSUME NEW k \in Calls, AcceptCommit(k) PROVE \E e \in EventType : SoundCommit(e)
  BY <1>4, <1>5 DEF AcceptCommit
<1>6. ASSUME NEW k \in Calls, InviteCommit(k) \/ ProvisionCommit(k)
      PROVE  log' = log \/ \E e \in EventType : SoundCommit(e)
  BY <1>4, <1>6 DEF InviteCommit, ProvisionCommit
<1> QED
  BY <1>1, <1>2, <1>3, <1>5, <1>6
     DEF Next, LoginRead, SsoRead, RefreshRead, InviteRead, ArchiveRead, RoleRead, AcceptRead,
         Fail, LapseToken, LapseInvite
-----------------------------------------------------------------------------
\* The log only grows, and what it says of an existing token never changes.
LEMMA LogGrows ==
  ASSUME TypeOK, BirthInv, Next
  PROVE  /\ Now \in Nat /\ Now' \in {Now, Now + 1}
         /\ \A n \in 1 .. Now : log'[n] = log[n]
         /\ \A t \in Calls, n \in 1 .. Now :
              token[t].status # "none" => (Revokes(n, t)' <=> Revokes(n, t))
<1>1. Now \in Nat
  BY DEF TypeOK, Now
<1>2. CASE log' = log
  <2>1. \A n \in 1 .. Now : log'[n] = log[n]
    BY <1>2
  <2>2. Now' = Now
    BY <1>2 DEF Now
  <2>3. ASSUME NEW t \in Calls, NEW n \in 1 .. Now, token[t].status # "none"
        PROVE  Revokes(n, t)' <=> Revokes(n, t)
    <3>1. token'[t].bornAt = token[t].bornAt
      BY <2>3, TokenStep, IssueStep DEF Kept, IssuedBy
    <3> QED
      BY <2>1, <3>1 DEF Revokes
  <2> QED
    BY <1>1, <2>1, <2>2, <2>3
<1>3. ASSUME NEW e \in EventType, SoundCommit(e)
      PROVE  /\ Now' = Now + 1
             /\ \A n \in 1 .. Now : log'[n] = log[n]
  BY <1>3, LogStep DEF SoundCommit
<1>4. ASSUME NEW e \in EventType, SoundCommit(e), NEW t \in Calls, NEW n \in 1 .. Now,
             token[t].status # "none"
      PROVE  Revokes(n, t)' <=> Revokes(n, t)
  <2>1. token'[t].bornAt = token[t].bornAt
    BY <1>4, TokenStep, IssueStep DEF Kept, IssuedBy
  <2> QED
    BY <1>3, <1>4, <2>1 DEF Revokes
<1> QED
  BY <1>1, <1>2, <1>3, <1>4, CommitStep

\* A user's row is never deleted.
LEMMA NoUserStep == ASSUME TypeOK, BirthInv, Next, user' = NoUser PROVE user = NoUser
<1> SUFFICES ASSUME user # NoUser PROVE user' # NoUser
  OBVIOUS
<1>1. user \in [status : {"invited", "active", "archived"}, role : Roles,
               password : {"none", "invite", "set"}]
  BY DEF TypeOK, UserType
<1>2. ASSUME user' = user PROVE user' # NoUser
  BY <1>2
<1>3. ASSUME NEW k \in Calls,
             ArchiveCommit(k) \/ RoleCommit(k) \/ AcceptCommit(k) \/ LapseInvite
      PROVE  user'.status \in {"invited", "active", "archived"}
  BY <1>1, <1>3 DEF ArchiveCommit, RoleCommit, AcceptCommit, LapseInvite
<1>4. ASSUME NEW k \in Calls, InviteCommit(k) \/ ProvisionCommit(k) PROVE user' = user
  BY <1>4 DEF InviteCommit, ProvisionCommit
<1>5. CASE LapseInvite
  BY <1>1, <1>5 DEF LapseInvite, NoUser
<1> QED
  BY <1>2, <1>3, <1>4, <1>5
     DEF Next, NoUser, LoginRead, SsoRead, RefreshRead, IssueCommit, ReuseCommit, Logout,
         InviteRead, ArchiveRead, RoleRead, AcceptRead, Fail, LapseToken

\* Without a user handlers only invite or provision him.
LEMMA AbsentStep ==
  ASSUME TypeOK, BirthInv, Next, user = NoUser, user' = NoUser, NEW k \in Calls
  PROVE  call'[k].pc \in {"start", "done", "inviting", "provisioning"}
<1> DEFINE Quiet(c) == c.pc \in {"start", "done", "inviting", "provisioning"}
<1>a. call \in [Calls -> CallType] /\ Quiet(call[k]) /\ Quiet(Done)
  BY DEF TypeOK, BirthInv, Done
<1>b. \A t \in Calls : token[t].status = "none"
  BY DEF BirthInv
<1>c. user.status = "none" /\ user.password = "none"
  BY DEF NoUser
<1>1. ASSUME NEW j \in Calls, LoginRead(j) \/ ArchiveRead(j) \/ AcceptRead(j) \/ Fail(j)
      PROVE  Quiet(call'[k])
  BY <1>a, <1>c, <1>1 DEF LoginRead, ArchiveRead, AcceptRead, Fail, Finish
<1>2. ASSUME NEW j \in Calls, NEW r \in Roles, SsoRead(j, r) \/ InviteRead(j, r) \/ RoleRead(j, r)
      PROVE  Quiet(call'[k])
  BY <1>a, <1>2 DEF SsoRead, InviteRead, RoleRead
<1>3. ASSUME NEW j \in Calls, InviteCommit(j) PROVE Quiet(call'[k])
  BY <1>a, <1>3 DEF InviteCommit, Finish
<1>4. ASSUME NEW j \in Calls, ProvisionCommit(j) PROVE FALSE
  BY <1>4 DEF ProvisionCommit, NoUser
<1>5. ASSUME NEW j \in Calls,
             \/ IssueCommit(j) \/ ReuseCommit(j) \/ ArchiveCommit(j)
             \/ RoleCommit(j) \/ AcceptCommit(j)
      PROVE  FALSE
  BY <1>5 DEF BirthInv, IssueCommit, ReuseCommit, ArchiveCommit, RoleCommit, AcceptCommit
<1>6. ASSUME NEW j \in Calls, NEW t \in Calls, RefreshRead(j, t) \/ Logout(j, t) \/ LapseToken(t)
      PROVE  FALSE
  BY <1>b, <1>6 DEF RefreshRead, Logout, LapseToken
<1>7. ~LapseInvite /\ \A t \in Calls : ~LapseToken(t)
  BY <1>b, <1>c DEF LapseInvite, LapseToken
<1> QED
  BY <1>1, <1>2, <1>3, <1>4, <1>5, <1>6, <1>7 DEF Next

\* Tokens are born in the past, after their handler's read; a handler that has
\* minted one is done.
LEMMA BirthKept == ASSUME TypeOK, BirthInv, Next PROVE BirthInv'
<1>a. Now \in Nat /\ Now' \in Nat /\ Now <= Now'
  BY LogGrows
<1>b. \A t \in Calls : token[t].status # "none" => token'[t].status # "none" /\ Kept(t)
  BY TokenStep, IssueStep DEF Kept, IssuedBy
<1>1. ASSUME NEW k \in Calls, call'[k].pc = "issuing"
      PROVE  /\ call'[k].readAt <= Now'
             /\ call'[k].from # None =>
                  /\ token'[call'[k].from].status # "none"
                  /\ token'[call'[k].from].bornAt <= Now'
  <2>1. CASE call'[k] = call[k]
    <3>1. call[k].readAt \in Nat /\ call[k].from \in TokenNames
      BY <1>1, <2>1, CallShapes
    <3>2. call[k].from # None => token[call[k].from].bornAt \in Nat
      BY <3>1 DEF TypeOK, TokenType, NoToken, TokenNames
    <3> QED
      BY <1>1, <1>a, <1>b, <2>1, <3>1, <3>2 DEF BirthInv, Kept, TokenNames
  <2>2. CASE JustRead(k)
    <3>1. call'[k].from # None =>
            /\ token'[call'[k].from].status # "none"
            /\ token'[call'[k].from].bornAt <= Now
      BY <2>2 DEF JustRead, Unrevoked, BirthInv
    <3>2. call'[k].from # None => token'[call'[k].from].bornAt \in Nat
      BY <2>2 DEF JustRead, TypeOK, TokenType, NoToken
    <3> QED
      BY <1>a, <2>2, <3>1, <3>2 DEF JustRead
  <2>3. CASE JustProvisioned(k)
    BY <1>a, <2>3 DEF JustProvisioned
  <2> QED
    BY <1>1, <2>1, <2>2, <2>3, IssuingStep
<1>2. ASSUME NEW t \in Calls, token'[t].status # "none"
      PROVE  /\ call'[t].pc = "done"
             /\ token'[t].readAt < token'[t].bornAt /\ token'[t].bornAt <= Now'
             /\ token'[t].from # None => token'[token'[t].from].status # "none"
  <2>1. CASE IssueCommit(t)
    <3>1. IssuedBy(t)
      BY <2>1, IssueStep
    <3>2. call'[t] = Done
      BY <3>1 DEF IssuedBy, TypeOK
    <3>3. call[t].readAt \in Nat /\ call[t].readAt <= Now /\ call[t].from \in TokenNames
      BY <3>1, CallShapes DEF IssuedBy, BirthInv
    <3>4. token'[t].readAt = call[t].readAt /\ token'[t].bornAt = Now + 1
          /\ token'[t].from = call[t].from
      BY <3>1 DEF IssuedBy
    <3>5. Now' = Now + 1
      <4>1. [kind |-> "issue", token |-> call[t].from] \in EventType
        BY <3>3 DEF EventType
      <4> QED
        BY <3>1, <4>1, LogStep DEF IssuedBy, SoundCommit
    <3>6. call[t].from # None => token'[call[t].from].status # "none"
      BY <1>b, <3>1, <3>3 DEF IssuedBy, BirthInv, TokenNames
    <3> QED
      BY <1>a, <3>2, <3>3, <3>4, <3>5, <3>6 DEF Done
  <2>2. CASE Kept(t)
    <3>1. /\ call[t].pc = "done" /\ token[t].readAt < token[t].bornAt
          /\ token[t].bornAt <= Now
          /\ token[t].from # None => token[token[t].from].status # "none"
      BY <1>2, <2>2 DEF Kept, BirthInv
    <3>2. token[t].bornAt \in Nat /\ token[t].from \in TokenNames
      BY <1>2, <2>2 DEF TypeOK, TokenType, NoToken, Kept, TokenNames
    <3>3. call'[t] = call[t]
      BY <3>1 DEF Next, TypeOK, LoginRead, SsoRead, ProvisionCommit, RefreshRead, IssueCommit,
                  ReuseCommit, Logout, InviteRead, InviteCommit, ArchiveRead, ArchiveCommit,
                  RoleRead, RoleCommit, AcceptRead, AcceptCommit, Fail, LapseToken,
                  LapseInvite, Finish
    <3> QED
      BY <1>a, <1>b, <2>2, <3>1, <3>2, <3>3 DEF Kept, TokenNames
  <2> QED
    BY <2>1, <2>2, TokenStep
<1>3. ASSUME user' = NoUser, NEW k \in Calls
      PROVE  /\ call'[k].pc \in {"start", "done", "inviting", "provisioning"}
             /\ token'[k].status = "none"
  <2>1. user = NoUser
    BY <1>3, NoUserStep
  <2>2. call[k].pc \in {"start", "done", "inviting", "provisioning"} /\ token[k].status = "none"
    BY <2>1 DEF BirthInv
  <2>3. token'[k].status = "none"
    <3>1. ~IssueCommit(k)
      BY <2>2 DEF IssueCommit
    <3> QED
      BY <2>2, <3>1, TokenStep DEF Kept
  <2>4. call'[k].pc \in {"start", "done", "inviting", "provisioning"}
    BY <1>3, <2>1, <2>2, AbsentStep
  <2> QED
    BY <2>3, <2>4
<1> QED
  BY <1>1, <1>2, <1>3 DEF BirthInv
-----------------------------------------------------------------------------
\* A transaction names only tokens that exist.
LogInv ==
  \A n \in 1 .. Now : log[n].token # None =>
    log[n].token \in Calls /\ token[log[n].token].status # "none"

\* A token is unrevoked only if no transaction has revoked it, and a handler
\* about to rotate one had read it before any did.
RevokedInv ==
  /\ \A t \in Calls : Unrevoked(t) => \A n \in 1 .. Now : ~Revokes(n, t)
  /\ \A k \in Calls : call[k].pc = "issuing" /\ call[k].from # None =>
       \A n \in 1 .. call[k].readAt : ~Revokes(n, call[k].from)

\* While the user is archived, whoever is about to issue read him before.
ArchiveInv ==
  user.status = "archived" =>
    \A k \in Calls : call[k].pc = "issuing" =>
      \E n \in 1 .. Now : log[n].kind = "archive" /\ call[k].readAt < n

\* Whoever is about to issue under another role read the user before the change.
RoleInv ==
  \A k \in Calls : call[k].pc = "issuing" /\ call[k].role # user.role =>
    \E n \in 1 .. Now : log[n].kind = "role" /\ call[k].readAt < n

IInv ==
  /\ TypeOK /\ BirthInv /\ LogInv /\ RevokedInv /\ ArchiveInv /\ RoleInv
  /\ NoSessionFromRevoked /\ ArchivedHoldsNoSession /\ StaleRoleOnlyInFlight

\* The strengthened invariant holds in the initial state.
LEMMA InitIInv == Init => IInv
<1> SUFFICES ASSUME Init PROVE IInv
  OBVIOUS
<1>1. /\ \A t \in Calls : token[t] = NoToken /\ call[t] = Start
      /\ log = <<>> /\ Now = 0
  BY DEF Init, Now
<1>2. BirthInv /\ LogInv
  BY <1>1 DEF BirthInv, LogInv, NoToken, Start
<1>3. RevokedInv /\ NoSessionFromRevoked
  BY <1>1 DEF RevokedInv, NoSessionFromRevoked, NoToken, Start, Unrevoked
<1>4. ArchiveInv /\ RoleInv /\ ArchivedHoldsNoSession /\ StaleRoleOnlyInFlight
  BY <1>1 DEF ArchiveInv, RoleInv, ArchivedHoldsNoSession, StaleRoleOnlyInFlight,
              NoToken, Start, Unrevoked
<1> QED
  BY <1>2, <1>3, <1>4, InitTyped DEF IInv

\* A transaction names only tokens that existed before it.
LEMMA LogKept == ASSUME IInv, Next PROVE LogInv'
<1> USE DEF IInv
<1>b. \A t \in Calls : token[t].status # "none" => token'[t].status # "none"
  BY TokenStep, IssueStep DEF Kept, IssuedBy
<1>1. ASSUME NEW n \in 1 .. Now, log'[n].token # None
      PROVE  log'[n].token \in Calls /\ token'[log'[n].token].status # "none"
  BY <1>1, <1>b, LogGrows DEF LogInv
<1>2. CASE log' = log
  <2>1. Now' = Now
    BY <1>2 DEF Now
  <2> QED
    BY <1>1, <2>1 DEF LogInv
<1>3. ASSUME NEW e \in EventType, SoundCommit(e) PROVE LogInv'
  <2>1. Now \in Nat /\ Now' = Now + 1 /\ log'[Now + 1] = e
    BY <1>3, LogStep DEF SoundCommit
  <2>2. e.token # None => e.token \in Calls /\ token'[e.token].status # "none"
    BY <1>3, <1>b DEF SoundCommit
  <2> QED
    BY <1>1, <2>1, <2>2 DEF LogInv
<1> QED
  BY <1>2, <1>3, CommitStep

\* What a transaction revokes it leaves revoked, so an unrevoked token, old or
\* new, has been revoked by none.
LEMMA UnrevokedKept ==
  ASSUME IInv, Next, NEW t \in Calls, Unrevoked(t)', NEW n \in 1 .. Now'
  PROVE  ~Revokes(n, t)'
<1> USE DEF IInv
<1>1. Now \in Nat /\ Now' \in {Now, Now + 1}
  BY LogGrows
<1>2. CASE IssueCommit(t)
  <2>1. IssuedBy(t)
    BY <1>2, IssueStep
  <2>2. token[t].status = "none" /\ token'[t].bornAt = Now + 1
    BY <2>1 DEF IssuedBy
  <2>3. [kind |-> "issue", token |-> call[t].from] \in EventType
    BY <2>1, CallShapes DEF IssuedBy, EventType
  <2>4. Now' = Now + 1 /\ log'[Now + 1] = [kind |-> "issue", token |-> call[t].from]
        /\ \A m \in 1 .. Now : log'[m] = log[m]
    BY <2>1, <2>3, LogStep DEF IssuedBy, SoundCommit
  <2>5. call[t].from # t
    BY <2>1, <2>2, RefreshAssumption DEF IssuedBy, BirthInv
  <2>6. CASE n = Now + 1
    BY <1>1, <2>2, <2>4, <2>5, <2>6 DEF Revokes
  <2>7. CASE n \in 1 .. Now
    <3>1. log[n].token # t
      BY <2>2, <2>7, RefreshAssumption DEF LogInv
    <3> QED
      BY <1>1, <2>2, <2>4, <2>7, <3>1 DEF Revokes
  <2> QED
    BY <1>1, <2>6, <2>7
<1>3. CASE Kept(t)
  <2>1. Unrevoked(t)
    BY <1>3 DEF Kept
  <2>2. token[t].status # "none"
    BY <2>1 DEF Unrevoked
  <2>3. CASE n \in 1 .. Now
    BY <2>1, <2>2, <2>3, LogGrows DEF RevokedInv
  <2>4. CASE n \notin 1 .. Now
    <3>1. n = Now + 1 /\ Now' = Now + 1
      BY <1>1, <2>4
    <3>2. log' # log
      BY <1>1, <3>1 DEF Now
    <3>3. PICK e \in EventType : SoundCommit(e)
      BY <3>2, CommitStep
    <3>4. log'[n] = e
      BY <3>1, <3>3, LogStep DEF SoundCommit
    <3>5. ~(e.kind \in {"issue", "logout"} /\ e.token = t)
      BY <3>3 DEF SoundCommit
    <3>6. ~(e.kind \in {"reuse", "archive", "role"})
      BY <3>3 DEF SoundCommit
    <3> QED
      BY <3>4, <3>5, <3>6 DEF Revokes
  <2> QED
    BY <2>3, <2>4
<1> QED
  BY <1>2, <1>3, TokenStep

\* The check on revokedAt holds for the log up to the read.
LEMMA RevokedKept == ASSUME IInv, Next PROVE RevokedInv'
<1> USE DEF IInv
<1>1. ASSUME NEW k \in Calls, call'[k].pc = "issuing", NEW f \in Calls, f = call'[k].from,
             NEW n \in 1 .. call'[k].readAt
      PROVE  ~Revokes(n, f)'
  <2>1. f # None
    BY RefreshAssumption
  <2>2. CASE call'[k] = call[k]
    <3>1. ~Revokes(n, f) /\ token[f].status # "none" /\ call[k].readAt <= Now
      BY <1>1, <2>1, <2>2 DEF RevokedInv, BirthInv
    <3>2. call[k].readAt \in Nat /\ Now \in Nat
      BY <1>1, <2>2, CallShapes, LogGrows
    <3> QED
      BY <1>1, <2>2, <3>1, <3>2, LogGrows
  <2>3. CASE JustRead(k)
    <3>1. Unrevoked(f) /\ n \in 1 .. Now /\ UNCHANGED <<token, log>>
      BY <1>1, <2>1, <2>3 DEF JustRead
    <3>2. ~Revokes(n, f)
      BY <3>1 DEF RevokedInv
    <3> QED
      BY <3>1, <3>2 DEF Revokes
  <2> QED
    BY <1>1, <2>1, <2>2, <2>3, IssuingStep DEF JustProvisioned
<1>2. ASSUME NEW k \in Calls, call'[k].pc = "issuing", call'[k].from # None
      PROVE  call'[k].from \in Calls
  <2>1. TypeOK'
    BY NextTyped
  <2>2. call'[k].from \in TokenNames
    BY <1>2, <2>1 DEF TypeOK, CallType, Start, Done
  <2> QED
    BY <1>2, <2>2 DEF TokenNames
<1>3. \A k \in Calls : call'[k].pc = "issuing" /\ call'[k].from # None =>
        \A n \in 1 .. call'[k].readAt : ~Revokes(n, call[k].from)'
  BY <1>1, <1>2 DEF Revokes
<1> QED
  BY <1>3, UnrevokedKept DEF RevokedInv

\* A session inherits what its handler knew at its read.
LEMMA NoSessionKept == ASSUME IInv, Next PROVE NoSessionFromRevoked'
<1> USE DEF IInv
<1>1. ASSUME NEW k \in Calls, NEW f \in Calls, f = token'[k].from,
             NEW n \in 1 .. token'[k].readAt
      PROVE  ~Revokes(n, f)'
  <2>1. CASE IssueCommit(k)
    <3>1. /\ call[k].pc = "issuing" /\ call[k].from = f /\ call[k].readAt = token'[k].readAt
      <4>1. IssuedBy(k)
        BY <2>1, IssueStep
      <4>2. token'[k].from = call[k].from /\ token'[k].readAt = call[k].readAt
        BY <4>1 DEF IssuedBy
      <4> QED
        BY <1>1, <4>1, <4>2 DEF IssuedBy
    <3>2. ~Revokes(n, f) /\ token[f].status # "none" /\ call[k].readAt <= Now
      BY <1>1, <3>1, RefreshAssumption DEF RevokedInv, BirthInv
    <3>3. call[k].readAt \in Nat /\ Now \in Nat
      BY <3>1, CallShapes, LogGrows
    <3> QED
      BY <1>1, <3>1, <3>2, <3>3, LogGrows
  <2>2. CASE Kept(k)
    <3>1. token[k].from = f /\ token[k].readAt = token'[k].readAt
      BY <1>1, <2>2 DEF Kept
    <3>2. token[k].status # "none"
      BY <1>1, <3>1, RefreshAssumption DEF TypeOK, TokenType, NoToken
    <3>3. /\ ~Revokes(n, f) /\ token[f].status # "none"
          /\ token[k].readAt < token[k].bornAt /\ token[k].bornAt <= Now
      BY <1>1, <3>1, <3>2, RefreshAssumption DEF NoSessionFromRevoked, BirthInv
    <3>4. token[k].readAt \in Nat /\ token[k].bornAt \in Nat /\ Now \in Nat
      BY <3>2, LogGrows DEF TypeOK, TokenType, NoToken
    <3> QED
      BY <1>1, <3>1, <3>3, <3>4, LogGrows
  <2> QED
    BY <2>1, <2>2, TokenStep
<1>2. TypeOK'
  BY NextTyped
<1>3. ASSUME NEW k \in Calls, token'[k].from # None PROVE token'[k].from \in Calls
  BY <1>2, <1>3 DEF TypeOK, TokenType, NoToken, TokenNames
<1>4. \A k \in Calls : token'[k].from # None =>
        \A n \in 1 .. token'[k].readAt : ~Revokes(n, token[k].from)'
  BY <1>1, <1>3 DEF Revokes
<1> QED
  BY <1>4 DEF NoSessionFromRevoked
-----------------------------------------------------------------------------
\* The user becomes archived, or changes role, only by a transaction that revokes
\* all his tokens and comes later than every read so far.
LEMMA UserStep ==
  ASSUME TypeOK, BirthInv, Next
  PROVE  /\ user'.status = "archived" =>
              \/ user.status = "archived"
              \/ Now' = Now + 1 /\ log'[Now + 1].kind = "archive" /\ token' = RevokeAll
         /\ \/ user'.role = user.role
            \/ user = NoUser
            \/ Now' = Now + 1 /\ log'[Now + 1].kind = "role" /\ token' = RevokeAll
<1>a. user \in UserType
  BY DEF TypeOK
<1>1. ASSUME NEW k \in Calls, user # NoUser, ArchiveCommit(k)
      PROVE  /\ Now' = Now + 1 /\ log'[Now + 1].kind = "archive" /\ token' = RevokeAll
             /\ user'.role = user.role
  <2>1. [kind |-> "archive", token |-> None] \in EventType
    BY DEF EventType, TokenNames
  <2> QED
    BY <1>a, <1>1, <2>1, LogStep DEF ArchiveCommit, UserType
<1>2. ASSUME NEW k \in Calls, user # NoUser, RoleCommit(k)
      PROVE  /\ Now' = Now + 1 /\ log'[Now + 1].kind = "role" /\ token' = RevokeAll
             /\ user'.status = user.status
  <2>1. [kind |-> "role", token |-> None] \in EventType
    BY DEF EventType, TokenNames
  <2> QED
    BY <1>a, <1>2, <2>1, LogStep DEF RoleCommit, UserType
<1>3. ASSUME NEW k \in Calls, user # NoUser, AcceptCommit(k)
      PROVE  user'.role = user.role /\ user'.status # "archived"
  BY <1>a, <1>3 DEF AcceptCommit, UserType
<1>4. ASSUME user # NoUser, LapseInvite
      PROVE  user'.role = user.role /\ user'.status = user.status
  BY <1>a, <1>4 DEF LapseInvite, UserType
<1>5. ASSUME user # NoUser, NEW k \in Calls, InviteCommit(k) \/ ProvisionCommit(k)
      PROVE  user' = user
  BY <1>5 DEF InviteCommit, ProvisionCommit
<1>6. CASE user # NoUser
  BY <1>1, <1>2, <1>3, <1>4, <1>5, <1>6
     DEF Next, LoginRead, SsoRead, RefreshRead, IssueCommit, ReuseCommit, Logout,
         InviteRead, ArchiveRead, RoleRead, AcceptRead, Fail, LapseToken
<1>7. ASSUME user = NoUser PROVE user'.status # "archived"
  <2>1. user.status = "none" /\ user.password = "none"
    BY <1>7 DEF NoUser
  <2>2. \A k \in Calls : call[k].pc \in {"start", "done", "inviting", "provisioning"}
    BY <1>7 DEF BirthInv
  <2>3. ASSUME NEW k \in Calls, InviteCommit(k) \/ ProvisionCommit(k)
        PROVE  user'.status # "archived"
    BY <1>7, <2>3 DEF InviteCommit, ProvisionCommit
  <2>4. ~LapseInvite /\ \A k \in Calls : ~ArchiveCommit(k) /\ ~RoleCommit(k) /\ ~AcceptCommit(k)
    BY <2>1, <2>2 DEF LapseInvite, ArchiveCommit, RoleCommit, AcceptCommit
  <2> QED
    BY <2>1, <2>3, <2>4
       DEF Next, LoginRead, SsoRead, RefreshRead, IssueCommit, ReuseCommit, Logout,
           InviteRead, ArchiveRead, RoleRead, AcceptRead, Fail, LapseToken
<1> QED
  BY <1>6, <1>7

\* A read is never later than the transactions committed so far.
LEMMA ReadsArePast ==
  ASSUME IInv, NEW k \in Calls
  PROVE  /\ Now \in Nat
         /\ call[k].pc = "issuing" => call[k].readAt \in 0 .. Now
<1>1. Now \in Nat
  BY DEF IInv, TypeOK, Now
<1> QED
  BY <1>1, CallShapes DEF IInv, BirthInv

\* While the user is archived nobody starts to issue, and who was about to, or
\* has issued since, read him before.
LEMMA ArchiveKept == ASSUME IInv, Next PROVE ArchiveInv' /\ ArchivedHoldsNoSession'
<1> SUFFICES ASSUME user'.status = "archived"
             PROVE  ArchiveInv' /\ ArchivedHoldsNoSession'
  BY DEF ArchiveInv, ArchivedHoldsNoSession
<1> USE DEF IInv
<1>0. Now \in Nat /\ Now' \in {Now, Now + 1} /\ \A n \in 1 .. Now : log'[n] = log[n]
  BY LogGrows
<1>1. CASE user.status # "archived"
  <2>1. Now' = Now + 1 /\ log'[Now + 1].kind = "archive" /\ token' = RevokeAll
    BY <1>1, UserStep
  <2>2. \A k \in Calls : ~Unrevoked(k)'
    BY <2>1, RevokeAllStep
  <2>3. ASSUME NEW k \in Calls, call'[k].pc = "issuing" PROVE call'[k].readAt < Now + 1
    <3>1. call'[k] = call[k]
      BY <1>0, <2>1, <2>3, IssuingStep DEF JustRead, JustProvisioned, Now
    <3> QED
      BY <2>3, <3>1, ReadsArePast
  <2>4. Now + 1 \in 1 .. Now'
    BY <1>0, <2>1
  <2> QED
    BY <2>1, <2>2, <2>3, <2>4 DEF ArchiveInv, ArchivedHoldsNoSession
<1>2. CASE user.status = "archived"
  <2>1. ASSUME NEW k \in Calls, call'[k].pc = "issuing"
        PROVE  \E n \in 1 .. Now' : log'[n].kind = "archive" /\ call'[k].readAt < n
    <3>1. call'[k] = call[k]
      BY <1>2, <2>1, IssuingStep DEF JustRead, JustProvisioned
    <3>2. PICK n \in 1 .. Now : log[n].kind = "archive" /\ call[k].readAt < n
      BY <1>2, <2>1, <3>1 DEF ArchiveInv
    <3> QED
      BY <1>0, <3>1, <3>2
  <2>2. ASSUME NEW k \in Calls, Unrevoked(k)'
        PROVE  \E n \in 1 .. Now' : log'[n].kind = "archive" /\ StraddledBy(n, k)'
    <3>1. CASE IssueCommit(k)
      <4>1. IssuedBy(k)
        BY <3>1, IssueStep
      <4>2. token'[k].readAt = call[k].readAt /\ token'[k].bornAt = Now + 1
        BY <4>1 DEF IssuedBy
      <4>3. PICK n \in 1 .. Now : log[n].kind = "archive" /\ call[k].readAt < n
        BY <1>2, <4>1 DEF ArchiveInv, IssuedBy
      <4> QED
        BY <1>0, <4>2, <4>3 DEF StraddledBy
    <3>2. CASE Kept(k)
      <4>1. PICK n \in 1 .. Now : log[n].kind = "archive" /\ StraddledBy(n, k)
        BY <1>2, <2>2, <3>2 DEF Kept, ArchivedHoldsNoSession
      <4> QED
        BY <1>0, <3>2, <4>1 DEF Kept, StraddledBy
    <3> QED
      BY <3>1, <3>2, TokenStep
  <2> QED
    BY <2>1, <2>2 DEF ArchiveInv, ArchivedHoldsNoSession
<1> QED
  BY <1>1, <1>2

\* Who carries another role than the user's read him before the change.
LEMMA RoleKept == ASSUME IInv, Next PROVE RoleInv' /\ StaleRoleOnlyInFlight'
<1> USE DEF IInv
<1>0. Now \in Nat /\ Now' \in {Now, Now + 1} /\ \A n \in 1 .. Now : log'[n] = log[n]
  BY LogGrows
<1>1. CASE user # NoUser /\ user'.role # user.role
  <2>1. Now' = Now + 1 /\ log'[Now + 1].kind = "role" /\ token' = RevokeAll
    BY <1>1, UserStep
  <2>2. \A k \in Calls : ~Unrevoked(k)'
    BY <2>1, RevokeAllStep
  <2>3. ASSUME NEW k \in Calls, call'[k].pc = "issuing" PROVE call'[k].readAt < Now + 1
    <3>1. call'[k] = call[k]
      BY <1>0, <1>1, <2>1, <2>3, IssuingStep DEF JustRead, JustProvisioned, Now
    <3> QED
      BY <2>3, <3>1, ReadsArePast
  <2>4. Now + 1 \in 1 .. Now'
    BY <1>0, <2>1
  <2> QED
    BY <2>1, <2>2, <2>3, <2>4 DEF RoleInv, StaleRoleOnlyInFlight
<1>2. CASE user # NoUser /\ user'.role = user.role
  <2>1. ASSUME NEW k \in Calls, call'[k].pc = "issuing", call'[k].role # user'.role
        PROVE  \E n \in 1 .. Now' : log'[n].kind = "role" /\ call'[k].readAt < n
    <3>1. call'[k] = call[k]
      BY <1>2, <2>1, IssuingStep DEF JustRead, JustProvisioned
    <3>2. PICK n \in 1 .. Now : log[n].kind = "role" /\ call[k].readAt < n
      BY <1>2, <2>1, <3>1 DEF RoleInv
    <3> QED
      BY <1>0, <3>1, <3>2
  <2>2. ASSUME NEW k \in Calls, Unrevoked(k)', token'[k].role # user'.role
        PROVE  \E n \in 1 .. Now' : log'[n].kind = "role" /\ StraddledBy(n, k)'
    <3>1. CASE IssueCommit(k)
      <4>1. IssuedBy(k)
        BY <3>1, IssueStep
      <4>2. /\ token'[k].readAt = call[k].readAt /\ token'[k].bornAt = Now + 1
            /\ token'[k].role = call[k].role
        BY <4>1 DEF IssuedBy
      <4>3. PICK n \in 1 .. Now : log[n].kind = "role" /\ call[k].readAt < n
        BY <1>2, <2>2, <4>1, <4>2 DEF RoleInv, IssuedBy
      <4> QED
        BY <1>0, <4>2, <4>3 DEF StraddledBy
    <3>2. CASE Kept(k)
      <4>1. PICK n \in 1 .. Now : log[n].kind = "role" /\ StraddledBy(n, k)
        BY <1>2, <2>2, <3>2 DEF Kept, StaleRoleOnlyInFlight
      <4> QED
        BY <1>0, <3>2, <4>1 DEF Kept, StraddledBy
    <3> QED
      BY <3>1, <3>2, TokenStep
  <2> QED
    BY <2>1, <2>2 DEF RoleInv, StaleRoleOnlyInFlight
<1>3. CASE user = NoUser
  <2>1. \A k \in Calls : call[k].pc # "issuing" /\ token[k].status = "none"
    BY <1>3 DEF BirthInv
  <2>2. ASSUME NEW k \in Calls, call'[k].pc = "issuing" PROVE call'[k].role = user'.role
    BY <1>3, <2>1, <2>2, IssuingStep DEF JustRead, JustProvisioned, NoUser
  <2>3. ASSUME NEW k \in Calls PROVE ~Unrevoked(k)'
    BY <2>1, TokenStep DEF Kept, IssueCommit, Unrevoked
  <2> QED
    BY <2>2, <2>3 DEF RoleInv, StaleRoleOnlyInFlight
<1> QED
  BY <1>1, <1>2, <1>3

\* The strengthened invariant is inductive.
LEMMA NextIInv == IInv /\ [Next]_vars => IInv'
<1>1. IInv /\ Next => IInv'
  BY NextTyped, BirthKept, LogKept, RevokedKept, NoSessionKept, ArchiveKept, RoleKept
     DEF IInv
<1>2. IInv /\ UNCHANGED vars => IInv'
  <2> SUFFICES ASSUME IInv, UNCHANGED vars PROVE IInv'
    OBVIOUS
  <2>1. UNCHANGED <<user, token, call, log>>
    BY DEF vars
  <2>2. TypeOK' /\ BirthInv'
    BY <2>1 DEF IInv, TypeOK, BirthInv, Now
  <2>3. LogInv' /\ RevokedInv' /\ NoSessionFromRevoked'
    BY <2>1 DEF IInv, LogInv, RevokedInv, NoSessionFromRevoked, Revokes, Unrevoked, Now
  <2>4. ArchiveInv' /\ RoleInv' /\ ArchivedHoldsNoSession' /\ StaleRoleOnlyInFlight'
    BY <2>1 DEF IInv, ArchiveInv, RoleInv, ArchivedHoldsNoSession, StaleRoleOnlyInFlight,
                StraddledBy, Unrevoked, Now
  <2> QED
    BY <2>2, <2>3, <2>4 DEF IInv
<1> QED
  BY <1>1, <1>2

\* The user's row, his tokens and the handlers keep their types.
THEOREM RefreshTypeCorrect == Spec => []TypeOK
<1>1. IInv => TypeOK
  BY DEF IInv
<1> QED
  BY InitIInv, NextIInv, <1>1, PTL DEF Spec

\* No session is opened with a token that was revoked before its handler read it.
THEOREM RevokedOpensNothing == Spec => []NoSessionFromRevoked
<1>1. IInv => NoSessionFromRevoked
  BY DEF IInv
<1> QED
  BY InitIInv, NextIInv, <1>1, PTL DEF Spec

\* An archived user's sessions were all in flight across the archival.
THEOREM ArchivalEndsSessions == Spec => []ArchivedHoldsNoSession
<1>1. IInv => ArchivedHoldsNoSession
  BY DEF IInv
<1> QED
  BY InitIInv, NextIInv, <1>1, PTL DEF Spec

\* A session with a stale role was in flight across the change of role.
THEOREM RoleChangeEndsSessions == Spec => []StaleRoleOnlyInFlight
<1>1. IInv => StaleRoleOnlyInFlight
  BY DEF IInv
<1> QED
  BY InitIInv, NextIInv, <1>1, PTL DEF Spec

-----------------------------------------------------------------------------
\* Access tokens and the revocation epoch (AccessRevocation).

USE RevocationAssumption

\* What a waiting request and a stamp under way carry.
LEMMA RequestShapes ==
  ASSUME RevocationTypeOK
  PROVE  /\ \A r \in Requests : request[r].pc = "checking" =>
              request[r].iat \in Seconds /\ request[r].since \in Seconds
         /\ \A k \in Detections : detection[k].pc = "stamping" =>
              detection[k].cutoff \in Seconds
<1>1. ASSUME NEW x \in RequestType, x.pc = "checking"
      PROVE  x.iat \in Seconds /\ x.since \in Seconds
  BY <1>1 DEF RequestType
<1>2. ASSUME NEW x \in DetectionType, x.pc = "stamping" PROVE x.cutoff \in Seconds
  BY <1>2 DEF DetectionType
<1> QED
  BY <1>1, <1>2 DEF RevocationTypeOK

\* The types hold in the initial state and every step keeps them.
LEMMA Typed ==
  /\ RevocationInit => RevocationTypeOK
  /\ RevocationTypeOK /\ [RevocationNext]_revocationVars => RevocationTypeOK'
<1>1. ASSUME RevocationInit PROVE RevocationTypeOK
  <2>1. request \in [Requests -> RequestType]
    BY <1>1 DEF RevocationInit, RequestType
  <2>2. detection \in [Detections -> DetectionType]
    BY <1>1 DEF RevocationInit, DetectionType
  <2>3. epoch \in [cutoff : Seconds, until : 0 .. MaxTime + TTL + Buffer]
    BY <1>1 DEF RevocationInit, NoEpoch, Seconds
  <2>4. now \in Seconds
    BY <1>1 DEF RevocationInit, Seconds
  <2>5. stamped \subseteq Seconds /\ served \subseteq [iat : Seconds, revoked : BOOLEAN]
    BY <1>1 DEF RevocationInit
  <2>6. raced \in BOOLEAN
    BY <1>1 DEF RevocationInit
  <2> QED
    BY <2>1, <2>2, <2>3, <2>4, <2>5, <2>6 DEF RevocationTypeOK
<1>2. ASSUME RevocationTypeOK, [RevocationNext]_revocationVars PROVE RevocationTypeOK'
  <2> USE DEF RevocationTypeOK
  <2>1. ASSUME NEW r \in Requests, NEW iat \in 0 .. MaxTime, Verify(r, iat) PROVE RevocationTypeOK'
    <3>1. /\ [pc |-> "checking", iat |-> iat, since |-> now] \in RequestType
          /\ [pc |-> "refused"] \in RequestType
      BY <1>2 DEF RequestType, Seconds
    <3>2. request' \in [Requests -> RequestType]
      BY <1>2, <2>1, <3>1 DEF Verify
    <3> QED
      BY <1>2, <2>1, <3>2 DEF Verify
  <2>2. ASSUME NEW r \in Requests, Check(r) PROVE RevocationTypeOK'
    <3>1. request[r].iat \in Seconds
      BY <1>2, <2>2, RequestShapes DEF Check
    <3>2. [pc |-> "refused"] \in RequestType /\ [pc |-> "served"] \in RequestType
      BY DEF RequestType
    <3>3. request' \in [Requests -> RequestType]
      BY <1>2, <2>2, <3>2 DEF Check
    <3>4. served' \subseteq [iat : Seconds, revoked : BOOLEAN]
      <4> DEFINE covered == \E c \in stamped : request[r].iat <= c
      <4>1. covered \in BOOLEAN
        BY Zenon
      <4>2. served' \subseteq served \cup {[iat |-> request[r].iat, revoked |-> covered]}
        BY <2>2 DEF Check
      <4> HIDE DEF covered
      <4> QED
        BY <1>2, <3>1, <4>1, <4>2
    <3> QED
      BY <1>2, <2>2, <3>3, <3>4 DEF Check
  <2>3. ASSUME NEW r \in Requests, CheckFails(r) PROVE RevocationTypeOK'
    <3>1. [pc |-> "refused"] \in RequestType
      BY DEF RequestType
    <3> QED
      BY <1>2, <2>3, <3>1 DEF CheckFails
  <2>4. ASSUME NEW k \in Detections, Detect(k) PROVE RevocationTypeOK'
    <3>1. [pc |-> "stamping", cutoff |-> now] \in DetectionType
      BY <1>2 DEF DetectionType
    <3> QED
      BY <1>2, <2>4, <3>1 DEF Detect
  <2>5. ASSUME NEW k \in Detections, Stamp(k) PROVE RevocationTypeOK'
    <3>1. detection[k].cutoff \in Seconds
      BY <1>2, <2>5, RequestShapes DEF Stamp
    <3>2. EpochUntil(now) \in 0 .. MaxTime + TTL + Buffer
      BY <1>2 DEF EpochUntil, Seconds
    <3>3. [pc |-> "done"] \in DetectionType
      BY DEF DetectionType
    <3> QED
      BY <1>2, <2>5, <3>1, <3>2, <3>3 DEF Stamp
  <2>6. ASSUME NEW k \in Detections, StampFails(k) PROVE RevocationTypeOK'
    <3>1. [pc |-> "done"] \in DetectionType
      BY DEF DetectionType
    <3> QED
      BY <1>2, <2>6, <3>1 DEF StampFails
  <2>7. CASE Tick
    BY <1>2, <2>7 DEF Tick, Seconds
  <2>8. CASE UNCHANGED revocationVars
    BY <1>2, <2>8 DEF revocationVars
  <2> QED
    BY <1>2, <2>1, <2>2, <2>3, <2>4, <2>5, <2>6, <2>7, <2>8 DEF RevocationNext
<1> QED
  BY <1>1, <1>2

\* While no stamps race, at most one is under way, and its cutoff is the newest.
StampInv == ~raced =>
  \A k \in Detections : detection[k].pc = "stamping" =>
    /\ detection[k].cutoff <= now
    /\ \A c \in stamped : c <= detection[k].cutoff
    /\ \A j \in Detections : detection[j].pc = "stamping" => j = k

\* The key covers every acknowledged cutoff, for a token's life and Buffer more.
EpochInv == ~raced =>
  \A c \in stamped :
    c <= now /\ c <= epoch.cutoff /\ c + TTL + Buffer <= epoch.until

\* A request that waits for Redis verified its token before it expired.
WaitInv ==
  \A r \in Requests : request[r].pc = "checking" =>
    /\ request[r].since < request[r].iat + TTL
    /\ now <= request[r].since + Patience

RevocationIInv == RevocationTypeOK /\ StampInv /\ EpochInv /\ WaitInv /\ RevokedNeverServed

\* The strengthened invariant holds in the initial state.
LEMMA InitRevocationIInv == RevocationInit => RevocationIInv
BY Typed DEF RevocationInit, RevocationIInv, StampInv, EpochInv, WaitInv, RevokedNeverServed

\* A stamp's cutoff is never older than one already acknowledged.
LEMMA StampKept == RevocationIInv /\ RevocationNext => StampInv'
<1> SUFFICES ASSUME RevocationIInv, RevocationNext PROVE StampInv'
  OBVIOUS
<1> USE DEF RevocationIInv, RevocationTypeOK, Seconds
<1>1. ASSUME NEW k \in Detections, Detect(k), ~raced' PROVE StampInv'
  <2>1. ~raced /\ \A j \in Detections : detection[j].pc # "stamping"
    BY <1>1 DEF Detect
  <2>2. \A j \in Detections : detection'[j].pc = "stamping" =>
          j = k /\ detection'[j].cutoff = now
    BY <1>1, <2>1 DEF Detect
  <2>3. \A c \in stamped' : c <= now
    BY <1>1, <2>1 DEF Detect, EpochInv
  <2> QED
    BY <1>1, <2>2, <2>3 DEF Detect, StampInv
<1>a. ASSUME raced' PROVE StampInv'
  BY <1>a DEF StampInv
<1>2. ASSUME NEW k \in Detections, Stamp(k) PROVE StampInv'
  BY <1>2 DEF Stamp, StampInv
<1>3. ASSUME NEW k \in Detections, StampFails(k) PROVE StampInv'
  BY <1>3 DEF StampFails, StampInv
<1>4. CASE Tick
  <2>1. now' = now + 1 /\ UNCHANGED <<detection, stamped, raced>>
    BY <1>4 DEF Tick
  <2>2. \A k \in Detections : detection[k].pc = "stamping" => detection[k].cutoff \in Seconds
    BY RequestShapes
  <2> QED
    BY <2>1, <2>2 DEF StampInv
<1> QED
  BY <1>1, <1>a, <1>2, <1>3, <1>4 DEF RevocationNext, Verify, Check, CheckFails, StampInv

\* The key always covers what was acknowledged.
LEMMA EpochKept == RevocationIInv /\ RevocationNext => EpochInv'
<1> SUFFICES ASSUME RevocationIInv, RevocationNext PROVE EpochInv'
  OBVIOUS
<1> USE DEF RevocationIInv, RevocationTypeOK, Seconds
<1>1. ASSUME NEW k \in Detections, Stamp(k) PROVE EpochInv'
  <2>1. detection[k].cutoff \in Seconds /\ epoch'.cutoff = detection[k].cutoff
        /\ epoch'.until = now + TTL + Buffer
    BY <1>1, RequestShapes DEF Stamp, EpochUntil
  <2> QED
    BY <1>1, <2>1 DEF Stamp, StampInv, EpochInv
<1>2. CASE Tick
  <2>1. now' = now + 1 /\ UNCHANGED <<epoch, stamped, raced>>
    BY <1>2 DEF Tick
  <2> QED
    BY <2>1 DEF EpochInv
<1> QED
  BY <1>1, <1>2 DEF RevocationNext, Verify, Check, CheckFails, Detect, StampFails, EpochInv

\* No GET waits longer than Patience.
LEMMA WaitKept == RevocationIInv /\ RevocationNext => WaitInv'
<1> SUFFICES ASSUME RevocationIInv, RevocationNext PROVE WaitInv'
  OBVIOUS
<1> USE DEF RevocationIInv, RevocationTypeOK, Seconds
<1>1. ASSUME NEW r \in Requests, NEW iat \in 0 .. MaxTime, Verify(r, iat) PROVE WaitInv'
  BY <1>1 DEF Verify, Unexpired, WaitInv
<1>2. ASSUME NEW r \in Requests, Check(r) \/ CheckFails(r) PROVE WaitInv'
  BY <1>2 DEF Check, CheckFails, WaitInv
<1>3. CASE Tick
  <2>1. /\ now' = now + 1 /\ request' = request
        /\ \A r \in Requests :
             request[r].pc = "checking" => now < request[r].since + Patience
    BY <1>3 DEF Tick
  <2>2. \A r \in Requests :
          request[r].pc = "checking" => request[r].since \in Seconds
    BY RequestShapes
  <2> QED
    BY <2>1, <2>2 DEF WaitInv
<1> QED
  BY <1>1, <1>2, <1>3 DEF RevocationNext, Detect, Stamp, StampFails, WaitInv

\* What Check serves, no acknowledged cutoff covers.
LEMMA ServedKept == RevocationIInv /\ RevocationNext => RevokedNeverServed'
<1> SUFFICES ASSUME RevocationIInv, RevocationNext, Patience <= Buffer, ~raced'
             PROVE  \A s \in served' : ~s.revoked
  BY DEF RevokedNeverServed
<1> USE DEF RevocationIInv, RevocationTypeOK, Seconds
<1>0. ~raced
  BY DEF RevocationNext, Verify, Check, CheckFails, Detect, Stamp, StampFails, Tick
<1>1. \A s \in served : ~s.revoked
  BY <1>0 DEF RevokedNeverServed
<1>2. ASSUME NEW r \in Requests, Check(r) PROVE \A s \in served' : ~s.revoked
  <2>1. CASE Revoked(request[r].iat)
    BY <1>1, <1>2, <2>1 DEF Check
  <2>2. CASE ~Revoked(request[r].iat)
    <3>1. /\ request[r].iat \in Seconds /\ request[r].since \in Seconds
          /\ now < request[r].iat + TTL + Patience
      <4>1. request[r].pc = "checking"
        BY <1>2 DEF Check
      <4> QED
        BY <4>1, RequestShapes DEF WaitInv
    <3>2. ASSUME NEW c \in stamped, request[r].iat <= c PROVE FALSE
      BY <1>0, <2>2, <3>1, <3>2 DEF EpochInv, Revoked
    <3>3. served' = served \cup {[iat |-> request[r].iat, revoked |-> FALSE]}
      BY <1>2, <2>2, <3>2 DEF Check
    <3> QED
      BY <1>1, <3>3
  <2> QED
    BY <2>1, <2>2
<1> QED
  BY <1>1, <1>2 DEF RevocationNext, Verify, CheckFails, Detect, Stamp, StampFails, Tick

\* The strengthened invariant is inductive.
LEMMA NextRevocationIInv == RevocationIInv /\ [RevocationNext]_revocationVars => RevocationIInv'
<1>1. RevocationIInv /\ RevocationNext => RevocationIInv'
  BY Typed, StampKept, EpochKept, WaitKept, ServedKept DEF RevocationIInv
<1>2. RevocationIInv /\ UNCHANGED revocationVars => RevocationIInv'
  <2> SUFFICES ASSUME RevocationIInv, UNCHANGED revocationVars PROVE RevocationIInv'
    OBVIOUS
  <2>1. RevocationTypeOK'
    BY Typed DEF RevocationIInv
  <2> QED
    BY <2>1 DEF RevocationIInv, revocationVars, StampInv, EpochInv, WaitInv, RevokedNeverServed
<1> QED
  BY <1>1, <1>2

\* The clock, the epoch and the requests keep their types.
THEOREM RevocationTypeCorrect == RevocationSpec => []RevocationTypeOK
BY Typed, PTL DEF RevocationSpec

\* A token covered by an acknowledged cutoff is never served again, for every
\* access-token lifetime and every buffer not below the wait for Redis.
THEOREM RevocationHolds == RevocationSpec => []RevokedNeverServed
<1>1. RevocationIInv => RevokedNeverServed
  BY DEF RevocationIInv
<1> QED
  BY InitRevocationIInv, NextRevocationIInv, <1>1, PTL DEF RevocationSpec
=============================================================================
