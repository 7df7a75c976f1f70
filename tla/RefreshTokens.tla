--------------------------- MODULE RefreshTokens ---------------------------
(***************************************************************************)
(* The refresh tokens of one person.  In apps/api/src/domains:             *)
(* auth/service.ts (login, refresh, logout, issueTokens) and               *)
(* auth/saml/service.ts (consumeAcs) beside the handlers of                *)
(* user/service.ts that make his row (inviteUser, acceptInvite) and end    *)
(* his sessions (archiveUser, changeUserRole).                             *)
(*                                                                         *)
(* A handler reads, checks what it read, and commits one transaction; the  *)
(* read and the transaction are separate steps.  Every transaction here    *)
(* inserts the user's row, under his UNIQUE emailDigest, or updates it or  *)
(* a token's row by id, so two of them serialize on its lock; one the      *)
(* database kills as a deadlock victim fails like any other (Fail).  A     *)
(* refresh token is named by the handler that minted it.  log is the order *)
(* in which transactions serialize: a revocation that does not see a row   *)
(* inserted meanwhile is the earlier.                                      *)
(***************************************************************************)
EXTENDS Integers, Sequences

CONSTANTS
  Calls,  \* the requests about this person, one handler run each
  Roles   \* the roles he may hold

VARIABLES
  user,   \* the User row and its UserCredential
  token,  \* the RefreshToken rows
  call,   \* call[k]: what handler k carries from its read to its transaction
  log     \* history: the committed transactions, in order

vars == <<user, token, call, log>>

None == "none"

ASSUME RefreshAssumption == None \notin Calls /\ None \notin Roles

\* A person without a row.
NoUser == [status |-> "none", role |-> None, password |-> "none"]

NoToken == [status |-> "none", from |-> None, role |-> None, readAt |-> 0, bornAt |-> 0]
Start == [pc |-> "start"]
Done == [pc |-> "done"]

Now == Len(log)
Finish(k) == call' = [call EXCEPT ![k] = Done]
Committed(event) == log' = Append(log, event)

\* revokedAt is null.
Unrevoked(t) == token[t].status \in {"live", "lapsed"}

\* Mutant of RevokeAll: no WHERE clause.
RevokeAllRows == [t \in Calls |-> [token[t] EXCEPT !.status = "revoked"]]

\* updateMany where userId and revokedAt is null.
RevokeAll == [t \in Calls |->
  IF Unrevoked(t) THEN [token[t] EXCEPT !.status = "revoked"] ELSE token[t]]
-----------------------------------------------------------------------------
\* Nobody yet, or a user invited or at work, who has a password unless he signs on.
Init ==
  /\ \/ user = NoUser
     \/ user \in [status : {"invited"}, role : Roles, password : {"invite"}]
     \/ user \in [status : {"active"}, role : Roles, password : {"none", "set"}]
  /\ token = [t \in Calls |-> NoToken]
  /\ call = [k \in Calls |-> Start]
  /\ log = <<>>

\* login, with the right password if he has one: only an active user gets past the read.
LoginRead(k) ==
  /\ call[k].pc = "start"
  /\ call' = [call EXCEPT ![k] =
       IF user.status = "active" /\ user.password = "set"
       THEN [pc |-> "issuing", from |-> None, role |-> user.role, readAt |-> Now]
       ELSE Done]
  /\ UNCHANGED <<user, token, log>>

\* consumeAcs with a valid assertion: an active user keeps his role whatever role the
\* identity provider asserts, and somebody unknown is to be provisioned with it.
SsoRead(k, r) ==
  /\ call[k].pc = "start"
  /\ call' = [call EXCEPT ![k] =
       IF user = NoUser THEN [pc |-> "provisioning", role |-> r]
       ELSE IF user.status = "active"
       THEN [pc |-> "issuing", from |-> None, role |-> user.role, readAt |-> Now]
       ELSE Done]
  /\ UNCHANGED <<user, token, log>>

\* The transaction that provisions him, unless somebody else has made his row meanwhile;
\* issueTokens follows with the row as it was inserted.
ProvisionCommit(k) ==
  /\ call[k].pc = "provisioning"
  /\ IF user = NoUser
     THEN /\ user' = [status |-> "active", role |-> call[k].role, password |-> "none"]
          /\ Committed([kind |-> "provision", token |-> None])
          /\ call' = [call EXCEPT ![k] =
               [pc |-> "issuing", from |-> None, role |-> call[k].role, readAt |-> Now + 1]]
     ELSE Finish(k) /\ UNCHANGED <<user, log>>
  /\ UNCHANGED token

\* Mutant of RefreshRead: revokedAt is not looked at.
RefreshReadRevoked(k, t) ==
  /\ call[k].pc = "start"
  /\ token[t].status # "none"
  /\ call' = [call EXCEPT ![k] =
       IF token[t].status = "lapsed" \/ user.status # "active" THEN Done
       ELSE [pc |-> "issuing", from |-> t, role |-> user.role, readAt |-> Now]]
  /\ UNCHANGED <<user, token, log>>

\* Mutant of RefreshRead: the user's status is not looked at.
RefreshReadAnyStatus(k, t) ==
  /\ call[k].pc = "start"
  /\ token[t].status # "none"
  /\ call' = [call EXCEPT ![k] =
       IF token[t].status = "revoked" THEN [pc |-> "reuse"]
       ELSE IF token[t].status = "lapsed" THEN Done
       ELSE [pc |-> "issuing", from |-> t, role |-> user.role, readAt |-> Now]]
  /\ UNCHANGED <<user, token, log>>

\* refresh, up to its transaction.  A revoked token is a reuse, a lapsed one and
\* one of a user who is not active are refused.
RefreshRead(k, t) ==
  /\ call[k].pc = "start"
  /\ token[t].status # "none"
  /\ call' = [call EXCEPT ![k] =
       IF token[t].status = "revoked" THEN [pc |-> "reuse"]
       ELSE IF token[t].status = "lapsed" \/ user.status # "active" THEN Done
       ELSE [pc |-> "issuing", from |-> t, role |-> user.role, readAt |-> Now]]
  /\ UNCHANGED <<user, token, log>>

\* The transaction of issueTokens.  The presented token is revoked by id, whatever
\* it has become since it was read, and the new one inserted.
IssueCommit(k) ==
  /\ call[k].pc = "issuing"
  /\ LET c == call[k]
         rotated == [t \in Calls |-> IF t = c.from
                                     THEN [token[t] EXCEPT !.status = "revoked"]
                                     ELSE token[t]]
     IN  /\ token' = [rotated EXCEPT ![k] =
              [status |-> "live", from |-> c.from, role |-> c.role,
               readAt |-> c.readAt, bornAt |-> Now + 1]]
         /\ Committed([kind |-> "issue", token |-> c.from])
  /\ Finish(k)
  /\ UNCHANGED user

\* The transaction of a detected reuse.
ReuseCommit(k) ==
  /\ call[k].pc = "reuse"
  /\ token' = RevokeAll
  /\ Committed([kind |-> "reuse", token |-> None])
  /\ Finish(k)
  /\ UNCHANGED user

\* logout: one guarded statement, whatever the status of the token.
Logout(k, t) ==
  /\ call[k].pc = "start"
  /\ token[t].status # "none"
  /\ token' = IF Unrevoked(t) THEN [token EXCEPT ![t].status = "revoked"] ELSE token
  /\ Committed([kind |-> "logout", token |-> t])
  /\ Finish(k)
  /\ UNCHANGED user
-----------------------------------------------------------------------------
\* inviteUser: an e-mail that is known is a conflict.
InviteRead(k, r) ==
  /\ call[k].pc = "start"
  /\ call' = [call EXCEPT ![k] =
       IF user = NoUser THEN [pc |-> "inviting", role |-> r] ELSE Done]
  /\ UNCHANGED <<user, token, log>>

\* The UNIQUE emailDigest makes it fail when somebody else has made the row meanwhile.
InviteCommit(k) ==
  /\ call[k].pc = "inviting"
  /\ IF user = NoUser
     THEN /\ user' = [status |-> "invited", role |-> call[k].role, password |-> "invite"]
          /\ Committed([kind |-> "invite", token |-> None])
     ELSE UNCHANGED <<user, log>>
  /\ Finish(k)
  /\ UNCHANGED token

\* archiveUser: a user already archived is left alone.
ArchiveRead(k) ==
  /\ call[k].pc = "start"
  /\ call' = [call EXCEPT ![k] =
       IF user.status \in {"none", "archived"} THEN Done ELSE [pc |-> "archiving"]]
  /\ UNCHANGED <<user, token, log>>

ArchiveCommit(k) ==
  /\ call[k].pc = "archiving"
  /\ user' = [user EXCEPT !.status = "archived"]
  /\ token' = RevokeAll
  /\ Committed([kind |-> "archive", token |-> None])
  /\ Finish(k)

\* changeUserRole: a user who has the role already is left alone.
RoleRead(k, r) ==
  /\ call[k].pc = "start"
  /\ call' = [call EXCEPT ![k] =
       IF user = NoUser \/ user.role = r THEN Done ELSE [pc |-> "regrading", role |-> r]]
  /\ UNCHANGED <<user, token, log>>

\* Mutant of RoleCommit: sessions are left alone when the role changes.
RoleCommitKeepsSessions(k) ==
  /\ call[k].pc = "regrading"
  /\ user' = [user EXCEPT !.role = call[k].role]
  /\ UNCHANGED token
  /\ Committed([kind |-> "role", token |-> None])
  /\ Finish(k)

RoleCommit(k) ==
  /\ call[k].pc = "regrading"
  /\ user' = [user EXCEPT !.role = call[k].role]
  /\ token' = RevokeAll
  /\ Committed([kind |-> "role", token |-> None])
  /\ Finish(k)

\* acceptInvite with the user's invite token: an open invite is all it asks for.
AcceptRead(k) ==
  /\ call[k].pc = "start"
  /\ call' = [call EXCEPT ![k] = IF user.password = "invite" THEN [pc |-> "accepting"] ELSE Done]
  /\ UNCHANGED <<user, token, log>>

AcceptCommit(k) ==
  /\ call[k].pc = "accepting"
  /\ user' = [user EXCEPT !.status = "active", !.password = "set"]
  /\ Committed([kind |-> "accept", token |-> None])
  /\ Finish(k)
  /\ UNCHANGED token

\* A refresh token outlives its 30 days, an invite its 7.
LapseToken(t) ==
  /\ token[t].status = "live"
  /\ token' = [token EXCEPT ![t].status = "lapsed"]
  /\ UNCHANGED <<user, call, log>>

LapseInvite ==
  /\ user.password = "invite"
  /\ user' = [user EXCEPT !.password = "none"]
  /\ UNCHANGED <<token, call, log>>

\* A handler ends between its read and its transaction, or the transaction fails.
Fail(k) ==
  /\ call[k].pc \notin {"start", "done"}
  /\ Finish(k)
  /\ UNCHANGED <<user, token, log>>

Next ==
  \/ \E k \in Calls :
       \/ LoginRead(k) \/ ProvisionCommit(k) \/ IssueCommit(k) \/ ReuseCommit(k)
       \/ ArchiveRead(k) \/ ArchiveCommit(k)
       \/ RoleCommit(k)
       \/ InviteCommit(k) \/ AcceptRead(k) \/ AcceptCommit(k)
       \/ Fail(k)
  \/ \E k, t \in Calls : RefreshRead(k, t) \/ Logout(k, t)
  \/ \E k \in Calls, r \in Roles : SsoRead(k, r) \/ InviteRead(k, r) \/ RoleRead(k, r)
  \/ \E t \in Calls : LapseToken(t)
  \/ LapseInvite

Spec == Init /\ [][Next]_vars
-----------------------------------------------------------------------------
TokenNames == Calls \cup {None}

UserType ==
  {NoUser} \cup [status : {"invited", "active", "archived"}, role : Roles,
                 password : {"none", "invite", "set"}]

TokenType ==
  {NoToken} \cup
  [status : {"live", "lapsed", "revoked"}, from : TokenNames, role : Roles,
   readAt : Nat, bornAt : Nat]

CallType ==
  {Start, Done}
    \cup [pc : {"issuing"}, from : TokenNames, role : Roles, readAt : Nat]
    \cup [pc : {"reuse", "archiving", "accepting"}]
    \cup [pc : {"regrading", "inviting", "provisioning"}, role : Roles]

EventType ==
  [kind : {"issue", "reuse", "logout", "archive", "role", "accept", "invite", "provision"},
   token : TokenNames]

TypeOK ==
  /\ user \in UserType
  /\ token \in [Calls -> TokenType]
  /\ call \in [Calls -> CallType]
  /\ log \in Seq(EventType)

\* The transaction at position n of the log revoked token t.
Revokes(n, t) ==
  \/ log[n].kind \in {"issue", "logout"} /\ log[n].token = t
  \/ log[n].kind \in {"reuse", "archive", "role"} /\ token[t].bornAt < n

\* A refresh token that was rotated, logged out, or revoked with all the user's
\* others opens no session any more: one that it did open belongs to a handler
\* that had read the token before the revocation committed.
NoSessionFromRevoked ==
  \A k \in Calls :
    token[k].from # None =>
      \A n \in 1 .. token[k].readAt : ~Revokes(n, token[k].from)

\* The handler that minted t read the user before the transaction at position n
\* and committed after it.
StraddledBy(n, t) == token[t].readAt < n /\ n < token[t].bornAt

\* Archiving a user ends every session but those of handlers in flight across the
\* archival, and nobody opens or refreshes one while the user is archived.
ArchivedHoldsNoSession ==
  user.status = "archived" =>
    \A k \in Calls : Unrevoked(k) =>
      \E n \in 1 .. Now : log[n].kind = "archive" /\ StraddledBy(n, k)

\* The same of a change of role: only a handler in flight across it leaves a
\* session that carries another role than the user's.
StaleRoleOnlyInFlight ==
  \A k \in Calls : Unrevoked(k) /\ token[k].role # user.role =>
    \E n \in 1 .. Now : log[n].kind = "role" /\ StraddledBy(n, k)
=============================================================================
