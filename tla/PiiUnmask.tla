----------------------------- MODULE PiiUnmask -----------------------------
(***************************************************************************)
(* The two-person unmask of apps/api/src/domains/pii-vault/service.ts: one *)
(* PiiUnmaskRequest row and the HTTP requests that race on it.  A handler  *)
(* reads the row, checks it, and writes it in a later statement, so every  *)
(* handler is a process (Calls) whose database round trips are its steps.  *)
(* Each transaction updates the row first, so the row lock makes it atomic *)
(* with its audit row.  Rows are independent: one of them is modelled.     *)
(***************************************************************************)
EXTENDS Integers, FiniteSets

CONSTANTS
  Calls,    \* the requests on this row, one handler run each
  Users,    \* the users of the org that may request, approve or reveal
  TTL,      \* grantExpiresAt is this long after the approval (30 minutes)
  MaxTime   \* bound: the clock stops here

ASSUME UnmaskAssumption ==
  /\ IsFiniteSet(Calls)
  /\ TTL \in Nat
  /\ MaxTime \in Nat

VARIABLES
  row,       \* the PiiUnmaskRequest row; status "none" before the insert
  call,      \* call[k]: what handler k carries from one step to the next
  now,       \* Date.now()
  audit,     \* the committed audit rows
  approvals, \* history: the calls that committed an approval
  consumed,  \* history: the calls that flipped approved to revealed
  disclosed  \* history: the calls that returned plaintext

vars == <<row, call, now, audit, approvals, consumed, disclosed>>

\* A grant token is named by the call that minted it; NoGrant is a wrong token
\* or the null of the column.
NoGrant == "null"
NoUser == "null"
Tokens == Calls \cup {NoGrant}

Statuses == {"none", "pending", "approved", "rejected", "revealed", "expired"}
Times == 0 .. (MaxTime + TTL)

Start == [pc |-> "start"]
Done == [pc |-> "done"]

\* Mutant of GrantExpiry: the TTL is added twice.
GrantExpiryTwice(t) == t + TTL + TTL

\* grantExpiresAt = Date.now() + 30 min.
GrantExpiry(t) == t + TTL

Finish(k) == call' = [call EXCEPT ![k] = Done]
-----------------------------------------------------------------------------
Init ==
  /\ row = [status |-> "none", requester |-> NoUser, approver |-> NoUser,
            grant |-> NoGrant, expires |-> 0]
  /\ call = [k \in Calls |-> Start]
  /\ now = 0
  /\ audit = {}
  /\ approvals = {}
  /\ consumed = {}
  /\ disclosed = {}

\* requestUnmask: the row and its audit row in one transaction.
RequestUnmask(k, u) ==
  /\ call[k].pc = "start"
  /\ row.status = "none"
  /\ row' = [row EXCEPT !.status = "pending", !.requester = u]
  /\ audit' = audit \cup {[call |-> k, action |-> "unmask_requested", actor |-> u,
                           approver |-> NoUser]}
  /\ Finish(k)
  /\ UNCHANGED <<now, approvals, consumed, disclosed>>

\* Mutant of MayDecide: the requester is not told from the approver.
MayDecideAnyone(u) == row.status = "pending"

\* The checks of approveUnmask on the row it has read.
MayDecide(u) == row.status = "pending" /\ row.requester # u

\* approveUnmask up to its transaction: findUnique, the checks, the new grant.
ApproveRead(k, u, approved) ==
  /\ call[k].pc = "start"
  /\ row.status # "none"
  /\ call' = [call EXCEPT ![k] =
       IF ~MayDecide(u) THEN Done
       ELSE IF approved
       THEN [pc |-> "approving", actor |-> u, expires |-> GrantExpiry(now)]
       ELSE [pc |-> "rejecting", actor |-> u]]
  /\ UNCHANGED <<row, now, audit, approvals, consumed, disclosed>>

\* The transaction of an approval.  The update is by id alone: whatever the row
\* has become since it was read, it is approved with a fresh grant.
ApproveCommit(k) ==
  /\ call[k].pc = "approving"
  /\ row' = [row EXCEPT !.status = "approved", !.approver = call[k].actor,
                        !.grant = k, !.expires = call[k].expires]
  /\ audit' = audit \cup {[call |-> k, action |-> "unmask_approved",
                           actor |-> call[k].actor, approver |-> NoUser]}
  /\ approvals' = approvals \cup {k}
  /\ Finish(k)
  /\ UNCHANGED <<now, consumed, disclosed>>

\* The transaction of a rejection, by id alone as well.
RejectCommit(k) ==
  /\ call[k].pc = "rejecting"
  /\ row' = [row EXCEPT !.status = "rejected", !.approver = call[k].actor]
  /\ audit' = audit \cup {[call |-> k, action |-> "unmask_rejected",
                           actor |-> call[k].actor, approver |-> NoUser]}
  /\ Finish(k)
  /\ UNCHANGED <<now, approvals, consumed, disclosed>>

\* revealUnmask, the read and the checks on it: status, expiry, then the token.
RevealRead(k, u, token) ==
  /\ call[k].pc = "start"
  /\ row.status # "none"
  /\ call' = [call EXCEPT ![k] =
       IF row.status # "approved" THEN Done
       ELSE IF row.expires < now THEN [pc |-> "expiring"]
       ELSE IF token = NoGrant \/ token # row.grant THEN Done
       ELSE [pc |-> "consuming", actor |-> u, grant |-> token,
             approver |-> row.approver]]
  /\ UNCHANGED <<row, now, audit, approvals, consumed, disclosed>>

\* The lapsed grant is marked, by id alone, and the reveal refused.
RevealExpire(k) ==
  /\ call[k].pc = "expiring"
  /\ row' = [row EXCEPT !.status = "expired"]
  /\ Finish(k)
  /\ UNCHANGED <<now, audit, approvals, consumed, disclosed>>

\* Mutant of RevealConsume: the update is by id alone.
RevealConsumeById(k) ==
  /\ call[k].pc = "consuming"
  /\ row' = [row EXCEPT !.status = "revealed"]
  /\ consumed' = consumed \cup {k}
  /\ call' = [call EXCEPT ![k].pc = "consumed"]
  /\ UNCHANGED <<now, audit, approvals, disclosed>>

\* PEN-012: updateMany where status = 'approved'; the count decides.
RevealConsume(k) ==
  /\ call[k].pc = "consuming"
  /\ IF row.status = "approved"
     THEN /\ row' = [row EXCEPT !.status = "revealed"]
          /\ consumed' = consumed \cup {k}
          /\ call' = [call EXCEPT ![k].pc = "consumed"]
     ELSE /\ Finish(k)
          /\ UNCHANGED <<row, consumed>>
  /\ UNCHANGED <<now, audit, approvals, disclosed>>

\* Mutant of RevealAudit: the approver is read again from the row.
RevealAuditReread(k) ==
  /\ call[k].pc = "consumed"
  /\ audit' = audit \cup {[call |-> k, action |-> "unmask", actor |-> call[k].actor,
                           approver |-> row.approver]}
  /\ disclosed' = disclosed \cup
       {[call |-> k, actor |-> call[k].actor, grant |-> call[k].grant]}
  /\ Finish(k)
  /\ UNCHANGED <<row, now, approvals, consumed>>

\* The fields are decrypted, the audit row committed, and only then returned.
RevealAudit(k) ==
  /\ call[k].pc = "consumed"
  /\ audit' = audit \cup {[call |-> k, action |-> "unmask", actor |-> call[k].actor,
                           approver |-> call[k].approver]}
  /\ disclosed' = disclosed \cup
       {[call |-> k, actor |-> call[k].actor, grant |-> call[k].grant]}
  /\ Finish(k)
  /\ UNCHANGED <<row, now, approvals, consumed>>

\* A handler ends between two of its steps: the target row is gone or not the
\* org's, a field does not decrypt, a transaction fails, the process dies.
Fail(k) ==
  /\ call[k].pc \notin {"start", "done"}
  /\ Finish(k)
  /\ UNCHANGED <<row, now, audit, approvals, consumed, disclosed>>

Tick ==
  /\ now < MaxTime
  /\ now' = now + 1
  /\ UNCHANGED <<row, call, audit, approvals, consumed, disclosed>>

Next ==
  \/ \E k \in Calls, u \in Users :
       \/ RequestUnmask(k, u)
       \/ \E approved \in BOOLEAN : ApproveRead(k, u, approved)
       \/ \E token \in Tokens : RevealRead(k, u, token)
  \/ \E k \in Calls :
       \/ ApproveCommit(k) \/ RejectCommit(k)
       \/ RevealExpire(k) \/ RevealConsume(k) \/ RevealAudit(k)
       \/ Fail(k)
  \/ Tick

Spec == Init /\ [][Next]_vars
-----------------------------------------------------------------------------
Actors == Users \cup {NoUser}

RowType == [status : Statuses, requester : Actors, approver : Actors,
            grant : Tokens, expires : Times]

CallType ==
  {Start, Done}
    \cup [pc : {"approving"}, actor : Users, expires : Times]
    \cup [pc : {"rejecting"}, actor : Users]
    \cup [pc : {"expiring"}]
    \cup [pc : {"consuming", "consumed"}, actor : Users, grant : Calls,
          approver : Actors]

AuditType ==
  [call : Calls, actor : Users, approver : Actors,
   action : {"unmask_requested", "unmask_approved", "unmask_rejected", "unmask"}]

TypeOK ==
  /\ row \in RowType
  /\ call \in [Calls -> CallType]
  /\ now \in 0 .. MaxTime
  /\ audit \subseteq AuditType
  /\ approvals \subseteq Calls
  /\ consumed \subseteq Calls
  /\ disclosed \subseteq [call : Calls, actor : Users, grant : Calls]

\* Two persons: plaintext is returned only under an approval, on record in the
\* audit log, by somebody other than the requester.
TwoPersons ==
  \A d \in disclosed :
    \E a \in audit : /\ a.action = "unmask_approved" /\ a.call = d.grant
                     /\ a.actor # row.requester

\* No plaintext without its audit row: whoever saw the fields is on record,
\* under the approver that minted the very grant they presented, even when a
\* second approval has replaced approver and grant in the row meanwhile.
DisclosureOnRecord ==
  \A d \in disclosed :
    \E a \in audit, m \in audit :
      /\ a.call = d.call /\ a.action = "unmask" /\ a.actor = d.actor
      /\ m.call = d.grant /\ m.action = "unmask_approved"
      /\ a.approver = m.actor

\* The compare-and-set admits at most one reveal per committed approval, over
\* all interleavings of approvals, rejections, expiries and reveals.
RevealsBoundedByApprovals == Cardinality(consumed) <= Cardinality(approvals)
=============================================================================
