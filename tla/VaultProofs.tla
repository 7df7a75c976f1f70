----------------------------- MODULE VaultProofs -----------------------------
(***************************************************************************)
(* The two users of the PII vault, for every number of handlers.           *)
(* PiiUnmask: its types, the two-person rule, the audit trail of every     *)
(* disclosure, and the bound the compare-and-set puts on reveals.          *)
(* MarketingJob: the credential a connection stores can be opened, and     *)
(* what the poller and the webhook record is recorded once.                *)
(***************************************************************************)
EXTENDS PiiUnmask, MarketingJob, FiniteSetTheorems, TLAPS

-----------------------------------------------------------------------------
\* The two-person unmask (PiiUnmask).

\* What a handler carries while its approval, its rejection or its reveal is
\* under way.
LEMMA CallShapes ==
  ASSUME TypeOK, NEW k \in Calls
  PROVE  /\ call[k].pc = "approving" => call[k].actor \in Users /\ call[k].expires \in Times
         /\ call[k].pc = "rejecting" => call[k].actor \in Users
         /\ call[k].pc \in {"consuming", "consumed"} =>
              call[k] \in [pc : {"consuming", "consumed"}, actor : Users,
                           grant : Calls, approver : Actors]
<1>1. call[k] \in CallType
  BY DEF TypeOK
<1>2. CASE call[k] \in [pc : {"approving"}, actor : Users, expires : Times]
  BY <1>2
<1>3. CASE call[k] \in [pc : {"rejecting"}, actor : Users]
  BY <1>3
<1>4. CASE call[k] \in [pc : {"consuming", "consumed"}, actor : Users, grant : Calls,
                        approver : Actors]
  BY <1>4
<1>5. CASE call[k] \in {Start, Done} \cup [pc : {"expiring"}]
  BY <1>5 DEF Start, Done
<1> QED
  BY <1>1, <1>2, <1>3, <1>4, <1>5 DEF CallType

\* The types hold in the initial state.
LEMMA InitTyped == Init => TypeOK
BY UnmaskAssumption
   DEF Init, TypeOK, RowType, CallType, Start, Statuses, Actors, Tokens, Times

\* The types are kept by every step: no handler writes anything but a status, a
\* user, a minted token or a time to the row.
LEMMA NextTyped == TypeOK /\ [Next]_vars => TypeOK'
<1> SUFFICES ASSUME TypeOK, [Next]_vars PROVE TypeOK'
  OBVIOUS
<1>a. /\ row \in RowType
      /\ call \in [Calls -> CallType]
      /\ now \in 0 .. MaxTime
      /\ audit \subseteq AuditType
      /\ approvals \subseteq Calls
      /\ consumed \subseteq Calls
      /\ disclosed \subseteq [call : Calls, actor : Users, grant : Calls]
  BY DEF TypeOK
<1>b. /\ row.requester \in Actors /\ row.approver \in Actors /\ row.grant \in Tokens
      /\ row.expires \in Times
  BY <1>a DEF RowType
<1>c. Done \in CallType
  BY DEF CallType
<1>d. ASSUME NEW k \in Calls, Finish(k) PROVE call' \in [Calls -> CallType]
  BY <1>a, <1>c, <1>d DEF Finish
<1>1. ASSUME NEW k \in Calls, NEW u \in Users, RequestUnmask(k, u) PROVE TypeOK'
  <2>1. row' \in RowType
    BY <1>a, <1>1 DEF RequestUnmask, RowType, Statuses, Actors
  <2>2. audit' \subseteq AuditType
    BY <1>a, <1>1 DEF RequestUnmask, AuditType, Actors
  <2> QED
    BY <1>a, <1>d, <1>1, <2>1, <2>2 DEF RequestUnmask, TypeOK
<1>2. ASSUME NEW k \in Calls, NEW u \in Users, NEW b \in BOOLEAN, ApproveRead(k, u, b)
      PROVE TypeOK'
  <2>1. GrantExpiry(now) \in Times
    BY <1>a, UnmaskAssumption DEF GrantExpiry, Times
  <2>2. /\ [pc |-> "approving", actor |-> u, expires |-> GrantExpiry(now)] \in CallType
        /\ [pc |-> "rejecting", actor |-> u] \in CallType
    BY <2>1 DEF CallType
  <2>3. call' \in [Calls -> CallType]
    BY <1>a, <1>c, <1>2, <2>2 DEF ApproveRead
  <2> QED
    BY <1>a, <1>2, <2>3 DEF ApproveRead, TypeOK
<1>3. ASSUME NEW k \in Calls, NEW u \in Users, NEW g \in Tokens, RevealRead(k, u, g)
      PROVE TypeOK'
  <2>1. [pc |-> "expiring"] \in CallType
    BY DEF CallType
  <2>2. g # NoGrant =>
          [pc |-> "consuming", actor |-> u, grant |-> g, approver |-> row.approver]
            \in CallType
    BY <1>b DEF CallType, Tokens
  <2>3. call' \in [Calls -> CallType]
    BY <1>a, <1>c, <1>3, <2>1, <2>2 DEF RevealRead
  <2> QED
    BY <1>a, <1>3, <2>3 DEF RevealRead, TypeOK
<1>4. ASSUME NEW k \in Calls, ApproveCommit(k) PROVE TypeOK'
  <2>1. call[k].actor \in Users /\ call[k].expires \in Times
    BY <1>4, CallShapes DEF ApproveCommit
  <2>2. row' \in RowType
    BY <1>a, <1>4, <2>1 DEF ApproveCommit, RowType, Statuses, Actors, Tokens
  <2>3. audit' \subseteq AuditType
    BY <1>a, <1>4, <2>1 DEF ApproveCommit, AuditType, Actors
  <2> QED
    BY <1>a, <1>d, <1>4, <2>2, <2>3 DEF ApproveCommit, TypeOK
<1>5. ASSUME NEW k \in Calls, RejectCommit(k) PROVE TypeOK'
  <2>1. call[k].actor \in Users
    BY <1>5, CallShapes DEF RejectCommit
  <2>2. row' \in RowType
    BY <1>a, <1>5, <2>1 DEF RejectCommit, RowType, Statuses, Actors
  <2>3. audit' \subseteq AuditType
    BY <1>a, <1>5, <2>1 DEF RejectCommit, AuditType, Actors
  <2> QED
    BY <1>a, <1>d, <1>5, <2>2, <2>3 DEF RejectCommit, TypeOK
<1>6. ASSUME NEW k \in Calls, RevealExpire(k) PROVE TypeOK'
  <2>1. row' \in RowType
    BY <1>a, <1>6 DEF RevealExpire, RowType, Statuses
  <2> QED
    BY <1>a, <1>d, <1>6, <2>1 DEF RevealExpire, TypeOK
<1>7. ASSUME NEW k \in Calls, RevealConsume(k) PROVE TypeOK'
  <2>1. CASE row.status = "approved"
    <3>1. row' \in RowType
      BY <1>a, <1>7, <2>1 DEF RevealConsume, RowType, Statuses
    <3>2. [call[k] EXCEPT !.pc = "consumed"] \in CallType
      BY <1>7, CallShapes DEF RevealConsume, CallType
    <3>3. call' \in [Calls -> CallType]
      BY <1>a, <1>7, <2>1, <3>2 DEF RevealConsume
    <3> QED
      BY <1>a, <1>7, <2>1, <3>1, <3>3 DEF RevealConsume, TypeOK
  <2>2. CASE row.status # "approved"
    BY <1>a, <1>d, <1>7, <2>2 DEF RevealConsume, TypeOK
  <2> QED
    BY <2>1, <2>2
<1>8. ASSUME NEW k \in Calls, RevealAudit(k) PROVE TypeOK'
  <2>1. call[k].actor \in Users /\ call[k].grant \in Calls /\ call[k].approver \in Actors
    BY <1>8, CallShapes DEF RevealAudit
  <2>2. audit' \subseteq AuditType
    BY <1>a, <1>8, <2>1 DEF RevealAudit, AuditType
  <2>3. disclosed' \subseteq [call : Calls, actor : Users, grant : Calls]
    BY <1>a, <1>8, <2>1 DEF RevealAudit
  <2> QED
    BY <1>a, <1>d, <1>8, <2>2, <2>3 DEF RevealAudit, TypeOK
<1>9. ASSUME NEW k \in Calls, Fail(k) PROVE TypeOK'
  BY <1>a, <1>d, <1>9 DEF Fail, TypeOK
<1>10. CASE Tick
  BY <1>10, <1>a, UnmaskAssumption DEF Tick, TypeOK
<1>11. CASE UNCHANGED vars
  BY <1>11, <1>a DEF vars, TypeOK
<1> QED
  BY <1>1, <1>2, <1>3, <1>4, <1>5, <1>6, <1>7, <1>8, <1>9, <1>10, <1>11 DEF Next

\* The row, the clock, the handlers and the audit log keep their types in every
\* behaviour of the service.
THEOREM UnmaskTypeCorrect == Spec => []TypeOK
BY InitTyped, NextTyped, PTL DEF Spec
-----------------------------------------------------------------------------
\* m records the approval that minted grant g.
Minted(m, g) == m.call = g /\ m.action = "unmask_approved"

\* Nothing has been decided on a request that does not exist.
NoneInv == row.status = "none" =>
  /\ \A k \in Calls : call[k].pc \in {"start", "done"}
  /\ audit = {}

\* Whoever approves, or is about to, is not the requester.
ApproverInv ==
  /\ \A k \in Calls : call[k].pc = "approving" => call[k].actor # row.requester
  /\ \A a \in audit : a.action = "unmask_approved" => a.actor # row.requester

\* The approver named beside a usable grant is the one who minted it, in the row
\* and in what a reveal carries over its awaits.
GrantInv ==
  /\ row.status = "approved" =>
       \E m \in audit : Minted(m, row.grant) /\ m.actor = row.approver
  /\ \A k \in Calls : call[k].pc \in {"consuming", "consumed"} =>
       \E m \in audit : Minted(m, call[k].grant) /\ m.actor = call[k].approver

\* An approved row is an approval that no reveal has consumed yet.
CountInv ==
  /\ \A k \in Calls : call[k].pc # "done" => k \notin approvals
  /\ Cardinality(consumed) + (IF row.status = "approved" THEN 1 ELSE 0)
       <= Cardinality(approvals)

IInv == TypeOK /\ NoneInv /\ ApproverInv /\ GrantInv /\ CountInv /\ DisclosureOnRecord

\* The strengthened invariant holds in the initial state.
LEMMA InitIInv == Init => IInv
<1> SUFFICES ASSUME Init PROVE IInv
  OBVIOUS
<1>1. CountInv
  BY FS_EmptySet DEF Init, CountInv, Start
<1>2. NoneInv /\ ApproverInv /\ GrantInv /\ DisclosureOnRecord
  BY DEF Init, NoneInv, ApproverInv, GrantInv, DisclosureOnRecord, Start
<1> QED
  BY <1>1, <1>2, InitTyped DEF IInv

\* A request that exists stays, with its requester, and audit rows stay.
LEMMA RowStays ==
  ASSUME IInv, Next
  PROVE  /\ row.status # "none" => row'.status # "none" /\ row'.requester = row.requester
         /\ audit \subseteq audit'
<1> USE DEF IInv, TypeOK, RowType
<1>1. ASSUME NEW k \in Calls, NEW u \in Users, RequestUnmask(k, u)
      PROVE  row.status = "none" /\ audit \subseteq audit'
  BY <1>1 DEF RequestUnmask
<1>2. ASSUME NEW k \in Calls, ApproveCommit(k) \/ RejectCommit(k) \/ RevealExpire(k)
                              \/ RevealConsume(k) \/ RevealAudit(k) \/ Fail(k)
      PROVE  row'.status # "none" \/ row' = row
  BY <1>2 DEF ApproveCommit, RejectCommit, RevealExpire, RevealConsume, RevealAudit, Fail
<1>3. ASSUME NEW k \in Calls, ApproveCommit(k) \/ RejectCommit(k) \/ RevealExpire(k)
                              \/ RevealConsume(k) \/ RevealAudit(k) \/ Fail(k)
      PROVE  row'.requester = row.requester /\ audit \subseteq audit'
  BY <1>3 DEF ApproveCommit, RejectCommit, RevealExpire, RevealConsume, RevealAudit, Fail
<1> QED
  BY <1>1, <1>2, <1>3 DEF Next, ApproveRead, RevealRead, Tick

\* Decisions follow the request: nothing is under way on a missing row.
LEMMA NoneKept == ASSUME IInv, Next PROVE NoneInv'
<1> SUFFICES ASSUME row'.status = "none"
             PROVE  (\A k \in Calls : call[k].pc \in {"start", "done"})' /\ audit' = {}
  BY DEF NoneInv
<1>1. row.status = "none"
  BY RowStays
<1>2. (\A k \in Calls : call[k].pc \in {"start", "done"}) /\ audit = {}
  BY <1>1 DEF IInv, NoneInv
<1>3. call \in [Calls -> CallType]
  BY DEF IInv, TypeOK
<1>4. ASSUME NEW k \in Calls, NEW u \in Users, RequestUnmask(k, u) PROVE FALSE
  BY <1>4 DEF RequestUnmask, IInv, TypeOK, RowType
<1>5. ASSUME NEW k \in Calls, ApproveCommit(k) \/ RejectCommit(k) \/ RevealExpire(k)
                              \/ RevealConsume(k) \/ RevealAudit(k) \/ Fail(k)
      PROVE  FALSE
  BY <1>2, <1>5
     DEF ApproveCommit, RejectCommit, RevealExpire, RevealConsume, RevealAudit, Fail
<1> QED
  BY <1>1, <1>2, <1>4, <1>5 DEF Next, ApproveRead, RevealRead, Tick

\* The two-person check made before the await still holds at the commit: the
\* requester of a row never changes.
LEMMA ApproverKept == ASSUME IInv, Next PROVE ApproverInv'
<1> USE DEF IInv
<1>a. call \in [Calls -> CallType]
  BY DEF TypeOK
<1>b. CASE row.status = "none"
  <2>1. \A k \in Calls : call[k].pc \in {"start", "done"}
    BY <1>b DEF NoneInv
  <2>2. audit = {}
    BY <1>b DEF NoneInv
  <2>3. ASSUME NEW k \in Calls, NEW u \in Users, RequestUnmask(k, u) PROVE ApproverInv'
    BY <1>a, <2>1, <2>2, <2>3 DEF RequestUnmask, Finish, Done, ApproverInv
  <2>4. CASE Tick
    BY <2>1, <2>2, <2>4 DEF Tick, ApproverInv
  <2>5. ASSUME NEW k \in Calls, ApproveCommit(k) \/ RejectCommit(k) \/ RevealExpire(k)
                                \/ RevealConsume(k) \/ RevealAudit(k) \/ Fail(k)
        PROVE  FALSE
    BY <2>1, <2>5
       DEF ApproveCommit, RejectCommit, RevealExpire, RevealConsume, RevealAudit, Fail
  <2> QED
    BY <1>b, <2>3, <2>4, <2>5 DEF Next, ApproveRead, RevealRead
<1>c. CASE row.status # "none"
  <2>a. row'.requester = row.requester
    BY <1>c, RowStays
  <2>b. ASSUME NEW k \in Calls, Finish(k), UNCHANGED audit PROVE ApproverInv'
    BY <1>a, <2>a, <2>b DEF Finish, Done, ApproverInv
  <2>1. ASSUME NEW k \in Calls, NEW u \in Users, RequestUnmask(k, u) PROVE FALSE
    BY <1>c, <2>1 DEF RequestUnmask
  <2>2. ASSUME NEW k \in Calls, NEW u \in Users, NEW b \in BOOLEAN, ApproveRead(k, u, b)
        PROVE  ApproverInv'
    BY <1>a, <2>a, <2>2 DEF ApproveRead, MayDecide, Done, ApproverInv
  <2>3. ASSUME NEW k \in Calls, NEW u \in Users, NEW g \in Tokens, RevealRead(k, u, g)
        PROVE  ApproverInv'
    BY <1>a, <2>a, <2>3 DEF RevealRead, Done, ApproverInv
  <2>4. ASSUME NEW k \in Calls, ApproveCommit(k) PROVE ApproverInv'
    BY <1>a, <2>a, <2>4 DEF ApproveCommit, Finish, Done, ApproverInv
  <2>5. ASSUME NEW k \in Calls, RejectCommit(k) PROVE ApproverInv'
    BY <1>a, <2>a, <2>5 DEF RejectCommit, Finish, Done, ApproverInv
  <2>6. ASSUME NEW k \in Calls, RevealExpire(k) PROVE ApproverInv'
    BY <2>b, <2>6 DEF RevealExpire
  <2>7. ASSUME NEW k \in Calls, RevealConsume(k) PROVE ApproverInv'
    <3>1. call[k] \in [pc : {"consuming", "consumed"}, actor : Users, grant : Calls,
                       approver : Actors]
      BY <2>7, CallShapes DEF RevealConsume
    <3>2. \A j \in Calls : call'[j].pc = "approving" => call'[j] = call[j]
      BY <1>a, <2>7, <3>1 DEF RevealConsume, Finish, Done
    <3> QED
      BY <2>a, <2>7, <3>2 DEF RevealConsume, ApproverInv
  <2>8. ASSUME NEW k \in Calls, RevealAudit(k) PROVE ApproverInv'
    BY <1>a, <2>a, <2>8 DEF RevealAudit, Finish, Done, ApproverInv
  <2>9. ASSUME NEW k \in Calls, Fail(k) PROVE ApproverInv'
    BY <2>b, <2>9 DEF Fail
  <2>10. CASE Tick
    BY <2>a, <2>10 DEF Tick, ApproverInv
  <2> QED
    BY <2>1, <2>2, <2>3, <2>4, <2>5, <2>6, <2>7, <2>8, <2>9, <2>10 DEF Next
<1> QED
  BY <1>b, <1>c

\* The approver beside a grant is its minter, in the row while it is approved and
\* in every reveal that has passed its checks: each approval writes both.
LEMMA GrantKept == ASSUME IInv, Next PROVE GrantInv'
<1> USE DEF IInv
<1>a. call \in [Calls -> CallType] /\ row \in RowType
  BY DEF TypeOK
<1>b. audit \subseteq audit'
  BY RowStays
<1>c. ASSUME row' = row \/ row'.status # "approved",
             \A j \in Calls : call'[j].pc \in {"consuming", "consumed"} =>
               /\ call[j].pc \in {"consuming", "consumed"}
               /\ call'[j].grant = call[j].grant /\ call'[j].approver = call[j].approver
      PROVE  GrantInv'
  BY <1>b, <1>c DEF GrantInv, Minted
<1>d. ASSUME NEW k \in Calls, Finish(k)
      PROVE  \A j \in Calls : call'[j].pc \in {"consuming", "consumed"} =>
               call[j].pc \in {"consuming", "consumed"} /\ call'[j] = call[j]
  BY <1>a, <1>d DEF Finish, Done
<1>1. ASSUME NEW k \in Calls, NEW u \in Users, RequestUnmask(k, u) PROVE GrantInv'
  <2>1. row'.status # "approved"
    BY <1>a, <1>1 DEF RequestUnmask, RowType
  <2> QED
    BY <1>c, <1>d, <1>1, <2>1 DEF RequestUnmask
<1>2. ASSUME NEW k \in Calls, NEW u \in Users, NEW b \in BOOLEAN, ApproveRead(k, u, b)
      PROVE  GrantInv'
  <2>1. \A j \in Calls : call'[j].pc \in {"consuming", "consumed"} => call'[j] = call[j]
    BY <1>a, <1>2 DEF ApproveRead, Done
  <2> QED
    BY <1>c, <1>2, <2>1 DEF ApproveRead
<1>3. ASSUME NEW k \in Calls, NEW u \in Users, NEW g \in Tokens, RevealRead(k, u, g)
      PROVE  GrantInv'
  <2>1. ASSUME NEW j \in Calls, call'[j].pc \in {"consuming", "consumed"}
        PROVE  \E m \in audit' : Minted(m, call'[j].grant) /\ m.actor = call'[j].approver
    <3>1. CASE j # k
      BY <1>a, <1>3, <2>1, <3>1 DEF RevealRead, GrantInv
    <3>2. CASE j = k
      <4>1. row.status = "approved" /\ call'[k].grant = row.grant
                                    /\ call'[k].approver = row.approver
        BY <1>a, <1>3, <2>1, <3>2 DEF RevealRead, Done
      <4> QED
        BY <1>3, <3>2, <4>1 DEF RevealRead, GrantInv
    <3> QED
      BY <3>1, <3>2
  <2> QED
    BY <1>3, <2>1 DEF RevealRead, GrantInv
<1>4. ASSUME NEW k \in Calls, ApproveCommit(k) PROVE GrantInv'
  <2>1. row'.grant = k /\ row'.approver = call[k].actor
    BY <1>a, <1>4 DEF ApproveCommit, RowType
  <2> DEFINE new == [call |-> k, action |-> "unmask_approved", actor |-> call[k].actor,
                     approver |-> NoUser]
  <2>a. new \in audit' /\ new.call = k /\ new.action = "unmask_approved"
        /\ new.actor = call[k].actor
    BY <1>4 DEF ApproveCommit
  <2> HIDE DEF new
  <2>2. \E m \in audit' : Minted(m, row'.grant) /\ m.actor = row'.approver
    BY <2>1, <2>a DEF Minted
  <2>3. \A j \in Calls : call'[j].pc \in {"consuming", "consumed"} =>
          \E m \in audit' : Minted(m, call'[j].grant) /\ m.actor = call'[j].approver
    BY <1>b, <1>d, <1>4 DEF ApproveCommit, GrantInv
  <2> QED
    BY <2>2, <2>3 DEF GrantInv, Minted
<1>5. ASSUME NEW k \in Calls, RejectCommit(k) PROVE GrantInv'
  <2>1. row'.status # "approved"
    BY <1>a, <1>5 DEF RejectCommit, RowType
  <2> QED
    BY <1>c, <1>d, <1>5, <2>1 DEF RejectCommit
<1>6. ASSUME NEW k \in Calls, RevealExpire(k) PROVE GrantInv'
  <2>1. row'.status # "approved"
    BY <1>a, <1>6 DEF RevealExpire, RowType
  <2> QED
    BY <1>c, <1>d, <1>6, <2>1 DEF RevealExpire
<1>7. ASSUME NEW k \in Calls, RevealConsume(k) PROVE GrantInv'
  <2>1. row' = row \/ row'.status # "approved"
    BY <1>a, <1>7 DEF RevealConsume, RowType
  <2>2. call[k].pc = "consuming"
    BY <1>7 DEF RevealConsume
  <2>3. call[k] \in [pc : {"consuming", "consumed"}, actor : Users, grant : Calls,
                     approver : Actors]
    BY <2>2, CallShapes
  <2>4. \A j \in Calls : call'[j].pc \in {"consuming", "consumed"} =>
          /\ call[j].pc \in {"consuming", "consumed"}
          /\ call'[j].grant = call[j].grant /\ call'[j].approver = call[j].approver
    BY <1>a, <1>d, <1>7, <2>2, <2>3 DEF RevealConsume
  <2> QED
    BY <1>c, <2>1, <2>4
<1>8. ASSUME NEW k \in Calls, RevealAudit(k) PROVE GrantInv'
  BY <1>c, <1>d, <1>8 DEF RevealAudit
<1>9. ASSUME NEW k \in Calls, Fail(k) PROVE GrantInv'
  BY <1>c, <1>d, <1>9 DEF Fail
<1>10. CASE Tick
  BY <1>c, <1>10 DEF Tick
<1> QED
  BY <1>1, <1>2, <1>3, <1>4, <1>5, <1>6, <1>7, <1>8, <1>9, <1>10 DEF Next

\* Every approval adds one usable grant at most, every consumption removes one.
LEMMA CountKept == ASSUME IInv, Next PROVE CountInv'
<1> USE DEF IInv
<1>a. call \in [Calls -> CallType] /\ row \in RowType
  BY DEF TypeOK
<1>b. /\ IsFiniteSet(approvals) /\ Cardinality(approvals) \in Nat
      /\ IsFiniteSet(consumed) /\ Cardinality(consumed) \in Nat
  BY FS_Subset, FS_CardinalityType, UnmaskAssumption DEF TypeOK
<1>c. ASSUME UNCHANGED <<approvals, consumed>>, row' = row \/ row'.status # "approved",
             \A j \in Calls : call'[j].pc # "done" => call[j].pc # "done"
      PROVE  CountInv'
  BY <1>b, <1>c DEF CountInv
<1>d. ASSUME NEW k \in Calls, Finish(k)
      PROVE  /\ call'[k].pc = "done"
             /\ \A j \in Calls : j # k => call'[j] = call[j]
  BY <1>a, <1>d DEF Finish, Done
<1>1. ASSUME NEW k \in Calls, NEW u \in Users, RequestUnmask(k, u) PROVE CountInv'
  <2>1. row'.status # "approved"
    BY <1>a, <1>1 DEF RequestUnmask, RowType
  <2> QED
    BY <1>c, <1>d, <1>1, <2>1 DEF RequestUnmask
<1>2. ASSUME NEW k \in Calls, NEW u \in Users, NEW b \in BOOLEAN, ApproveRead(k, u, b)
      PROVE  CountInv'
  <2>1. \A j \in Calls : call'[j].pc # "done" => call[j].pc # "done"
    BY <1>a, <1>2 DEF ApproveRead
  <2> QED
    BY <1>c, <1>2, <2>1 DEF ApproveRead
<1>3. ASSUME NEW k \in Calls, NEW u \in Users, NEW g \in Tokens, RevealRead(k, u, g)
      PROVE  CountInv'
  <2>1. \A j \in Calls : call'[j].pc # "done" => call[j].pc # "done"
    BY <1>a, <1>3 DEF RevealRead
  <2> QED
    BY <1>c, <1>3, <2>1 DEF RevealRead
<1>4. ASSUME NEW k \in Calls, ApproveCommit(k) PROVE CountInv'
  <2>1. k \notin approvals
    BY <1>4 DEF ApproveCommit, CountInv
  <2>2. Cardinality(approvals') = Cardinality(approvals) + 1
    BY <1>b, <1>4, <2>1, FS_AddElement DEF ApproveCommit
  <2>3. Cardinality(consumed') <= Cardinality(approvals) /\ consumed' = consumed
    BY <1>b, <1>4 DEF ApproveCommit, CountInv
  <2>4. \A j \in Calls : call'[j].pc # "done" => j \notin approvals'
    BY <1>d, <1>4 DEF ApproveCommit, CountInv
  <2> QED
    BY <1>b, <2>2, <2>3, <2>4 DEF CountInv
<1>5. ASSUME NEW k \in Calls, RejectCommit(k) PROVE CountInv'
  <2>1. row'.status # "approved"
    BY <1>a, <1>5 DEF RejectCommit, RowType
  <2> QED
    BY <1>c, <1>d, <1>5, <2>1 DEF RejectCommit
<1>6. ASSUME NEW k \in Calls, RevealExpire(k) PROVE CountInv'
  <2>1. row'.status # "approved"
    BY <1>a, <1>6 DEF RevealExpire, RowType
  <2> QED
    BY <1>c, <1>d, <1>6, <2>1 DEF RevealExpire
<1>7. ASSUME NEW k \in Calls, RevealConsume(k) PROVE CountInv'
  <2>0. call[k].pc = "consuming" /\ approvals' = approvals
    BY <1>7 DEF RevealConsume
  <2>1. CASE row.status = "approved"
    <3>0. consumed' = consumed \cup {k}
      BY <1>7, <2>1 DEF RevealConsume
    <3>1. Cardinality(consumed') <= Cardinality(consumed) + 1 /\ Cardinality(consumed') \in Nat
      <4>1. Cardinality(consumed \cup {k}) =
              IF k \in consumed THEN Cardinality(consumed) ELSE Cardinality(consumed) + 1
        BY <1>b, FS_AddElement
      <4> QED
        BY <1>b, <3>0, <4>1
    <3>2. row'.status # "approved"
      BY <1>a, <1>7, <2>1 DEF RevealConsume, RowType
    <3>3. Cardinality(consumed) + 1 <= Cardinality(approvals)
      BY <2>1 DEF CountInv
    <3>4. \A j \in Calls : call'[j].pc # "done" => j \notin approvals'
      BY <1>a, <1>7, <2>0, <2>1 DEF RevealConsume, CountInv
    <3> QED
      BY <1>b, <2>0, <3>1, <3>2, <3>3, <3>4 DEF CountInv
  <2>2. CASE row.status # "approved"
    BY <1>c, <1>d, <1>7, <2>2 DEF RevealConsume
  <2> QED
    BY <2>1, <2>2
<1>8. ASSUME NEW k \in Calls, RevealAudit(k) PROVE CountInv'
  BY <1>c, <1>d, <1>8 DEF RevealAudit
<1>9. ASSUME NEW k \in Calls, Fail(k) PROVE CountInv'
  BY <1>c, <1>d, <1>9 DEF Fail
<1>10. CASE Tick
  BY <1>c, <1>10 DEF Tick
<1> QED
  BY <1>1, <1>2, <1>3, <1>4, <1>5, <1>6, <1>7, <1>8, <1>9, <1>10 DEF Next

\* A disclosure is committed together with nothing but its own audit row, and
\* that row names the minter of the grant presented.
LEMMA DisclosureKept == ASSUME IInv, Next PROVE DisclosureOnRecord'
<1> USE DEF IInv
<1>b. audit \subseteq audit'
  BY RowStays
<1>c. ASSUME disclosed' = disclosed PROVE DisclosureOnRecord'
  BY <1>b, <1>c DEF DisclosureOnRecord
<1>1. ASSUME NEW k \in Calls, RevealAudit(k) PROVE DisclosureOnRecord'
  <2>1. PICK m \in audit : Minted(m, call[k].grant) /\ m.actor = call[k].approver
    BY <1>1 DEF RevealAudit, GrantInv
  <2> DEFINE new == [call |-> k, action |-> "unmask", actor |-> call[k].actor,
                     approver |-> call[k].approver]
  <2>2. /\ new \in audit'
        /\ new.call = k /\ new.action = "unmask"
        /\ new.actor = call[k].actor /\ new.approver = m.actor
    BY <1>1, <2>1 DEF RevealAudit
  <2> HIDE DEF new
  <2>3. ASSUME NEW d \in disclosed', d \notin disclosed
        PROVE  d.call = k /\ d.actor = call[k].actor /\ d.grant = call[k].grant
    BY <1>1, <2>3 DEF RevealAudit
  <2>4. ASSUME NEW d \in disclosed'
        PROVE  \E a \in audit', n \in audit' :
                 /\ a.call = d.call /\ a.action = "unmask" /\ a.actor = d.actor
                 /\ n.call = d.grant /\ n.action = "unmask_approved"
                 /\ a.approver = n.actor
    <3>1. CASE d \in disclosed
      BY <1>b, <3>1 DEF DisclosureOnRecord
    <3>2. CASE d \notin disclosed
      BY <1>b, <2>1, <2>2, <2>3, <3>2 DEF Minted
    <3> QED
      BY <3>1, <3>2
  <2> QED
    BY <2>4 DEF DisclosureOnRecord
<1>2. ASSUME NEW k \in Calls, RevealConsume(k) PROVE disclosed' = disclosed
  BY <1>2 DEF RevealConsume
<1> QED
  BY <1>c, <1>1, <1>2
     DEF Next, RequestUnmask, ApproveRead, RevealRead, ApproveCommit, RejectCommit,
         RevealExpire, Fail, Tick

\* The strengthened invariant is inductive.
LEMMA NextIInv == IInv /\ [Next]_vars => IInv'
<1>1. IInv /\ Next => IInv'
  BY NextTyped, NoneKept, ApproverKept, GrantKept, CountKept, DisclosureKept DEF IInv
<1>2. IInv /\ UNCHANGED vars => IInv'
  <2> SUFFICES ASSUME IInv, UNCHANGED vars PROVE IInv'
    OBVIOUS
  <2>1. TypeOK'
    BY NextTyped DEF IInv
  <2>2. (NoneInv /\ ApproverInv /\ GrantInv)'
    BY DEF IInv, vars, NoneInv, ApproverInv, GrantInv
  <2>3. (CountInv /\ DisclosureOnRecord)'
    BY DEF IInv, vars, CountInv, DisclosureOnRecord
  <2> QED
    BY <2>1, <2>2, <2>3 DEF IInv
<1> QED
  BY <1>1, <1>2

\* The strengthened invariant implies what the runs check.
LEMMA IInvImplies == IInv => TwoPersons /\ DisclosureOnRecord /\ RevealsBoundedByApprovals
<1> SUFFICES ASSUME IInv PROVE TwoPersons /\ RevealsBoundedByApprovals
  BY DEF IInv
<1>1. TwoPersons
  BY DEF IInv, DisclosureOnRecord, ApproverInv, TwoPersons
<1>2. Cardinality(consumed) \in Nat /\ Cardinality(approvals) \in Nat
  BY FS_Subset, FS_CardinalityType, UnmaskAssumption DEF IInv, TypeOK
<1>3. RevealsBoundedByApprovals
  BY <1>2 DEF IInv, CountInv, RevealsBoundedByApprovals
<1> QED
  BY <1>1, <1>3

\* Every disclosure was approved, on record, by somebody other than the
\* requester, however the handlers' database round trips interleave.
THEOREM TwoPersonRule == Spec => []TwoPersons
BY InitIInv, NextIInv, IInvImplies, PTL DEF Spec

\* Every disclosure has its audit row, which names the approver whose grant was
\* presented.
THEOREM EveryDisclosureOnRecord == Spec => []DisclosureOnRecord
BY InitIInv, NextIInv, IInvImplies, PTL DEF Spec

\* There are never more reveals than committed approvals.
THEOREM OneRevealPerApproval == Spec => []RevealsBoundedByApprovals
BY InitIInv, NextIInv, IInvImplies, PTL DEF Spec

-----------------------------------------------------------------------------
\* Provider connections, jobs and their events (MarketingJob).

USE JobAssumption

\* What the request h carries at each of its steps.
Carries(h) ==
  LET r == handler[h] IN
  /\ r.pc \in {"creating", "dispatching", "recording"} => r.row \in Connection /\ r.subject \in Jobs
  /\ r.pc = "recording" =>
       /\ r.outcome \in Verdicts \cup {"unnamed"}
       /\ r.outcome = "running" => r.subject \in Async
  /\ r.pc \in {"storing", "stored"} => r.subject \in Events
  /\ r.pc = "stored" => \E e \in events : e.verified /\ e.ext = ExtOf[r.subject]
  /\ r.pc \in {"disconnecting", "pinging"} => conn # NoConn
  /\ r.pc = "connecting" =>
       /\ r.row \in Connection /\ r.row.sealedFor = r.row.id
       /\ r.seen <= connects
       /\ r.seen > 0 => r.row.id = conn.id

\* The requests that have ended: the connects that committed are among them.
Finished == {h \in Handlers : handler[h].pc = "done"}

\* What the connects that have committed left.
Connected ==
  /\ conn = NoConn <=> connects = 0
  /\ connects <= Cardinality(Finished)
  /\ last <= connects

\* An event row has the id of an event just when its signature was right.
Verified == \A e \in events : e.verified <=> e.ext # None

\* The properties, with what a request carries to its last step of each.
JobIInv ==
  /\ JobTypeOK
  /\ VaultReadableUnlessRaced
  /\ EventRecordedOnce
  /\ \A h \in Handlers : Carries(h)
  /\ Connected
  /\ Verified
-----------------------------------------------------------------------------
\* The fields of a connection row, and what an update of its status leaves.
LEMMA ConnectionFacts ==
  ASSUME NEW c \in Connection
  PROVE  /\ c # NoConn
         /\ c.id \in Handlers /\ c.sealedFor \in Handlers /\ c.secret \in Handlers
         /\ c.account \in Accounts
         /\ \A s \in PingStatuses \cup {"disconnected"} :
              LET d == [c EXCEPT !.status = s]
              IN  d \in Connection /\ d.id = c.id /\ d.sealedFor = c.sealedFor
  BY DEF Connection

\* Handlers are finitely many, so their number bounds the connects.
LEMMA HandlersCounted ==
  /\ Cardinality(Handlers) \in Nat
  /\ IsFiniteSet(Finished) /\ Cardinality(Finished) \in Nat
  /\ Cardinality(Finished) <= Cardinality(Handlers)
<1>1. Finished \subseteq Handlers
  BY DEF Finished
<1>. QED
  BY <1>1, FS_Subset, FS_CardinalityType

\* A move of a handler that has not finished leaves the ones that have, and may add it.
LEMMA Moved ==
  ASSUME JobTypeOK, NEW h \in Handlers, NEW next \in HandlerType,
         handler[h].pc # "done", Move(h, next)
  PROVE  /\ handler' \in [Handlers -> HandlerType]
         /\ handler'[h] = next
         /\ \A g \in Handlers : g # h => handler'[g] = handler[g]
         /\ Cardinality(Finished') =
              IF next.pc = "done" THEN Cardinality(Finished) + 1 ELSE Cardinality(Finished)
<1>1. handler \in [Handlers -> HandlerType]
  BY DEF JobTypeOK
<1>2. /\ handler' \in [Handlers -> HandlerType]
      /\ handler'[h] = next
      /\ \A g \in Handlers : g # h => handler'[g] = handler[g]
  BY <1>1 DEF Move
<1>3. CASE next.pc = "done"
  <2>1. Finished' = Finished \cup {h} /\ h \notin Finished
    BY <1>2, <1>3 DEF Finished
  <2>. QED
    BY <2>1, <1>2, <1>3, HandlersCounted, FS_AddElement
<1>4. CASE next.pc # "done"
  <2>1. Finished' = Finished
    BY <1>2, <1>4 DEF Finished
  <2>. QED
    BY <2>1, <1>2, <1>4
<1>. QED
  BY <1>3, <1>4

\* What ends a request, and the one that has not begun.
LEMMA EndedFits ==
  /\ Ended \in HandlerType /\ Ended.pc = "done"
  /\ Idle \in HandlerType /\ Idle \in PollType
<1>1. 0 \in 0 .. Cardinality(Handlers)
  BY HandlersCounted
<1>. QED
  BY <1>1 DEF Ended, Idle, HandlerType, PollType, Call

\* What a handler carries stays true while others move: rows of events are only added, and
\* the connection row keeps its id, whichever connects commit.
LEMMA StillCarries ==
  ASSUME JobIInv, NEW g \in Handlers, handler'[g] = handler[g],
         events \subseteq events', conn # NoConn => conn' # NoConn /\ conn'.id = conn.id,
         connects' \in Nat, connects <= connects'
  PROVE  Carries(g)'
<1>1. Carries(g) /\ connects \in Nat /\ (connects > 0 => conn # NoConn)
  BY HandlersCounted DEF JobIInv, JobTypeOK, Connected
<1>2. handler[g].seen \in Nat
  <2>1. handler[g] \in HandlerType
    BY DEF JobIInv, JobTypeOK
  <2>2. handler[g].seen \in 0 .. Cardinality(Handlers)
    BY <2>1 DEF HandlerType, Call
  <2>. QED
    BY <2>2, HandlersCounted
<1>3. handler[g].pc = "connecting" /\ handler[g].seen > 0 => handler'[g].row.id = conn'.id
  BY <1>1, <1>2 DEF Carries
<1>. QED
  BY <1>1, <1>2, <1>3 DEF Carries
-----------------------------------------------------------------------------
\* A step that leaves the connection and the event rows alone.
LEMMA QuietStep ==
  ASSUME JobIInv, UNCHANGED <<conn, events, acked, connects, last>>,
         jobs' \in [Jobs -> JobType], \A j \in Jobs \ Async : ~jobs'[j].ext,
         verdict' \in [Jobs -> Verdicts \cup {"none"}], mislaid' \subseteq Jobs,
         poll' \in [Pollers -> PollType],
         handler' \in [Handlers -> HandlerType],
         Cardinality(Finished') >= Cardinality(Finished),
         \A g \in Handlers : handler'[g] = handler[g] \/ Carries(g)'
  PROVE  JobIInv'
<1>1. JobTypeOK'
  BY DEF JobIInv, JobTypeOK
<1>2. VaultReadableUnlessRaced' /\ EventRecordedOnce' /\ Verified'
  BY DEF JobIInv, VaultReadableUnlessRaced, Readable, EventRecordedOnce, Verified
<1>3. \A g \in Handlers : Carries(g)'
  <2>1. connects' \in Nat /\ connects <= connects'
    BY HandlersCounted DEF JobIInv, JobTypeOK
  <2>. QED
    BY <2>1, StillCarries
<1>4. Connected'
  <2>1. Cardinality(Finished) \in Nat /\ Cardinality(Finished') \in Nat
    <3>1. IsFiniteSet(Finished') 
      <4>1. Finished' \subseteq Handlers
        BY DEF Finished
      <4>. QED
        BY <4>1, FS_Subset
    <3>. QED
      BY <3>1, HandlersCounted, FS_CardinalityType
  <2>2. connects \in Nat
    BY HandlersCounted DEF JobIInv, JobTypeOK
  <2>. QED
    BY <2>1, <2>2 DEF JobIInv, Connected
<1>. QED
  BY <1>1, <1>2, <1>3, <1>4 DEF JobIInv

\* A step of the provider or of a poll moves no handler.
LEMMA OutsideStep ==
  ASSUME JobIInv, UNCHANGED <<conn, events, acked, connects, last, handler>>,
         jobs' \in [Jobs -> JobType], \A j \in Jobs \ Async : ~jobs'[j].ext,
         verdict' \in [Jobs -> Verdicts \cup {"none"}], mislaid' \subseteq Jobs,
         poll' \in [Pollers -> PollType]
  PROVE  JobIInv'
<1>1. Finished' = Finished /\ Cardinality(Finished) >= Cardinality(Finished)
  BY HandlersCounted DEF Finished
<1>. QED
  BY <1>1, QuietStep DEF JobIInv, JobTypeOK

\* A quiet step of handler h.
LEMMA RequestStep ==
  ASSUME JobIInv, UNCHANGED <<conn, events, acked, connects, last, poll>>,
         jobs' \in [Jobs -> JobType], \A j \in Jobs \ Async : ~jobs'[j].ext,
         verdict' \in [Jobs -> Verdicts \cup {"none"}], mislaid' \subseteq Jobs,
         NEW h \in Handlers, NEW next \in HandlerType,
         handler[h].pc # "done", Move(h, next), Carries(h)'
  PROVE  JobIInv'
<1>1. /\ handler' \in [Handlers -> HandlerType]
      /\ \A g \in Handlers : g # h => handler'[g] = handler[g]
      /\ Cardinality(Finished') >= Cardinality(Finished)
  BY Moved, HandlersCounted DEF JobIInv
<1>2. \A g \in Handlers : handler'[g] = handler[g] \/ Carries(g)'
  BY <1>1
<1>. QED
  BY <1>1, <1>2, QuietStep DEF JobIInv, JobTypeOK
-----------------------------------------------------------------------------
\* A request begins, or a process dies under one.
LEMMA BeginKeeps == ASSUME JobIInv, NEW h \in Handlers, Begin(h) PROVE JobIInv'
<1>1. /\ UNCHANGED <<conn, jobs, verdict, events, poll, acked, mislaid, connects, last>>
      /\ Step(h, "idle")
  BY DEF Begin, ConnectRead, DisconnectRead, StatusRead, GenerateRead, WebhookRead
<1>2. handler[h].pc # "done"
  BY <1>1 DEF Step
<1>3. ASSUME NEW next \in HandlerType, Move(h, next), Carries(h)' PROVE JobIInv'
  BY <1>1, <1>2, <1>3, RequestStep DEF JobIInv, JobTypeOK
<1>4. /\ conn \in Connection \cup {NoConn} /\ handler \in [Handlers -> HandlerType]
      /\ connects \in 0 .. Cardinality(Handlers) /\ 0 \in 0 .. Cardinality(Handlers)
  BY HandlersCounted DEF JobIInv, JobTypeOK
<1>5. ASSUME NEW next \in HandlerType, Move(h, next) PROVE handler'[h] = next
  BY <1>4, <1>5 DEF Move
<1>6. CASE \E a \in Accounts : ConnectRead(h, a)
  <2>1. PICK a \in Accounts : ConnectRead(h, a)
    BY <1>6
  <2>. DEFINE made == [id |-> RowId(h, conn), status |-> "connected",
                      sealedFor |-> RowId(h, conn), account |-> a, secret |-> h]
              next == [Idle EXCEPT !.pc = "connecting", !.seen = connects,
                                   !.outcome = "ready", !.row = made]
  <2>2. RowId(h, conn) \in Handlers /\ (conn # NoConn => RowId(h, conn) = conn.id)
    BY <1>4, ConnectionFacts DEF RowId
  <2>3. made \in Connection /\ made.sealedFor = made.id /\ made.id = RowId(h, conn)
    BY <2>2 DEF Connection, PingStatuses
  <2>. HIDE DEF made
  <2>4. next \in HandlerType /\ next.pc = "connecting" /\ next.row = made /\ next.seen = connects
    BY <1>4, <2>3 DEF Idle, HandlerType, Call, Verdicts
  <2>5. Move(h, next)
    BY <2>1 DEF ConnectRead, made
  <2>. HIDE DEF next
  <2>6. handler'[h] = next
    BY <1>5, <2>4, <2>5
  <2>7. connects \in Nat /\ (connects > 0 => conn # NoConn)
    BY <1>4, HandlersCounted DEF JobIInv, Connected
  <2>8. Carries(h)'
    BY <1>1, <2>2, <2>3, <2>4, <2>6, <2>7 DEF Carries
  <2>. QED
    BY <1>3, <2>4, <2>5, <2>8
<1>7. CASE DisconnectRead(h) \/ StatusRead(h)
  <2>1. PICK pc \in {"disconnecting", "pinging"} :
          Move(h, [Idle EXCEPT !.pc = pc, !.row = conn]) /\ conn # NoConn
    BY <1>7 DEF DisconnectRead, StatusRead, Readable
  <2>. DEFINE next == [Idle EXCEPT !.pc = pc, !.row = conn]
  <2>2. next \in HandlerType /\ next.pc = pc
    BY <1>4 DEF Idle, HandlerType, Call
  <2>. HIDE DEF next
  <2>3. Move(h, next)
    BY <2>1 DEF next
  <2>4. handler'[h] = next
    BY <1>5, <2>2, <2>3
  <2>5. Carries(h)'
    BY <1>1, <2>1, <2>2, <2>4 DEF Carries
  <2>. QED
    BY <1>3, <2>2, <2>3, <2>5
<1>8. CASE \E j \in Jobs : GenerateRead(h, j)
  <2>1. PICK j \in Jobs : GenerateRead(h, j)
    BY <1>8
  <2>. DEFINE next == [Idle EXCEPT !.pc = "creating", !.row = conn, !.subject = j]
  <2>2. next \in HandlerType /\ next.pc = "creating" /\ next.row = conn /\ next.subject = j
    BY <1>4 DEF Idle, HandlerType, Call
  <2>. HIDE DEF next
  <2>3. Move(h, next) /\ conn \in Connection
    BY <2>1, <1>4 DEF next, GenerateRead, Readable
  <2>4. handler'[h] = next
    BY <1>5, <2>2, <2>3
  <2>5. Carries(h)'
    BY <2>2, <2>3, <2>4 DEF Carries
  <2>. QED
    BY <1>3, <2>2, <2>3, <2>5
<1>9. CASE \E e \in Events, secret \in Handlers : WebhookRead(h, e, secret)
  <2>1. PICK e \in Events, secret \in Handlers : WebhookRead(h, e, secret)
    BY <1>9
  <2>2. PICK pc \in {"storing", "refusing"} : Move(h, [Idle EXCEPT !.subject = e, !.pc = pc])
    BY <2>1 DEF WebhookRead
  <2>. DEFINE next == [Idle EXCEPT !.subject = e, !.pc = pc]
  <2>3. next \in HandlerType /\ next.pc = pc /\ next.subject = e
    BY <1>4 DEF Idle, HandlerType, Call
  <2>. HIDE DEF next
  <2>4. Move(h, next)
    BY <2>2 DEF next
  <2>5. handler'[h] = next
    BY <1>5, <2>3, <2>4
  <2>6. Carries(h)'
    BY <2>3, <2>5 DEF Carries
  <2>. QED
    BY <1>3, <2>3, <2>4, <2>6
<1>. QED
  BY <1>6, <1>7, <1>8, <1>9 DEF Begin

\* What may come of a call to the provider: only a video or an avatar is answered as
\* running, and who hears another thing than what was made has no id to poll by.
LEMMA RepliesFit ==
  ASSUME NEW j \in Jobs, NEW account, NEW made, NEW answer,
         <<made, answer>> \in Replies(j, account)
  PROVE  /\ made \in Verdicts /\ answer \in Verdicts \cup {"unnamed"}
         /\ answer = "running" => j \in Async /\ made = "running"
         /\ answer = "ready" => made = "ready"
  BY DEF Replies, Verdicts

\* The steps with a job: its row, the call, and the record of the answer; and a crash.
LEMMA JobStepKeeps ==
  ASSUME JobIInv, NEW h \in Handlers,
         \/ CreateJob(h)
         \/ \E made \in Verdicts, answer \in Verdicts \cup {"unnamed"} :
              Dispatch(h, made, answer)
         \/ RecordJob(h)
         \/ Crash(h)
  PROVE  JobIInv'
<1>. DEFINE r == handler[h]
<1>1. /\ r \in HandlerType /\ Carries(h)
      /\ jobs \in [Jobs -> JobType] /\ \A j \in Jobs \ Async : ~jobs[j].ext
      /\ verdict \in [Jobs -> Verdicts \cup {"none"}]
      /\ handler \in [Handlers -> HandlerType] /\ mislaid \subseteq Jobs
  BY DEF JobIInv, JobTypeOK
<1>2. r.row \in Connection \cup {NoConn}
  BY <1>1 DEF HandlerType, Call
<1>3. /\ UNCHANGED <<conn, events, acked, connects, last, poll>>
      /\ \/ mislaid' = mislaid
         \/ r.pc = "dispatching" /\ mislaid' = mislaid \cup {r.subject}
  BY DEF CreateJob, Dispatch, RecordJob, Crash, Step
<1>3a. mislaid' \subseteq Jobs
  BY <1>1, <1>3 DEF Carries
<1>4. CASE CreateJob(h)
  <2>. DEFINE next == [r EXCEPT !.pc = "dispatching"]
              new == [status |-> "running", ext |-> FALSE, account |-> r.row.account]
  <2>1. r.pc = "creating" /\ r.row \in Connection /\ r.subject \in Jobs
    BY <1>1, <1>4 DEF CreateJob, Step, Carries
  <2>2. /\ next \in HandlerType /\ next.pc = "dispatching"
        /\ next.row = r.row /\ next.subject = r.subject
    BY <1>1 DEF HandlerType, Call
  <2>3. new \in JobType /\ ~new.ext
    BY <2>1, ConnectionFacts DEF JobType, Verdicts
  <2>4. /\ Move(h, next) /\ UNCHANGED verdict
        /\ jobs' = [jobs EXCEPT ![r.subject] = new]
    BY <1>4 DEF CreateJob
  <2>. HIDE DEF next, new
  <2>5. jobs' \in [Jobs -> JobType] /\ \A j \in Jobs \ Async : ~jobs'[j].ext
    BY <1>1, <2>1, <2>3, <2>4
  <2>6. handler'[h] = next
    BY <1>1, <2>2, <2>4 DEF Move
  <2>7. Carries(h)'
    BY <2>1, <2>2, <2>6 DEF Carries
  <2>8. verdict' \in [Jobs -> Verdicts \cup {"none"}]
    BY <1>1, <2>4
  <2>. QED
    BY <1>3, <1>3a, <2>1, <2>2, <2>4, <2>5, <2>7, <2>8, RequestStep
<1>5. CASE \E made \in Verdicts, answer \in Verdicts \cup {"unnamed"} :
             Dispatch(h, made, answer)
  <2>1. PICK made \in Verdicts, answer \in Verdicts \cup {"unnamed"} :
          Dispatch(h, made, answer)
    BY <1>5
  <2>. DEFINE next == [r EXCEPT !.pc = "recording", !.outcome = answer]
  <2>2. r.pc = "dispatching" /\ r.row \in Connection /\ r.subject \in Jobs
    BY <1>1, <2>1 DEF Dispatch, Step, Carries
  <2>3. /\ next \in HandlerType /\ next.pc = "recording" /\ next.outcome = answer
        /\ next.row = r.row /\ next.subject = r.subject
    BY <1>1 DEF HandlerType, Call
  <2>4. /\ Move(h, next) /\ UNCHANGED jobs
        /\ verdict' = [verdict EXCEPT ![r.subject] = made]
        /\ <<made, answer>> \in Replies(r.subject, r.row.account)
    BY <2>1 DEF Dispatch
  <2>. HIDE DEF next
  <2>5. verdict' \in [Jobs -> Verdicts \cup {"none"}]
    BY <1>1, <2>4
  <2>6. handler'[h] = next
    BY <1>1, <2>3, <2>4 DEF Move
  <2>4a. answer = "running" => r.subject \in Async
    BY <2>2, <2>4, RepliesFit
  <2>7. Carries(h)'
    BY <2>2, <2>3, <2>4a, <2>6 DEF Carries
  <2>8. jobs' \in [Jobs -> JobType] /\ \A j \in Jobs \ Async : ~jobs'[j].ext
    BY <1>1, <2>4
  <2>. QED
    BY <1>3, <1>3a, <2>2, <2>3, <2>4, <2>5, <2>7, <2>8, RequestStep
<1>6. CASE RecordJob(h)
  <2>. DEFINE new == Recorded(jobs[r.subject], r.outcome)
  <2>1. /\ r.pc = "recording" /\ r.subject \in Jobs
        /\ r.outcome \in Verdicts \cup {"unnamed"}
        /\ r.outcome = "running" => r.subject \in Async
    BY <1>1, <1>6 DEF RecordJob, Step, Carries
  <2>2. new \in JobType /\ (new.ext => r.subject \in Async)
    <3>1. jobs[r.subject] \in JobType
      BY <1>1, <2>1
    <3>2. (IF r.outcome = "unnamed" THEN "running" ELSE r.outcome) \in Verdicts
      BY <2>1 DEF Verdicts
    <3>3. (r.outcome = "running") \in BOOLEAN
      OBVIOUS
    <3>. QED
      BY <2>1, <3>1, <3>2, <3>3 DEF Recorded, JobType
  <2>3. Move(h, Ended) /\ UNCHANGED verdict /\ jobs' = [jobs EXCEPT ![r.subject] = new]
    BY <1>6 DEF RecordJob, End
  <2>. HIDE DEF new
  <2>4. jobs' \in [Jobs -> JobType] /\ \A j \in Jobs \ Async : ~jobs'[j].ext
    BY <1>1, <2>1, <2>2, <2>3
  <2>5. handler'[h] = Ended
    BY <1>1, <2>3 DEF Move
  <2>6. Carries(h)'
    BY <2>5, EndedFits DEF Carries
  <2>7. verdict' \in [Jobs -> Verdicts \cup {"none"}]
    BY <1>1, <2>3
  <2>. QED
    BY <1>3, <1>3a, <2>1, <2>3, <2>4, <2>6, <2>7, EndedFits, RequestStep
<1>7. CASE Crash(h)
  <2>. DEFINE next == [r EXCEPT !.pc = "dead"]
  <2>1. next \in HandlerType /\ next.pc = "dead"
    BY <1>1 DEF HandlerType, Call
  <2>2. Move(h, next) /\ r.pc # "done" /\ UNCHANGED <<jobs, verdict>>
    BY <1>7 DEF Crash
  <2>. HIDE DEF next
  <2>3. handler'[h] = next
    BY <1>1, <2>1, <2>2 DEF Move
  <2>4. Carries(h)'
    BY <2>1, <2>3 DEF Carries
  <2>. QED
    BY <1>1, <1>3, <1>3a, <2>1, <2>2, <2>4, RequestStep
<1>. QED
  BY <1>4, <1>5, <1>6, <1>7

\* The provider decides, and the polls of its jobs go their way.
LEMMA OutsideKeeps ==
  ASSUME JobIInv,
         \/ \E j \in Jobs : DecideSome(j)
         \/ \E p \in Pollers : PollRead(p) \/ PollAsk(p) \/ PollFail(p) \/ PollWrite(p)
  PROVE  JobIInv'
<1>1. /\ jobs \in [Jobs -> JobType] /\ \A j \in Jobs \ Async : ~jobs[j].ext
      /\ verdict \in [Jobs -> Verdicts \cup {"none"}]
      /\ poll \in [Pollers -> PollType] /\ mislaid \subseteq Jobs
  BY DEF JobIInv, JobTypeOK
<1>2. CASE \E j \in Jobs : DecideSome(j)
  <2>1. PICK j \in Jobs, answer \in {"ready", "failed"} : Decide(j, answer)
    BY <1>2 DEF DecideSome
  <2>2. /\ UNCHANGED <<conn, jobs, events, handler, poll, acked, mislaid, connects, last>>
        /\ verdict' \in [Jobs -> Verdicts \cup {"none"}]
    BY <1>1, <2>1 DEF Decide, Verdicts
  <2>. QED
    BY <1>1, <2>2, OutsideStep
<1>3. ASSUME NEW p \in Pollers, PollRead(p) \/ PollAsk(p) \/ PollFail(p) \/ PollWrite(p)
      PROVE  JobIInv'
  <2>1. poll[p] \in PollType
    BY <1>1
  <2>2. UNCHANGED <<conn, verdict, events, handler, acked, mislaid, connects, last>>
    BY <1>3 DEF PollRead, PollAsk, PollFail, PollWrite
  <2>3. CASE PollRead(p)
    <3>1. UNCHANGED jobs /\ poll' = [poll EXCEPT ![p] = [poll[p] EXCEPT !.pc = "asking"]]
      BY <2>3 DEF PollRead
    <3>2. [poll[p] EXCEPT !.pc = "asking"] \in PollType
      BY <2>1 DEF PollType, Call
    <3>3. poll' \in [Pollers -> PollType]
      BY <1>1, <3>1, <3>2
    <3>. QED
      BY <1>1, <2>2, <3>1, <3>3, OutsideStep
  <2>4. CASE PollAsk(p)
    <3>1. PICK answer \in Answers(Polled[p], conn.account) :
            poll' = [poll EXCEPT ![p].pc = "answered", ![p].outcome = answer]
      BY <2>4 DEF PollAsk
    <3>2. answer \in Verdicts \cup {"none"}
      BY <1>1, <3>1 DEF Answers, Verdicts
    <3>3. [poll[p] EXCEPT !.pc = "answered", !.outcome = answer] \in PollType
      BY <2>1, <3>2 DEF PollType, Call
    <3>4. poll' = [poll EXCEPT ![p] = [poll[p] EXCEPT !.pc = "answered", !.outcome = answer]]
      BY <1>1, <3>1, <3>3
    <3>5. poll' \in [Pollers -> PollType]
      BY <1>1, <3>3, <3>4
    <3>6. UNCHANGED jobs
      BY <2>4 DEF PollAsk
    <3>. QED
      BY <1>1, <2>2, <3>5, <3>6, OutsideStep
  <2>5. CASE PollFail(p) \/ PollWrite(p)
    <3>1. poll' \in [Pollers -> PollType]
      BY <1>1, <2>5, EndedFits DEF PollFail, PollWrite
    <3>2. CASE UNCHANGED jobs
      BY <1>1, <2>2, <3>1, <3>2, OutsideStep
    <3>3. CASE jobs' # jobs
      <4>. DEFINE new == [jobs[Polled[p]] EXCEPT !.status = poll[p].outcome]
      <4>1. /\ jobs' = [jobs EXCEPT ![Polled[p]] = new]
            /\ poll[p].outcome \in {"ready", "failed"} /\ Polled[p] \in Jobs
        BY <2>5, <3>3 DEF PollFail, PollWrite
      <4>2. new \in JobType /\ new.ext = jobs[Polled[p]].ext
        BY <1>1, <4>1 DEF JobType, Verdicts
      <4>. HIDE DEF new
      <4>3. jobs' \in [Jobs -> JobType] /\ \A j \in Jobs \ Async : ~jobs'[j].ext
        BY <1>1, <4>1, <4>2
      <4>4. UNCHANGED verdict
        BY <2>2
      <4>. QED
        BY <1>1, <2>2, <3>1, <4>3, <4>4, OutsideStep
    <3>. QED
      BY <3>2, <3>3
  <2>. QED
    BY <1>3, <2>3, <2>4, <2>5
<1>. QED
  BY <1>2, <1>3

\* What a step of h leaves to show once it has moved h: its effect on the rows.
LEMMA FinishCounted ==
  ASSUME JobIInv, NEW h \in Handlers, NEW next \in HandlerType,
         handler[h].pc # "done", Move(h, next)
  PROVE  /\ handler' \in [Handlers -> HandlerType] /\ handler'[h] = next
         /\ \A g \in Handlers : g # h => handler'[g] = handler[g]
         /\ Cardinality(Finished) <= Cardinality(Finished')
         /\ next.pc = "done" => Cardinality(Finished') = Cardinality(Finished) + 1
         /\ Cardinality(Finished') <= Cardinality(Handlers)
<1>1. Finished' \subseteq Handlers
  BY DEF Finished
<1>2. Cardinality(Finished') <= Cardinality(Handlers)
  BY <1>1, FS_Subset
<1>. QED
  BY <1>2, Moved, HandlersCounted DEF JobIInv

\* A connect commits: its vault opens unless another one committed since it read the row.
LEMMA ConnectKeeps ==
  ASSUME JobIInv, NEW h \in Handlers, NEW s \in PingStatuses, ConnectCommit(h, s)
  PROVE  JobIInv'
<1>. DEFINE r == handler[h]
            id == IF conn = NoConn THEN r.row.id ELSE conn.id
<1>1. /\ r.pc = "connecting" /\ r.row \in Connection /\ r.row.sealedFor = r.row.id
      /\ r.seen <= connects
      /\ r.seen > 0 => r.row.id = conn.id
  BY DEF JobIInv, Carries, ConnectCommit, Step
<1>2. /\ r.seen \in Nat /\ connects \in Nat /\ last \in Nat
      /\ conn \in Connection \cup {NoConn}
  <2>1. /\ r \in HandlerType /\ connects \in 0 .. Cardinality(Handlers)
        /\ last \in 0 .. Cardinality(Handlers) /\ conn \in Connection \cup {NoConn}
    BY DEF JobIInv, JobTypeOK
  <2>2. r.seen \in 0 .. Cardinality(Handlers)
    BY <2>1 DEF HandlerType, Call
  <2>. QED
    BY <2>1, <2>2, HandlersCounted
<1>3. id \in Handlers /\ s \in PingStatuses \cup {"disconnected"}
  BY <1>1, <1>2, ConnectionFacts
<1>4. /\ conn' = [r.row EXCEPT !.status = s, !.id = id]
      /\ connects' = connects + 1 /\ last' = r.seen /\ Move(h, Ended)
      /\ UNCHANGED <<jobs, verdict, events, poll, acked, mislaid>>
  BY DEF ConnectCommit, End
<1>5. conn' \in Connection /\ conn'.id = id /\ conn'.sealedFor = r.row.sealedFor
  BY <1>1, <1>3, <1>4 DEF Connection
<1>6. /\ handler' \in [Handlers -> HandlerType] /\ handler'[h] = Ended
      /\ \A g \in Handlers : g # h => handler'[g] = handler[g]
      /\ Cardinality(Finished') = Cardinality(Finished) + 1
      /\ Cardinality(Finished') <= Cardinality(Handlers)
  BY <1>1, <1>4, EndedFits, FinishCounted
<1>7. connects' <= Cardinality(Finished')
  BY <1>2, <1>4, <1>6, HandlersCounted DEF JobIInv, Connected
<1>8. /\ connects' \in 0 .. Cardinality(Handlers) /\ last' \in 0 .. Cardinality(Handlers)
      /\ last' <= connects'
  BY <1>1, <1>2, <1>4, <1>6, <1>7, HandlersCounted
<1>9. JobTypeOK'
  BY <1>4, <1>5, <1>6, <1>8 DEF JobIInv, JobTypeOK
<1>10. VaultReadableUnlessRaced'
  <2>1. conn = NoConn <=> connects = 0
    BY DEF JobIInv, Connected
  <2>2. conn = NoConn \/ r.seen > 0 => id = r.row.id
    BY <1>1, <1>2, <2>1
  <2>3. conn = NoConn \/ r.seen > 0 => conn'.sealedFor = conn'.id
    BY <2>2, <1>1, <1>5
  <2>4. conn # NoConn /\ ~(r.seen > 0) => last' = 0 /\ connects' > 1
    BY <1>2, <1>4, <2>1
  <2>. QED
    BY <2>3, <2>4 DEF VaultReadableUnlessRaced, Readable
<1>11. EventRecordedOnce' /\ Verified'
  BY <1>4 DEF JobIInv, EventRecordedOnce, Verified
<1>12. Connected'
  BY <1>2, <1>4, <1>5, <1>7, <1>8, ConnectionFacts DEF Connected
<1>13. ASSUME NEW g \in Handlers PROVE Carries(g)'
  <2>1. CASE g = h
    BY <1>6, <2>1, EndedFits DEF Carries
  <2>2. CASE g # h
    <3>1. /\ conn' # NoConn /\ (conn # NoConn => conn'.id = conn.id)
          /\ events \subseteq events' /\ connects' \in Nat /\ connects <= connects'
      BY <1>2, <1>4, <1>5, ConnectionFacts
    <3>. QED
      BY <1>6, <2>2, <3>1, StillCarries
  <2>. QED
    BY <2>1, <2>2
<1>. QED
  BY <1>9, <1>10, <1>11, <1>12, <1>13 DEF JobIInv

\* An update of the status leaves the ids of the row and of its vault.
LEMMA StatusKeeps ==
  ASSUME JobIInv, NEW h \in Handlers, NEW s \in PingStatuses \cup {"disconnected"},
         StatusCommit(h, s)
  PROVE  JobIInv'
<1>1. /\ handler[h].pc \in {"disconnecting", "pinging"} /\ conn # NoConn
      /\ conn \in Connection
  BY DEF JobIInv, JobTypeOK, Carries, StatusCommit, Step
<1>2. /\ conn' = [conn EXCEPT !.status = s] /\ Move(h, Ended)
      /\ UNCHANGED <<jobs, verdict, events, poll, acked, mislaid, connects, last>>
  BY DEF StatusCommit, End
<1>3. conn' \in Connection /\ conn'.id = conn.id /\ conn'.sealedFor = conn.sealedFor
  BY <1>1, <1>2, ConnectionFacts
<1>4. /\ handler' \in [Handlers -> HandlerType] /\ handler'[h] = Ended
      /\ \A g \in Handlers : g # h => handler'[g] = handler[g]
      /\ Cardinality(Finished) <= Cardinality(Finished')
      /\ Cardinality(Finished') <= Cardinality(Handlers)
  BY <1>1, <1>2, EndedFits, FinishCounted
<1>5. JobTypeOK'
  BY <1>2, <1>3, <1>4 DEF JobIInv, JobTypeOK
<1>6. VaultReadableUnlessRaced'
  BY <1>1, <1>2, <1>3 DEF JobIInv, VaultReadableUnlessRaced, Readable
<1>7. EventRecordedOnce' /\ Verified'
  BY <1>2 DEF JobIInv, EventRecordedOnce, Verified
<1>8. conn' # NoConn
  BY <1>3, ConnectionFacts
<1>9. Connected'
  <2>1. Cardinality(Finished') \in Nat /\ connects \in Nat
    <3>1. Finished' \subseteq Handlers
      BY DEF Finished
    <3>2. Cardinality(Finished') \in Nat
      BY <3>1, FS_Subset, FS_CardinalityType
    <3>3. connects \in 0 .. Cardinality(Handlers)
      BY DEF JobIInv, JobTypeOK
    <3>. QED
      BY <3>2, <3>3, HandlersCounted
  <2>. QED
    BY <1>1, <1>2, <1>4, <1>8, <2>1, HandlersCounted DEF JobIInv, Connected
<1>10. ASSUME NEW g \in Handlers PROVE Carries(g)'
  <2>1. CASE g = h
    BY <1>4, <2>1, EndedFits DEF Carries
  <2>2. CASE g # h
    <3>1. events \subseteq events' /\ connects' \in Nat /\ connects <= connects'
      BY <1>2, HandlersCounted DEF JobIInv, JobTypeOK
    <3>. QED
      BY <1>1, <1>3, <1>4, <1>8, <2>2, <3>1, StillCarries
  <2>. QED
    BY <2>1, <2>2
<1>. QED
  BY <1>5, <1>6, <1>7, <1>9, <1>10 DEF JobIInv

\* A delivery is refused, stored or found stored, and answered.
LEMMA WebhookKeeps ==
  ASSUME JobIInv, NEW h \in Handlers, WebhookRefuse(h) \/ WebhookStore(h) \/ WebhookAck(h)
  PROVE  JobIInv'
<1>. DEFINE r == handler[h]
            e == r.subject
            stored == [r EXCEPT !.pc = "stored"]
            fresh == [ext |-> ExtOf[e], by |-> h, verified |-> TRUE]
            refused == [ext |-> None, by |-> h, verified |-> FALSE]
<1>1. /\ r \in HandlerType /\ Carries(h)
      /\ events \subseteq [ext : {ExtOf[x] : x \in Events} \cup {None}, by : Handlers,
                           verified : BOOLEAN]
      /\ EventRecordedOnce /\ Verified
  BY DEF JobIInv, JobTypeOK
<1>2. /\ r.pc \in {"refusing", "storing", "stored"}
      /\ UNCHANGED <<conn, jobs, verdict, poll, mislaid, connects, last>>
  BY DEF WebhookRefuse, WebhookStore, WebhookAck, Step
<1>3. stored \in HandlerType /\ stored.pc = "stored" /\ stored.subject = e
  BY <1>1 DEF HandlerType, Call
<1>4. r.pc \in {"storing", "stored"} => e \in Events
  BY <1>1 DEF Carries
<1>5. /\ fresh.ext = ExtOf[e] /\ fresh.verified /\ refused.ext = None /\ ~refused.verified
      /\ refused \in [ext : {ExtOf[x] : x \in Events} \cup {None}, by : Handlers,
                      verified : BOOLEAN]
      /\ e \in Events =>
           fresh \in [ext : {ExtOf[x] : x \in Events} \cup {None}, by : Handlers,
                      verified : BOOLEAN]
  OBVIOUS
<1>6. PICK next \in HandlerType : Move(h, next) /\ next \in {Ended, stored}
  BY <1>3, EndedFits DEF WebhookRefuse, WebhookStore, WebhookAck, End
<1>7. WebhookRefuse(h) \/ WebhookAck(h) => Move(h, Ended)
  BY DEF WebhookRefuse, WebhookAck, End
<1>8. WebhookStore(h) => r.pc = "storing"
  BY DEF WebhookStore, Step
<1>9. /\ WebhookRefuse(h) => events' = events \cup {refused} /\ UNCHANGED acked
      /\ WebhookStore(h) /\ Replayed(h, e) => UNCHANGED <<events, acked>>
      /\ WebhookStore(h) /\ ~Replayed(h, e) =>
           events' = events \cup {fresh} /\ UNCHANGED acked
      /\ WebhookAck(h) => r.pc = "stored" /\ UNCHANGED events /\ acked' = acked \cup {e}
  BY DEF WebhookRefuse, WebhookStore, WebhookAck, Step
<1>. HIDE DEF stored, fresh, refused
<1>10. /\ handler' \in [Handlers -> HandlerType] /\ handler'[h] = next
       /\ \A g \in Handlers : g # h => handler'[g] = handler[g]
       /\ Cardinality(Finished) <= Cardinality(Finished')
       /\ Cardinality(Finished') <= Cardinality(Handlers)
  BY <1>2, <1>6, FinishCounted
<1>11. /\ events \subseteq events'
       /\ events' \subseteq [ext : {ExtOf[x] : x \in Events} \cup {None}, by : Handlers,
                             verified : BOOLEAN]
       /\ acked' \subseteq Events
  BY <1>1, <1>4, <1>5, <1>8, <1>9 DEF JobIInv, JobTypeOK
<1>12. JobTypeOK'
  BY <1>2, <1>10, <1>11 DEF JobIInv, JobTypeOK
<1>13. VaultReadableUnlessRaced'
  BY <1>2 DEF JobIInv, VaultReadableUnlessRaced, Readable
<1>14. Connected'
  <2>1. Finished' \subseteq Handlers
    BY DEF Finished
  <2>2. Cardinality(Finished') \in Nat
    BY <2>1, FS_Subset, FS_CardinalityType
  <2>3. connects \in Nat
    BY HandlersCounted DEF JobIInv, JobTypeOK
  <2>. QED
    BY <1>2, <1>10, <2>2, <2>3, HandlersCounted DEF JobIInv, Connected
<1>15. Verified'
  <2>1. e \in Events => ExtOf[e] # None
    OBVIOUS
  <2>. QED
    BY <1>1, <1>4, <1>5, <1>8, <1>9, <2>1 DEF Verified
<1>16. WebhookStore(h) => \E x \in events' : x.verified /\ x.ext = ExtOf[e]
  <2>1. CASE Replayed(h, e)
    BY <1>1, <1>4, <1>8, <1>9, <2>1 DEF Replayed, Verified
  <2>2. CASE ~Replayed(h, e)
    BY <1>5, <1>9, <2>2
  <2>. QED
    BY <2>1, <2>2
<1>17. EventRecordedOnce'
  <2>1. ASSUME NEW a \in acked' PROVE \E x \in events' : x.verified /\ x.ext = ExtOf[a]
    <3>1. CASE a \in acked
      BY <1>1, <1>11, <3>1 DEF EventRecordedOnce
    <3>2. CASE a \notin acked
      <4>1. r.pc = "stored" /\ a = e
        BY <1>9, <2>1, <3>2
      <4>. QED
        BY <1>1, <1>11, <4>1 DEF Carries
    <3>. QED
      BY <3>1, <3>2
  <2>2. ASSUME NEW x \in events', NEW y \in events', x.verified, y.verified, x.ext = y.ext
        PROVE  x = y
    <3>1. CASE x \in events /\ y \in events
      BY <1>1, <2>2, <3>1 DEF EventRecordedOnce
    <3>2. CASE ~(x \in events /\ y \in events)
      <4>1. /\ WebhookStore(h) /\ ~Replayed(h, e) /\ (x = fresh \/ y = fresh)
            /\ x \in events \cup {fresh} /\ y \in events \cup {fresh}
        BY <1>5, <1>9, <2>2, <3>2
      <4>. QED
        BY <1>5, <2>2, <4>1 DEF Replayed
    <3>. QED
      BY <3>1, <3>2
  <2>. QED
    BY <2>1, <2>2 DEF EventRecordedOnce
<1>18. ASSUME NEW g \in Handlers PROVE Carries(g)'
  <2>1. CASE g # h
    <3>1. connects' \in Nat /\ connects <= connects'
      BY <1>2, HandlersCounted DEF JobIInv, JobTypeOK
    <3>. QED
      BY <1>2, <1>10, <1>11, <2>1, <3>1, StillCarries
  <2>2. CASE g = h /\ next = Ended
    BY <1>10, <2>2, EndedFits DEF Carries
  <2>3. CASE g = h /\ next # Ended
    <3>1. next = stored /\ WebhookStore(h)
      BY <1>6, <1>7, <1>10, <2>3 DEF Move, JobIInv, JobTypeOK
    <3>. QED
      BY <1>3, <1>4, <1>8, <1>10, <1>16, <2>3, <3>1 DEF Carries
  <2>. QED
    BY <2>1, <2>2, <2>3
<1>. QED
  BY <1>12, <1>13, <1>14, <1>15, <1>17, <1>18 DEF JobIInv
-----------------------------------------------------------------------------
\* Nothing has begun.
LEMMA InitJobIInv == JobInit => JobIInv
<1>. SUFFICES ASSUME JobInit PROVE JobIInv
  OBVIOUS
<1>1. JobTypeOK
  <2>1. NoJob \in JobType /\ ~NoJob.ext
    BY DEF NoJob, JobType
  <2>. QED
    BY <2>1, EndedFits, HandlersCounted DEF JobInit, JobTypeOK
<1>2. \A h \in Handlers : handler[h].pc = "idle"
  BY DEF JobInit, Idle
<1>3. \A h \in Handlers : Carries(h)
  BY <1>2 DEF Carries
<1>4. Connected
  BY HandlersCounted DEF JobInit, Connected
<1>5. VaultReadableUnlessRaced /\ EventRecordedOnce /\ Verified
  BY DEF JobInit, VaultReadableUnlessRaced, EventRecordedOnce, Verified
<1>. QED
  BY <1>1, <1>3, <1>4, <1>5 DEF JobIInv

\* Every step of a handler, the provider or a poll keeps the invariant.
LEMMA NextJobIInv == JobIInv /\ [JobNext]_jobVars => JobIInv'
<1>. SUFFICES ASSUME JobIInv, [JobNext]_jobVars PROVE JobIInv'
  OBVIOUS
<1>1. CASE UNCHANGED jobVars
  <2>1. UNCHANGED <<conn, jobs, verdict, events, handler, poll, acked, mislaid, connects, last>>
    BY <1>1 DEF jobVars
  <2>. QED
    BY <2>1, OutsideStep DEF JobIInv, JobTypeOK
<1>2. ASSUME NEW h \in Handlers, Begin(h) PROVE JobIInv'
  BY <1>2, BeginKeeps
<1>3. ASSUME NEW h \in Handlers, Continue(h) PROVE JobIInv'
  BY <1>3, ConnectKeeps, StatusKeeps, JobStepKeeps, WebhookKeeps DEF Continue
<1>4. ASSUME NEW h \in Handlers, Crash(h) PROVE JobIInv'
  BY <1>4, JobStepKeeps
<1>5. CASE \/ \E j \in Jobs : DecideSome(j)
           \/ \E p \in Pollers : PollRead(p) \/ PollAsk(p) \/ PollFail(p) \/ PollWrite(p)
  BY <1>5, OutsideKeeps
<1>. QED
  BY <1>1, <1>2, <1>3, <1>4, <1>5 DEF JobNext

\* The invariant of the module, of which its theorems state the parts.
LEMMA JobInvariant == JobSpec => []JobIInv
<1>. QED
  BY InitJobIInv, NextJobIInv, PTL DEF JobSpec

\* Every row, call and count has its type, and only a video or an avatar an external id.
THEOREM JobTypeCorrect == JobSpec => []JobTypeOK
<1>1. JobIInv => JobTypeOK
  BY DEF JobIInv
<1>. QED
  BY <1>1, JobInvariant, PTL

\* However many connects overlap, only one that found no row and was not the first to
\* commit can leave a vault that does not open for its row.
THEOREM VaultsOpen == JobSpec => []VaultReadableUnlessRaced
<1>1. JobIInv => VaultReadableUnlessRaced
  BY DEF JobIInv
<1>. QED
  BY <1>1, JobInvariant, PTL

\* Any number of deliveries of any events, repeated and overlapping: 2xx means stored, and
\* stored once.
THEOREM EventsStoredOnce == JobSpec => []EventRecordedOnce
<1>1. JobIInv => EventRecordedOnce
  BY DEF JobIInv
<1>. QED
  BY <1>1, JobInvariant, PTL
-----------------------------------------------------------------------------
\* The request h has a job in hand.
InHand(h) == handler[h].pc \in {"creating", "dispatching", "recording"}

\* What the rows say of the job in hand: whoever is told anything but what was made of it
\* has mislaid it.
Works(h) ==
  LET r == handler[h] IN
  /\ r.pc = "creating" => jobs[r.subject].status = "none"
  /\ r.pc \in {"dispatching", "recording"} =>
       jobs[r.subject].status = "running" /\ ~jobs[r.subject].ext
  /\ r.pc = "recording" =>
       /\ r.outcome = "failed" => verdict[r.subject] = "failed" \/ r.subject \in mislaid
       /\ r.outcome = "unnamed" => r.subject \in mislaid

\* A poll asks for a job with an external id, and hears of a failure only if it failed.
Heard(p) ==
  /\ poll[p].pc \in {"asking", "answered"} => jobs[Polled[p]].ext
  /\ poll[p].pc = "answered" /\ poll[p].outcome = "failed" => verdict[Polled[p]] = "failed"

\* JobsLeaveATrace, with what requests and polls carry to the rows; no two have one job.
TraceIInv ==
  /\ JobsLeaveATrace
  /\ \A h \in Handlers : Works(h)
  /\ \A g, h \in Handlers :
       InHand(g) /\ InHand(h) /\ handler[g].subject = handler[h].subject => g = h
  /\ \A p \in Pollers : Heard(p)
  /\ \A j \in Jobs : jobs[j].ext => jobs[j].status # "none"

\* A step that leaves the jobs alone, and takes none from a request but by its death.
LEMMA TraceStays ==
  ASSUME TraceIInv, UNCHANGED <<jobs, verdict, mislaid, poll>>,
         NEW h \in Handlers, \A g \in Handlers : g # h => handler'[g] = handler[g],
         ~InHand(h)',
         \/ handler[h].pc \notin {"dispatching", "recording", "dead"}
         \/ handler'[h].pc = "dead" /\ handler'[h].subject = handler[h].subject
  PROVE  TraceIInv'
<1>1. \A j \in Jobs : Interrupted(j) => Interrupted(j)'
  BY DEF Interrupted
<1>2. JobsLeaveATrace'
  BY <1>1 DEF TraceIInv, JobsLeaveATrace
<1>3. \A g \in Handlers : Works(g)'
  BY DEF TraceIInv, Works, InHand
<1>4. (\A f, g \in Handlers :
         InHand(f) /\ InHand(g) /\ handler[f].subject = handler[g].subject => f = g)'
  BY DEF TraceIInv, InHand
<1>5. \A p \in Pollers : Heard(p)'
  BY DEF TraceIInv, Heard
<1>. QED
  BY <1>2, <1>3, <1>4, <1>5 DEF TraceIInv

\* A request begins: only one that no other has in hand takes up a job.
LEMMA BeginTraced == ASSUME JobIInv, TraceIInv, NEW h \in Handlers, Begin(h) PROVE TraceIInv'
<1>1. /\ UNCHANGED <<jobs, verdict, mislaid, poll>> /\ handler[h].pc = "idle"
      /\ handler \in [Handlers -> HandlerType]
  BY DEF Begin, ConnectRead, DisconnectRead, StatusRead, GenerateRead, WebhookRead, Step,
         JobIInv, JobTypeOK
<1>2. CASE \E j \in Jobs : GenerateRead(h, j)
  <2>1. PICK j \in Jobs : GenerateRead(h, j)
    BY <1>2
  <2>2. /\ jobs[j].status = "none" /\ \A g \in Handlers : handler[g].subject # j
        /\ handler'[h].pc = "creating" /\ handler'[h].subject = j
        /\ \A g \in Handlers : g # h => handler'[g] = handler[g]
    BY <1>1, <2>1 DEF GenerateRead, Move, Idle
  <2>3. JobsLeaveATrace'
    <3>1. \A k \in Jobs : Interrupted(k) => Interrupted(k)'
      BY <1>1, <2>2 DEF Interrupted
    <3>. QED
      BY <1>1, <3>1 DEF TraceIInv, JobsLeaveATrace
  <2>4. \A g \in Handlers : Works(g)'
    BY <1>1, <2>2 DEF TraceIInv, Works
  <2>5. (\A f, g \in Handlers :
           InHand(f) /\ InHand(g) /\ handler[f].subject = handler[g].subject => f = g)'
    BY <2>2 DEF TraceIInv, InHand
  <2>6. \A p \in Pollers : Heard(p)'
    BY <1>1 DEF TraceIInv, Heard
  <2>. QED
    BY <1>1, <2>3, <2>4, <2>5, <2>6 DEF TraceIInv
<1>3. CASE ~\E j \in Jobs : GenerateRead(h, j)
  <2>1. handler'[h].pc \in {"connecting", "disconnecting", "pinging", "storing", "refusing"}
    <3>1. CASE \E a \in Accounts : ConnectRead(h, a)
      BY <1>1, <3>1 DEF ConnectRead, Move, Idle
    <3>2. CASE DisconnectRead(h) \/ StatusRead(h)
      BY <1>1, <3>2 DEF DisconnectRead, StatusRead, Move, Idle
    <3>3. CASE \E e \in Events, secret \in Handlers : WebhookRead(h, e, secret)
      <4>1. PICK pc \in {"storing", "refusing"}, e \in Events :
              Move(h, [Idle EXCEPT !.subject = e, !.pc = pc])
        BY <3>3 DEF WebhookRead
      <4>. QED
        BY <1>1, <4>1 DEF Move, Idle
    <3>. QED
      BY <1>3, <3>1, <3>2, <3>3 DEF Begin
  <2>2. \A g \in Handlers : g # h => handler'[g] = handler[g]
    BY <1>1, <1>3 DEF Begin, ConnectRead, DisconnectRead, StatusRead, WebhookRead, Move
  <2>. QED
    BY <1>1, <2>1, <2>2, TraceStays DEF InHand
<1>. QED
  BY <1>2, <1>3

\* A step of a request with the job in hand, which it keeps in hand or leaves recorded.
LEMMA InHandTraced ==
  ASSUME TraceIInv, UNCHANGED poll,
         NEW h \in Handlers, InHand(h), NEW j \in Jobs, handler[h].subject = j,
         \A g \in Handlers : g # h => handler'[g] = handler[g],
         \A k \in Jobs : k # j => jobs'[k] = jobs[k] /\ verdict'[k] = verdict[k],
         mislaid \subseteq mislaid', mislaid' \subseteq mislaid \cup {j},
         \A g \in Handlers : InHand(g) => handler[g].subject \in Jobs,
         jobs'[j].status # "none", Works(h)',
         \/ handler'[h].pc \in {"dispatching", "recording"} /\ handler'[h].subject = j
         \/ /\ handler'[h].pc = "done"
            /\ jobs'[j].status = "running" /\ ~jobs'[j].ext => j \in mislaid'
            /\ jobs'[j].status = "failed" => verdict'[j] = "failed" \/ j \in mislaid'
  PROVE  TraceIInv'
<1>1. /\ \A g \in Handlers : g # h /\ InHand(g) => handler[g].subject # j
      /\ ~jobs[j].ext
  BY DEF TraceIInv, Works, InHand
<1>2. JobsLeaveATrace'
  <2>1. \A k \in Jobs : k # j /\ Interrupted(k) => Interrupted(k)'
    BY DEF Interrupted
  <2>2. handler'[h].pc # "done" => jobs'[j].status = "running" /\ Interrupted(j)'
    BY DEF Works, Interrupted
  <2>. QED
    BY <2>1, <2>2 DEF TraceIInv, JobsLeaveATrace
<1>3. ASSUME NEW g \in Handlers PROVE Works(g)'
  <2>1. CASE g # h /\ InHand(g)
    <3>1. /\ Works(g) /\ handler[g].subject # j /\ handler[g].subject \in Jobs
          /\ handler'[g] = handler[g]
      BY <1>1, <2>1 DEF TraceIInv
    <3>. QED
      BY <3>1 DEF Works
  <2>2. CASE g = h \/ ~InHand(g)
    BY <2>2 DEF Works, InHand
  <2>. QED
    BY <2>1, <2>2
<1>4. (\A f, g \in Handlers :
         InHand(f) /\ InHand(g) /\ handler[f].subject = handler[g].subject => f = g)'
  BY <1>1 DEF TraceIInv, InHand
<1>5. ASSUME NEW p \in Pollers PROVE Heard(p)'
  BY <1>1, Polled[p] \in Jobs DEF TraceIInv, Heard
<1>6. \A k \in Jobs : jobs'[k].ext => jobs'[k].status # "none"
  BY DEF TraceIInv
<1>. QED
  BY <1>2, <1>3, <1>4, <1>5, <1>6 DEF TraceIInv

\* The row is written before the provider is called, the call makes or mislays the job, and
\* its answer is recorded: what is then running without an external id is mislaid.
LEMMA JobStepTraced ==
  ASSUME JobIInv, TraceIInv, NEW h \in Handlers,
         \/ CreateJob(h)
         \/ \E made \in Verdicts, answer \in Verdicts \cup {"unnamed"} :
              Dispatch(h, made, answer)
         \/ RecordJob(h)
  PROVE  TraceIInv'
<1>. DEFINE r == handler[h]
            j == r.subject
<1>1. /\ r \in HandlerType /\ handler \in [Handlers -> HandlerType]
      /\ jobs \in [Jobs -> JobType] /\ verdict \in [Jobs -> Verdicts \cup {"none"}]
      /\ Carries(h) /\ Works(h)
  BY DEF JobIInv, JobTypeOK, TraceIInv
<1>2. /\ UNCHANGED poll /\ InHand(h) /\ j \in Jobs
      /\ \A g \in Handlers : InHand(g) => handler[g].subject \in Jobs
  BY <1>1 DEF CreateJob, Dispatch, RecordJob, Step, JobIInv, Carries, InHand
<1>3. CASE CreateJob(h)
  <2>1. /\ r.pc = "creating" /\ UNCHANGED <<verdict, mislaid>>
        /\ Move(h, [r EXCEPT !.pc = "dispatching"])
        /\ jobs' = [jobs EXCEPT ![j] =
                      [status |-> "running", ext |-> FALSE, account |-> r.row.account]]
    BY <1>3 DEF CreateJob, Step
  <2>2. /\ handler'[h].pc = "dispatching" /\ handler'[h].subject = j
        /\ \A g \in Handlers : g # h => handler'[g] = handler[g]
    BY <1>1, <2>1 DEF Move, HandlerType, Call
  <2>3. /\ jobs'[j].status = "running" /\ ~jobs'[j].ext
        /\ \A k \in Jobs : k # j => jobs'[k] = jobs[k]
    BY <1>1, <1>2, <2>1
  <2>4. Works(h)'
    BY <2>2, <2>3 DEF Works
  <2>. QED
    BY <1>2, <2>1, <2>2, <2>3, <2>4, InHandTraced
<1>4. ASSUME NEW made \in Verdicts, NEW answer \in Verdicts \cup {"unnamed"},
             Dispatch(h, made, answer)
      PROVE  TraceIInv'
  <2>1. /\ r.pc = "dispatching" /\ UNCHANGED jobs
        /\ verdict' = [verdict EXCEPT ![j] = made]
        /\ mislaid' = IF made = answer THEN mislaid ELSE mislaid \cup {j}
        /\ Move(h, [r EXCEPT !.pc = "recording", !.outcome = answer])
        /\ <<made, answer>> \in Replies(j, r.row.account)
    BY <1>4 DEF Dispatch, Step
  <2>2. /\ handler'[h].pc = "recording" /\ handler'[h].subject = j
        /\ handler'[h].outcome = answer
        /\ \A g \in Handlers : g # h => handler'[g] = handler[g]
    BY <1>1, <2>1 DEF Move, HandlerType, Call
  <2>3. jobs[j].status = "running" /\ ~jobs[j].ext
    BY <1>1, <2>1 DEF Works
  <2>4. /\ answer = "failed" => verdict'[j] = "failed" \/ j \in mislaid'
        /\ answer = "unnamed" => j \in mislaid'
    BY <1>1, <1>2, <2>1 DEF Verdicts
  <2>5. Works(h)'
    BY <2>1, <2>2, <2>3, <2>4 DEF Works
  <2>6. \A k \in Jobs : k # j => jobs'[k] = jobs[k] /\ verdict'[k] = verdict[k]
    BY <1>1, <2>1
  <2>. QED
    BY <1>2, <2>1, <2>2, <2>3, <2>5, <2>6, InHandTraced
<1>5. CASE RecordJob(h)
  <2>1. /\ r.pc = "recording" /\ UNCHANGED <<verdict, mislaid>> /\ Move(h, Ended)
        /\ jobs' = [jobs EXCEPT ![j] = Recorded(jobs[j], r.outcome)]
    BY <1>5 DEF RecordJob, Step, End
  <2>2. handler'[h] = Ended /\ \A g \in Handlers : g # h => handler'[g] = handler[g]
    BY <1>1, <2>1 DEF Move
  <2>3. /\ r.outcome \in Verdicts \cup {"unnamed"}
        /\ r.outcome = "failed" => verdict[j] = "failed" \/ j \in mislaid
        /\ r.outcome = "unnamed" => j \in mislaid
    BY <1>1, <2>1 DEF Carries, Works
  <2>4. /\ jobs'[j].status = IF r.outcome = "unnamed" THEN "running" ELSE r.outcome
        /\ r.outcome = "running" => jobs'[j].ext
        /\ \A k \in Jobs : k # j => jobs'[k] = jobs[k]
    <3>1. jobs[j] \in JobType /\ jobs'[j] = Recorded(jobs[j], r.outcome)
      BY <1>1, <1>2, <2>1
    <3>2. jobs'[j].status = IF r.outcome = "unnamed" THEN "running" ELSE r.outcome
      BY <3>1 DEF Recorded, JobType
    <3>3. r.outcome = "running" => jobs'[j].ext
      BY <3>1 DEF Recorded, JobType
    <3>. QED
      BY <1>1, <2>1, <3>2, <3>3
  <2>5. Works(h)'
    <3>1. handler'[h].pc = "done"
      BY <2>2, EndedFits
    <3>. QED
      BY <3>1 DEF Works
  <2>6. /\ jobs'[j].status # "none"
        /\ jobs'[j].status = "running" /\ ~jobs'[j].ext => j \in mislaid'
        /\ jobs'[j].status = "failed" => verdict'[j] = "failed" \/ j \in mislaid'
    BY <2>1, <2>3, <2>4 DEF Verdicts
  <2>7. /\ \A k \in Jobs : k # j => jobs'[k] = jobs[k] /\ verdict'[k] = verdict[k]
        /\ mislaid \subseteq mislaid' /\ mislaid' \subseteq mislaid \cup {j}
        /\ handler'[h].pc = "done"
    BY <2>1, <2>2, <2>4, EndedFits
  <2>. QED
    BY <1>2, <2>2, <2>5, <2>6, <2>7, InHandTraced
<1>. QED
  BY <1>3, <1>4, <1>5

\* The provider never takes back a failure, and a poll writes what it has heard into a row
\* with an external id.
LEMMA OutsideTraced ==
  ASSUME JobIInv, TraceIInv,
         \/ \E j \in Jobs : DecideSome(j)
         \/ \E p \in Pollers : PollRead(p) \/ PollAsk(p) \/ PollFail(p) \/ PollWrite(p)
  PROVE  TraceIInv'
<1>1. /\ jobs \in [Jobs -> JobType] /\ verdict \in [Jobs -> Verdicts \cup {"none"}]
      /\ poll \in [Pollers -> PollType]
      /\ UNCHANGED <<handler, mislaid>>
      /\ \A j \in Jobs : Interrupted(j) => Interrupted(j)'
  BY DEF JobIInv, JobTypeOK, DecideSome, Decide, PollRead, PollAsk, PollFail, PollWrite,
         Interrupted
<1>2. (\A f, g \in Handlers :
         InHand(f) /\ InHand(g) /\ handler[f].subject = handler[g].subject => f = g)'
  BY <1>1 DEF TraceIInv, InHand
<1>3. ASSUME NEW g \in Handlers, InHand(g) PROVE handler[g].subject \in Jobs
  BY <1>3 DEF JobIInv, Carries, InHand
<1>4. CASE \E j \in Jobs : DecideSome(j)
  <2>1. /\ UNCHANGED <<jobs, poll>>
        /\ \A j \in Jobs : verdict[j] = "failed" => verdict'[j] = "failed"
        /\ \A j \in Jobs : verdict[j] = "none" => verdict'[j] = "none"
    BY <1>1, <1>4 DEF DecideSome, Decide
  <2>2. JobsLeaveATrace'
    BY <1>1, <2>1 DEF TraceIInv, JobsLeaveATrace
  <2>3. ASSUME NEW g \in Handlers PROVE Works(g)'
    BY <1>1, <1>3, <2>1 DEF TraceIInv, Works, InHand
  <2>4. ASSUME NEW p \in Pollers PROVE Heard(p)'
    BY <2>1, Polled[p] \in Jobs DEF TraceIInv, Heard
  <2>. QED
    BY <1>2, <2>1, <2>2, <2>3, <2>4 DEF TraceIInv
<1>5. ASSUME NEW p \in Pollers, PollRead(p) \/ PollAsk(p) \/ PollFail(p) \/ PollWrite(p)
      PROVE  TraceIInv'
  <2>. DEFINE j == Polled[p]
  <2>1. UNCHANGED verdict /\ j \in Jobs /\ poll[p] \in PollType
    BY <1>1, <1>5 DEF PollRead, PollAsk, PollFail, PollWrite
  <2>2. \A q \in Pollers : q # p => poll'[q] = poll[q]
    BY <1>1, <1>5 DEF PollRead, PollAsk, PollFail, PollWrite
  <2>3. CASE UNCHANGED jobs
    <3>1. Heard(p)'
      <4>1. CASE PollRead(p)
        <5>1. jobs[j].ext /\ poll'[p].pc = "asking"
          BY <1>1, <2>1, <4>1 DEF PollRead, Pollable, PollType, Call
        <5>. QED
          BY <2>1, <2>3, <5>1 DEF Heard
      <4>2. CASE PollAsk(p)
        <5>1. PICK answer \in Answers(j, conn.account) :
                poll' = [poll EXCEPT ![p].pc = "answered", ![p].outcome = answer]
          BY <4>2 DEF PollAsk
        <5>2. poll[p].pc = "asking" /\ poll'[p].outcome = answer
          BY <1>1, <2>1, <4>2, <5>1 DEF PollAsk, PollType, Call
        <5>3. answer = "failed" => verdict[j] = "failed"
          BY <5>1 DEF Answers
        <5>. QED
          BY <2>1, <2>3, <5>2, <5>3 DEF TraceIInv, Heard
      <4>3. CASE PollFail(p) \/ PollWrite(p)
        <5>1. poll'[p].pc = "idle"
          BY <1>1, <4>3 DEF PollFail, PollWrite, Idle
        <5>. QED
          BY <5>1 DEF Heard
      <4>. QED
        BY <1>5, <4>1, <4>2, <4>3
    <3>2. \A q \in Pollers : Heard(q)'
      BY <2>1, <2>2, <2>3, <3>1 DEF TraceIInv, Heard
    <3>3. JobsLeaveATrace' /\ \A g \in Handlers : Works(g)'
      BY <1>1, <2>1, <2>3 DEF TraceIInv, JobsLeaveATrace, Works
    <3>. QED
      BY <1>2, <2>3, <3>2, <3>3 DEF TraceIInv
  <2>4. CASE jobs' # jobs
    <3>1. /\ poll[p].pc = "answered" /\ poll[p].outcome \in {"ready", "failed"}
          /\ jobs' = [jobs EXCEPT ![j].status = poll[p].outcome]
          /\ poll' = [poll EXCEPT ![p] = Idle]
      BY <1>5, <2>4 DEF PollRead, PollAsk, PollFail, PollWrite
    <3>2. /\ jobs'[j].status = poll[p].outcome /\ jobs'[j].ext = jobs[j].ext
          /\ \A k \in Jobs : k # j => jobs'[k] = jobs[k]
      BY <1>1, <2>1, <3>1 DEF JobType
    <3>3. /\ jobs[j].ext /\ jobs[j].status # "none"
          /\ poll[p].outcome = "failed" => verdict[j] = "failed"
      BY <2>1, <3>1 DEF TraceIInv, Heard
    <3>4. JobsLeaveATrace'
      BY <1>1, <2>1, <3>1, <3>2, <3>3 DEF TraceIInv, JobsLeaveATrace
    <3>5. ASSUME NEW g \in Handlers PROVE Works(g)'
      <4>1. CASE InHand(g)
        <5>1. Works(g) /\ handler[g].subject # j /\ handler[g].subject \in Jobs
          BY <1>3, <3>3, <4>1 DEF TraceIInv, Works, InHand
        <5>. QED
          BY <1>1, <2>1, <3>2, <5>1 DEF Works
      <4>2. CASE ~InHand(g)
        BY <1>1, <4>2 DEF Works, InHand
      <4>. QED
        BY <4>1, <4>2
    <3>6. poll'[p].pc = "idle"
      BY <1>1, <3>1 DEF Idle
    <3>7. ASSUME NEW q \in Pollers PROVE Heard(q)'
      <4>1. CASE q = p
        BY <3>6, <4>1 DEF Heard
      <4>2. CASE q # p
        BY <2>1, <2>2, <3>2, <4>2, Polled[q] \in Jobs DEF TraceIInv, Heard
      <4>. QED
        BY <4>1, <4>2
    <3>8. \A k \in Jobs : jobs'[k].ext => jobs'[k].status # "none"
      BY <3>1, <3>2 DEF TraceIInv
    <3>. QED
      BY <1>2, <3>4, <3>5, <3>7, <3>8 DEF TraceIInv
  <2>. QED
    BY <2>3, <2>4
<1>. QED
  BY <1>4, <1>5

\* Every step keeps the rows in keeping with what the provider made of the jobs.
LEMMA NextTraced == JobIInv /\ TraceIInv /\ [JobNext]_jobVars => TraceIInv'
<1>. SUFFICES ASSUME JobIInv, TraceIInv, [JobNext]_jobVars PROVE TraceIInv'
  OBVIOUS
<1>1. CASE UNCHANGED jobVars
  <2>1. UNCHANGED <<jobs, verdict, handler, poll, mislaid>>
    BY <1>1 DEF jobVars
  <2>2. JobsLeaveATrace' /\ \A h \in Handlers : Works(h)'
    BY <2>1 DEF TraceIInv, JobsLeaveATrace, Interrupted, Works
  <2>3. \A p \in Pollers : Heard(p)'
    BY <2>1 DEF TraceIInv, Heard
  <2>. QED
    BY <2>1, <2>2, <2>3 DEF TraceIInv, InHand
<1>2. ASSUME NEW h \in Handlers, Begin(h) PROVE TraceIInv'
  BY <1>2, BeginTraced
<1>3. ASSUME NEW h \in Handlers,
             \/ \E s \in PingStatuses : ConnectCommit(h, s)
             \/ \E s \in PingStatuses \cup {"disconnected"} : StatusCommit(h, s)
             \/ WebhookRefuse(h) \/ WebhookStore(h) \/ WebhookAck(h)
             \/ Crash(h)
      PROVE  TraceIInv'
  <2>1. handler \in [Handlers -> HandlerType] /\ handler[h] \in HandlerType
    BY DEF JobIInv, JobTypeOK
  <2>2. /\ UNCHANGED <<jobs, verdict, mislaid, poll>>
        /\ \A g \in Handlers : g # h => handler'[g] = handler[g]
    BY <1>3, <2>1 DEF ConnectCommit, StatusCommit, WebhookRefuse, WebhookStore, WebhookAck,
                      Crash, End, Move
  <2>3. CASE Crash(h)
    <3>1. handler'[h].pc = "dead" /\ handler'[h].subject = handler[h].subject
      BY <2>1, <2>3 DEF Crash, Move, HandlerType, Call
    <3>. QED
      BY <2>2, <3>1, TraceStays DEF InHand
  <2>4. CASE ~Crash(h)
    <3>1. handler[h].pc \notin {"dispatching", "recording", "dead"}
      BY <1>3, <2>4 DEF ConnectCommit, StatusCommit, WebhookRefuse, WebhookStore,
           WebhookAck, Step
    <3>2. handler'[h].pc \in {"done", "stored"}
      <4>1. CASE WebhookStore(h)
        BY <2>1, <4>1 DEF WebhookStore, Move, HandlerType, Call
      <4>2. CASE ~WebhookStore(h)
        <5>1. Move(h, Ended)
          BY <1>3, <2>4, <4>2 DEF ConnectCommit, StatusCommit, WebhookRefuse, WebhookAck, End
        <5>. QED
          BY <2>1, <5>1, EndedFits DEF Move
      <4>. QED
        BY <4>1, <4>2
    <3>. QED
      BY <2>2, <3>1, <3>2, TraceStays DEF InHand
  <2>. QED
    BY <2>3, <2>4
<1>4. ASSUME NEW h \in Handlers, Continue(h) PROVE TraceIInv'
  BY <1>3, <1>4, JobStepTraced DEF Continue
<1>5. CASE \/ \E j \in Jobs : DecideSome(j)
           \/ \E p \in Pollers : PollRead(p) \/ PollAsk(p) \/ PollFail(p) \/ PollWrite(p)
  BY <1>5, OutsideTraced
<1>. QED
  BY <1>1, <1>2, <1>3, <1>4, <1>5 DEF JobNext

\* No call has been made.
LEMMA InitTraced == JobInit => TraceIInv
<1>. SUFFICES ASSUME JobInit PROVE TraceIInv
  OBVIOUS
<1>1. /\ \A j \in Jobs : jobs[j].status = "none" /\ ~jobs[j].ext /\ verdict[j] = "none"
      /\ \A h \in Handlers : handler[h].pc = "idle"
      /\ \A p \in Pollers : poll[p].pc = "idle"
  BY DEF JobInit, NoJob, Idle
<1>. QED
  BY <1>1 DEF TraceIInv, JobsLeaveATrace, Works, Heard, InHand

\* For any number of requests, jobs and polls: the provider works on nothing without a row,
\* and a row that fails a job or cannot be polled was cut off from its answer.
THEOREM JobsTraced == JobSpec => []JobsLeaveATrace
<1>1. TraceIInv => JobsLeaveATrace
  BY DEF TraceIInv
<1>. QED
  BY <1>1, JobInvariant, InitTraced, NextTraced, PTL DEF JobSpec
=============================================================================
