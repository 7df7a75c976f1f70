----------------------------- MODULE Clearance -----------------------------
(***************************************************************************)
(* The paid-solicitor registrations of one org and the clearances they     *)
(* open: apps/api/src/domains/compliance/service.ts.                       *)
(*                                                                         *)
(* The org that files must own the campaign, so entity and client org are  *)
(* the same and UNIQUE(entityOrgId, clientOrgId, state, regionCode) leaves *)
(* one registration per state.  transitionRegistration reads the row and   *)
(* checks the move, then writes by id in a transaction of its own: read    *)
(* and transaction are separate steps.  regLog is the order in which the   *)
(* writes committed.                                                       *)
(***************************************************************************)
EXTENDS Integers, Sequences

CONSTANTS
  Officers,   \* the PATCH requests, one handler run each
  Campaigns,  \* the campaigns the org may have
  States,     \* the US states
  MaxFilings  \* bound: filings refused because the state has a registration

ASSUME ClearanceAssumption == MaxFilings \in Nat

VARIABLES
  reg,        \* reg[s]: the registration row of state s; "none" before it is filed
  campaigns,  \* the Campaign rows
  cleared,    \* the (campaign, state) pairs with a CampaignStateClearance row
  officer,    \* officer[k]: what handler k carries from its read to its write
  refused,    \* history: the status each refused filing met
  regLog      \* history: the committed writes of registrations, in order

vars == <<reg, campaigns, cleared, officer, refused, regLog>>

SolicitorStatus == {"pending", "submitted", "approved", "expired", "rejected"}

STATUS_TRANSITIONS ==
  [pending   |-> {"submitted", "approved", "rejected"},
   submitted |-> {"approved", "rejected"},
   approved  |-> {"expired", "rejected"},
   expired   |-> {},
   rejected  |-> {}]

\* What the route lets a PATCH ask for.
Requested == {"approved", "rejected", "expired"}

NoRegistration == [status |-> "none", lapsed |-> FALSE]
Start == [pc |-> "start"]
Done == [pc |-> "done"]

Wrote(s, from, to, readAt) ==
  regLog' = Append(regLog, [state |-> s, from |-> from, was |-> reg[s].status,
                            to |-> to, readAt |-> readAt, campaigns |-> campaigns])

\* assertStateCleared, the row it reads: the pair has a clearance and the registration
\* behind it is approved and not past expiresAt.
Cleared(c, s) == <<c, s>> \in cleared /\ reg[s].status = "approved" /\ ~reg[s].lapsed
-----------------------------------------------------------------------------
Init ==
  /\ reg = [s \in States |-> NoRegistration]
  /\ campaigns \in SUBSET Campaigns
  /\ cleared = {}
  /\ officer = [k \in Officers |-> Start]
  /\ refused = <<>>
  /\ regLog = <<>>

\* A campaign is launched, outside this service.
Launch(c) ==
  /\ c \notin campaigns
  /\ campaigns' = campaigns \cup {c}
  /\ UNCHANGED <<reg, cleared, officer, refused, regLog>>

\* Mutant of File: a registration filed as approved opens the clearances.
FileFansOut(s, status) ==
  /\ campaigns # {}
  /\ reg[s].status = "none"
  /\ reg' = [reg EXCEPT ![s] = [status |-> status, lapsed |-> FALSE]]
  /\ cleared' = cleared \cup {<<c, s>> : c \in {d \in campaigns : status = "approved"}}
  /\ Wrote(s, "none", status, Len(regLog))
  /\ UNCHANGED <<campaigns, officer, refused>>

\* fileRegistration for a state without a registration.  The request may name any status
\* and leaves the clearances alone.
File(s, status) ==
  /\ campaigns # {}
  /\ reg[s].status = "none"
  /\ reg' = [reg EXCEPT ![s] = [status |-> status, lapsed |-> FALSE]]
  /\ Wrote(s, "none", status, Len(regLog))
  /\ UNCHANGED <<campaigns, cleared, officer, refused>>

\* fileRegistration for a state with one: the UNIQUE constraint refuses the row.
FileRefused(s) ==
  /\ campaigns # {}
  /\ reg[s].status # "none"
  /\ Len(refused) < MaxFilings
  /\ refused' = Append(refused, reg[s].status)
  /\ UNCHANGED <<reg, campaigns, cleared, officer, regLog>>

\* Mutant of TransitionRead: the move is not looked up.
TransitionReadAny(k, s, next) ==
  /\ officer[k].pc = "start"
  /\ reg[s].status # "none"
  /\ officer' = [officer EXCEPT ![k] =
       [pc |-> "moving", state |-> s, from |-> reg[s].status, next |-> next,
        readAt |-> Len(regLog)]]
  /\ UNCHANGED <<reg, campaigns, cleared, refused, regLog>>

\* transitionRegistration up to its transaction: a move that is not allowed from the
\* status it read is a conflict.
TransitionRead(k, s, next) ==
  /\ officer[k].pc = "start"
  /\ reg[s].status # "none"
  /\ officer' = [officer EXCEPT ![k] =
       IF next \in STATUS_TRANSITIONS[reg[s].status]
       THEN [pc |-> "moving", state |-> s, from |-> reg[s].status, next |-> next,
             readAt |-> Len(regLog)]
       ELSE Done]
  /\ UNCHANGED <<reg, campaigns, cleared, refused, regLog>>

\* Mutant of FanOut: the clearances are opened for the campaigns still to come.
FanOutAll(s) == cleared \cup {<<c, s>> : c \in Campaigns}

\* A clearance for every campaign the org has.
FanOut(s) == cleared \cup {<<c, s>> : c \in campaigns}

\* Its transaction: the status is written by id, and an approval opens the clearances.
TransitionCommit(k) ==
  /\ officer[k].pc = "moving"
  /\ LET s == officer[k].state
         next == officer[k].next
     IN  /\ reg' = [reg EXCEPT ![s].status = next]
         /\ cleared' = IF next = "approved" THEN FanOut(s) ELSE cleared
         /\ Wrote(s, officer[k].from, next, officer[k].readAt)
  /\ officer' = [officer EXCEPT ![k] = Done]
  /\ UNCHANGED <<campaigns, refused>>

\* The handler ends before its transaction, or the transaction fails.
TransitionFail(k) ==
  /\ officer[k].pc = "moving"
  /\ officer' = [officer EXCEPT ![k] = Done]
  /\ UNCHANGED <<reg, campaigns, cleared, refused, regLog>>

\* expiresAt passes; the back office writes it, no code of this repository does.
Lapse(s) ==
  /\ reg[s].status = "approved"
  /\ ~reg[s].lapsed
  /\ reg' = [reg EXCEPT ![s].lapsed = TRUE]
  /\ UNCHANGED <<campaigns, cleared, officer, refused, regLog>>

Next ==
  \/ \E c \in Campaigns : Launch(c)
  \/ \E s \in States, status \in SolicitorStatus : File(s, status)
  \/ \E s \in States : FileRefused(s) \/ Lapse(s)
  \/ \E k \in Officers, s \in States, next \in Requested : TransitionRead(k, s, next)
  \/ \E k \in Officers : TransitionCommit(k) \/ TransitionFail(k)

Spec == Init /\ [][Next]_vars
-----------------------------------------------------------------------------
OfficerType ==
  {Start, Done} \cup
  [pc : {"moving"}, state : States, from : SolicitorStatus, next : Requested, readAt : Nat]

WriteType ==
  [state : States, from : SolicitorStatus \cup {"none"},
   was : SolicitorStatus \cup {"none"}, to : SolicitorStatus, readAt : Nat,
   campaigns : SUBSET Campaigns]

TypeOK ==
  /\ reg \in [States -> [status : SolicitorStatus \cup {"none"}, lapsed : BOOLEAN]]
  /\ campaigns \subseteq Campaigns
  /\ cleared \subseteq campaigns \X States
  /\ officer \in [Officers -> OfficerType]
  /\ refused \in Seq(SolicitorStatus)
  /\ regLog \in Seq(WriteType)

\* Another write of the same registration committed between the read and the write of n.
Overtaken(n) ==
  \E m \in regLog[n].readAt + 1 .. n - 1 : regLog[m].state = regLog[n].state

\* A registration leaves the state machine, and its audit row misreports the status it
\* left, only when two PATCHes of it overlapped and the later one wrote over the
\* earlier one's status.
LegalUnlessOvertaken ==
  \A n \in 1 .. Len(regLog) : regLog[n].was # "none" =>
    \/ regLog[n].from = regLog[n].was
       /\ regLog[n].to \in STATUS_TRANSITIONS[regLog[n].was]
    \/ Overtaken(n)

\* The gate is open for a campaign only if a PATCH approved the registration when the
\* campaign existed: neither a registration filed as approved, nor an approval given
\* before the campaign was launched, ever clears it.
OpenGateWasApproved ==
  \A c \in Campaigns, s \in States : Cleared(c, s) =>
    \E n \in 1 .. Len(regLog) :
      /\ regLog[n].state = s /\ regLog[n].to = "approved" /\ regLog[n].was # "none"
      /\ c \in regLog[n].campaigns
=============================================================================
