------------------------------ MODULE Booking ------------------------------
(***************************************************************************)
(* POST /v1/conversions under one Idempotency-Key, for one lead:           *)
(* createConversion of apps/api/src/domains/conversion/service.ts run by   *)
(* withIdempotency (Key), gated by the state clearances of the org (Gate)  *)
(* and flipping the status of a lead that PATCHes move meanwhile           *)
(* (Pipeline).  createConversion reads the lead, then the clearance, and   *)
(* commits conversion, donation or sale, lead and audit row together; the  *)
(* three are separate steps, between which everything else may happen.     *)
(***************************************************************************)
EXTENDS Integers, Sequences

CONSTANTS
  Posts,      \* the POSTs with the key, retries and double clicks included
  Inputs,     \* the bodies they may carry: [type, campaign, donorState]
  Patches,    \* the PATCHes of the lead
  Officers,   \* the PATCHes of registrations
  Campaigns,  \* the campaigns of the org
  States,     \* the US states
  None        \* an absent campaign, state or field

ASSUME BookingAssumption ==
  \A input \in Inputs : input.donorState \in States \cup {None}

VARIABLES
  reg, campaigns, cleared, officer, refused, regLog,  \* see Clearance
  lead, patch, trail,                                 \* see LeadPipeline
  record, call, now, stored, effects, replies,        \* see Idempotency
  region,      \* the region of the lead's address, or None
  booking,     \* booking[k]: what createConversion carries in POST k
  conversions  \* the Conversion rows, each with its Donation or Sale

gateVars == <<reg, campaigns, cleared, officer, refused, regLog>>
leadVars == <<lead, patch, trail>>
keyVars == <<record, call, now, stored, effects, replies>>
bookingVars == <<region, booking, conversions>>
vars == <<gateVars, leadVars, keyVars, bookingVars>>

Gate == INSTANCE Clearance WITH MaxFilings <- 0
Pipeline == INSTANCE LeadPipeline WITH Reps <- {}, Absent <- None
Key == INSTANCE Idempotency WITH Calls <- Posts, Requests <- Inputs, TTL <- 0, MaxTime <- 0

Idle == [pc |-> "idle"]

Input(k) == call[k].request

\* lead.address.region when there is one, else what the body says.
DonorState(k) == IF region = None THEN Input(k).donorState ELSE region

\* Mutant of GateOpen: the row of the clearance is enough.
GateOpenByRow(campaign, state) == campaign = None \/ <<campaign, state>> \in cleared

\* assertStateCleared: without a campaign there is nothing to clear.
GateOpen(campaign, state) ==
  campaign = None \/ (state # None /\ Gate!Cleared(campaign, state))
-----------------------------------------------------------------------------
Init ==
  /\ Gate!Init
  /\ Pipeline!Init
  /\ Key!Init
  /\ region \in States \cup {None}
  /\ booking = [k \in Posts |-> Idle]
  /\ conversions = {}

\* Mutant of Post: the route forgets the idempotency middleware.
PostAnyway(k, input) ==
  /\ call[k].pc = "start"
  /\ call' = [call EXCEPT ![k] =
       [pc |-> "handling", request |-> input, at |-> now, seen |-> stored]]
  /\ UNCHANGED <<record, now, stored, effects, replies, gateVars, leadVars, bookingVars>>

\* The route: the key is looked up before createConversion is called.
Post(k, input) ==
  /\ Key!Load(k, input)
  /\ UNCHANGED <<gateVars, leadVars, bookingVars>>

\* createConversion, first statement: the lead and its address.
ReadLead(k) ==
  /\ call[k].pc = "handling"
  /\ booking[k] = Idle
  /\ booking' = [booking EXCEPT ![k] =
       [pc |-> "reading", lead |-> lead, state |-> DonorState(k), leadAt |-> Len(trail)]]
  /\ UNCHANGED <<gateVars, leadVars, keyVars, region, conversions>>

\* The gate lets the booking through ...
PassGate(k) ==
  /\ booking[k].pc = "reading"
  /\ GateOpen(Input(k).campaign, booking[k].state)
  /\ booking' = [booking EXCEPT ![k] =
       [pc |-> "gated", lead |-> booking[k].lead, leadAt |-> booking[k].leadAt,
        gateAt |-> Len(regLog)]]
  /\ UNCHANGED <<gateVars, leadVars, keyVars, region, conversions>>

\* ... or the POST ends with 409 PROBLEM_STATE_NOT_CLEARED.
StopAtGate(k) ==
  /\ booking[k].pc = "reading"
  /\ ~GateOpen(Input(k).campaign, booking[k].state)
  /\ Key!Fail(k)
  /\ booking' = [booking EXCEPT ![k] = Idle]
  /\ UNCHANGED <<gateVars, leadVars, region, conversions>>

\* Mutant of FlipsLead: only the move the pipeline allows is made.
FlipsLeadInOrder(k) == booking[k].lead.status = "appointment_set"

\* A lead that was not read as converted is written as converted.
FlipsLead(k) == booking[k].lead.status # "converted"

\* The finalising transaction.  Its idempotencyKey column gets a fresh id.
Finalise(k) ==
  /\ booking[k].pc = "gated"
  /\ Key!Handle(k)
  /\ conversions' = conversions \cup
       {[call |-> k, input |-> Input(k), leadStatus |-> booking[k].lead.status,
         gateAt |-> booking[k].gateAt]}
  /\ IF FlipsLead(k)
     THEN Pipeline!Changed(booking[k].lead, [status |-> "converted", assignee |-> None],
                           [lead EXCEPT !.status = "converted"], booking[k].leadAt)
     ELSE UNCHANGED <<lead, trail>>
  /\ booking' = [booking EXCEPT ![k] = Idle]
  /\ UNCHANGED <<gateVars, patch, region>>

\* storeResponse and the reply.
Reply(k) ==
  /\ Key!Store(k)
  /\ UNCHANGED <<gateVars, leadVars, bookingVars>>

\* The POST ends early, before or after its transaction.
PostFails(k) ==
  /\ Key!Fail(k)
  /\ booking' = [booking EXCEPT ![k] = Idle]
  /\ UNCHANGED <<gateVars, leadVars, region, conversions>>

Next ==
  \/ \E k \in Posts :
       \/ \E input \in Inputs : Post(k, input)
       \/ ReadLead(k) \/ PassGate(k) \/ StopAtGate(k) \/ Finalise(k)
       \/ Reply(k) \/ PostFails(k)
  \/ Gate!Next /\ UNCHANGED <<leadVars, keyVars, bookingVars>>
  \/ Pipeline!Next /\ UNCHANGED <<gateVars, keyVars, bookingVars>>

Spec == Init /\ [][Next]_vars
-----------------------------------------------------------------------------
BookingType ==
  {Idle} \cup
  [pc : {"reading"}, lead : Pipeline!RowType, state : States \cup {None}, leadAt : Nat] \cup
  [pc : {"gated"}, lead : Pipeline!RowType, leadAt : Nat, gateAt : Nat]

TypeOK ==
  /\ Gate!TypeOK /\ Pipeline!TypeOK /\ Key!TypeOK
  /\ region \in States \cup {None}
  /\ booking \in [Posts -> BookingType]
  /\ conversions \subseteq [call : Posts, input : Inputs, gateAt : Nat,
                            leadStatus : Pipeline!LeadStatus]

\* The state of the donor behind conversion v: no body overrides an address.
StateOf(v) == IF region = None THEN v.input.donorState ELSE region

\* At position n of its log the registration of s is approved, by a PATCH that cleared c.
ClearedAt(c, s, n) ==
  \E a \in 1 .. n :
    /\ regLog[a].state = s /\ regLog[a].to = "approved" /\ regLog[a].was # "none"
    /\ c \in regLog[a].campaigns
    /\ \A m \in a + 1 .. n : regLog[m].state = s => regLog[m].to = "approved"

\* A conversion of a campaign is booked only if the donor's own state was cleared for this
\* campaign when the handler reached the gate: a later rejection or expiry is missed
\* only by the handlers that had passed it.
BookedUnderClearance ==
  \A v \in conversions : v.input.campaign # None =>
    ClearedAt(v.input.campaign, StateOf(v), v.gateAt)

\* Once a conversion is booked the lead is converted, and stays so unless a PATCH that had
\* read the lead before it became converted writes over it.
ConversionConvertsLead ==
  conversions # {} /\ lead.status # "converted" =>
    \E n \in 1 .. Len(trail) :
      trail[n].was.status = "converted" /\ Pipeline!Overtaken(n, "status")

\* Two conversions under one key come from POSTs that overlapped or from one that died
\* before its response was stored: a retry after an answer books nothing, and an
\* answer always has its conversion.
BookedTwiceOnlyByOverlap ==
  /\ \A e \in effects : e.seen = {}
  /\ \A r \in replies : \E v \in conversions : v.input = r.request
=============================================================================
