---------------------------- MODULE BookingProofs ----------------------------
(***************************************************************************)
(* A conversion from its POST to its row, for every set of posts, filings  *)
(* and patches: what the gate had found when it was booked, and what its   *)
(* transaction leaves of the lead. The three components it goes through    *)
(* keep the invariants their own modules prove, taken here under the names *)
(* G, P and K. Last, what the cents of Rake add up to, for every amount.   *)
(***************************************************************************)
EXTENDS Booking, Rake, TLAPS

\* The proofs of the registrations, of the lead and of the key, with the parameters Booking
\* gives their modules. The constants it gives none bound actions no step of Booking takes.
G == INSTANCE ClearanceProofs WITH MaxFilings <- 0
P == INSTANCE LeadPipelineProofs WITH Reps <- {}, Absent <- None
K == INSTANCE IdempotencyProofs WITH Calls <- Posts, Requests <- Inputs, TTL <- 0, MaxTime <- 0

\* What createConversion carries in POST k: its own call, and what it saw of the lead
\* and of the clearance.
Carried(k) ==
  LET b == booking[k] IN
  b.pc # "idle" =>
    /\ call[k].pc = "handling"
    /\ b.lead.status = "converted" => P!ConvertedOrOverwritten
    /\ b.pc = "reading" => b.state = DonorState(k)
    /\ b.pc = "gated" =>
         /\ b.gateAt <= Len(regLog)
         /\ Input(k).campaign # None =>
              ClearedAt(Input(k).campaign, DonorState(k), b.gateAt)

\* The handlers that committed are the conversions.
EffectsBooked == \A e \in effects : \E v \in conversions : v.input = e.request

\* A conversion has passed the gate at a position of the log, and converted the lead.
Booked ==
  /\ \A v \in conversions : v.gateAt <= Len(regLog)
  /\ conversions # {} => P!ConvertedOrOverwritten
  /\ BookedUnderClearance

\* What createConversion keeps of its own has its types.
BookingTyped ==
  /\ region \in States \cup {None}
  /\ booking \in [Posts -> BookingType]
  /\ conversions \subseteq [call : Posts, input : Inputs, gateAt : Nat,
                            leadStatus : Pipeline!LeadStatus]

\* The components' invariants and what createConversion carries from one to the next. Moves
\* and changes of the lead are left out: Booking states none of them.
BookIInv ==
  /\ G!IInv
  /\ P!TypeOK /\ P!ReadersInv
  /\ K!IInv
  /\ BookingTyped
  /\ \A k \in Posts : Carried(k)
  /\ EffectsBooked
  /\ Booked
-----------------------------------------------------------------------------
\* The components as Booking composes them are those their proofs are about.
LEMMA SameGate ==
  /\ Gate!Init = G!Init /\ Gate!Next = G!Next /\ Gate!TypeOK = G!TypeOK
  /\ \A c, s : Gate!Cleared(c, s) = G!Cleared(c, s)
<1>1. Gate!Init = G!Init
  BY DEF Gate!Init, G!Init, Gate!NoRegistration, G!NoRegistration, Gate!Start, G!Start
<1>2. Gate!Next = G!Next
  BY DEF Gate!Next, Gate!Launch, Gate!File, Gate!FileRefused, Gate!TransitionRead,
    Gate!TransitionCommit, Gate!TransitionFail, Gate!Lapse, Gate!SolicitorStatus,
    Gate!Requested, Gate!Wrote, Gate!FanOut, Gate!STATUS_TRANSITIONS, Gate!Done,
    G!Next, G!Launch, G!File, G!FileRefused, G!TransitionRead, G!TransitionCommit,
    G!TransitionFail, G!Lapse, G!SolicitorStatus, G!Requested, G!Wrote, G!FanOut,
    G!STATUS_TRANSITIONS, G!Done
<1>3. Gate!TypeOK = G!TypeOK
  BY DEF Gate!TypeOK, Gate!SolicitorStatus, Gate!OfficerType, Gate!WriteType, Gate!Start,
    Gate!Done, Gate!Requested,
    G!TypeOK, G!SolicitorStatus, G!OfficerType, G!WriteType, G!Start, G!Done, G!Requested
<1>4. \A c, s : Gate!Cleared(c, s) = G!Cleared(c, s)
  BY DEF Gate!Cleared, G!Cleared
<1>. QED
  BY <1>1, <1>2, <1>3, <1>4

\* The same of the lead and its patches.
LEMMA SamePipeline ==
  /\ Pipeline!Init = P!Init /\ Pipeline!Next = P!Next /\ Pipeline!TypeOK = P!TypeOK
  /\ \A from, asked, next, readAt :
       Pipeline!Changed(from, asked, next, readAt) = P!Changed(from, asked, next, readAt)
  /\ Pipeline!LeadStatus = P!LeadStatus /\ Pipeline!RowType = P!RowType
  /\ \A n, f : Pipeline!Overtaken(n, f) = P!Overtaken(n, f)
<1>1. Pipeline!Init = P!Init
  BY DEF Pipeline!Init, P!Init, Pipeline!LeadStatus, P!LeadStatus, Pipeline!Start, P!Start
<1>2. Pipeline!Next = P!Next
  BY DEF Pipeline!Next, Pipeline!UpdateRead, Pipeline!AssignRead, Pipeline!UpdateCommit,
    Pipeline!PatchFail, Pipeline!Changed, Pipeline!Written, Pipeline!Given, Pipeline!Done,
    Pipeline!IsValidTransition, Pipeline!TRANSITIONS, Pipeline!LeadStatus,
    P!Next, P!UpdateRead, P!AssignRead, P!UpdateCommit, P!PatchFail, P!Changed, P!Written,
    P!Given, P!Done, P!IsValidTransition, P!TRANSITIONS, P!LeadStatus
<1>3. Pipeline!TypeOK = P!TypeOK
  BY DEF Pipeline!TypeOK, Pipeline!RowType, Pipeline!AskedType, Pipeline!PatchType,
    Pipeline!Start, Pipeline!Done, Pipeline!LeadStatus,
    P!TypeOK, P!RowType, P!AskedType, P!PatchType, P!Start, P!Done, P!LeadStatus
<1>4. \A from, asked, next, readAt :
        Pipeline!Changed(from, asked, next, readAt) = P!Changed(from, asked, next, readAt)
  BY DEF Pipeline!Changed, P!Changed
<1>5. Pipeline!LeadStatus = P!LeadStatus /\ Pipeline!RowType = P!RowType
  BY DEF Pipeline!LeadStatus, P!LeadStatus, Pipeline!RowType, P!RowType
<1>6. \A n, f : Pipeline!Overtaken(n, f) = P!Overtaken(n, f)
  BY DEF Pipeline!Overtaken, P!Overtaken
<1>. QED
  BY <1>1, <1>2, <1>3, <1>4, <1>5, <1>6

\* The same of the idempotency key, whose rows hold for one instant.
LEMMA SameKey ==
  /\ Key!Init = K!Init /\ Key!TypeOK = K!TypeOK
  /\ \A k, input : Key!Load(k, input) = K!Load(k, input)
  /\ \A k : Key!Handle(k) = K!Handle(k) /\ Key!Store(k) = K!Store(k) /\ Key!Fail(k) = K!Fail(k)
<1>1. Key!Init = K!Init
  BY DEF Key!Init, K!Init, Key!NoRecord, K!NoRecord, Key!Start, K!Start
<1>2. Key!TypeOK = K!TypeOK
  BY DEF Key!TypeOK, Key!RecordType, Key!CallType, Key!Times, Key!Stores, Key!NoRecord,
    Key!Start, Key!Done,
    K!TypeOK, K!RecordType, K!CallType, K!Times, K!Stores, K!NoRecord, K!Start, K!Done
<1>3. \A k, input : Key!Load(k, input) = K!Load(k, input)
  BY DEF Key!Load, K!Load, Key!Hit, K!Hit, Key!Finish, K!Finish, Key!Done, K!Done
<1>4. \A k : Key!Handle(k) = K!Handle(k)
  BY DEF Key!Handle, K!Handle
<1>5. \A k : Key!Store(k) = K!Store(k)
  BY DEF Key!Store, K!Store, Key!Upsert, K!Upsert, Key!Expiry, K!Expiry, Key!Finish, K!Finish,
    Key!Done, K!Done
<1>6. \A k : Key!Fail(k) = K!Fail(k)
  BY DEF Key!Fail, K!Fail, Key!Finish, K!Finish, Key!Done, K!Done
<1>. QED
  BY <1>1, <1>2, <1>3, <1>4, <1>5, <1>6
-----------------------------------------------------------------------------
\* The log of the registrations only grows, and the lead once converted stays so or is
\* overwritten: what every step of the composition leaves of the two.
Onward ==
  /\ Len(regLog) \in Nat /\ Len(regLog') \in Nat /\ Len(regLog) <= Len(regLog')
  /\ \A n \in 1 .. Len(regLog) : regLog'[n] = regLog[n]
  /\ P!ConvertedOrOverwritten => P!ConvertedOrOverwritten'
  /\ region' = region

\* ClearedAt, of the log given.
OpenIn(log, c, s, n) ==
  \E a \in 1 .. n :
    /\ log[a].state = s /\ log[a].to = "approved" /\ log[a].was # "none"
    /\ c \in log[a].campaigns
    /\ \A m \in a + 1 .. n : log[m].state = s => log[m].to = "approved"

\* An approval found in the log stays where it was.
LEMMA ClearedStays ==
  ASSUME Onward
  PROVE  \A c, s : \A n \in 0 .. Len(regLog) :
           OpenIn(regLog, c, s, n) => OpenIn(regLog', c, s, n)
<1>. SUFFICES ASSUME NEW c, NEW s, NEW n \in 0 .. Len(regLog), OpenIn(regLog, c, s, n)
              PROVE  OpenIn(regLog', c, s, n)
  OBVIOUS
<1>1. PICK a \in 1 .. n :
        /\ regLog[a].state = s /\ regLog[a].to = "approved" /\ regLog[a].was # "none"
        /\ c \in regLog[a].campaigns
        /\ \A m \in a + 1 .. n : regLog[m].state = s => regLog[m].to = "approved"
  BY DEF OpenIn
<1>2. \A m \in 1 .. n : regLog'[m] = regLog[m]
  BY DEF Onward
<1>3. \A m \in a + 1 .. n : m \in 1 .. n
  BY DEF Onward
<1>. QED
  BY <1>1, <1>2, <1>3 DEF OpenIn

\* What the shapes of a booking have for fields.
LEMMA BookingShapes ==
  ASSUME NEW b \in BookingType
  PROVE  /\ b.pc \in {"idle", "reading", "gated"}
         /\ b.pc # "idle" => b.lead \in Pipeline!RowType /\ b.leadAt \in Nat
         /\ b.pc = "reading" => b.state \in States \cup {None}
         /\ b.pc = "gated" => b.gateAt \in Nat
         /\ Idle \in BookingType /\ Idle.pc = "idle"
  BY DEF BookingType, Idle

\* A booking that goes on carries what it did, whatever the rest of the system does.
LEMMA CarriedOn ==
  ASSUME BookIInv, Onward, NEW k \in Posts, booking'[k] = booking[k],
         booking[k].pc # "idle" => call'[k] = call[k]
  PROVE  Carried(k)'
<1>. DEFINE b == booking[k]
<1>1. SUFFICES ASSUME b.pc # "idle" PROVE Carried(k)'
  BY DEF Carried
<1>2. /\ call[k].pc = "handling" /\ call'[k] = call[k]
      /\ b.lead.status = "converted" => P!ConvertedOrOverwritten
      /\ b.pc = "reading" => b.state = DonorState(k)
      /\ b.pc = "gated" =>
           /\ b.gateAt <= Len(regLog)
           /\ Input(k).campaign # None =>
                ClearedAt(Input(k).campaign, DonorState(k), b.gateAt)
  BY <1>1 DEF BookIInv, Carried
<1>3. DonorState(k)' = DonorState(k) /\ Input(k)' = Input(k)
  BY <1>2 DEF DonorState, Input, Onward
<1>4. b.pc = "gated" => b.gateAt \in 0 .. Len(regLog) /\ b.gateAt <= Len(regLog')
  BY <1>2, BookingShapes DEF BookIInv, BookingTyped, Onward
<1>5. ASSUME b.pc = "gated", Input(k).campaign # None
      PROVE  ClearedAt(Input(k).campaign, DonorState(k), booking[k].gateAt)'
  <2>1. /\ OpenIn(regLog, Input(k).campaign, DonorState(k), b.gateAt)
        /\ b.gateAt \in 0 .. Len(regLog)
    BY <1>2, <1>4, <1>5 DEF ClearedAt, OpenIn
  <2>2. OpenIn(regLog', Input(k).campaign, DonorState(k), b.gateAt)
    BY <2>1, ClearedStays
  <2>. QED
    BY <1>3, <2>2 DEF ClearedAt, OpenIn
<1>. QED
  BY <1>2, <1>3, <1>4, <1>5 DEF Carried, Onward

\* A conversion that was booked stays what it was.
LEMMA BookedStays ==
  ASSUME BookIInv, Onward
  PROVE  /\ \A v \in conversions : v.gateAt <= Len(regLog')
         /\ conversions # {} => P!ConvertedOrOverwritten'
         /\ \A v \in conversions : v.input.campaign # None =>
              ClearedAt(v.input.campaign, StateOf(v), v.gateAt)'
<1>1. \A v \in conversions : v.gateAt \in 0 .. Len(regLog) /\ v.gateAt <= Len(regLog')
  BY DEF BookIInv, BookingTyped, Booked, Onward
<1>2. conversions # {} => P!ConvertedOrOverwritten'
  BY DEF BookIInv, Booked, Onward
<1>3. ASSUME NEW v \in conversions, v.input.campaign # None
      PROVE  ClearedAt(v.input.campaign, StateOf(v), v.gateAt)'
  <2>1. /\ OpenIn(regLog, v.input.campaign, StateOf(v), v.gateAt)
        /\ v.gateAt \in 0 .. Len(regLog) /\ StateOf(v)' = StateOf(v)
    BY <1>1, <1>3 DEF BookIInv, Booked, BookedUnderClearance, ClearedAt, OpenIn, StateOf, Onward
  <2>2. OpenIn(regLog', v.input.campaign, StateOf(v), v.gateAt)
    BY <2>1, ClearedStays
  <2>. QED
    BY <2>1, <2>2 DEF ClearedAt, OpenIn
<1>. QED
  BY <1>1, <1>2, <1>3
-----------------------------------------------------------------------------
\* A step of each component, or none, keeps what is known of the components.
LEMMA ComponentsStep ==
  ASSUME BookIInv, [G!Next]_G!vars, [P!Next]_P!vars, [K!Next]_K!vars
  PROVE  G!IInv' /\ P!TypeOK' /\ P!ReadersInv' /\ K!IInv'
<1>1. G!IInv /\ P!TypeOK /\ P!ReadersInv /\ K!IInv
  BY DEF BookIInv
<1>2. G!IInv'
  BY <1>1, G!NextIInv
<1>3. P!TypeOK' /\ P!ReadersInv'
  BY <1>1, P!NextTyped, P!NextReaders
<1>4. K!IInv'
  BY <1>1, K!NextInv
<1>. QED
  BY <1>2, <1>3, <1>4

\* Such a step of the registrations and of the lead goes onward.
LEMMA OnwardStep ==
  ASSUME BookIInv, [G!Next]_G!vars, [P!Next]_P!vars, region' = region
  PROVE  Onward
<1>1. G!TypeOK /\ P!TypeOK /\ P!ReadersInv
  BY DEF BookIInv, G!IInv
<1>2. /\ Len(regLog) \in Nat /\ Len(regLog') \in Nat /\ Len(regLog) <= Len(regLog')
      /\ \A n \in 1 .. Len(regLog) : regLog'[n] = regLog[n]
  BY <1>1, G!LogGrows
<1>3. P!ConvertedOrOverwritten => P!ConvertedOrOverwritten'
  BY <1>1, P!ConvertedStays
<1>. QED
  BY <1>2, <1>3 DEF Onward

\* A step that books nothing.
LEMMA NothingBooked ==
  ASSUME BookIInv, [G!Next]_G!vars, [P!Next]_P!vars, [K!Next]_K!vars,
         UNCHANGED <<region, conversions, effects>>,
         booking' \in [Posts -> BookingType],
         \A k \in Posts :
           \/ Carried(k)'
           \/ booking'[k] = booking[k] /\ (booking[k].pc # "idle" => call'[k] = call[k])
  PROVE  BookIInv'
<1>1. G!IInv' /\ P!TypeOK' /\ P!ReadersInv' /\ K!IInv'
  BY ComponentsStep
<1>2. Onward
  BY OnwardStep
<1>3. BookingTyped'
  BY DEF BookIInv, BookingTyped
<1>4. \A k \in Posts : Carried(k)'
  BY <1>2, CarriedOn
<1>5. EffectsBooked'
  BY DEF BookIInv, EffectsBooked
<1>6. Booked'
  <2>1. /\ \A v \in conversions : v.gateAt <= Len(regLog')
        /\ conversions # {} => P!ConvertedOrOverwritten'
        /\ \A v \in conversions : v.input.campaign # None =>
             ClearedAt(v.input.campaign, StateOf(v), v.gateAt)'
    BY <1>2, BookedStays
  <2>2. (\A v \in conversions : v.gateAt <= Len(regLog))'
    BY <2>1
  <2>3. BookedUnderClearance'
    BY <2>1 DEF BookedUnderClearance
  <2>4. (conversions # {} => P!ConvertedOrOverwritten)'
    BY <2>1
  <2>. QED
    BY <2>2, <2>3, <2>4 DEF Booked
<1>. QED
  BY <1>1, <1>3, <1>4, <1>5, <1>6 DEF BookIInv

\* A POST between its route and its reply is the only one that changes its call.
LEMMA OthersGoOn ==
  ASSUME BookIInv, NEW k \in Posts,
         \/ \E input \in Inputs : K!Load(k, input)
         \/ K!Store(k)
         \/ K!Fail(k)
  PROVE  /\ UNCHANGED effects
         /\ [K!Next]_K!vars
         /\ \A j \in Posts \ {k} : call'[j] = call[j]
         /\ (\E input \in Inputs : K!Load(k, input)) \/ K!Store(k) => booking[k].pc = "idle"
<1>1. call \in [Posts -> K!CallType]
  BY DEF BookIInv, K!IInv, K!TypeOK
<1>2. UNCHANGED effects /\ \A j \in Posts \ {k} : call'[j] = call[j]
  BY <1>1 DEF K!Load, K!Store, K!Fail, K!Finish
<1>3. K!Next
  BY DEF K!Next
<1>4. (\E input \in Inputs : K!Load(k, input)) \/ K!Store(k) => call[k].pc # "handling"
  BY DEF K!Load, K!Store
<1>5. booking[k].pc # "idle" => call[k].pc = "handling"
  BY DEF BookIInv, Carried
<1>. QED
  BY <1>2, <1>3, <1>4, <1>5

\* The officers and the patches of the lead go their way, and POSTs are looked up and
\* answered.
LEMMA AroundBooking ==
  ASSUME BookIInv,
         \/ Gate!Next /\ UNCHANGED <<leadVars, keyVars, bookingVars>>
         \/ Pipeline!Next /\ UNCHANGED <<gateVars, keyVars, bookingVars>>
         \/ \E k \in Posts, input \in Inputs : Post(k, input)
         \/ \E k \in Posts : Reply(k)
         \/ UNCHANGED vars
  PROVE  BookIInv'
<1>1. booking \in [Posts -> BookingType]
  BY DEF BookIInv, BookingTyped
<1>2. CASE Gate!Next /\ UNCHANGED <<leadVars, keyVars, bookingVars>>
  <2>1. G!Next /\ UNCHANGED <<P!vars, K!vars, region, booking, conversions>>
    BY <1>2, SameGate DEF bookingVars, leadVars, keyVars, P!vars, K!vars
  <2>2. UNCHANGED <<effects, call>>
    BY <2>1 DEF K!vars
  <2>. QED
    BY <1>1, <2>1, <2>2, NothingBooked
<1>3. CASE Pipeline!Next /\ UNCHANGED <<gateVars, keyVars, bookingVars>>
  <2>1. P!Next /\ UNCHANGED <<G!vars, K!vars, region, booking, conversions>>
    BY <1>3, SamePipeline DEF bookingVars, gateVars, keyVars, G!vars, K!vars
  <2>2. UNCHANGED <<effects, call>>
    BY <2>1 DEF K!vars
  <2>. QED
    BY <1>1, <2>1, <2>2, NothingBooked
<1>4. ASSUME NEW k \in Posts, (\E input \in Inputs : Post(k, input)) \/ Reply(k)
      PROVE  BookIInv'
  <2>1. /\ (\E input \in Inputs : K!Load(k, input)) \/ K!Store(k)
        /\ UNCHANGED <<G!vars, P!vars, region, booking, conversions>>
    BY <1>4, SameKey DEF Post, Reply, bookingVars, gateVars, leadVars, G!vars, P!vars
  <2>2. /\ UNCHANGED effects /\ [K!Next]_K!vars
        /\ \A j \in Posts \ {k} : call'[j] = call[j]
        /\ booking[k].pc = "idle"
    BY <2>1, OthersGoOn
  <2>3. \A j \in Posts :
          booking'[j] = booking[j] /\ (booking[j].pc # "idle" => call'[j] = call[j])
    BY <2>1, <2>2
  <2>. QED
    BY <1>1, <2>1, <2>2, <2>3, NothingBooked
<1>5. CASE UNCHANGED vars
  <2>1. UNCHANGED <<G!vars, P!vars, K!vars, region, booking, conversions>>
    BY <1>5 DEF vars, bookingVars, gateVars, leadVars, keyVars, G!vars, P!vars, K!vars
  <2>2. UNCHANGED <<effects, call>>
    BY <2>1 DEF K!vars
  <2>. QED
    BY <1>1, <2>1, <2>2, NothingBooked
<1>. QED
  BY <1>2, <1>3, <1>4, <1>5

\* createConversion reads the lead.
LEMMA ReadLeadKeeps == ASSUME BookIInv, NEW k \in Posts, ReadLead(k) PROVE BookIInv'
<1>. DEFINE b == [pc |-> "reading", lead |-> lead, state |-> DonorState(k),
                  leadAt |-> Len(trail)]
<1>1. /\ call[k].pc = "handling" /\ booking' = [booking EXCEPT ![k] = b]
      /\ UNCHANGED <<G!vars, P!vars, K!vars, region, conversions>>
  BY DEF ReadLead, gateVars, leadVars, keyVars, G!vars, P!vars, K!vars
<1>2. UNCHANGED <<call, effects, lead, trail>>
  BY <1>1 DEF P!vars, K!vars
<1>3. /\ booking \in [Posts -> BookingType] /\ region \in States \cup {None}
      /\ lead \in Pipeline!RowType /\ Len(trail) \in Nat
  BY SamePipeline DEF BookIInv, BookingTyped, P!TypeOK
<1>4. call[k].request \in Inputs
  <2>1. call[k] \in K!CallType
    BY DEF BookIInv, K!IInv, K!TypeOK
  <2>. QED
    BY <1>1, <2>1, K!CallShapes
<1>5. DonorState(k) \in States \cup {None}
  BY <1>3, <1>4, BookingAssumption DEF DonorState, Input
<1>6. /\ b \in BookingType /\ b.pc = "reading" /\ b.lead = lead /\ b.state = DonorState(k)
  BY <1>3, <1>5 DEF BookingType
<1>. HIDE DEF b
<1>7. booking' \in [Posts -> BookingType] /\ booking'[k] = b
      /\ \A j \in Posts \ {k} : booking'[j] = booking[j]
  BY <1>1, <1>3, <1>6
<1>8. lead.status = "converted" => P!ConvertedOrOverwritten'
  BY <1>2 DEF P!ConvertedOrOverwritten
<1>9. DonorState(k)' = DonorState(k)
  BY <1>1, <1>2 DEF DonorState, Input
<1>10. Carried(k)'
  BY <1>1, <1>2, <1>6, <1>7, <1>8, <1>9 DEF Carried
<1>11. \A j \in Posts : Carried(j)' \/ (booking'[j] = booking[j] /\ call'[j] = call[j])
  BY <1>2, <1>7, <1>10
<1>. QED
  BY <1>1, <1>2, <1>7, <1>11, NothingBooked

\* The gate lets a booking through only if a PATCH had cleared the campaign where the donor
\* is: its row is behind an approval that is the last word of the log.
LEMMA PassGateKeeps == ASSUME BookIInv, NEW k \in Posts, PassGate(k) PROVE BookIInv'
<1>. DEFINE r == booking[k]
            b == [pc |-> "gated", lead |-> r.lead, leadAt |-> r.leadAt,
                  gateAt |-> Len(regLog)]
<1>1. /\ r.pc = "reading" /\ booking' = [booking EXCEPT ![k] = b]
      /\ GateOpen(Input(k).campaign, r.state)
      /\ UNCHANGED <<G!vars, P!vars, K!vars, region, conversions>>
  BY DEF PassGate, gateVars, leadVars, keyVars, G!vars, P!vars, K!vars
<1>2. UNCHANGED <<call, effects, lead, trail, regLog>>
  BY <1>1 DEF G!vars, P!vars, K!vars
<1>3. /\ booking \in [Posts -> BookingType] /\ r \in BookingType
      /\ G!TypeOK /\ G!ClearedInv
  BY DEF BookIInv, BookingTyped, G!IInv
<1>4. /\ r.lead \in Pipeline!RowType /\ r.leadAt \in Nat /\ Len(regLog) \in Nat
  BY <1>1, <1>3, BookingShapes DEF G!TypeOK
<1>5. /\ call[k].pc = "handling" /\ r.state = DonorState(k)
      /\ r.lead.status = "converted" => P!ConvertedOrOverwritten
  BY <1>1 DEF BookIInv, Carried
<1>6. /\ b \in BookingType /\ b.pc = "gated" /\ b.lead = r.lead /\ b.gateAt = Len(regLog)
  BY <1>4 DEF BookingType
<1>. HIDE DEF b
<1>7. booking' \in [Posts -> BookingType] /\ booking'[k] = b
      /\ \A j \in Posts \ {k} : booking'[j] = booking[j]
  BY <1>1, <1>3, <1>6
<1>8. ASSUME Input(k).campaign # None
      PROVE  OpenIn(regLog, Input(k).campaign, DonorState(k), Len(regLog))
  <2>. DEFINE c == Input(k).campaign
              s == DonorState(k)
  <2>1. G!Cleared(c, s)
    BY <1>1, <1>5, <1>8, SameGate DEF GateOpen
  <2>2. <<c, s>> \in cleared /\ reg[s].status = "approved"
    BY <2>1 DEF G!Cleared
  <2>3. c \in Campaigns /\ s \in States
    BY <1>3, <2>2 DEF G!TypeOK
  <2>4. G!OpenAt(c, s, Len(regLog))
    BY <1>3, <2>2, <2>3 DEF G!ClearedInv
  <2>. QED
    BY <2>4 DEF G!OpenAt, G!ApprovedAt, OpenIn
<1>9. P!ConvertedOrOverwritten => P!ConvertedOrOverwritten'
  BY <1>2 DEF P!ConvertedOrOverwritten, P!Overtaken
<1>10. DonorState(k)' = DonorState(k) /\ Input(k)' = Input(k)
  BY <1>1, <1>2 DEF DonorState, Input
<1>11. Input(k).campaign # None => ClearedAt(Input(k).campaign, DonorState(k), booking[k].gateAt)'
  BY <1>2, <1>6, <1>7, <1>8, <1>10 DEF ClearedAt, OpenIn
<1>12. Carried(k)'
  BY <1>2, <1>4, <1>5, <1>6, <1>7, <1>9, <1>10, <1>11 DEF Carried
<1>13. \A j \in Posts : Carried(j)' \/ (booking'[j] = booking[j] /\ call'[j] = call[j])
  BY <1>2, <1>7, <1>12
<1>. QED
  BY <1>1, <1>2, <1>7, <1>13, NothingBooked

\* A POST that ends early leaves nothing of its booking.
LEMMA EndsEarly ==
  ASSUME BookIInv, NEW k \in Posts, StopAtGate(k) \/ PostFails(k)
  PROVE  BookIInv'
<1>1. /\ K!Fail(k) /\ booking' = [booking EXCEPT ![k] = Idle]
      /\ UNCHANGED <<G!vars, P!vars, region, conversions>>
  BY SameKey DEF StopAtGate, PostFails, gateVars, leadVars, G!vars, P!vars
<1>2. booking \in [Posts -> BookingType] /\ Idle \in BookingType /\ Idle.pc = "idle"
  BY DEF BookIInv, BookingTyped, BookingType, Idle
<1>3. /\ booking' \in [Posts -> BookingType] /\ booking'[k] = Idle
      /\ \A j \in Posts \ {k} : booking'[j] = booking[j]
  BY <1>1, <1>2
<1>4. /\ UNCHANGED effects /\ [K!Next]_K!vars
      /\ \A j \in Posts \ {k} : call'[j] = call[j]
  BY <1>1, OthersGoOn
<1>5. ASSUME NEW j \in Posts
      PROVE  Carried(j)' \/ (booking'[j] = booking[j] /\ call'[j] = call[j])
  <2>1. CASE j = k
    <3>1. booking'[j].pc = "idle"
      BY <1>2, <1>3, <2>1
    <3>2. Carried(j)'
      BY <3>1 DEF Carried
    <3>. QED
      BY <3>2
  <2>2. CASE j # k
    BY <1>3, <1>4, <2>2
  <2>. QED
    BY <2>1, <2>2
<1>. QED
  BY <1>1, <1>3, <1>4, <1>5, NothingBooked

\* The finalising transaction books a conversion under the approval its gate had found, and
\* leaves the lead converted, or as whoever overwrote it did.
LEMMA FinaliseKeeps == ASSUME BookIInv, NEW k \in Posts, Finalise(k) PROVE BookIInv'
<1>. DEFINE r == booking[k]
            v == [call |-> k, input |-> Input(k), leadStatus |-> r.lead.status,
                  gateAt |-> r.gateAt]
            asked == [status |-> "converted", assignee |-> None]
            next == [lead EXCEPT !.status = "converted"]
<1>1. /\ r.pc = "gated" /\ K!Handle(k) /\ conversions' = conversions \cup {v}
      /\ \/ r.lead.status # "converted" /\ P!Changed(r.lead, asked, next, r.leadAt)
         \/ r.lead.status = "converted" /\ UNCHANGED <<lead, trail>>
      /\ booking' = [booking EXCEPT ![k] = Idle]
      /\ UNCHANGED <<G!vars, patch, region>>
  BY SameKey, SamePipeline DEF Finalise, FlipsLead, gateVars, G!vars
<1>2. /\ booking \in [Posts -> BookingType] /\ r \in BookingType
      /\ Idle \in BookingType /\ Idle.pc = "idle"
      /\ P!TypeOK /\ P!ReadersInv /\ lead \in P!RowType
      /\ call \in [Posts -> K!CallType]
  BY DEF BookIInv, BookingTyped, BookingType, Idle, P!TypeOK, K!IInv, K!TypeOK
<1>3. /\ r.lead \in P!RowType /\ r.leadAt \in Nat /\ r.gateAt \in Nat
  BY <1>1, <1>2, BookingShapes, SamePipeline
<1>4. /\ call[k].pc = "handling" /\ r.gateAt <= Len(regLog)
      /\ r.lead.status = "converted" => P!ConvertedOrOverwritten
      /\ Input(k).campaign # None => ClearedAt(Input(k).campaign, DonorState(k), r.gateAt)
  BY <1>1 DEF BookIInv, Carried
<1>5. call[k].request \in Inputs
  BY <1>2, <1>4, K!CallShapes
<1>6. /\ v \in [call : Posts, input : Inputs, gateAt : Nat, leadStatus : Pipeline!LeadStatus]
      /\ v.input = Input(k) /\ v.gateAt = r.gateAt
  <2>1. r.lead.status \in P!LeadStatus
    BY <1>3 DEF P!RowType
  <2>. QED
    BY <1>3, <1>5, <2>1, SamePipeline DEF Input
<1>7. /\ asked \in P!AskedType /\ next \in P!RowType /\ next.status = "converted"
  BY <1>2 DEF P!AskedType, P!RowType, P!LeadStatus
<1>. HIDE DEF v, asked, next
<1>8. G!IInv' /\ K!IInv' /\ UNCHANGED regLog
  <2>1. K!Next
    BY <1>1 DEF K!Next
  <2>. QED
    BY <1>1, <2>1, G!NextIInv, K!NextInv DEF BookIInv, G!vars
<1>9. P!TypeOK' /\ P!ReadersInv' /\ P!ConvertedOrOverwritten'
  <2>1. CASE P!Changed(r.lead, asked, next, r.leadAt)
    <3>1. P!ReadersInv' /\ P!ConvertedOrOverwritten'
      BY <1>1, <1>2, <1>3, <1>7, <2>1, P!ChangedReaders, P!ChangedConverted
    <3>2. trail' \in Seq(P!TrailType) /\ lead' = next
      BY <1>2, <1>3, <1>7, <2>1, P!ChangedStep
    <3>3. P!TypeOK'
      BY <1>1, <1>2, <1>7, <3>2 DEF P!TypeOK, P!TrailType
    <3>. QED
      BY <3>1, <3>3
  <2>2. CASE r.lead.status = "converted" /\ UNCHANGED <<lead, trail>>
    <3>1. UNCHANGED P!vars
      BY <1>1, <2>2 DEF P!vars
    <3>2. P!TypeOK' /\ P!ReadersInv' /\ (P!ConvertedOrOverwritten => P!ConvertedOrOverwritten')
      BY <1>2, <3>1, P!NextTyped, P!NextReaders, P!ConvertedStays
    <3>. QED
      BY <1>4, <2>2, <3>2
  <2>. QED
    BY <1>1, <2>1, <2>2
<1>10. Onward
  <2>1. Len(regLog) \in Nat
    BY DEF BookIInv, G!IInv, G!TypeOK
  <2>. QED
    BY <1>1, <1>8, <1>9, <2>1 DEF Onward
<1>11. /\ booking' \in [Posts -> BookingType] /\ booking'[k] = Idle
       /\ \A j \in Posts \ {k} : booking'[j] = booking[j]
       /\ \A j \in Posts \ {k} : call'[j] = call[j]
  BY <1>1, <1>2 DEF K!Handle
<1>12. BookingTyped'
  BY <1>1, <1>6, <1>11 DEF BookIInv, BookingTyped
<1>13. ASSUME NEW j \in Posts PROVE Carried(j)'
  <2>1. CASE j = k
    BY <1>2, <1>11, <2>1 DEF Carried
  <2>2. CASE j # k
    BY <1>10, <1>11, <2>2, CarriedOn
  <2>. QED
    BY <2>1, <2>2
<1>14. EffectsBooked'
  <2>. DEFINE e == [call |-> k, request |-> call[k].request, at |-> call[k].at,
                    seen |-> call[k].seen]
  <2>1. effects' = effects \cup {e} /\ e.request = v.input
    BY <1>1, <1>6 DEF K!Handle, Input
  <2>. HIDE DEF e
  <2>. QED
    BY <1>1, <2>1 DEF BookIInv, EffectsBooked
<1>15. /\ \A w \in conversions : w.gateAt <= Len(regLog')
       /\ \A w \in conversions : w.input.campaign # None =>
            ClearedAt(w.input.campaign, StateOf(w), w.gateAt)'
  BY <1>10, BookedStays
<1>16. ASSUME NEW w \in conversions', w = v, w.input.campaign # None
       PROVE  ClearedAt(w.input.campaign, StateOf(w), w.gateAt)'
  <2>1. StateOf(w)' = DonorState(k)
    BY <1>1, <1>6, <1>16 DEF StateOf, DonorState
  <2>2. OpenIn(regLog, w.input.campaign, DonorState(k), w.gateAt)
    BY <1>4, <1>6, <1>16 DEF ClearedAt, OpenIn
  <2>. QED
    BY <1>8, <2>1, <2>2 DEF ClearedAt, OpenIn
<1>17. /\ \A w \in conversions' : w \in conversions \/ w = v
       /\ v.gateAt <= Len(regLog')
  BY <1>1, <1>4, <1>6, <1>8
<1>18. Booked'
  <2>1. (\A w \in conversions : w.gateAt <= Len(regLog))'
    BY <1>15, <1>17
  <2>2. BookedUnderClearance'
    BY <1>15, <1>16, <1>17 DEF BookedUnderClearance
  <2>. QED
    BY <1>9, <2>1, <2>2 DEF Booked
<1>. QED
  BY <1>8, <1>9, <1>12, <1>13, <1>14, <1>18 DEF BookIInv
-----------------------------------------------------------------------------
\* Nothing is booked yet.
LEMMA InitBookIInv == Init => BookIInv
<1>. SUFFICES ASSUME Init PROVE BookIInv
  OBVIOUS
<1>1. G!IInv /\ P!IInv /\ K!IInv
  BY SameGate, SamePipeline, SameKey, G!InitIInv, P!InitIInv, K!InitInv DEF Init
<1>2. P!TypeOK /\ P!ReadersInv
  BY <1>1 DEF P!IInv
<1>3. BookingTyped
  BY DEF Init, BookingTyped, BookingType
<1>4. \A k \in Posts : Carried(k)
  BY DEF Init, Carried, Idle
<1>5. effects = {}
  BY DEF Init, Key!Init
<1>6. EffectsBooked /\ Booked
  BY <1>5 DEF Init, EffectsBooked, Booked, BookedUnderClearance
<1>. QED
  BY <1>1, <1>2, <1>3, <1>4, <1>6 DEF BookIInv

\* Every step of the composition keeps the invariant.
LEMMA NextBookIInv == BookIInv /\ [Next]_vars => BookIInv'
<1>. SUFFICES ASSUME BookIInv, [Next]_vars PROVE BookIInv'
  OBVIOUS
<1>1. CASE \E k \in Posts :
            ReadLead(k) \/ PassGate(k) \/ StopAtGate(k) \/ Finalise(k) \/ PostFails(k)
  BY <1>1, ReadLeadKeeps, PassGateKeeps, EndsEarly, FinaliseKeeps
<1>2. CASE \/ Gate!Next /\ UNCHANGED <<leadVars, keyVars, bookingVars>>
           \/ Pipeline!Next /\ UNCHANGED <<gateVars, keyVars, bookingVars>>
           \/ \E k \in Posts, input \in Inputs : Post(k, input)
           \/ \E k \in Posts : Reply(k)
           \/ UNCHANGED vars
  BY <1>2, AroundBooking
<1>. QED
  BY <1>1, <1>2 DEF Next

\* The invariant of the composition, of which the theorems state the parts.
LEMMA BookingInvariant == Spec => []BookIInv
<1>. QED
  BY InitBookIInv, NextBookIInv, PTL DEF Spec

\* Registrations, lead, key and bookings keep their types.
THEOREM BookingTypeCorrect == Spec => []TypeOK
<1>1. BookIInv => TypeOK
  BY SameGate, SamePipeline, SameKey DEF BookIInv, BookingTyped, G!IInv, K!IInv, TypeOK
<1>. QED
  BY <1>1, BookingInvariant, PTL

\* For any number of POSTs, officers and campaigns, nothing is booked for a campaign unless
\* the donor's own state was cleared for it when the handler passed the gate.
THEOREM BookingsAreCleared == Spec => []BookedUnderClearance
<1>1. BookIInv => BookedUnderClearance
  BY DEF BookIInv, Booked
<1>. QED
  BY <1>1, BookingInvariant, PTL

\* A lead with a conversion is converted, unless a PATCH that read it before wrote over it.
THEOREM ConversionsConvert == Spec => []ConversionConvertsLead
<1>1. BookIInv => ConversionConvertsLead
  BY SamePipeline
     DEF BookIInv, Booked, P!ConvertedOrOverwritten, ConversionConvertsLead
<1>. QED
  BY <1>1, BookingInvariant, PTL

\* The idempotency key books once unless POSTs overlap or die: no handler that commits had
\* seen a stored response, and every answer has its conversion.
THEOREM BookedOnce == Spec => []BookedTwiceOnlyByOverlap
<1>1. BookIInv => BookedTwiceOnlyByOverlap
  <2>. SUFFICES ASSUME BookIInv PROVE BookedTwiceOnlyByOverlap
    OBVIOUS
  <2>1. ASSUME NEW e \in effects PROVE e.seen = {}
    <3>1. /\ e \in [call : Posts, request : Inputs, at : K!Times, seen : SUBSET K!Stores]
          /\ \A s \in e.seen : s.until < e.at
      BY DEF BookIInv, K!IInv, K!TypeOK, K!RunsAgainOnlyAfterExpiry
    <3>2. e.at \in 0 .. 0 /\ \A s \in e.seen : s.until \in 0 .. 0 + 0
      BY <3>1 DEF K!Times, K!Stores
    <3>. QED
      BY <3>1, <3>2
  <2>2. ASSUME NEW r \in replies PROVE \E v \in conversions : v.input = r.request
    <3>1. PICK e \in effects : e.request = r.request
      BY DEF BookIInv, K!IInv, K!AnsweredMeansExecuted
    <3>. QED
      BY <3>1 DEF BookIInv, EffectsBooked
  <2>. QED
    BY <2>1, <2>2 DEF BookedTwiceOnlyByOverlap
<1>. QED
  BY <1>1, BookingInvariant, PTL

-----------------------------------------------------------------------------
\* The cents of a conversion (Rake).

\* A division by ten thousand drops less than one.
LEMMA Quotient ==
  ASSUME NEW n \in Nat
  PROVE  /\ n \div 10000 \in Nat
         /\ 10000 * (n \div 10000) <= n
         /\ n < 10000 * (n \div 10000) + 10000
  BY SMT

\* Dividing two amounts apart loses at most one against dividing their sum.
LEMMA QuotientOfSum ==
  ASSUME NEW n \in Nat, NEW k \in Nat
  PROVE  \/ (n + k) \div 10000 = (n \div 10000) + (k \div 10000)
         \/ (n + k) \div 10000 = (n \div 10000) + (k \div 10000) + 1
<1>1. n + k \in Nat
  BY SMT
<1>. DEFINE q == n \div 10000
            r == k \div 10000
            s == (n + k) \div 10000
<1>2. q \in Nat /\ 10000 * q <= n /\ n < 10000 * q + 10000
  BY Quotient
<1>3. r \in Nat /\ 10000 * r <= k /\ k < 10000 * r + 10000
  BY Quotient
<1>4. s \in Nat /\ 10000 * s <= n + k /\ n + k < 10000 * s + 10000
  BY <1>1, Quotient
<1>. HIDE DEF q, r, s
<1>5. s = q + r \/ s = q + r + 1
  BY <1>2, <1>3, <1>4, SMT
<1>. QED
  BY <1>5 DEF q, r, s

\* The rate of every bucket lies in [0, 100] percent, where takeRate does not throw.
LEMMA Buckets ==
  ASSUME NEW source \in AttributionSource
  PROVE  BasisPoints[source] \in {0, 500, 1000, 1500}
  BY DEF AttributionSource, BasisPoints

\* The rake of an amount that is not negative.
LEMMA RakeOfNat ==
  ASSUME NEW cents \in Nat, NEW source \in AttributionSource
  PROVE  /\ cents * BasisPoints[source] \in Nat
         /\ ComputeRake(cents, source) = (cents * BasisPoints[source]) \div 10000
<1>1. cents * BasisPoints[source] \in Nat
  BY Buckets, SMT
<1>2. cents * BasisPoints[source] >= 0
  BY <1>1, SMT
<1>. QED
  BY <1>1, <1>2 DEF ComputeRake, TakeRate, Truncated

\* Rake and residual of a conversion are cents of it, and do not exceed it together.
THEOREM RakeWithinAmount ==
  ASSUME NEW cents \in Nat, NEW source \in AttributionSource, NEW provider \in PaymentProvider
  PROVE  /\ ComputeRake(cents, source) \in Nat
         /\ ComputeProcessorResidual(cents, provider) \in Nat
         /\ ComputeRake(cents, source) + ComputeProcessorResidual(cents, provider) <= cents
<1>1. BasisPoints[source] \in {0, 500, 1000, 1500}
  BY Buckets
<1>2. /\ ComputeRake(cents, source) \in Nat
      /\ 100 * ComputeRake(cents, source) <= 15 * cents
  BY <1>1, SMT DEF ComputeRake, TakeRate, Truncated
<1>3. /\ ComputeProcessorResidual(cents, provider) \in Nat
      /\ 1000 * ComputeProcessorResidual(cents, provider) <= 5 * cents
  BY SMT DEF ComputeProcessorResidual, Truncated
<1>. QED
  BY <1>2, <1>3, SMT

\* The rake is the share itself: the most whole cents that do not exceed the bucket's part of
\* the amount, so what is taken is never a cent more and less than a cent short of it.
THEOREM RakeIsWholeShare ==
  ASSUME NEW cents \in Nat, NEW source \in AttributionSource
  PROVE  LET rake == ComputeRake(cents, source)
             share == cents * BasisPoints[source]
         IN  10000 * rake <= share /\ \A more \in Nat : more > rake => 10000 * more > share
<1>. DEFINE n == cents * BasisPoints[source]
            q == n \div 10000
<1>1. n \in Nat /\ ComputeRake(cents, source) = q
  BY RakeOfNat
<1>2. q \in Nat /\ 10000 * q <= n /\ n < 10000 * q + 10000
  BY <1>1, Quotient
<1>. HIDE DEF n, q
<1>3. 10000 * q <= n /\ \A more \in Nat : more > q => 10000 * more > n
  BY <1>1, <1>2, SMT
<1>. QED
  BY <1>1, <1>3 DEF n

\* The rake of an amount booked in two parts is that of the whole or a cent less: what the
\* roundings lose grows with the number of conversions and not with what they are worth.
THEOREM RakeOfParts ==
  ASSUME NEW a \in Nat, NEW b \in Nat, NEW source \in AttributionSource
  PROVE  LET parts == ComputeRake(a, source) + ComputeRake(b, source)
         IN  ComputeRake(a + b, source) \in {parts, parts + 1}
<1>1. BasisPoints[source] \in {0, 500, 1000, 1500}
  BY Buckets
<1>. DEFINE n == a * BasisPoints[source]
            k == b * BasisPoints[source]
<1>2. /\ n \in Nat
      /\ k \in Nat
      /\ a + b \in Nat
      /\ (a + b) * BasisPoints[source] = n + k
  BY <1>1, SMT
<1>3. /\ ComputeRake(a, source) = n \div 10000
      /\ ComputeRake(b, source) = k \div 10000
      /\ ComputeRake(a + b, source) = (n + k) \div 10000
  BY <1>2, RakeOfNat
<1>. HIDE DEF n, k
<1>. QED
  BY <1>2, <1>3, QuotientOfSum

\* A conversion booked with the opposite amount takes back the very cents of the first:
\* roundings towards zero leave nothing behind.
THEOREM ReversalIsExact ==
  ASSUME NEW cents \in Int, NEW source \in AttributionSource, NEW provider \in PaymentProvider
  PROVE  /\ ComputeRake(-cents, source) = -ComputeRake(cents, source)
         /\ ComputeProcessorResidual(-cents, provider) = -ComputeProcessorResidual(cents, provider)
<1>1. BasisPoints[source] \in {0, 500, 1000, 1500}
  BY Buckets
<1>2. ComputeRake(-cents, source) = -ComputeRake(cents, source)
  BY <1>1, SMT DEF ComputeRake, TakeRate, Truncated
<1>3. ComputeProcessorResidual(-cents, provider) = -ComputeProcessorResidual(cents, provider)
  BY SMT DEF ComputeProcessorResidual, Truncated
<1>. QED
  BY <1>2, <1>3
=============================================================================
