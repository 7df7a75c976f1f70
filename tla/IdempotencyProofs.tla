-------------------------- MODULE IdempotencyProofs --------------------------
(***************************************************************************)
(* Proofs about Idempotency: type correctness, the safety of a retry and   *)
(* the truth of an answer, for any number of calls and requests.           *)
(***************************************************************************)
EXTENDS Idempotency, TLAPS

\* Every stored response is behind the row, which expires no earlier than it does.
RowCoversStores ==
  \A s \in stored : record.found /\ s.until <= record.until

\* No response holds longer than one stored now would.
StoresBounded == \A s \in stored : s.until <= Expiry(now)

\* A handler runs only when all it could have seen had expired.
HandlersFresh ==
  \A k \in Calls : call[k].pc \in {"handling", "handled"} =>
    \A s \in call[k].seen : s.until < call[k].at

\* A handler that has committed is an effect of its request.
HandledTookEffect ==
  \A k \in Calls : call[k].pc = "handled" =>
    \E e \in effects : e.request = call[k].request

\* The row names a request that took effect.
RowTookEffect == record.found => \E e \in effects : e.request = record.request

IInv ==
  /\ TypeOK
  /\ RowCoversStores
  /\ StoresBounded
  /\ HandlersFresh
  /\ RunsAgainOnlyAfterExpiry
  /\ HandledTookEffect
  /\ RowTookEffect
  /\ AnsweredMeansExecuted
-----------------------------------------------------------------------------
\* The shapes of a call: a type membership tells which fields there are.
LEMMA CallShapes ==
  ASSUME NEW c \in CallType, c.pc \in {"handling", "handled"}
  PROVE  /\ c \in [pc : {"handling", "handled"}, request : Requests, at : Times,
                   seen : SUBSET Stores]
         /\ c.request \in Requests
         /\ c.at \in Times
         /\ c.seen \in SUBSET Stores
BY DEF CallType, Start, Done

\* The shapes of the row.
LEMMA RecordShapes ==
  ASSUME NEW r \in RecordType, r.found
  PROVE  /\ r \in [found : {TRUE}, request : Requests, response : Calls,
                   until : 0 .. MaxTime + TTL]
         /\ r.request \in Requests
         /\ r.response \in Calls
         /\ r.until \in 0 .. MaxTime + TTL
<1> DEFINE T == [found : {TRUE}, request : Requests, response : Calls,
                 until : 0 .. MaxTime + TTL]
<1>1. r \in {NoRecord} \cup T
  BY Zenon DEF RecordType
<1>2. NoRecord.found = FALSE
  BY DEF NoRecord
<1>3. r # NoRecord
  BY <1>2, Zenon
<1>4. r \in T
  BY <1>1, <1>3
<1>5. r.request \in Requests /\ r.response \in Calls /\ r.until \in 0 .. MaxTime + TTL
  BY <1>4
<1>6. QED
  BY <1>4, <1>5

\* Ending a call keeps what is said of the handlers that go on.
LEMMA FinishKeeps ==
  ASSUME TypeOK, NEW k \in Calls, Finish(k)
  PROVE  /\ call' \in [Calls -> CallType]
         /\ \A j \in Calls : call'[j].pc \in {"handling", "handled"} =>
              j # k /\ call'[j] = call[j]
<1>1. Done \in CallType /\ Done.pc = "done"
  BY DEF CallType, Done
<1>2. call \in [Calls -> CallType] /\ call' = [call EXCEPT ![k] = Done]
  BY DEF TypeOK, Finish
<1>3. call' \in [Calls -> CallType]
  BY <1>1, <1>2
<1>4. \A j \in Calls : j # k => call'[j] = call[j]
  BY <1>2
<1>5. call'[k].pc \notin {"handling", "handled"}
  BY <1>1, <1>2
<1>6. QED
  BY <1>3, <1>4, <1>5

\* The initial state satisfies the inductive invariant.
LEMMA InitInv == Init => IInv
<1> SUFFICES ASSUME Init PROVE IInv
  OBVIOUS
<1> USE IdempotencyAssumption
<1>1. TypeOK
  BY DEF Init, TypeOK, RecordType, CallType, Times
<1>2. QED
  BY <1>1 DEF Init, IInv, RowCoversStores, StoresBounded, HandlersFresh,
     RunsAgainOnlyAfterExpiry, HandledTookEffect, RowTookEffect, AnsweredMeansExecuted,
     NoRecord, Start

\* A call that finds an unexpired row ends, with an answer when the row is of its request.
LEMMA LoadHits ==
  ASSUME IInv, NEW k \in Calls, NEW request \in Requests, Load(k, request), Hit
  PROVE  IInv'
<1> USE IdempotencyAssumption
<1>1. /\ Finish(k)
      /\ UNCHANGED <<record, now, stored, effects>>
      /\ \/ UNCHANGED replies
         \/ /\ record.request = request
            /\ replies' = replies \cup
                 {[call |-> k, request |-> request, response |-> record.response]}
  BY DEF Load
<1>2. /\ call' \in [Calls -> CallType]
      /\ \A j \in Calls : call'[j].pc \in {"handling", "handled"} => call'[j] = call[j]
  BY <1>1, FinishKeeps DEF IInv
<1>3. record.found /\ record.response \in Calls
  BY RecordShapes DEF IInv, TypeOK, Hit
<1>4. replies' \subseteq [call : Calls, request : Requests, response : Calls]
  BY <1>1, <1>3 DEF IInv, TypeOK
<1>5. TypeOK'
  BY <1>1, <1>2, <1>4 DEF IInv, TypeOK
<1>6. RowCoversStores' /\ StoresBounded' /\ RunsAgainOnlyAfterExpiry' /\ RowTookEffect'
  BY <1>1 DEF IInv, RowCoversStores, StoresBounded, RunsAgainOnlyAfterExpiry, RowTookEffect
<1>7. HandlersFresh' /\ HandledTookEffect'
  BY <1>1, <1>2 DEF IInv, HandlersFresh, HandledTookEffect
<1>8. AnsweredMeansExecuted'
  BY <1>1, <1>3 DEF IInv, AnsweredMeansExecuted, RowTookEffect
<1>9. QED
  BY <1>5, <1>6, <1>7, <1>8 DEF IInv

\* A call that finds no row, or an expired one, starts its handler: every response
\* stored so far expires no later than the row, and so has expired.
LEMMA LoadMisses ==
  ASSUME IInv, NEW k \in Calls, NEW request \in Requests, Load(k, request), ~Hit
  PROVE  IInv'
<1> USE IdempotencyAssumption
<1> DEFINE new == [pc |-> "handling", request |-> request, at |-> now, seen |-> stored]
<1>1. /\ call' = [call EXCEPT ![k] = new]
      /\ UNCHANGED <<record, now, stored, effects, replies>>
  BY DEF Load
<1>2. /\ new \in CallType /\ new.pc = "handling"
      /\ new.at = now /\ new.seen = stored
  BY DEF IInv, TypeOK, CallType
<1> HIDE DEF new
<1>3. \A j \in Calls : call'[j] = IF j = k THEN new ELSE call[j]
  BY <1>1 DEF IInv, TypeOK
<1>4. \A s \in stored : s.until < now
  <2> TAKE s \in stored
  <2>1. record.found /\ s.until <= record.until
    BY DEF IInv, RowCoversStores
  <2>2. record.until < now
    BY <2>1 DEF Hit
  <2>3. s.until \in Nat /\ record.until \in Nat /\ now \in Nat
    <3>1. s \in Stores /\ record \in RecordType /\ now \in Times
      BY DEF IInv, TypeOK
    <3>2. record.until \in 0 .. MaxTime + TTL
      BY <2>1, <3>1, RecordShapes
    <3>3. s.until \in 0 .. MaxTime + TTL
      BY <3>1 DEF Stores
    <3>4. QED
      BY <3>1, <3>2, <3>3 DEF Times
  <2>4. QED
    BY <2>1, <2>2, <2>3
<1>5. TypeOK'
  BY <1>1, <1>2 DEF IInv, TypeOK
<1>6. HandlersFresh'
  BY <1>1, <1>2, <1>3, <1>4 DEF IInv, HandlersFresh
<1>7. HandledTookEffect'
  BY <1>1, <1>2, <1>3 DEF IInv, HandledTookEffect
<1>8. RowCoversStores' /\ StoresBounded' /\ RunsAgainOnlyAfterExpiry' /\ RowTookEffect'
      /\ AnsweredMeansExecuted'
  BY <1>1 DEF IInv, RowCoversStores, StoresBounded, RunsAgainOnlyAfterExpiry, RowTookEffect,
     AnsweredMeansExecuted
<1>9. QED
  BY <1>5, <1>6, <1>7, <1>8 DEF IInv

\* A handler that commits becomes an effect of its request, with what its call had seen.
LEMMA HandleKeeps ==
  ASSUME IInv, NEW k \in Calls, Handle(k)
  PROVE  IInv'
<1> DEFINE new == [call[k] EXCEPT !.pc = "handled"]
           e == [call |-> k, request |-> call[k].request, at |-> call[k].at,
                 seen |-> call[k].seen]
<1>1. /\ call[k].pc = "handling"
      /\ call' = [call EXCEPT ![k] = new]
      /\ effects' = effects \cup {e}
      /\ UNCHANGED <<record, now, stored, replies>>
  BY DEF Handle
<1>2. /\ call[k] \in [pc : {"handling", "handled"}, request : Requests, at : Times,
                      seen : SUBSET Stores]
      /\ call[k].request \in Requests /\ call[k].at \in Times
      /\ call[k].seen \in SUBSET Stores
  BY <1>1, CallShapes DEF IInv, TypeOK
<1>3. /\ new \in [pc : {"handling", "handled"}, request : Requests, at : Times,
                  seen : SUBSET Stores]
      /\ new.pc = "handled" /\ new.request = call[k].request
      /\ new.at = call[k].at /\ new.seen = call[k].seen
  BY <1>2
<1>4. /\ e \in [call : Calls, request : Requests, at : Times, seen : SUBSET Stores]
      /\ e.request = call[k].request /\ e.at = call[k].at /\ e.seen = call[k].seen
  BY <1>2
<1> HIDE DEF new, e
<1>5. new \in CallType
  BY <1>3 DEF CallType
<1>6. \A j \in Calls : call'[j] = IF j = k THEN new ELSE call[j]
  BY <1>1 DEF IInv, TypeOK
<1>7. TypeOK'
  BY <1>1, <1>4, <1>5 DEF IInv, TypeOK
<1>8. RowCoversStores' /\ StoresBounded'
  BY <1>1 DEF IInv, RowCoversStores, StoresBounded
<1>9. HandlersFresh'
  BY <1>1, <1>3, <1>6 DEF IInv, HandlersFresh
<1>10. RunsAgainOnlyAfterExpiry'
  BY <1>1, <1>4 DEF IInv, HandlersFresh, RunsAgainOnlyAfterExpiry
<1>11. HandledTookEffect'
  BY <1>1, <1>3, <1>4, <1>6 DEF IInv, HandledTookEffect
<1>12. RowTookEffect' /\ AnsweredMeansExecuted'
  BY <1>1 DEF IInv, RowTookEffect, AnsweredMeansExecuted
<1>13. QED
  BY <1>7, <1>8, <1>9, <1>10, <1>11, <1>12 DEF IInv

\* A stored response extends the row past all that were stored before it.
LEMMA StoreKeeps ==
  ASSUME IInv, NEW k \in Calls, Store(k)
  PROVE  IInv'
<1> USE IdempotencyAssumption
<1> DEFINE s == [call |-> k, until |-> Expiry(now)]
           r == [call |-> k, request |-> call[k].request, response |-> k]
<1>1. /\ call[k].pc = "handled"
      /\ record' = Upsert(k)
      /\ stored' = stored \cup {s}
      /\ replies' = replies \cup {r}
      /\ Finish(k)
      /\ UNCHANGED <<now, effects>>
  BY DEF Store
<1>2. call[k].request \in Requests
  BY <1>1, CallShapes DEF IInv, TypeOK
<1>3. now \in 0 .. MaxTime /\ Expiry(now) \in 0 .. MaxTime + TTL
  BY DEF IInv, TypeOK, Times, Expiry
<1>4. s \in Stores /\ s.until = Expiry(now)
  BY <1>3 DEF Stores
<1>5. /\ r \in [call : Calls, request : Requests, response : Calls]
      /\ r.request = call[k].request
  BY <1>2
<1> HIDE DEF s, r
<1>6. /\ record' \in RecordType /\ record'.found
      /\ record'.until = Expiry(now)
      /\ record'.request = IF record.found THEN record.request ELSE call[k].request
  <2>1. CASE record.found
    <3>1. record' = [record EXCEPT !.response = k, !.until = Expiry(now)]
      BY <1>1, <2>1 DEF Upsert
    <3>2. record \in [found : {TRUE}, request : Requests, response : Calls,
                      until : 0 .. MaxTime + TTL]
      BY <2>1, RecordShapes DEF IInv, TypeOK
    <3>3. QED
      BY <1>3, <2>1, <3>1, <3>2 DEF RecordType
  <2>2. CASE ~record.found
    <3>1. record' = [found |-> TRUE, request |-> call[k].request, response |-> k,
                     until |-> Expiry(now)]
      BY <1>1, <2>2 DEF Upsert
    <3>2. QED
      BY <1>2, <1>3, <2>2, <3>1 DEF RecordType
  <2>3. QED
    BY <2>1, <2>2
<1>7. /\ call' \in [Calls -> CallType]
      /\ \A j \in Calls : call'[j].pc \in {"handling", "handled"} => call'[j] = call[j]
  BY <1>1, FinishKeeps DEF IInv
<1>8. TypeOK'
  BY <1>1, <1>4, <1>5, <1>6, <1>7 DEF IInv, TypeOK
<1>9. StoresBounded'
  <2>1. \A x \in stored : x.until <= Expiry(now)
    BY DEF IInv, StoresBounded
  <2>2. Expiry(now)' = Expiry(now)
    BY <1>1 DEF Expiry
  <2>3. QED
    BY <1>1, <1>3, <1>4, <2>1, <2>2 DEF StoresBounded
<1>10. RowCoversStores'
  <2>1. \A x \in stored : x.until <= Expiry(now)
    BY DEF IInv, StoresBounded
  <2>2. QED
    BY <1>1, <1>3, <1>4, <1>6, <2>1 DEF RowCoversStores
<1>11. HandlersFresh' /\ HandledTookEffect'
  BY <1>1, <1>7 DEF IInv, HandlersFresh, HandledTookEffect
<1>12. RunsAgainOnlyAfterExpiry'
  BY <1>1 DEF IInv, RunsAgainOnlyAfterExpiry
<1>13. RowTookEffect'
  BY <1>1, <1>6 DEF IInv, RowTookEffect, HandledTookEffect
<1>14. AnsweredMeansExecuted'
  BY <1>1, <1>5 DEF IInv, AnsweredMeansExecuted, HandledTookEffect
<1>15. QED
  BY <1>8, <1>9, <1>10, <1>11, <1>12, <1>13, <1>14 DEF IInv

\* A call that fails leaves no trace but its effect, if it had one.
LEMMA FailKeeps ==
  ASSUME IInv, NEW k \in Calls, Fail(k)
  PROVE  IInv'
<1>1. Finish(k) /\ UNCHANGED <<record, now, stored, effects, replies>>
  BY DEF Fail
<1>2. /\ call' \in [Calls -> CallType]
      /\ \A j \in Calls : call'[j].pc \in {"handling", "handled"} => call'[j] = call[j]
  BY <1>1, FinishKeeps DEF IInv
<1>3. TypeOK'
  BY <1>1, <1>2 DEF IInv, TypeOK
<1>4. HandlersFresh' /\ HandledTookEffect'
  BY <1>1, <1>2 DEF IInv, HandlersFresh, HandledTookEffect
<1>5. QED
  BY <1>1, <1>3, <1>4 DEF IInv, RowCoversStores, StoresBounded, RunsAgainOnlyAfterExpiry,
     RowTookEffect, AnsweredMeansExecuted

\* Time only brings expiries nearer.
LEMMA TickKeeps == ASSUME IInv, Tick PROVE IInv'
<1> USE IdempotencyAssumption
<1>1. /\ now < MaxTime /\ now' = now + 1
      /\ UNCHANGED <<record, call, stored, effects, replies>>
  BY DEF Tick
<1>2. TypeOK'
  BY <1>1 DEF IInv, TypeOK, Times
<1>3. StoresBounded'
  <2>1. \A s \in stored : s.until <= Expiry(now) /\ s.until \in Nat
    BY DEF IInv, StoresBounded, TypeOK, Stores
  <2>2. Expiry(now)' = Expiry(now) + 1 /\ Expiry(now) \in Nat
    BY <1>1 DEF Expiry, IInv, TypeOK, Times
  <2>3. QED
    BY <1>1, <2>1, <2>2 DEF StoresBounded
<1>4. QED
  BY <1>1, <1>2, <1>3 DEF IInv, RowCoversStores, HandlersFresh, RunsAgainOnlyAfterExpiry,
     HandledTookEffect, RowTookEffect, AnsweredMeansExecuted

\* Every step keeps the inductive invariant.
LEMMA NextInv == IInv /\ [Next]_vars => IInv'
<1> SUFFICES ASSUME IInv, [Next]_vars PROVE IInv'
  OBVIOUS
<1>1. ASSUME NEW k \in Calls, NEW request \in Requests, Load(k, request)
      PROVE  IInv'
  BY <1>1, LoadHits, LoadMisses
<1>2. ASSUME NEW k \in Calls, Handle(k) PROVE IInv'
  BY <1>2, HandleKeeps
<1>3. ASSUME NEW k \in Calls, Store(k) PROVE IInv'
  BY <1>3, StoreKeeps
<1>4. ASSUME NEW k \in Calls, Fail(k) PROVE IInv'
  BY <1>4, FailKeeps
<1>5. CASE Tick
  BY <1>5, TickKeeps
<1>6. CASE UNCHANGED vars
  BY <1>6 DEF vars, IInv, TypeOK, RowCoversStores, StoresBounded, HandlersFresh,
     RunsAgainOnlyAfterExpiry, HandledTookEffect, RowTookEffect, AnsweredMeansExecuted
<1>7. QED
  BY <1>1, <1>2, <1>3, <1>4, <1>5, <1>6 DEF Next

\* The inductive invariant holds in every reachable state.
LEMMA InductiveInvariant == Spec => []IInv
BY InitInv, NextInv, PTL DEF Spec

\* Type correctness of the row, the calls and the histories.
THEOREM IdempotencyTypeCorrect == Spec => []TypeOK
<1>1. IInv => TypeOK
  BY DEF IInv
<1>2. QED
  BY <1>1, InductiveInvariant, PTL

\* A retry is safe: whatever overlapped before, a call that arrives when a response is
\* stored runs no handler until that response has expired.
THEOREM RetriesAreSafe == Spec => []RunsAgainOnlyAfterExpiry
<1>1. IInv => RunsAgainOnlyAfterExpiry
  BY DEF IInv
<1>2. QED
  BY <1>1, InductiveInvariant, PTL

\* No caller is told of a success that no handler of its own request had: even the
\* response to another request is replayed only when the caller's took effect too.
THEOREM AnswersAreTrue == Spec => []AnsweredMeansExecuted
<1>1. IInv => AnsweredMeansExecuted
  BY DEF IInv
<1>2. QED
  BY <1>1, InductiveInvariant, PTL
=============================================================================
