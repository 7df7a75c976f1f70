---------------------------- MODULE Idempotency ----------------------------
(***************************************************************************)
(* withIdempotency of apps/api/src/shared/middleware/idempotency.ts and    *)
(* the IdempotencyRecord row of one Idempotency-Key.                       *)
(*                                                                         *)
(* The row is read, the route's handler runs and commits its own           *)
(* transaction, and only then is the row written: nothing is reserved in   *)
(* between, so calls with the same key interleave freely.  A request is    *)
(* what the row is compared on: org, method, path and hash of the body.    *)
(* A response is named by the call whose handler produced it.  Nothing     *)
(* deletes rows: an expired one stays until it is overwritten.             *)
(***************************************************************************)
EXTENDS Integers

CONSTANTS
  Calls,     \* the HTTP calls that carry the key, retries included
  Requests,  \* the different requests they may carry
  TTL,       \* IDEMPOTENCY_TTL_MS
  MaxTime    \* bound: the clock stops here

ASSUME IdempotencyAssumption == TTL \in Nat /\ MaxTime \in Nat

VARIABLES
  record,   \* the IdempotencyRecord row
  call,     \* call[k]: what call k carries from one step to the next
  now,      \* Date.now()
  stored,   \* history: the calls whose storeResponse committed, until when it holds
  effects,  \* history: the handlers that committed, and what they had read
  replies   \* history: the responses sent with success

vars == <<record, call, now, stored, effects, replies>>

NoRecord == [found |-> FALSE]
Start == [pc |-> "start"]
Done == [pc |-> "done"]

\* Mutant of Expiry: the TTL is added by the caller and by the helper.
ExpiryTwice(t) == t + TTL + TTL

Expiry(t) == t + TTL

Finish(k) == call' = [call EXCEPT ![k] = Done]

\* The row findUnique returns is used.
Hit == record.found /\ ~(record.until < now)
-----------------------------------------------------------------------------
Init ==
  /\ record = NoRecord
  /\ call = [k \in Calls |-> Start]
  /\ now = 0
  /\ stored = {}
  /\ effects = {}
  /\ replies = {}

\* Mutant of Load: the row's request is not compared with the caller's.
LoadAnyRequest(k, request) ==
  /\ call[k].pc = "start"
  /\ IF Hit
     THEN /\ replies' = replies \cup
               {[call |-> k, request |-> request, response |-> record.response]}
          /\ Finish(k)
     ELSE /\ call' = [call EXCEPT ![k] =
               [pc |-> "handling", request |-> request, at |-> now, seen |-> stored]]
          /\ UNCHANGED replies
  /\ UNCHANGED <<record, now, stored, effects>>

\* loadCachedResponse: an unexpired row answers the call, with its response when it
\* is of the same request and with a 409 when not.
Load(k, request) ==
  /\ call[k].pc = "start"
  /\ IF Hit
     THEN /\ IF record.request = request
             THEN replies' = replies \cup
                    {[call |-> k, request |-> request, response |-> record.response]}
             ELSE UNCHANGED replies
          /\ Finish(k)
     ELSE /\ call' = [call EXCEPT ![k] =
               [pc |-> "handling", request |-> request, at |-> now, seen |-> stored]]
          /\ UNCHANGED replies
  /\ UNCHANGED <<record, now, stored, effects>>

\* The route's handler commits.
Handle(k) ==
  /\ call[k].pc = "handling"
  /\ call' = [call EXCEPT ![k].pc = "handled"]
  /\ effects' = effects \cup
       {[call |-> k, request |-> call[k].request, at |-> call[k].at, seen |-> call[k].seen]}
  /\ UNCHANGED <<record, now, stored, replies>>

\* Mutant of Upsert: the row is left alone when there is one already.
UpsertInsertOnly(k) ==
  IF record.found THEN record
  ELSE [found |-> TRUE, request |-> call[k].request, response |-> k, until |-> Expiry(now)]

\* The row after storeResponse: an existing row gets the new response and expiry but
\* keeps the request it was created for.
Upsert(k) ==
  IF record.found
  THEN [record EXCEPT !.response = k, !.until = Expiry(now)]
  ELSE [found |-> TRUE, request |-> call[k].request, response |-> k, until |-> Expiry(now)]

\* storeResponse, then the reply.
Store(k) ==
  /\ call[k].pc = "handled"
  /\ record' = Upsert(k)
  /\ stored' = stored \cup {[call |-> k, until |-> Expiry(now)]}
  /\ replies' = replies \cup
       {[call |-> k, request |-> call[k].request, response |-> k]}
  /\ Finish(k)
  /\ UNCHANGED <<now, effects>>

\* The handler throws or its transaction fails; or, after it committed, the process
\* dies or the upsert fails: nothing is stored and no success is sent.
Fail(k) ==
  /\ call[k].pc \in {"handling", "handled"}
  /\ Finish(k)
  /\ UNCHANGED <<record, now, stored, effects, replies>>

Tick ==
  /\ now < MaxTime
  /\ now' = now + 1
  /\ UNCHANGED <<record, call, stored, effects, replies>>

Next ==
  \/ \E k \in Calls :
       \/ \E request \in Requests : Load(k, request)
       \/ Handle(k) \/ Store(k) \/ Fail(k)
  \/ Tick

Spec == Init /\ [][Next]_vars
-----------------------------------------------------------------------------
Times == 0 .. MaxTime
Stores == [call : Calls, until : 0 .. MaxTime + TTL]

RecordType ==
  {NoRecord} \cup
  [found : {TRUE}, request : Requests, response : Calls, until : 0 .. MaxTime + TTL]

CallType ==
  {Start, Done} \cup
  [pc : {"handling", "handled"}, request : Requests, at : Times, seen : SUBSET Stores]

TypeOK ==
  /\ record \in RecordType
  /\ call \in [Calls -> CallType]
  /\ now \in Times
  /\ stored \subseteq Stores
  /\ effects \subseteq [call : Calls, request : Requests, at : Times, seen : SUBSET Stores]
  /\ replies \subseteq [call : Calls, request : Requests, response : Calls]

\* A retry is safe: a call that arrives once a response has been stored under its key
\* runs no handler until that response has expired, whatever calls overlapped,
\* crashed or carried another request meanwhile.
RunsAgainOnlyAfterExpiry ==
  \A e \in effects : \A s \in e.seen : s.until < e.at

\* No caller is told that its request succeeded unless a handler committed this very
\* request: a replay never vouches for a request that only shares the key.
AnsweredMeansExecuted ==
  \A r \in replies : \E e \in effects : e.request = r.request
=============================================================================
