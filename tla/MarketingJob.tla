---------------------------- MODULE MarketingJob ----------------------------
(***************************************************************************)
(* One provider of one org in apps/api/src/domains/marketing/service.ts:   *)
(* its ProviderConnection row with the vault that holds credentials and    *)
(* webhook secret, the ContentGenerationJob rows dispatched over it, and   *)
(* the ProviderWebhookEvent rows its webhooks leave.                       *)
(*                                                                         *)
(* Every handler reads rows, talks to the provider, and writes by id       *)
(* later.  The vault is sealed for the id of its row and can be opened     *)
(* for no other.  A video or avatar job stays "running" until a GET polls  *)
(* the provider for it; any other job ends with the answer to its call.    *)
(*                                                                         *)
(* The adapters turn every failure of a call into an answer, so a call     *)
(* does not throw, and a job whose response is lost counts as failed while *)
(* the provider goes on with it.  A connection is in sandbox mode or       *)
(* belongs to an account with the provider; who is connected elsewhere     *)
(* cannot poll a job, and in the sandbox no provider is called and every   *)
(* job comes out ready after 30 seconds.                                   *)
(***************************************************************************)
EXTENDS Integers, FiniteSets

CONSTANTS
  Handlers,  \* the requests that change something and the webhook deliveries
  Jobs,      \* the jobs, each named by the id it will have
  Async,     \* the jobs for a video or an avatar
  Pollers,   \* clients that GET a job again and again
  Polled,    \* Polled[p]: the job of poller p
  Accounts,  \* what a connection may hold credentials of
  Sandbox,   \* the account of a connection in sandbox mode
  Events,    \* the events the provider sends
  ExtOf,     \* ExtOf[e]: the externalId the adapter finds in event e
  MaxCrashes, \* bound: this many handlers die
  NoConn,    \* no connection row
  None       \* no secret, no event, no job

PingStatuses == {"connected", "error"}
Verdicts == {"running", "ready", "failed"}

\* A ProviderConnection row; its id is the name of the handler that made it.
Connection ==
  [id : Handlers, status : PingStatuses \cup {"disconnected"}, sealedFor : Handlers,
   account : Accounts, secret : Handlers]

ASSUME JobAssumption ==
  /\ IsFiniteSet(Handlers)
  /\ Async \subseteq Jobs
  /\ Polled \in [Pollers -> Jobs] /\ Async \subseteq {Polled[p] : p \in Pollers}
  /\ Sandbox \in Accounts
  /\ DOMAIN ExtOf = Events
  /\ \A e \in Events : ExtOf[e] # None
  /\ NoConn \notin Connection
  /\ MaxCrashes \in Nat

VARIABLES
  conn,     \* the ProviderConnection row
  jobs,     \* the ContentGenerationJob rows
  verdict,  \* external: what the provider has made of a job, whoever was told
  events,   \* the ProviderWebhookEvent rows
  handler,  \* handler[h]: what a request carries between its steps
  poll,     \* poll[p]: the same for a GET of a job
  acked,    \* history: the deliveries answered with 2xx
  mislaid,  \* history: the jobs taken on whose response was lost or named no job
  connects, \* history: how many connects have committed
  last      \* history: how many had when the last of them read the row

jobVars == <<conn, jobs, verdict, events, handler, poll, acked, mislaid, connects, last>>

NoJob == [status |-> "none", ext |-> FALSE, account |-> Sandbox]

Idle == [pc |-> "idle", row |-> NoConn, seen |-> 0, subject |-> None, outcome |-> "none"]
Ended == [Idle EXCEPT !.pc = "done"]

\* configFor: the vault opens only for the row it was sealed for.
Readable(row) == row # NoConn /\ row.sealedFor = row.id

Step(h, from) == handler[h].pc = from
Move(h, next) == handler' = [handler EXCEPT ![h] = next]
End(h) == Move(h, Ended)

\* The external job ids the polled rows have.
Pollable(j) == jobs[j].status = "running" /\ jobs[j].ext
-----------------------------------------------------------------------------
JobInit ==
  /\ conn = NoConn
  /\ jobs = [j \in Jobs |-> NoJob]
  /\ verdict = [j \in Jobs |-> "none"]
  /\ events = {}
  /\ handler = [h \in Handlers |-> Idle]
  /\ poll = [p \in Pollers |-> Idle]
  /\ acked = {} /\ mislaid = {}
  /\ connects = 0 /\ last = 0

\* Mutant of RowId: a fresh id also when there is a row.
RowIdFresh(h, row) == h

\* The id the vault is sealed for: that of the row, or the handler's new one.
RowId(h, row) == IF row = NoConn THEN h ELSE row.id

\* connectProvider up to its transaction: bundle with a secret of its own, and the ping.
ConnectRead(h, account) ==
  /\ Step(h, "idle")
  /\ Move(h, [Idle EXCEPT !.pc = "connecting", !.seen = connects, !.outcome = "ready",
       !.row = [id |-> RowId(h, conn), status |-> "connected", sealedFor |-> RowId(h, conn),
                account |-> account, secret |-> h]])
  /\ UNCHANGED <<conn, jobs, verdict, events, poll, acked, mislaid, connects, last>>

\* The upsert on (orgId, kind): an update leaves the id the row has.
ConnectCommit(h, status) ==
  /\ Step(h, "connecting")
  /\ conn' = [handler[h].row EXCEPT !.status = status,
                                    !.id = IF conn = NoConn THEN @ ELSE conn.id]
  /\ connects' = connects + 1
  /\ last' = handler[h].seen
  /\ End(h)
  /\ UNCHANGED <<jobs, verdict, events, poll, acked, mislaid>>

\* disconnectProvider: nothing to do without a row, or with one disconnected already.
DisconnectRead(h) ==
  /\ Step(h, "idle")
  /\ conn # NoConn /\ conn.status # "disconnected"
  /\ Move(h, [Idle EXCEPT !.pc = "disconnecting", !.row = conn])
  /\ UNCHANGED <<conn, jobs, verdict, events, poll, acked, mislaid, connects, last>>

\* getProviderStatus up to its update: a vault that cannot be opened ends it.
StatusRead(h) ==
  /\ Step(h, "idle")
  /\ Readable(conn)
  /\ Move(h, [Idle EXCEPT !.pc = "pinging", !.row = conn])
  /\ UNCHANGED <<conn, jobs, verdict, events, poll, acked, mislaid, connects, last>>

\* Their updates by id; that of the ping never asks whether the row is still connected.
StatusCommit(h, status) ==
  /\ \/ Step(h, "disconnecting") /\ status = "disconnected"
     \/ Step(h, "pinging") /\ status \in {"connected", "error"}
  /\ conn' = [conn EXCEPT !.status = status]
  /\ End(h)
  /\ UNCHANGED <<jobs, verdict, events, poll, acked, mislaid, connects, last>>

\* generateCreative, buildAudience, deliverCampaign: requireActiveConnection and configFor.
GenerateRead(h, j) ==
  /\ Step(h, "idle")
  /\ jobs[j].status = "none" /\ \A g \in Handlers : handler[g].subject # j
  /\ Readable(conn) /\ conn.status # "disconnected"
  /\ Move(h, [Idle EXCEPT !.pc = "creating", !.row = conn, !.subject = j])
  /\ UNCHANGED <<conn, jobs, verdict, events, poll, acked, mislaid, connects, last>>

\* The row is written as running before the provider is called.
CreateJob(h) ==
  /\ Step(h, "creating")
  /\ jobs' = [jobs EXCEPT ![handler[h].subject] =
       [status |-> "running", ext |-> FALSE, account |-> handler[h].row.account]]
  /\ Move(h, [handler[h] EXCEPT !.pc = "dispatching"])
  /\ UNCHANGED <<conn, verdict, events, poll, acked, mislaid, connects, last>>

\* What may come of a call, as <<what the provider makes of the job, what the caller hears>>:
\* it takes an asynchronous job on, or finishes another, and the response may be lost, or
\* ("unnamed") a success without a job id; or it refuses or never hears of it.
Replies(j, account) ==
  LET taken == IF j \in Async THEN "running" ELSE "ready"
      heard == IF account = Sandbox THEN {taken}
               ELSE {taken, "failed"} \cup IF j \in Async THEN {"unnamed"} ELSE {}
  IN  {<<"failed", "failed">>} \cup {taken} \X heard

\* The call to the provider, and its answer.
Dispatch(h, made, answer) ==
  LET j == handler[h].subject IN
  /\ Step(h, "dispatching")
  /\ <<made, answer>> \in Replies(j, handler[h].row.account)
  /\ verdict' = [verdict EXCEPT ![j] = made]
  /\ mislaid' = IF made = answer THEN mislaid ELSE mislaid \cup {j}
  /\ Move(h, [handler[h] EXCEPT !.pc = "recording", !.outcome = answer])
  /\ UNCHANGED <<conn, jobs, events, poll, acked, connects, last>>

\* Mutant of Recorded: every job that did not fail is left to the pollers.
RecordedAsAsync(job, outcome) ==
  [job EXCEPT !.status = IF outcome = "failed" THEN "failed" ELSE "running",
              !.ext = outcome # "failed"]

\* Mutant of Recorded: the external id is not kept.
RecordedWithoutId(job, outcome) ==
  [job EXCEPT !.status = IF outcome = "unnamed" THEN "running" ELSE outcome]

\* What the answer makes of the row: an asynchronous job keeps running, under the external
\* id of the provider or, when the answer has none, without.
Recorded(job, outcome) ==
  [job EXCEPT !.status = IF outcome = "unnamed" THEN "running" ELSE outcome,
              !.ext = outcome = "running"]

\* The transaction that records the answer.
RecordJob(h) ==
  /\ Step(h, "recording")
  /\ jobs' = [jobs EXCEPT ![handler[h].subject] =
       Recorded(jobs[handler[h].subject], handler[h].outcome)]
  /\ End(h)
  /\ UNCHANGED <<conn, verdict, events, poll, acked, mislaid, connects, last>>

\* External: the provider finishes a job it has taken on; in the sandbox none fails.
Decide(j, answer) ==
  /\ verdict[j] = "running"
  /\ jobs[j].account = Sandbox => answer = "ready"
  /\ verdict' = [verdict EXCEPT ![j] = answer]
  /\ UNCHANGED <<conn, jobs, events, handler, poll, acked, mislaid, connects, last>>

\* getJob reads a row that is running and has an external id; any other is returned as it is.
PollRead(p) ==
  /\ poll[p].pc = "idle"
  /\ Pollable(Polled[p])
  /\ poll' = [poll EXCEPT ![p].pc = "asking"]
  /\ UNCHANGED <<conn, jobs, verdict, events, handler, acked, mislaid, connects, last>>

\* What pollJob may answer over a connection of this account.
Answers(j, account) ==
  IF account = jobs[j].account THEN {verdict[j]}
  ELSE IF account = Sandbox THEN {"running", "ready"}
  ELSE {}

\* The connection is read and the provider asked.
PollAsk(p) ==
  /\ poll[p].pc = "asking"
  /\ Readable(conn)
  /\ \E answer \in Answers(Polled[p], conn.account) :
       poll' = [poll EXCEPT ![p].pc = "answered", ![p].outcome = answer]
  /\ UNCHANGED <<conn, jobs, verdict, events, handler, acked, mislaid, connects, last>>

\* Mutant of PollFail: a failed poll counts as a failed job.
PollFailRecorded(p) ==
  /\ poll[p].pc = "asking"
  /\ poll' = [poll EXCEPT ![p].pc = "answered", ![p].outcome = "failed"]
  /\ UNCHANGED <<conn, jobs, verdict, events, handler, acked, mislaid, connects, last>>

\* The vault cannot be opened, the call fails, or the account does not know the job: the
\* row is returned as it was read.
PollFail(p) ==
  /\ poll[p].pc = "asking"
  /\ poll' = [poll EXCEPT ![p] = Idle]
  /\ UNCHANGED <<conn, jobs, verdict, events, handler, acked, mislaid, connects, last>>

\* The update by id, whatever another GET has written meanwhile.
PollWrite(p) ==
  /\ poll[p].pc = "answered"
  /\ jobs' = IF poll[p].outcome \in {"ready", "failed"}
             THEN [jobs EXCEPT ![Polled[p]].status = poll[p].outcome] ELSE jobs
  /\ poll' = [poll EXCEPT ![p] = Idle]
  /\ UNCHANGED <<conn, verdict, events, handler, acked, mislaid, connects, last>>

\* recordInboundWebhook up to its insert: event e, signed with this secret.
WebhookRead(h, e, secret) ==
  /\ Step(h, "idle")
  /\ Readable(conn)
  /\ Move(h, [Idle EXCEPT !.subject = e,
                          !.pc = IF secret = conn.secret THEN "storing" ELSE "refusing"])
  /\ UNCHANGED <<conn, jobs, verdict, events, poll, acked, mislaid, connects, last>>

\* A signature that does not match leaves a row of its own, and 401.
WebhookRefuse(h) ==
  /\ Step(h, "refusing")
  /\ events' = events \cup {[ext |-> None, by |-> h, verified |-> FALSE]}
  /\ End(h)
  /\ UNCHANGED <<conn, jobs, verdict, poll, acked, mislaid, connects, last>>

\* Mutant of Replayed: replays are told by the row's own id.
ReplayedById(h, e) == \E r \in events : r.by = h

\* UNIQUE (providerKind, externalId) refuses the row.
Replayed(h, e) == \E r \in events : r.ext = ExtOf[e]

\* The verified row is inserted, or P2002 answered with the row that is there.
WebhookStore(h) ==
  /\ Step(h, "storing")
  /\ LET e == handler[h].subject
     IN  events' = IF Replayed(h, e) THEN events
                   ELSE events \cup {[ext |-> ExtOf[e], by |-> h, verified |-> TRUE]}
  /\ Move(h, [handler[h] EXCEPT !.pc = "stored"])
  /\ UNCHANGED <<conn, jobs, verdict, poll, acked, mislaid, connects, last>>

WebhookAck(h) ==
  /\ Step(h, "stored")
  /\ acked' = acked \cup {handler[h].subject}
  /\ End(h)
  /\ UNCHANGED <<conn, jobs, verdict, events, poll, mislaid, connects, last>>

Dead(h) == Step(h, "dead")

\* The process dies under a request; what it had committed stays.
Crash(h) ==
  /\ handler[h].pc \notin {"idle", "done", "dead"}
  /\ Cardinality({g \in Handlers : Dead(g)}) < MaxCrashes
  /\ Move(h, [handler[h] EXCEPT !.pc = "dead"])
  /\ UNCHANGED <<conn, jobs, verdict, events, poll, acked, mislaid, connects, last>>

\* The steps of a request once it has begun.
Continue(h) ==
  \/ \E s \in PingStatuses : ConnectCommit(h, s)
  \/ \E s \in PingStatuses \cup {"disconnected"} : StatusCommit(h, s)
  \/ CreateJob(h)
  \/ \E made \in Verdicts, answer \in Verdicts \cup {"unnamed"} : Dispatch(h, made, answer)
  \/ RecordJob(h)
  \/ WebhookRefuse(h) \/ WebhookStore(h) \/ WebhookAck(h)

Begin(h) ==
  \/ \E a \in Accounts : ConnectRead(h, a)
  \/ DisconnectRead(h)
  \/ StatusRead(h)
  \/ \E j \in Jobs : GenerateRead(h, j)
  \/ \E e \in Events, secret \in Handlers : WebhookRead(h, e, secret)

DecideSome(j) == \E answer \in {"ready", "failed"} : Decide(j, answer)

JobNext ==
  \/ \E h \in Handlers : Begin(h) \/ Continue(h) \/ Crash(h)
  \/ \E j \in Jobs : DecideSome(j)
  \/ \E p \in Pollers : PollRead(p) \/ PollAsk(p) \/ PollFail(p) \/ PollWrite(p)

\* A request that has begun goes on until it ends or dies; the provider decides in the end;
\* a client GETs a job while it is running, and not every one of its polls fails.
Fairness ==
  /\ \A h \in Handlers : WF_jobVars(Continue(h))
  /\ \A j \in Jobs : WF_jobVars(DecideSome(j))
  /\ \A p \in Pollers : WF_jobVars(PollRead(p) \/ PollWrite(p)) /\ SF_jobVars(PollAsk(p))

JobSpec == JobInit /\ [][JobNext]_jobVars /\ Fairness
-----------------------------------------------------------------------------
Call(pcs) ==
  [pc : pcs, row : Connection \cup {NoConn}, seen : 0 .. Cardinality(Handlers),
   subject : Jobs \cup Events \cup {None}, outcome : Verdicts \cup {"none", "unnamed"}]

HandlerType ==
  Call({"idle", "connecting", "disconnecting", "pinging", "creating", "dispatching",
        "recording", "storing", "refusing", "stored", "done", "dead"})
PollType == Call({"idle", "asking", "answered"})
JobType ==
  [status : Verdicts \cup {"none"}, ext : BOOLEAN, account : Accounts]

\* Only jobs for a video or an avatar have an external id.
JobTypeOK ==
  /\ conn \in Connection \cup {NoConn}
  /\ jobs \in [Jobs -> JobType]
  /\ \A j \in Jobs \ Async : ~jobs[j].ext
  /\ verdict \in [Jobs -> Verdicts \cup {"none"}]
  /\ events \subseteq [ext : {ExtOf[e] : e \in Events} \cup {None}, by : Handlers,
                       verified : BOOLEAN]
  /\ handler \in [Handlers -> HandlerType]
  /\ poll \in [Pollers -> PollType]
  /\ acked \subseteq Events /\ mislaid \subseteq Jobs
  /\ {connects, last} \subseteq 0 .. Cardinality(Handlers)

\* A connection's vault opens for its row, however connects overlap, unless the last one to
\* commit had found no row and was not the first: both had made an id to seal for.
VaultReadableUnlessRaced ==
  conn # NoConn => Readable(conn) \/ (last = 0 /\ connects > 1)

\* A delivery is answered with 2xx only once its external id is stored, and however often
\* and concurrently an event comes, one row is verified for its external id.
EventRecordedOnce ==
  /\ \A e \in acked : \E r \in events : r.verified /\ r.ext = ExtOf[e]
  /\ \A r, s \in events : r.verified /\ s.verified /\ r.ext = s.ext => r = s

\* The request of j is under way, or died.
Interrupted(j) ==
  \E h \in Handlers :
    handler[h].subject = j /\ handler[h].pc \in {"dispatching", "recording", "dead"}

\* What the provider works on has a row, and the row is failed, or running with nothing to
\* poll it by, only if the provider failed it, its request was cut off or its answer was.
JobsLeaveATrace ==
  \A j \in Jobs :
    /\ verdict[j] # "none" => jobs[j].status # "none"
    /\ jobs[j].status = "running" /\ ~jobs[j].ext => Interrupted(j) \/ j \in mislaid
    /\ jobs[j].status = "failed" => verdict[j] = "failed" \/ j \in mislaid

\* While j has an external id, the connection opens and is that of its account.
Served(j) == jobs[j].ext => Readable(conn) /\ conn.account = jobs[j].account

\* Every job with an external id stays in the end as the provider decided it, whatever
\* requests die, polls fail or overlap, unless the connection is lost or lent.
EveryJobSettles ==
  \A j \in Jobs : <>(jobs[j].ext) /\ [](Served(j)) =>
    <>[](jobs[j].status \in {"ready", "failed"} /\ jobs[j].status = verdict[j])
=============================================================================
