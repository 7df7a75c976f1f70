# Verification of the Door 2 Digital platform

TLA+ models, model checks and machine-checked proofs of the core logic of
`apps/api`: the audit log, the sessions, the unmasking of personal data, the
idempotency of POSTs, the compliance gate, the lead pipeline, the booking of a
conversion and its cents, the intake of knocks, the jobs and webhooks of
marketing providers, and the edits of single rows everywhere else.  Paths below
are relative to `apps/api/src` unless they say otherwise.

## The system

A TypeScript monorepo.  `apps/api` (Fastify, Prisma, PostgreSQL, Redis) holds
the state and the rules; the web and mobile applications call it, with one
exception: the operator's application onboards an org in the database itself,
audit row included.
Every mutating handler has the same shape:

1. check the access token (`requireAuth`) and, on POSTs, the `Idempotency-Key`;
2. read the rows concerned with plain `findUnique`s, outside any transaction;
3. check what was read (tenant, status, allowed move);
4. in one transaction, write the rows **by id** and append an `AuditEvent`.

The database runs at READ COMMITTED, no handler takes an explicit lock, and the
API is scaled to several instances.  So what is hard in this code is always the
same: something else commits between step 2 and step 4, a handler dies between
two of its steps, or two transactions see half of each other.  The models make
each read and each transaction a step of its own, and a handler a process that
may stop between any two of them.

### Inventory

| Component | State | Operations | Correct when | Module |
|---|---|---|---|---|
| Audit log (`domains/audit`) | `AuditEvent` rows, bigint id, ulid, `prevHash`, `rowHash` | `recordEvent`, `verifyChain` | an untouched chain replays; a touched one does not | `AuditChain`, `AuditLog`, `AuditChainRefinement` |
| Operator web API (`apps/web-operator/src/app/api`) | `Org`, `BrandKit`, `OrgBilling`, the first row of the org's audit chain | onboard an org | its row is one the API's replay accepts | `AuditChain` (partly) |
| PII vault (`domains/pii-vault`) | `PiiUnmaskRequest` | request, approve, reject, reveal, expire | no plaintext without a second person and an audit row; one reveal per approval | `PiiUnmask` |
| Sessions (`domains/auth/service.ts`) | `RefreshToken` | login, refresh, logout | a revoked token opens nothing | `RefreshTokens` |
| Users (`domains/user`) | `User`, `UserCredential` | invite, accept, role, archive, update | archival and role changes end sessions | `RefreshTokens`, `RowEdits` |
| Access tokens (`token-revocation.ts`, `auth-guard.ts`) | one Redis key per user | stamp, check | a revoked access token is never served | `AccessRevocation` |
| Idempotency (`shared/middleware/idempotency.ts`) | `IdempotencyRecord` | load, handle, store | a retry does not run again; an answer is true | `Idempotency` |
| Compliance (`domains/compliance`) | `PaidSolicitorRegistration`, `CampaignStateClearance` | file, transition, gate | legal moves; the gate opens only after an approval | `Clearance` |
| Leads (`domains/lead`) | `Lead`, `LeadActivity` | create, update, assign, append | legal moves; no lost change | `LeadPipeline` (partly) |
| Conversions (`domains/conversion`) | `Conversion`, `Donation`, `Sale` | create | booked once, under a clearance, and the lead converted | `Booking` |
| Money (`packages/shared-utils`) | none | rake, residual | cents add up | `Rake` |
| Knocks (`domains/knock`) | `Knock`, `KnockSession`, `Address` | session, knock, batch | each knock once, on an address that exists; an answered one is stored | `KnockIngest`, `RowEdits` |
| Donations, sales | `Donation`, `Sale` | pause, cancel, amount, hand-off | cancelled stays cancelled | `RowEdits` |
| Marketing (`domains/marketing`), content studio | `ProviderConnection`, `ContentGenerationJob`, `ProviderWebhookEvent` | connect, disconnect, status, generate, poll, webhook | a job ends as the provider decided; an event counts once; the vault opens | `MarketingJob` |
| SAML (`domains/auth/saml`) | `SsoConfiguration` | upsert, consume | a revoked configuration stays revoked; one user per e-mail | `RefreshTokens`, `RowEdits` |
| Orgs, territories, webhook endpoints | their rows | single-row edits with an audit row | no edit is lost, archived stays archived, the audit tells what happened | `RowEdits` |
| Notifications | rows that nothing drains | queue | | not modelled |
| Tenant scoping (`config/db.ts`) | none | query rewriting | no row of another org | not modelled |
| billing, commission, payout, crm, consent, do-not-call, do-not-knock, dsar, realtime | none | every route answers 501 | | nothing to model |
| web, mobile, MCP server, API client, infrastructure | none of their own | | | not modelled |

How they interact: every mutation calls `recordEvent` in its transaction, the
operator's onboarding a copy of it; every
POST runs inside `withIdempotency`; `createConversion` reads the lead and the
clearance and writes the lead; `archiveUser` and `changeUserRole` revoke refresh
tokens; `refresh` stamps the Redis epoch that `requireAuth` reads; `consumeAcs`
opens its session with the `issueTokens` of `login`; the content studio calls
`generateCreative` and `getJob` of the marketing service.

`PROJECT.json` lists the hazards of this code line by line, with the properties
that cover each.

## Modules

A comment above each definition says what it stands for; `PROJECT.json` maps it
to its lines.  Definitions named in a comment as a *mutant* are what the code
would be with a plausible bug; each property has one that breaks it.
Variables commented *history* are not in the program: they record what the
properties speak of.

**AuditChain** has the `AuditEvent` table, the transactions that append to it
and one verifier.  `recordEvent` is two steps, `ReadHead` and `InsertRow`,
inside a transaction between `Begin` and `Commit` or `Abort`; `Visible` is what a
READ COMMITTED statement sees.  Ids come from a sequence when the row is
inserted, ulids when the call begins.  A digest is the sequence of what it
covers, which is what an ideal hash tells apart; it covers the event as the caller
gave it (`Contents`), the row has what JSON keeps of that (`Stored`), and
`verifyChain` recomputes from the row.  `verifyChain` is `VerifySelect`
and `VerifyWalk`, its two statements.  A transaction in `operator` is the POST
/api/orgs of the operator's application, which appends the first row of a fresh
org's chain: the same two statements, from a genesis of its own (`Anchor`), before
any other transaction of that org begins.  `Genesis` is what the first row of a
chain goes back to, `GENESIS` where `verifyChain` starts.  `EditRow` and `DeleteRow` change the table
behind the service's back.

**AuditLog** is what ADR-0008 promises: per chain an append-only sequence of
events that replays at all times, until the chain forfeits the promise.
**AuditChainRefinement** maps the table to it: the log of a chain is its committed
rows, ranked by id, and a chain forfeits when two of its transactions that
overlapped have both committed, one of its rows is changed by hand, or an event
with an undefined key is committed to it (`Unkept`).

**PiiUnmask** is one unmask request.  A handler (`Calls`) reads and checks in
`ApproveRead` or `RevealRead` and writes in `ApproveCommit`, `RejectCommit`,
`RevealExpire`, `RevealConsume`, `RevealAudit`.  A grant is named by the call that
minted it.  The tenant checks are constant over the life of a row and left out.

**RefreshTokens** is one person, with the handlers of `auth/service.ts`,
`auth/saml/service.ts` and `user/service.ts` that make his row and that start or
end sessions.  At first he may have no row: `SsoRead` and `ProvisionCommit` are
the first sign-on, `InviteRead` and `InviteCommit` an invitation, and of two that
found nobody the UNIQUE `emailDigest` lets one through.  `log` is the order in which the
transactions serialize; `readAt` and `bornAt` place a session's read and its
insert in that order.

**AccessRevocation** is the access tokens of one user and his epoch in Redis, in
whole seconds.  `Stamp` and `StampFails` are the two ends of a SET, `Check` and
`CheckFails` of a GET; `Patience` bounds how long a GET may take.

**Idempotency** is `withIdempotency` for one key: `Load`, `Handle`, `Store`, and
`Fail` anywhere in between.  A request stands for org, method, path and body
hash, which the code compares one by one with the same outcome.

**Clearance** is the registrations of one org and the clearances they open, with
`TransitionRead` and `TransitionCommit` apart.  `Launch` and `Lapse` are done
outside the service.

**LeadPipeline** is one lead under `updateLead` and `assignLead`; `trail` has, for
each commit, what the handler had read, what it wrote over and what was asked.

**Booking** is `createConversion`: it instantiates `Clearance` (`Gate`),
`LeadPipeline` (`Pipeline`) and `Idempotency` (`Key`) over one set of variables.
`ReadLead`, `PassGate` and `Finalise` are the steps of the handler that `Key`
wraps; the PATCHes of the other two modules run between them.

**Rake** has the cents of a conversion as operators over all integers: what a
bigint division drops, the four buckets, the rake, the residual.  `MCBooking`
compares them with what a share of an amount is, amount by amount.

**KnockIngest** is the intake of knocks.  Every read and every inserted row is a
step: `Lookup` of the knocks, `Resolve` of the addresses, `InsertAddress`,
`InsertKnock`, `Commit`, `Reply`.  An INSERT that meets a row of an open
transaction waits (`WaitsFor`); one that meets a committed row fails or is
skipped (`Conflict`).  `DeadlockVictim` is PostgreSQL's way out of a circle of
waits, `Crash` a process or transaction that ends early.  Whoever failed is idle
again, for the phone sends the POST again.

**MarketingJob** is one provider of one org.  A request (`Handlers`) reads the
connection in one step and writes, calls the provider or records its answer in
later ones; a client that GETs a job is a process of its own (`PollRead`,
`PollAsk`, `PollFail`, `PollWrite`).  `verdict` is what the provider makes of a
job, and `Replies` what a call may come to: what it made and what the caller hears
of it need not agree.  `mislaid` has the jobs whose response was lost or had no id.  A webhook delivery is a request too: `WebhookRead`, `WebhookStore`,
`WebhookAck`.

**RowEdits** is the handlers that edit one row in place.  They share
`Read` and `Write` and differ in data, one record of `Edits` each: in which states
the handler stops, which columns it takes from the request and whether it takes
them all, which it sets, which it writes back as it had read them, and which its
audit row tells.

The `MC` modules give names to the model values, the sets and the symmetry; the
`.cfg` files bind them.

## Runs

Deadlock is not checked: every model has a bounded number of requests and may
stop when all have ended.  Most properties are safety and assume no fairness: a
handler may always die.  The two that say that something happens do:

- `EveryPostAnswered`.  A phone sends a POST until it is answered
  (`apps/knocker-ios/README.md:98-101`: knocks are queued with attempt counts and
  sent on reconnect), so a handler of it begins and goes on: weak fairness of its
  steps.  An INSERT that waits is woken when what it waits for has ended, though
  another may take its place before it runs: strong fairness of `Insert`.  PostgreSQL
  detects deadlocks.  Crashes are bounded and never required.
- `EveryJobSettles`.  A request goes on until it ends or dies, the provider decides
  every job in the end, a client GETs its job while it is running
  (`domains/content-studio/service.ts:6-7`), and not every one of its polls fails.
  The property speaks of jobs that have got an external id and whose connection
  stays readable and on the account the job was sent to (`Served`): without either
  nothing in the code can settle them.  What becomes of a job whose request dies
  or whose response is lost is `JobsLeaveATrace`, without fairness.

| Run | Shows | Bounds |
|---|---|---|
| `AuditChain` | `NoDanglingLink`, `VerifiesUnlessOverlapped`, `NoFalseAlarm`, `TamperEvident`, `ImplementsLog` | 2 transactions that may be open together, at most one of them the operator's, 2 chains, one of an org, 3 ulids, 2 events each, 1 row changed by hand or with an undefined key (`MaxFlaws`) |
| `PiiUnmask` | `TwoPersons`, `DisclosureOnRecord`, `RevealsBoundedByApprovals` | 5 handlers, 3 users, a grant of 1 in a clock of 3 |
| `RefreshTokens` | `NoSessionFromRevoked`, `ArchivedHoldsNoSession`, `StaleRoleOnlyInFlight` | 5 handlers, 2 roles, with or without a row |
| `AccessRevocation` | `RevokedNeverServed` | 2 requests, 2 detections, TTL 3, buffer 2, clock to 8 |
| `Idempotency` | `RunsAgainOnlyAfterExpiry`, `AnsweredMeansExecuted` | 4 calls, 2 requests, TTL 1, clock to 3 |
| `Clearance` | `LegalUnlessOvertaken`, `OpenGateWasApproved` | 3 PATCHes, 2 states, 2 campaigns, 1 refused filing |
| `LeadPipeline` | `MovesLegalUnlessOvertaken`, `ChangesOnlyWhatWasAsked` | 3 requests, 2 reps |
| `Booking` | `BookedUnderClearance`, `ConversionConvertsLead`, `BookedTwiceOnlyByOverlap` | any 3 of 2 POSTs with one key, 1 PATCH of the lead and 2 of registrations; 2 states, one registration, filed as pending or approved |
| `KnockIngest` | `AnsweredMeansStored`, `KnockOnRecord`, `EveryPostAnswered` | 2 batches and a single knock, 3 keys, 2 addresses named in opposite orders, 2 crashes |
| `MarketingJob` | `VaultReadableUnlessRaced`, `EventRecordedOnce`, `JobsLeaveATrace`, `EveryJobSettles` | 3 requests or deliveries, 2 jobs, 2 clients of one of them, sandbox and one account, 2 events of one external id, 1 crash |
| `RowEdits` | `UndoneOnlyByOverlap`, `AuditReplays` | 3 requests on one row of any of 11 tables, 2 contents of a column |

Each run of a module with a type invariant also checks it, but for `Booking`: that
of its parts is checked in their runs, and of the whole it is proved.  Why the
bounds are enough:
an overlap needs two handlers, a stale write over an overlap three (the one
that reads, the one that commits in between, the one that had been there
before), and a replay of a consumed grant five (request, two approvals, two
reveals).  Two audit transactions already fork a chain, roll back under one
another or follow each other, on one chain or on two; what three could add, or
a second flawed row, is proved (`AuditChainProofs`).  `Booking` bounds by a state constraint
(`MCBounds`) how many handlers run, because what it composes is checked alone in
the other runs.  Two batches that name two addresses in opposite orders deadlock,
and a third POST that shares a key with one of them makes a knock meet an open
and a committed row.  Two clients of one job are what a stale poll needs.  Clocks
run past the expiry of whatever was made last.

One more run is a disagreement between the code and what it says of itself.
`AuditSurfaces` refutes `ReplaysOnEitherSurface`: the operator's `writeAudit`
should mirror `recordEvent` "so the chain replays the same way regardless of which
surface wrote a given row" (`apps/web-operator/src/lib/db-helpers.ts:137`), but it
chains the first row of an org to 64 zeros, `verifyChain` starts from `GENESIS`, and
the replay of every org onboarded there is broken at its first row.  The chain
itself is sound: from its own genesis its rows verify (`VerifiesUnlessOverlapped`).

Other sentences the code does not keep were met on the way.  The models have the
behaviour, and the properties above are stated so that they allow it and no
more; no run is spent on the sentence itself.

| The code says | The model has |
|---|---|
| a `rowHash` that does not match is "a tamper signal" (`domains/audit/service.ts:14-16`) and the chain unbroken (ADR-0008:28) | two requests of one org that overlap give two rows the same `prevHash`, and the replay reports tampering: `VerifiesUnlessOverlapped` has to except them |
| metadata must have "a stable shape [...] or the verifier won't recompute the same hash", and `verifyChain` keeps "the same shape here so the hash matches" (`domains/audit/service.ts:80-82`, `:195-196`) | `issueTokens` gives `userAgent: undefined` for a request without that header (`domains/auth/service.ts:291`); `canonicalJson` renders the key (`audit-chain.ts:48-58`), jsonb has none, and an untouched row never verifies again: `Contents`, `Stored`, and the exceptions for `given = "undefined"` in the properties, which hold that the rows around it do verify |
| the operator's ulids and the API's "sort the same" (`apps/web-operator/src/lib/db-helpers.ts:33`) | the operator's starts with the time's highest bit, the API's with two zero bits before it, so the operator's sort above; `NoFalseAlarm` has to except chains whose ulids are not in order of id |
| a key already served answers again (`apps/web-operator/src/app/api/orgs/route.ts:171`) | not modelled: the wizard mints a key per click, so a second click onboards a second org under the next free slug |
| a reveal is "strictly single-use" (`domains/pii-vault/service.ts:364`) | an `ApproveCommit` in flight reopens a consumed request, and a reveal that had checked the first grant consumes it again; there are no more reveals than approvals |
| a reuse makes it "revoke the entire chain for the user" (`domains/auth/service.ts:82`) | a refresh in flight across it inserts its token afterwards |
| the key is unique "so accidental double-clicks don't book two MiCamp charges" (`domains/conversion/service.ts:147`) | the column holds a fresh id per call, so POSTs that overlap book twice |
| "concurrent inserter wins the race, we skip the duplicate row" (`domains/knock/service.ts:597`) | so for knocks; an address that is skipped leaves an id that does not exist, and `Commit` fails on the foreign key, to be sent again |
| `knock.batch_created` lists the knocks of the batch (`domains/knock/service.ts:619`) | the list names the skipped ones, too |
| a job's row is written first "so a crash mid-call leaves a trace" (`domains/marketing/service.ts:388`) | it does (`JobsLeaveATrace`), but a trace nothing follows up: the row is running without an external id, and `getJob` never polls it |
| "async (video/avatar) → still 'running'; externalJobId captured" (`domains/marketing/service.ts:447`) | a response lost after the provider took the job on is NETWORK too (`higgsfield.ts:99-101`), and the provider finishes what the row calls failed for good; an answer without an id (`data.jobId ?? null`, `:463`) leaves a running job nobody polls: `Replies`, `mislaid` |
| "soft-disconnect" (`domains/marketing/service.ts:295`) | `getProviderStatus` does not look at the status, so any `StatusCommit` whose ping succeeds writes `connected` over it |
| a webhook that meets the UNIQUE column is a replay, "already-processed" (`domains/marketing/service.ts:770`) | Higgsfield's `externalId` is the job and Meta's the entry, so another event of it is acknowledged and dropped |
| "only the hash is kept" of the webhook secret (`schema.prisma:983`) | the secret is in the vault and signatures are checked with it |
| "Every mutation writes an AuditEvent in the same TX" (`domains/org/service.ts:6`) | to the letter: `updateBilling`'s leaves out `micampMerchantId` and `stripeCustomerId` (`domains/org/service.ts:398-413`), `rotateSecret`'s that of the secret, `upsertSsoConfigurationBySlug`'s the certificate, the attribute mapping and the status (`domains/auth/saml/service.ts:187-195`): `tells`; `AuditReplays` is about the columns that are told (`Audited`) |
| a revoked status "is never silently flipped back on by an upsert" (`domains/auth/saml/service.ts:138`) | `UpsertSsoConfiguration` writes back the status it had read |
| the rake is "configurable per org" (`attribution-rake.ts:5`) | `createConversion` leaves the default buckets |
| "one-time-use semantics" (`domains/auth/service.ts:5`) | two `RefreshRead`s of one token before either rotates it open two sessions |
| an accepted invite goes from `invited` to `active` (`domains/user/service.ts:201`) | an invite still open reactivates an archived user |
| the reveal is "the requester"'s (`domains/pii-vault/routes.ts:13`) | whoever holds the grant reveals |
| a token "at-or-before that epoch" is rejected, outages included (`token-revocation.ts:13`, `:36`) | an older cutoff may be stamped last (`raced`); a GET slower than the buffer finds the key expired, which `Patience` rules out |
| "from/to ulid for incremental verification" (`domains/audit/service.ts:128`) | ulids of two instances are not in order of id, and a bounded replay of an untouched chain fails (`UlidsOrdered`) |
| a double click must not "generate two commission rows" (ADR-0010:9) | nothing is reserved between `Load` and `Store`: calls that overlap both run |
| a replay gets its own response (ADR-0010:17) | `Upsert` keeps the request of one call with the response of another |
| "expired/rejected are terminal" (`domains/compliance/service.ts:69`) | a `TransitionCommit` whose read was overtaken leaves them |
| "re-filing creates a NEW registration row" (the same line) | `FileRefused`: the UNIQUE constraint stands in the way |
| clearances are created "when a registration is approved" (`domains/compliance/service.ts:14`) | `File` with status `approved` opens none, and no later move can |
| "`do_not_contact` is terminal" (`domains/lead/service.ts:7`) | an `UpdateCommit` whose read was overtaken leaves it |
| "any open status -> converted" (`domains/conversion/service.ts:221`) | `FlipsLead`: lost and do_not_contact leads too |
| donations come "WITH a campaignId" (`domains/compliance/service.ts:91`) | `GateOpen` without a campaign: `conversion/schemas.ts:43` leaves it optional |

## Proofs

Every safety property that a passing run checks is proved here for every value
of the constants that satisfies the assumption of its module (`AuditAssumption`
and so on, one `ASSUME` each, which TLC evaluates in the runs).  They ask for
little: bounds, times and ids are natural numbers, `MaxEvents` at least 1;
`Handlers` or `Calls` is finite where something is counted; `None` is no call,
role, event or address; a payload of `KnockIngest` is a sequence of keys that is
not empty, of one key if it is no batch; whoever creates an asynchronous job
polls it; what `Booking` is asked names a state of `States`, or none.

Each module has one inductive invariant (`IInv`, `BookIInv`, `EditIInv`, `JobIInv`,
`KnockIInv`, `RevocationIInv`), whose conjuncts are what the paragraphs below tell of
it, and lemmas that say of each action how it keeps them; `AuditChainProofs` adds
an invariant of its own to `IInv` for each further property.

**AuditChainProofs.**  `TypeCorrect`, and `RowsVerifyUnlessOverlapped`
(`[]VerifiesUnlessOverlapped`).  That the rows of an untouched, unovertaken chain verify
is not inductive: it speaks of committed rows, which become visible all at once.  The
invariant (`LinkInv`) says of every transaction that nobody overtook on its
chain that each of its rows, and the head it has just read, follows all it
could see; `OverlapInv` places the rows of transactions that never overlapped
one wholly before the other, and `OperatorInv` the operator's row before all others
of its chain, so that the two anchors never mix (`HeadFromGenesis`).
`LinksNeverDangle` (`[]NoDanglingLink`) needs no such care: what a transaction
sees is never rolled back while it lives, so what it follows stays (`FollowInv`).

- `AlarmsAreExcused` (`[]NoFalseAlarm`).  Between its two statements a verification
  holds a gapless piece of its chain, or there is an excuse, and excuses hold for
  good (`AlarmInv`, `ExcuseStays`): what commits in between on a chain without
  overlaps is newer than all that was committed, so the piece stays gapless.
- `TamperingShows` (`[]TamperEvident`), for any number of changes by hand, where the
  run has one.  A digest covers the ulid of its row and the contents it was
  recorded with, whatever the row says now (`HashInv`), so an edited row fails by
  itself.  For lost rows: an unedited row that points into what its
  transaction could see points at the newest of it, which survives edits and
  deletions (`TightInv`); after the loss of a row that is not the newest, the row
  behind the gap points at nothing that is left, or past it (`EvidenceInv`).  A
  chain forked by an overlap can lose a whole branch and replay, which is the
  exception the property makes (`Overlapped` and `Lost`).
- `TableImplementsLog` (`Spec => ImplementsLog`), the refinement.  The log of a set of
  rows is a function on their ranks by id, which is what a sort gives;
  `RankAppend` and `LogAppend` say that newer rows append to it.  A commit maps to
  `Record` of one to `MaxEvents` events (`CountInv`), to `Forfeit` when it completes an
  overlap or has an event with an undefined key; a change by hand to `Forfeit`, and
  where the chain had forfeited before both stutter, as every other action does.

**VaultProofs** has the two modules that seal and open vaults.

- `PiiUnmask`: `TwoPersonRule`, `EveryDisclosureOnRecord` and `OneRevealPerApproval`.
  The first two carry the approver along: a grant names the call that minted it,
  that call's audit row names its actor, and row and handlers agree with it.  The
  last counts: while the row is approved there is an approval more than there are
  reveals, which each action keeps.
- `MarketingJob`: `VaultsOpen`, `EventsStoredOnce` and `JobsTraced`.  A connect carries a row
  sealed for its own id, and that is the id of the stored row if it had read one
  (`Carries`); a status or a disconnect writes only where there
  is a row, whose seal it leaves (`Connected`).  An event that is acknowledged was
  found or stored (`Carries` again), and a row is verified just when it has the
  external id of an event (`Verified`), by which the UNIQUE column tells them apart.
  `JobsLeaveATrace` has an invariant of its own (`TraceIInv`): no two requests have one
  job in hand, a job in hand is running without an external id or has no row yet, a
  poll has a row with one, and whoever carries an answer that is not what was made of
  the job has it in `mislaid`.

**SessionProofs.**

- `RefreshTokens`: `RevokedOpensNothing`, `ArchivalEndsSessions` and
  `RoleChangeEndsSessions`.  The invariant dates every session and every handler
  in flight against `log`: a handler that carries a role or a token had it
  confirmed at `readAt`, and whatever has changed since is in the log after it.
  While there is no user nobody holds anything, and who inserts him issues with the
  role he inserted.
- `AccessRevocation`: `RevocationHolds`.  As long as no stamps race the key covers
  every acknowledged cutoff until the last token of it has expired, and a request
  that is being checked entered at most `Patience` ago.

**IdempotencyProofs.**  `RetriesAreSafe` and `AnswersAreTrue`.  Every response
ever stored is behind the row, which expires no earlier; so when the row is
absent or expired, all of them have.

**ClearanceProofs.**  `MovesAreLegal` and `GateNeedsApproval`.  Neither property
speaks of the handlers; the invariant does (`ReadersInv`): what a PATCH has read
still holds, or the log has a later write of the same registration.  The gate goes
back to `ClearedInv`, which remembers for every clearance the write that opened it,
whatever has become of the registration since.

**LeadPipelineProofs.**  `PipelineHolds` and `NothingIsUndone`, from the like
invariant of the handlers: the status they read is the lead's, or a later change
of it is in the trail.

**BookingProofs** builds on the three before: it instantiates their proof modules
with the constants that `Booking` gives them (`G`, `P`, `K`), so that a step of a
component keeps the component's invariant by the component's lemma.

- `BookingsAreCleared`, `ConversionsConvert` and `BookedOnce`.  Of its own the invariant
  has what `createConversion` carries past each await (`Carried`): its call is still
  being handled, at `gateAt` the log of the registrations had the approval its
  gate stands for, and a lead it takes to be converted is, or was overwritten.
  That survives the PATCHes in between because the log only grows (`Onward`).
- `Rake`, for every amount: the rake is the most whole cents within the bucket's share
  (`RakeIsWholeShare`), rake and residual never exceed the amount
  (`RakeWithinAmount`), two conversions are charged what their sum would be or one
  cent less (`RakeOfParts`), and an opposite amount takes back the same cents
  (`ReversalIsExact`).  Nothing refuses a negative amount, so the last is about
  inputs that the API accepts.

**WriteProofs** has the writes of the field and of the administrators.

- `RowEdits`: `TerminalUnlessOverlapped` and `EditsReplay`.  The row is the replay of its
  trail and each entry starts where the last one ended (`TrailInv`), and by what
  `Audited` is an entry that changes such a column tells it or writes it back; a handler about
  to write holds the row as it was after `readAt` entries, and that did not stop it
  (`WritersInv`).  Which edits exist is a finite matter (`EditFacts`); how many
  requests run them is not.
- `KnockIngest`: `AnswersCanBeTrusted` and `KnocksOnRecord`.  Of two transactions in
  flight none has a row of the other (`Apart`), for the UNIQUE columns make the
  second wait; what a handler left out is stored, what it inserted is not stored yet
  (`Fits`); and every stored knock has an address (`Housed`), which is what the
  foreign key is for.  Either property needs the other's invariant to be kept.

Only model-checked: the two liveness properties, `EveryPostAnswered` and
`EveryJobSettles`, since fairness speaks of what is enabled and the prover does
not; and the refuted `ReplaysOnEitherSurface`, which is a counterexample.

## What the models leave out

- Tenancy: org and region checks compare values that never change in the life
  of a row, and the rewriting of queries in `config/db.ts` keeps no state.
- Locks: READ COMMITTED transactions that write the same row serialize on it;
  a transaction the database kills as a deadlock victim is a handler that fails.
  `KnockIngest` models the waits themselves.
- Cryptography, formats, pagination and the text of errors.
- Routing of new leads (`pickInsideSalesRep`): two new leads may count the same
  loads and go to the same rep, who may be archived meanwhile.  Open, see the plan.
- `createKnock` does not ask whether its session has ended, and `acceptInvite`
  takes an archived user back: told here, not stated as a property.
- The outside: campaigns are created and `expiresAt` is written by no code of
  this repository, and providers answer what they like; the models let all of it
  happen at any time.
- Ten of the API's domains answer 501 (`billing` to `realtime` above).
- The web applications (`apps/web-operator`, `apps/marketing-studio`,
  `apps/partner-portal`), most of the repository's lines, are pages: what they
  keep is on the screen or in the browser, and what they do is a call of the API.
  Only `apps/web-operator/src/app/api/orgs/route.ts` writes to the database; of it
  the choice of a slug is left out, which a UNIQUE column backs, and so are the
  rows of the org, which nothing else can reach before the transaction commits.
  That is why the mapped share of all lines is small although all but a few of
  the API's mutating handlers are actions here.

## Plan

Done, in this order: audit log, unmask, sessions, access tokens, idempotency,
clearance, leads, booking, knocks, marketing, single-row edits, rake; and the
proof of each safety property.  Next:

1. `LeadRouting`: `createLead` with `pickInsideSalesRep` beside archivals, and the
   theorem that a lead goes to a rep who was active when it was counted.

The project keeps to a dozen runs, which is what one wants to wait for: a new
component takes its place in a run that is there, or that of `AuditSurfaces`.
