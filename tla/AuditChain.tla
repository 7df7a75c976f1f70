----------------------------- MODULE AuditChain -----------------------------
(***************************************************************************)
(* The hash-chained audit log of apps/api/src/domains/audit/service.ts.    *)
(*                                                                         *)
(* Every service writes its mutation and an AuditEvent row in one Postgres *)
(* transaction (READ COMMITTED, no explicit lock).  recordEvent reads the  *)
(* newest visible row of the chain, then inserts a row that carries that   *)
(* row's hash; the two statements are separate steps here, so that the     *)
(* transactions of two requests interleave as the database lets them.      *)
(* verifyChain replays a chain, whole or from a ulid on.                   *)
(*                                                                         *)
(* The hash covers the event as the caller gave it; verifyChain recomputes *)
(* it from what the jsonb columns kept of that event.                      *)
(*                                                                         *)
(* A second writer is the operator's web application: its POST /api/orgs   *)
(* creates an org in a transaction of its own on the same database and     *)
(* appends the first row of that org's chain (apps/web-operator/src/lib/   *)
(* db-helpers.ts, writeAudit).                                             *)
(*                                                                         *)
(* A chain is the rows of one org, or the rows without org of one region.  *)
(***************************************************************************)
EXTENDS Integers, FiniteSets, Sequences

CONSTANTS
  Txs,        \* the transactions (one per mutating request)
  Chains,     \* the chains they append to
  Orgs,       \* those of an org, the others are a platform region's
  Ulids,      \* the ulids newId('aud') may mint, ordered as integers
  MaxEvents,  \* bound: audit rows per transaction
  MaxOpen,    \* transactions the database has open at a time
  MaxFlaws    \* bound: rows that the database does not keep as they were given,
              \* or that are changed behind the service's back

ASSUME AuditAssumption ==
  /\ Orgs \subseteq Chains
  /\ Ulids \subseteq Nat \ {0}
  /\ MaxEvents \in Nat \ {0}
  /\ MaxOpen \in Nat
  /\ MaxFlaws \in Nat

VARIABLES
  chainOf,   \* the chain of each transaction's actor
  operator,  \* the transactions that are the operator's POST /api/orgs
  status,    \* status[t]: what the database knows of transaction t
  call,      \* call[t]: the recordEvent call in flight in t, after its read
  rows,      \* the AuditEvent table, rows of open transactions included
  nextId,    \* the bigint sequence behind AuditEvent.id
  minted,    \* the ulids handed out
  tampered,  \* history: rows edited or removed out of band
  overlap,   \* history: pairs of transactions open at the same time
  verifier   \* the verifyChain call in flight, or its verdict

vars == <<chainOf, operator, status, call, rows, nextId, minted, tampered, overlap, verifier>>
txVars == <<chainOf, operator, status, call, overlap>>
tableVars == <<rows, nextId, minted, tampered>>

\* HMAC-SHA256(secret, prevHash || canonical row) is injective in what it
\* covers, so a digest is the sequence of the canonical rows it covers, and
\* GENESIS_PREV_HASH the empty one.  The ulid and the body are a canonical row.
GENESIS == <<>>

\* The operator's application has a constant of its own, 64 zeros.
OPERATOR_GENESIS == <<<<0, "zeros">>>>

Hash(prev, ulid, body) == Append(prev, <<ulid, body>>)

Flaws == Cardinality(tampered) + Cardinality({r \in rows : r.given = "undefined"})

\* What a caller of recordEvent may give: an event all of whose keys have a JSON
\* value, or one with a key that is there and undefined, as issueTokens does with
\* userAgent when the request has no such header.  The operator's only caller
\* gives a fixed event.
Contents(t) ==
  {"recorded"} \cup IF t \notin operator /\ Flaws < MaxFlaws THEN {"undefined"} ELSE {}

\* What jsonb gives back: canonicalJson renders an undefined key, JSON drops it.
Stored(given) == IF given = "undefined" THEN "recorded" ELSE given

\* The transaction of POST /api/orgs appends the first row of a fresh org's chain.
Onboarded(c) == \E t \in operator : chainOf[t] = c

\* What the first row of c was chained to.
Genesis(c) == IF Onboarded(c) THEN OPERATOR_GENESIS ELSE GENESIS

NoCall == [reading |-> FALSE]
Idle == [phase |-> "idle"]

Open == {t \in Txs : status[t] = "open"}
RowsOf(t) == {r \in rows : r.tx = t}
Committed(c) == {r \in rows : chainOf[r.tx] = c /\ status[r.tx] = "committed"}

\* Mutants of Visible: a dirty read; a read outside the caller's transaction.
VisibleDirty(t) == {r \in rows : chainOf[r.tx] = chainOf[t]}
VisibleOutsideTx(t) == Committed(chainOf[t])

\* What a statement of t sees of its chain: committed rows and its own.
Visible(t) == Committed(chainOf[t]) \cup RowsOf(t)

\* h is the rowHash of the newest row of S, or the anchor when S is empty.
IsHead(h, S, anchor) ==
  \/ S = {} /\ h = anchor
  \/ \E r \in S : (\A s \in S : s.id <= r.id) /\ h = r.hash

HeadCandidates(S, anchor) == {anchor} \cup {r.hash : r \in S}
-----------------------------------------------------------------------------
Init ==
  /\ chainOf \in [Txs -> Chains]
  /\ operator \in SUBSET {t \in Txs : chainOf[t] \in Orgs}
  /\ \A t, u \in operator : chainOf[t] = chainOf[u] => t = u
  /\ status = [t \in Txs |-> "idle"]
  /\ call = [t \in Txs |-> NoCall]
  /\ rows = {}
  /\ nextId = 1
  /\ minted = {}
  /\ tampered = {}
  /\ overlap = {}
  /\ verifier = Idle

\* prisma.$transaction(async (tx) => ...) opens a transaction.  A request of an
\* org that the operator onboards comes after the org is there.
Begin(t) ==
  /\ status[t] = "idle"
  /\ \A u \in operator \ {t} : chainOf[u] = chainOf[t] => status[u] = "committed"
  /\ Cardinality(Open) < MaxOpen
  /\ status' = [status EXCEPT ![t] = "open"]
  /\ overlap' = overlap \cup {{t, u} : u \in Open}
  /\ UNCHANGED <<chainOf, operator, call, tableVars, verifier>>

\* The prevHash of a row that finds its chain empty.
Anchor(t) == IF t \in operator THEN OPERATOR_GENESIS ELSE GENESIS

\* recordEvent, up to its first await: mint the ulid, find the chain's head.
\* The operator's writeAudit is the same two statements, once, from its genesis.
ReadHead(t) ==
  /\ status[t] = "open"
  /\ ~call[t].reading
  /\ Cardinality(RowsOf(t)) < IF t \in operator THEN 1 ELSE MaxEvents
  /\ \E u \in Ulids \ minted, h \in HeadCandidates(Visible(t), Anchor(t)) :
       /\ IsHead(h, Visible(t), Anchor(t))
       /\ call' = [call EXCEPT ![t] = [reading |-> TRUE, ulid |-> u, prev |-> h]]
       /\ minted' = minted \cup {u}
  /\ UNCHANGED <<chainOf, operator, status, overlap, rows, nextId, tampered, verifier>>

\* Mutant of InsertRow: the ulid and head of the finished call are kept.
InsertRowKeepsCall(t) ==
  /\ status[t] = "open"
  /\ call[t].reading
  /\ \E given \in Contents(t) :
       rows' = rows \cup
         {[id |-> nextId, tx |-> t, ulid |-> call[t].ulid, given |-> given,
           body |-> Stored(given), prev |-> call[t].prev,
           hash |-> Hash(call[t].prev, call[t].ulid, given)]}
  /\ nextId' = nextId + 1
  /\ call' = [call EXCEPT ![t].reading = FALSE]
  /\ UNCHANGED <<chainOf, operator, status, overlap, minted, tampered, verifier>>

\* The rest of recordEvent: hash and insert.  The id comes from the sequence.
\* given is history: no column keeps what the hash was computed from.
InsertRow(t) ==
  /\ status[t] = "open"
  /\ call[t].reading
  /\ \E given \in Contents(t) :
       rows' = rows \cup
         {[id    |-> nextId,
           tx    |-> t,
           ulid  |-> call[t].ulid,
           given |-> given,
           body  |-> Stored(given),
           prev  |-> call[t].prev,
           hash  |-> Hash(call[t].prev, call[t].ulid, given)]}
  /\ nextId' = nextId + 1
  /\ call' = [call EXCEPT ![t] = NoCall]
  /\ UNCHANGED <<chainOf, operator, status, overlap, minted, tampered, verifier>>

\* The callback returns: mutation and audit rows become visible together.
Commit(t) ==
  /\ status[t] = "open"
  /\ ~call[t].reading
  /\ RowsOf(t) # {}
  /\ status' = [status EXCEPT ![t] = "committed"]
  /\ UNCHANGED <<chainOf, operator, call, overlap, tableVars, verifier>>

\* A statement throws, the transaction times out or the process dies: the rows
\* vanish, the ids they took are never used again.
Abort(t) ==
  /\ status[t] = "open"
  /\ status' = [status EXCEPT ![t] = "aborted"]
  /\ call' = [call EXCEPT ![t] = NoCall]
  /\ rows' = rows \ RowsOf(t)
  /\ UNCHANGED <<chainOf, operator, overlap, nextId, minted, tampered, verifier>>
-----------------------------------------------------------------------------
\* Mutant of VerifySelect: a bounded replay starts from genesis.
VerifySelectNoAnchor(c, from, to) ==
  /\ verifier.phase # "selected"
  /\ LET picked == {r \in Committed(c) : r.ulid >= from /\ (to = 0 \/ r.ulid <= to)}
     IN  verifier' = [phase |-> "selected", chain |-> c, picked |-> picked,
                      needsAnchor |-> FALSE]
  /\ UNCHANGED <<txVars, tableVars>>

\* verifyChain, first statement: the rows at or above fromUlid and at or below
\* toUlid.  A bound of 0 is an absent argument.  Only when fromUlid is given
\* and a row was selected does the second statement look for an anchor.
VerifySelect(c, from, to) ==
  /\ verifier.phase # "selected"
  /\ LET picked == {r \in Committed(c) : r.ulid >= from /\ (to = 0 \/ r.ulid <= to)}
     IN  verifier' = [phase |-> "selected", chain |-> c, picked |-> picked,
                      needsAnchor |-> from # 0 /\ picked # {}]
  /\ UNCHANGED <<txVars, tableVars>>

\* Mutant of RowVerifies: each row's own prevHash is trusted (before SEC-002).
RowVerifiesAlone(r, S, anchor) == r.hash = Hash(r.prev, r.ulid, r.body)

\* The stored prevHash must be the hash of the row walked before it, and the
\* stored rowHash the one recomputed from it and from the stored contents.
RowVerifies(r, S, anchor) ==
  /\ IsHead(r.prev, {s \in S : s.id < r.id}, anchor)
  /\ r.hash = Hash(r.prev, r.ulid, r.body)

Replays(S, anchor) == \A r \in S : RowVerifies(r, S, anchor)

\* brokenAt: the first row, by id, that fails; nothing when the walk ends well.
Verdict(c, S, anchor) ==
  LET bad == {r \in S : ~RowVerifies(r, S, anchor)}
  IN  [phase |-> "done", chain |-> c,
       brokenAt |-> {r \in bad : \A s \in bad : r.id <= s.id}]

\* The anchor of a bounded replay: the newest row, by id, whose ulid is below
\* that of the first row selected; genesis when there is none.
VerifyWalk ==
  /\ verifier.phase = "selected"
  /\ LET c == verifier.chain
         S == verifier.picked
         earlier == {r \in Committed(c) : \E f \in S :
                       (\A s \in S : f.id <= s.id) /\ r.ulid < f.ulid}
         anchors == IF verifier.needsAnchor THEN earlier ELSE {}
     IN  \E a \in HeadCandidates(anchors, GENESIS) :
           /\ IsHead(a, anchors, GENESIS)
           /\ verifier' = Verdict(c, S, a)
  /\ UNCHANGED <<txVars, tableVars>>

\* A committed row's contents, and perhaps its prevHash, rewritten in the
\* database by hand.  The HMAC secret is not in the database.
EditRow(r, prev) ==
  /\ Flaws < MaxFlaws
  /\ status[r.tx] = "committed"
  /\ rows' = (rows \ {r}) \cup {[r EXCEPT !.body = "edited", !.prev = prev]}
  /\ tampered' = tampered \cup {[kind |-> "edited", chain |-> chainOf[r.tx]]}
  /\ UNCHANGED <<txVars, nextId, minted, verifier>>

\* A committed row that has a newer one in its chain, deleted by hand.
DeleteRow(r) ==
  /\ Flaws < MaxFlaws
  /\ \E s \in Committed(chainOf[r.tx]) : s.id > r.id
  /\ status[r.tx] = "committed"
  /\ rows' = rows \ {r}
  /\ tampered' = tampered \cup {[kind |-> "deleted", chain |-> chainOf[r.tx]]}
  /\ UNCHANGED <<txVars, nextId, minted, verifier>>

TxNext == \E t \in Txs :
  Begin(t) \/ ReadHead(t) \/ InsertRow(t) \/ Commit(t) \/ Abort(t)

VerifierNext ==
  \/ \E c \in Chains, from \in Ulids \cup {0}, to \in Ulids \cup {0} :
       VerifySelect(c, from, to)
  \/ VerifyWalk

OutOfBand == \E r \in rows :
  \/ \E p \in {r.prev} \cup {s.hash : s \in rows} : EditRow(r, p)
  \/ DeleteRow(r)

Next == TxNext \/ VerifierNext \/ OutOfBand

Spec == Init /\ [][Next]_vars
-----------------------------------------------------------------------------
Digests == Seq((Ulids \X {"recorded", "undefined", "edited"}) \cup {<<0, "zeros">>})
Rows == [id : Nat \ {0}, tx : Txs, ulid : Ulids, given : {"recorded", "undefined"},
         body : {"recorded", "edited"}, prev : Digests, hash : Digests]

TypeOK ==
  /\ chainOf \in [Txs -> Chains]
  /\ operator \subseteq Txs
  /\ status \in [Txs -> {"idle", "open", "committed", "aborted"}]
  /\ call \in [Txs -> {NoCall} \cup [reading : {TRUE}, ulid : Ulids, prev : Digests]]
  /\ rows \subseteq Rows
  /\ nextId \in Nat \ {0}
  /\ minted \subseteq Ulids
  /\ tampered \subseteq [kind : {"edited", "deleted"}, chain : Chains]
  /\ overlap \subseteq SUBSET Txs
  /\ verifier \in
       {Idle} \cup [phase : {"selected"}, chain : Chains, picked : SUBSET Rows,
                    needsAnchor : BOOLEAN]
              \cup [phase : {"done"}, chain : Chains, brokenAt : SUBSET Rows]

\* Two transactions that both appended to c were open at the same time.
Overlapped(c) == \E t, u \in Txs :
  /\ t # u /\ {t, u} \in overlap
  /\ chainOf[t] = c /\ chainOf[u] = c
  /\ status[t] = "committed" /\ status[u] = "committed"

Tampered(c) == \E x \in tampered : x.chain = c

Lost(c) == \E x \in tampered : x.chain = c /\ x.kind = "deleted"

\* Ids and ulids of the chain's rows put them in the same order.
UlidsOrdered(c) == \A r, s \in Committed(c) : r.id < s.id => r.ulid < s.ulid

\* A committed row never points at a row that was rolled back, at a row of
\* another chain or at a later row: its prevHash is genesis or the hash of an
\* older committed row of its chain.  (recordEvent reads the head inside the
\* caller's transaction, where the caller's own uncommitted rows are visible.)
NoDanglingLink ==
  tampered = {} =>
    \A c \in Chains : \A r \in Committed(c) :
      r.prev = Genesis(c) \/ \E s \in Committed(c) : s.id < r.id /\ r.prev = s.hash

\* In the replay of a whole chain, from what its first writer takes for genesis, a
\* row fails only if a row of the chain was changed out of band, two transactions
\* of it overlapped, or that very row was given contents that the database does
\* not keep: the rows before and after it still link and verify, whatever the other
\* chains, the other writer and the rolled back transactions did.
VerifiesUnlessOverlapped ==
  \A c \in Chains : Tampered(c) \/ Overlapped(c) \/
    \A r \in Committed(c) :
      /\ IsHead(r.prev, {s \in Committed(c) : s.id < r.id}, Genesis(c))
      /\ RowVerifies(r, Committed(c), Genesis(c)) \/ r.given = "undefined"

\* A changed chain never replays again, from the genesis of either writer: not one
\* in which the contents of rows were rewritten, even when a row's prevHash was
\* rewritten to the hash of another row, nor one that lost rows other than its
\* newest, unless it lost a row after concurrent appends had forked it.
TamperEvident ==
  \A x \in tampered, g \in {GENESIS, OPERATOR_GENESIS} :
    ~(Overlapped(x.chain) /\ Lost(x.chain)) => ~Replays(Committed(x.chain), g)

\* A bounded replay raises no alarm on an untouched chain of the API whose rows
\* were appended one transaction at a time with ulids in order of id, although
\* its two statements run at different times and rows are committed between them;
\* it is then broken at no row but one whose contents the database did not keep.
NoFalseAlarm ==
  verifier.phase = "done" =>
    LET c == verifier.chain
    IN  \/ Tampered(c) \/ Overlapped(c) \/ ~UlidsOrdered(c) \/ Onboarded(c)
        \/ \A r \in verifier.brokenAt : r.given = "undefined"

\* apps/web-operator/src/lib/db-helpers.ts:137-138: writeAudit mirrors recordEvent
\* "so the chain replays the same way regardless of which surface wrote a given
\* row": what replays from its first row's own genesis, verifyChain accepts.
ReplaysOnEitherSurface ==
  \A c \in Chains :
    Replays(Committed(c), Genesis(c)) => Replays(Committed(c), GENESIS)
=============================================================================
