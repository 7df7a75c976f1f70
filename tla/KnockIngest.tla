---------------------------- MODULE KnockIngest ----------------------------
(***************************************************************************)
(* POST /v1/knocks and POST /v1/knocks/batch: createKnock, upsertAddress   *)
(* and createKnockBatch of apps/api/src/domains/knock/service.ts, run      *)
(* against the two UNIQUE columns Address.hashKey and Knock.idempotencyKey *)
(* and the foreign key from a knock to its address.                        *)
(*                                                                         *)
(* A handler reads which knocks are there, then, inside one transaction,   *)
(* reads which addresses are there, inserts the missing addresses one      *)
(* after the other, then the knocks.  Of an INSERT that meets a row of a   *)
(* transaction still open, PostgreSQL makes it wait until that one ends;   *)
(* of one that meets a committed row, a single knock's fails (P2002) and a *)
(* batch's is skipped (skipDuplicates).  Rows of an open transaction are   *)
(* kept with its handler and seen by nobody else.                          *)
(*                                                                         *)
(* The phone keeps its knocks queued and sends a POST again until it is    *)
(* answered.  Sessions, territories and addresses given by id are rows no  *)
(* code deletes: their checks have the same outcome at every attempt, and  *)
(* the knocks here are those that pass them.                               *)
(***************************************************************************)
EXTENDS Integers, Sequences, FiniteSets

CONSTANTS
  Posts,      \* the POSTs the phones send, each again and again until it is answered
  Batched,    \* the ones to /batch; the others carry one knock
  Payload,    \* Payload[p]: the idempotency keys of p's knocks, in order
  HashOf,     \* HashOf[k]: the hashKey of the address where knock k was made
  MaxCrashes, \* bound: this many handlers die or time out
  None        \* no address row

Keys == DOMAIN HashOf
Hashes == {HashOf[k] : k \in Keys}
Positions == UNION {DOMAIN Payload[p] : p \in Posts}

ASSUME KnockAssumption ==
  /\ Batched \subseteq Posts
  /\ \A p \in Posts : Payload[p] \in Seq(Keys) /\ Payload[p] # <<>>
  /\ \A p \in Posts \ Batched : Len(Payload[p]) = 1
  /\ MaxCrashes \in Nat
  /\ None \notin Posts \X Hashes

VARIABLES
  address,  \* address[h]: the id of the committed Address row with hashKey h
  knocks,   \* the committed Knock rows
  post,     \* post[p]: what the handler of p carries, with its uncommitted rows
  audits,   \* the AuditEvents of the transactions that stored knocks
  replies,  \* history: the 201s sent
  crashes   \* history: how many handlers died

knockVars == <<address, knocks, post, audits, replies, crashes>>

\* The id that the handler of p gives to a new address.
NewId(p, h) == <<p, h>>

Idle == [pc |-> "idle", want |-> {}, addr |-> [h \in Hashes |-> None],
         newAddresses |-> {}, newKnocks |-> {}, todo |-> {}]

Key(p, i) == Payload[p][i]
Hash(p, i) == HashOf[Key(p, i)]

Stored(k) == \E n \in knocks : n.key = k

\* Of the knocks of a batch that share a key, the first counts.
Firsts(p) == {i \in DOMAIN Payload[p] : \A j \in 1 .. i - 1 : Key(p, j) # Key(p, i)}

\* Mutant of Known: the lookup of the address is forgotten.
KnownNever(h) == FALSE

Known(h) == address[h] # None

InTransaction(p) == post[p].pc \in {"addresses", "knocks"}

\* The position whose row p inserts next.
Turn(p, i) == i \in post[p].todo /\ \A j \in post[p].todo : i <= j

\* The row p would insert next is in an open transaction of q.
WaitsFor(p, q) ==
  /\ q # p
  /\ InTransaction(p) /\ InTransaction(q)
  /\ \E i \in post[p].todo :
       /\ Turn(p, i)
       /\ \/ post[p].pc = "addresses" /\ Hash(p, i) \in post[q].newAddresses
          \/ post[p].pc = "knocks" /\ Key(p, i) \in {Key(q, j) : j \in post[q].newKnocks}

\* p is in a circle of transactions that wait for one another.
Deadlocked(p) ==
  \E circle \in SUBSET Posts :
    /\ p \in circle
    /\ \A q \in circle : \E r \in circle : WaitsFor(q, r)
    /\ \A q \in circle : \E r \in circle : WaitsFor(r, q)
-----------------------------------------------------------------------------
KnockInit ==
  /\ address \in [Hashes -> {None}]
  /\ knocks = {}
  /\ post = [p \in Posts |-> Idle]
  /\ audits = {}
  /\ replies = {}
  /\ crashes = 0

\* Mutant of Deduped: a knock that was there is counted as skipped once more.
DedupedTwice(p, r) ==
  (Len(Payload[p]) - Cardinality(r.want)) + (Len(Payload[p]) - Cardinality(r.newKnocks))

\* Repeated in the batch, found stored, or skipped by the INSERT.
Deduped(p, r) ==
  (Len(Payload[p]) - Cardinality(r.want)) + (Cardinality(r.want) - Cardinality(r.newKnocks))

Answer(p, r) ==
  /\ post' = [post EXCEPT ![p] = [Idle EXCEPT !.pc = "done"]]
  /\ replies' = replies \cup
       {[post |-> p, inserted |-> Cardinality(r.newKnocks), deduped |-> Deduped(p, r)]}

\* The knocks that are stored already are left out; when all are, that is the answer.
Lookup(p) ==
  /\ post[p].pc = "idle"
  /\ LET r == [Idle EXCEPT !.pc = "resolving",
                           !.want = {i \in Firsts(p) : ~Stored(Key(p, i))}]
     IN  IF r.want = {} THEN Answer(p, r)
         ELSE post' = [post EXCEPT ![p] = r] /\ UNCHANGED replies
  /\ UNCHANGED <<address, knocks, audits, crashes>>

\* The addresses are all in: the knocks are next.
Onward(r) ==
  IF r.pc = "addresses" /\ r.todo = {} THEN [r EXCEPT !.pc = "knocks", !.todo = r.want] ELSE r

\* The transaction begins: known addresses are used, the others get ids of their own.
Resolve(p) ==
  /\ post[p].pc = "resolving"
  /\ LET want == post[p].want
         missing == {i \in want : /\ ~Known(Hash(p, i))
                                  /\ \A j \in want : j < i => Hash(p, j) # Hash(p, i)}
     IN  post' = [post EXCEPT ![p] = Onward([post[p] EXCEPT
           !.pc = "addresses", !.todo = missing,
           !.addr = [h \in Hashes |-> IF Known(h) THEN address[h] ELSE NewId(p, h)]])]
  /\ UNCHANGED <<address, knocks, audits, replies, crashes>>

\* What becomes of p when its row is there already: the row is left out of a batch, and
\* a single knock ends with 500, to be sent again.
Conflict(p, i) ==
  post' = [post EXCEPT ![p] =
    IF p \in Batched THEN Onward([post[p] EXCEPT !.todo = @ \ {i}]) ELSE Idle]

\* address.create and address.createMany.  A batch keeps its own id for a row it left out.
InsertAddress(p, i) ==
  /\ post[p].pc = "addresses"
  /\ Turn(p, i)
  /\ \A q \in Posts : ~WaitsFor(p, q)
  /\ IF address[Hash(p, i)] = None
     THEN post' = [post EXCEPT ![p] = Onward([post[p] EXCEPT
            !.newAddresses = @ \cup {Hash(p, i)}, !.todo = @ \ {i}])]
     ELSE Conflict(p, i)
  /\ UNCHANGED <<address, knocks, audits, replies, crashes>>

\* Mutant of InsertKnock: a key that another handler is about to store counts as stored.
InsertKnockNoWait(p, i) ==
  /\ post[p].pc = "knocks"
  /\ Turn(p, i)
  /\ IF ~Stored(Key(p, i)) /\ \A q \in Posts : ~WaitsFor(p, q)
     THEN post' = [post EXCEPT ![p].newKnocks = @ \cup {i}, ![p].todo = @ \ {i}]
     ELSE Conflict(p, i)
  /\ UNCHANGED <<address, knocks, audits, replies, crashes>>

\* knock.create and knock.createMany.
InsertKnock(p, i) ==
  /\ post[p].pc = "knocks"
  /\ Turn(p, i)
  /\ \A q \in Posts : ~WaitsFor(p, q)
  /\ IF ~Stored(Key(p, i))
     THEN post' = [post EXCEPT ![p].newKnocks = @ \cup {i}, ![p].todo = @ \ {i}]
     ELSE Conflict(p, i)
  /\ UNCHANGED <<address, knocks, audits, replies, crashes>>

\* Mutant of ReferencesHold: the column has no foreign key.
ReferencesUnchecked(p) == TRUE

\* Every knock p inserted names an address row that exists.
ReferencesHold(p) ==
  \A i \in post[p].newKnocks :
    Hash(p, i) \in post[p].newAddresses \/ post[p].addr[Hash(p, i)] = address[Hash(p, i)]

\* The foreign key is checked, the audit row written when a knock is, and all is committed
\* or nothing.  The audit row of a batch names the knocks it left out, too.
Commit(p) ==
  /\ post[p].pc = "knocks" /\ post[p].todo = {}
  /\ IF ReferencesHold(p)
     THEN /\ address' = [h \in Hashes |->
               IF h \in post[p].newAddresses THEN NewId(p, h) ELSE address[h]]
          /\ knocks' = knocks \cup
               {[key |-> Key(p, i), address |-> post[p].addr[Hash(p, i)], by |-> p] :
                  i \in post[p].newKnocks}
          /\ audits' = IF post[p].newKnocks = {} THEN audits
                       ELSE audits \cup {[by |-> p, named |-> {Key(p, i) : i \in post[p].want}]}
          /\ post' = [post EXCEPT ![p].pc = "committed"]
     ELSE post' = [post EXCEPT ![p] = Idle] /\ UNCHANGED <<address, knocks, audits>>
  /\ UNCHANGED <<replies, crashes>>

Reply(p) ==
  /\ post[p].pc = "committed"
  /\ Answer(p, post[p])
  /\ UNCHANGED <<address, knocks, audits, crashes>>

\* PostgreSQL ends one transaction of a circle.
DeadlockVictim(p) ==
  /\ Deadlocked(p)
  /\ post' = [post EXCEPT ![p] = Idle]
  /\ UNCHANGED <<address, knocks, audits, replies, crashes>>

\* The process dies or the transaction runs into its timeout; the phone sends again.
Crash(p) ==
  /\ post[p].pc \notin {"idle", "done"}
  /\ crashes < MaxCrashes
  /\ crashes' = crashes + 1
  /\ post' = [post EXCEPT ![p] = Idle]
  /\ UNCHANGED <<address, knocks, audits, replies>>

Insert(p) == \E i \in Positions : InsertAddress(p, i) \/ InsertKnock(p, i)

KnockNext ==
  \E p \in Posts :
    \/ Lookup(p) \/ Resolve(p) \/ Insert(p) \/ Commit(p) \/ Reply(p)
    \/ DeadlockVictim(p) \/ Crash(p)

\* A phone sends until it is answered and a handler that may go on does; a waiting INSERT
\* is woken when what it waits for has ended; a deadlock is detected.  Nothing says
\* that a handler ever dies.
Fairness ==
  \A p \in Posts :
    /\ WF_knockVars(Lookup(p) \/ Resolve(p) \/ Commit(p) \/ Reply(p))
    /\ SF_knockVars(Insert(p))
    /\ WF_knockVars(DeadlockVictim(p))

KnockSpec == KnockInit /\ [][KnockNext]_knockVars /\ Fairness
-----------------------------------------------------------------------------
Ids == (Posts \X Hashes) \cup {None}

PostType ==
  [pc : {"idle", "resolving", "addresses", "knocks", "committed", "done"},
   want : SUBSET Positions, addr : [Hashes -> Ids], newAddresses : SUBSET Hashes,
   newKnocks : SUBSET Positions, todo : SUBSET Positions]

KnockTypeOK ==
  /\ address \in [Hashes -> Ids]
  /\ knocks \subseteq [key : Keys, address : Ids, by : Posts]
  /\ post \in [Posts -> PostType]
  /\ audits \subseteq [by : Posts, named : SUBSET Keys]
  /\ \A r \in replies :
       r.post \in Posts /\ {r.inserted, r.deduped} \subseteq 0 .. Len(Payload[r.post])
  /\ crashes \in 0 .. MaxCrashes

\* The phone may drop what is answered: every knock of an answered POST is stored, whoever
\* stored it, though the handler that skipped it as a duplicate never saw it commit.
AnsweredMeansStored ==
  \A r \in replies : \A i \in DOMAIN Payload[r.post] : Stored(Key(r.post, i))

\* A knock is stored once, on the one address row of its hash, and named by an audit row of
\* the POST that stored it: no batch stores knocks on the ids of addresses it left out.
KnockOnRecord ==
  \A n \in knocks :
    /\ \A m \in knocks : m.key = n.key => m = n
    /\ n.address = address[HashOf[n.key]]
    /\ \E a \in audits : a.by = n.by /\ n.key \in a.named

\* Every POST is answered in the end, over unique violations, violated foreign keys,
\* deadlocks and crashes: each failure leaves rows behind that the next attempt finds.
EveryPostAnswered == \A p \in Posts : <>(post[p].pc = "done")
=============================================================================
