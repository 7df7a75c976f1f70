-------------------------- MODULE AuditChainProofs --------------------------
(***************************************************************************)
(* For any number of transactions, chains and events: what recordEvent     *)
(* leaves in the AuditEvent table under interleaved transactions, what     *)
(* verifyChain makes of it, and that the table implements AuditLog.        *)
(***************************************************************************)
EXTENDS AuditChainRefinement, FiniteSetTheorems, SequenceTheorems, WellFoundedInduction, TLAPS

\* u committed rows to t's chain although the two were open together.
Clear(t) == \A u \in Txs :
  t # u /\ {t, u} \in overlap /\ chainOf[u] = chainOf[t] => status[u] # "committed"

\* t has begun and was not rolled back.
Started(t) == status[t] \in {"open", "committed"}

\* Rows carry fresh ids and belong to transactions that are open or committed.
RowsInv ==
  /\ \A t \in Txs : call[t].reading => status[t] = "open"
  /\ \A r \in rows : r.id < nextId /\ Started(r.tx)
  /\ \A r, s \in rows : r.id = s.id => r = s

\* What the history variable says of transactions that are open, and the order
\* of the rows of two that were never open together.
OverlapInv ==
  /\ \A t, u \in Txs : {t, u} \in overlap /\ t # u => status[t] # "idle"
  /\ \A t, u \in Txs :
       t # u /\ status[t] = "open" /\ status[u] = "open" => {t, u} \in overlap
  /\ \A r, s \in rows :
       /\ r.tx # s.tx /\ {r.tx, s.tx} \notin overlap
       /\ status[r.tx] = "committed" /\ status[s.tx] = "open"
       => r.id < s.id

\* The digest of r covers what was given, and its columns hold what JSON keeps of that.
Given(r) == r.hash = Hash(r.prev, r.ulid, r.given) /\ r.body = Stored(r.given)

\* Each row of t, and the head t has just read, follows all that t could see.
Linked(t) ==
  /\ \A r \in RowsOf(t) :
       /\ Given(r)
       /\ IsHead(r.prev, {s \in Visible(t) : s.id < r.id}, Genesis(chainOf[t]))
  /\ call[t].reading => IsHead(call[t].prev, Visible(t), Genesis(chainOf[t]))

\* So it is as long as no transaction open beside t committed to t's chain.
LinkInv == \A t \in Txs :
  Started(t) /\ Clear(t) /\ ~Tampered(chainOf[t]) => Linked(t)

\* An operator's transaction is alone on its chain until its row is there.
OperatorInv ==
  /\ \A t, u \in operator : chainOf[t] = chainOf[u] => t = u
  /\ \A u \in operator, t \in Txs :
       chainOf[t] = chainOf[u] /\ t # u /\ Started(t) => status[u] = "committed"
  /\ \A u \in operator :
       status[u] = "committed" /\ ~Tampered(chainOf[u]) => RowsOf(u) # {}

\* The invariant that keeps itself.
IInv == TypeOK /\ RowsInv /\ OverlapInv /\ OperatorInv /\ LinkInv
-----------------------------------------------------------------------------
\* A digest of a digest and a canonical row is a digest.
LEMMA HashType ==
  ASSUME NEW p \in Digests, NEW u \in Ulids, NEW b \in {"recorded", "undefined", "edited"}
  PROVE  Hash(p, u, b) \in Digests
BY DEF Digests, Hash

\* What a caller gives, and what JSON keeps of it.
LEMMA ContentsType ==
  ASSUME NEW t \in Txs, NEW given \in Contents(t)
  PROVE  given \in {"recorded", "undefined"} /\ Stored(given) = "recorded"
BY DEF Contents, Stored

\* Either GENESIS_PREV_HASH is a digest.
LEMMA GenesisType == GENESIS \in Digests /\ OPERATOR_GENESIS \in Digests
BY DEF Digests, GENESIS, OPERATOR_GENESIS

\* An empty AuditEvent table, with no transaction begun, is well-typed.
THEOREM InitType == Init => TypeOK
BY DEF Init, TypeOK, NoCall, Idle

\* The two actions that build rows or read heads, the rest is routine.
LEMMA ReadHeadType ==
  ASSUME TypeOK, NEW t \in Txs, ReadHead(t) PROVE TypeOK'
<1>1. PICK u \in Ulids, h \in HeadCandidates(Visible(t), Anchor(t)) :
        /\ call' = [call EXCEPT ![t] = [reading |-> TRUE, ulid |-> u, prev |-> h]]
        /\ minted' = minted \cup {u}
  BY DEF ReadHead
<1>2. h \in Digests
  BY GenesisType DEF HeadCandidates, Anchor, Visible, Committed, RowsOf, TypeOK, Rows
<1>3. [reading |-> TRUE, ulid |-> u, prev |-> h]
        \in [reading : {TRUE}, ulid : Ulids, prev : Digests]
  BY <1>2
<1> QED
  BY <1>1, <1>3 DEF ReadHead, TypeOK

\* recordEvent inserts a well-typed row.
LEMMA InsertRowType ==
  ASSUME TypeOK, NEW t \in Txs, InsertRow(t) PROVE TypeOK'
<1>1. call[t].ulid \in Ulids /\ call[t].prev \in Digests
  <2>1. call[t] \in {NoCall} \cup [reading : {TRUE}, ulid : Ulids, prev : Digests]
    BY DEF TypeOK
  <2>2. call[t] # NoCall
    BY DEF InsertRow, NoCall
  <2> QED
    BY <2>1, <2>2
<1>2. PICK given \in Contents(t) :
        rows' = rows \cup
          {[id    |-> nextId,
            tx    |-> t,
            ulid  |-> call[t].ulid,
            given |-> given,
            body  |-> Stored(given),
            prev  |-> call[t].prev,
            hash  |-> Hash(call[t].prev, call[t].ulid, given)]}
  BY DEF InsertRow
<1>3. rows' \subseteq Rows
  <2>1. given \in {"recorded", "undefined"} /\ Stored(given) = "recorded"
    BY ContentsType
  <2>2. Hash(call[t].prev, call[t].ulid, given) \in Digests
    BY <1>1, <2>1, HashType
  <2> QED
    BY <1>1, <1>2, <2>1, <2>2 DEF TypeOK, Rows
<1>4. call' \in [Txs -> {NoCall} \cup [reading : {TRUE}, ulid : Ulids, prev : Digests]]
  BY DEF InsertRow, TypeOK
<1>5. nextId' \in Nat \ {0}
  BY DEF InsertRow, TypeOK
<1> QED
  BY <1>3, <1>4, <1>5 DEF InsertRow, TypeOK

\* A row edited or deleted by hand leaves a well-typed table.
LEMMA OutOfBandType ==
  ASSUME TypeOK, OutOfBand PROVE TypeOK'
<1>1. ASSUME NEW r \in rows, NEW p \in {r.prev} \cup {s.hash : s \in rows}, EditRow(r, p)
      PROVE  TypeOK'
  <2>1. p \in Digests
    BY <1>1 DEF TypeOK, Rows
  <2>2. [r EXCEPT !.body = "edited", !.prev = p] \in Rows
    BY <2>1 DEF TypeOK, Rows
  <2>3. [kind |-> "edited", chain |-> chainOf[r.tx]]
           \in [kind : {"edited", "deleted"}, chain : Chains]
    BY DEF TypeOK, Rows
  <2> QED
    BY <1>1, <2>2, <2>3 DEF EditRow, TypeOK, txVars
<1>2. ASSUME NEW r \in rows, DeleteRow(r) PROVE TypeOK'
  <2>1. [kind |-> "deleted", chain |-> chainOf[r.tx]]
           \in [kind : {"edited", "deleted"}, chain : Chains]
    BY DEF TypeOK, Rows
  <2> QED
    BY <1>2, <2>1 DEF DeleteRow, TypeOK, txVars
<1> QED
  BY <1>1, <1>2 DEF OutOfBand

\* verifyChain leaves a well-typed selection or verdict.
LEMMA VerifierType ==
  ASSUME TypeOK, VerifierNext PROVE TypeOK'
<1>1. ASSUME NEW c \in Chains, NEW from \in Ulids \cup {0}, NEW to \in Ulids \cup {0},
             VerifySelect(c, from, to)
      PROVE  TypeOK'
  <2> DEFINE picked == {r \in Committed(c) : r.ulid >= from /\ (to = 0 \/ r.ulid <= to)}
  <2>1. picked \in SUBSET Rows
    BY DEF Committed, TypeOK
  <2>2. verifier' = [phase |-> "selected", chain |-> c, picked |-> picked,
                     needsAnchor |-> from # 0 /\ picked # {}]
    BY <1>1 DEF VerifySelect
  <2> HIDE DEF picked
  <2>3. verifier' \in [phase : {"selected"}, chain : Chains, picked : SUBSET Rows,
                       needsAnchor : BOOLEAN]
    BY <2>1, <2>2
  <2> QED
    BY <1>1, <2>3 DEF VerifySelect, TypeOK, txVars, tableVars
<1>2. ASSUME VerifyWalk PROVE TypeOK'
  <2>1. PICK a : verifier' = Verdict(verifier.chain, verifier.picked, a)
    BY <1>2 DEF VerifyWalk
  <2>2. verifier.chain \in Chains /\ verifier.picked \subseteq Rows
    BY <1>2 DEF VerifyWalk, TypeOK, Idle
  <2>3. verifier' \in [phase : {"done"}, chain : Chains, brokenAt : SUBSET Rows]
    BY <2>1, <2>2 DEF Verdict
  <2> QED
    BY <1>2, <2>3 DEF VerifyWalk, TypeOK, txVars, tableVars
<1> QED
  BY <1>1, <1>2 DEF VerifierNext

\* Every step keeps the types.
LEMMA TypeStep == TypeOK /\ [Next]_vars => TypeOK'
<1> SUFFICES ASSUME TypeOK, [Next]_vars PROVE TypeOK'
  OBVIOUS
<1>1. ASSUME NEW t \in Txs, Begin(t) PROVE TypeOK'
  <2>1. overlap' \subseteq SUBSET Txs
    BY <1>1 DEF Begin, TypeOK, Open
  <2>2. status' \in [Txs -> {"idle", "open", "committed", "aborted"}]
    BY <1>1 DEF Begin, TypeOK
  <2> QED
    BY <1>1, <2>1, <2>2 DEF Begin, tableVars, TypeOK
<1>2. ASSUME NEW t \in Txs, Commit(t) PROVE TypeOK'
  BY <1>2 DEF Commit, tableVars, TypeOK
<1>3. ASSUME NEW t \in Txs, Abort(t) PROVE TypeOK'
  BY <1>3 DEF Abort, TypeOK
<1>4. CASE UNCHANGED vars
  BY <1>4 DEF vars, TypeOK
<1> QED
  BY <1>1, <1>2, <1>3, <1>4, ReadHeadType, InsertRowType, OutOfBandType, VerifierType
  DEF Next, TxNext

\* Every variable of the audit log keeps its type: ids are positive, digests
\* are sequences of canonical rows, whatever interleaves.
THEOREM TypeCorrect == Spec => []TypeOK
<1> QED
  BY InitType, TypeStep, PTL DEF Spec
-----------------------------------------------------------------------------
\* An empty table satisfies the rest of the inductive invariant.
LEMMA InitIInv == Init => RowsInv /\ OverlapInv /\ OperatorInv /\ LinkInv
<1>1. Init => RowsInv /\ OverlapInv /\ LinkInv
  BY DEF Init, RowsInv, OverlapInv, LinkInv, Linked, RowsOf, NoCall, Started
<1>2. Init => OperatorInv
  BY DEF Init, OperatorInv, Started
<1> QED
  BY <1>1, <1>2

\* The row recordEvent inserts, and what an edit keeps of a row.
LEMMA InsertedRow ==
  ASSUME NEW t \in Txs, InsertRow(t)
  PROVE  \E new : /\ rows' = rows \cup {new}
                  /\ new.id = nextId /\ new.tx = t /\ new.prev = call[t].prev
                  /\ new.ulid = call[t].ulid /\ new.body = "recorded"
                  /\ new.given \in {"recorded", "undefined"} /\ Given(new)
<1>1. PICK given \in Contents(t) :
        rows' = rows \cup
          {[id    |-> nextId,
            tx    |-> t,
            ulid  |-> call[t].ulid,
            given |-> given,
            body  |-> Stored(given),
            prev  |-> call[t].prev,
            hash  |-> Hash(call[t].prev, call[t].ulid, given)]}
  BY DEF InsertRow
<1>2. given \in {"recorded", "undefined"} /\ Stored(given) = "recorded"
  BY ContentsType
<1> DEFINE new == [id    |-> nextId,
                   tx    |-> t,
                   ulid  |-> call[t].ulid,
                   given |-> given,
                   body  |-> Stored(given),
                   prev  |-> call[t].prev,
                   hash  |-> Hash(call[t].prev, call[t].ulid, given)]
<1>3. rows' = rows \cup {new}
  BY <1>1
<1>4. /\ new.id = nextId /\ new.tx = t /\ new.prev = call[t].prev
      /\ new.ulid = call[t].ulid /\ new.body = "recorded"
      /\ new.given \in {"recorded", "undefined"} /\ Given(new)
  BY <1>2 DEF Given
<1> HIDE DEF new
<1> QED
  BY <1>3, <1>4

\* An edited row keeps its id, its transaction, its ulid and its digest.
LEMMA EditedRow ==
  ASSUME TypeOK, NEW r \in rows, NEW p, EditRow(r, p)
  PROVE  \E new : /\ rows' = (rows \ {r}) \cup {new}
                  /\ new.id = r.id /\ new.tx = r.tx
                  /\ new.ulid = r.ulid /\ new.hash = r.hash /\ new.body = "edited"
                  /\ new.given = r.given
<1> DEFINE new == [r EXCEPT !.body = "edited", !.prev = p]
<1>1. rows' = (rows \ {r}) \cup {new}
  BY DEF EditRow
<1>2. r \in Rows
  BY DEF TypeOK
<1>3. /\ new.id = r.id /\ new.tx = r.tx
      /\ new.ulid = r.ulid /\ new.hash = r.hash /\ new.body = "edited"
      /\ new.given = r.given
  BY <1>2 DEF Rows
<1> HIDE DEF new
<1> QED
  BY <1>1, <1>3

\* Ids stay fresh and rows stay those of open or committed transactions.
LEMMA RowsInvStep == TypeOK /\ RowsInv /\ [Next]_vars => RowsInv'
<1> SUFFICES ASSUME TypeOK, RowsInv, [Next]_vars PROVE RowsInv'
  OBVIOUS
<1> USE DEF RowsInv, Started
<1>1. ASSUME NEW t \in Txs, Begin(t) PROVE RowsInv'
  BY <1>1 DEF Begin, tableVars, TypeOK, Rows
<1>2. ASSUME NEW t \in Txs, ReadHead(t) PROVE RowsInv'
  BY <1>2 DEF ReadHead, TypeOK
<1>3. ASSUME NEW t \in Txs, InsertRow(t) PROVE RowsInv'
  <2>1. PICK new : /\ rows' = rows \cup {new}
                   /\ new.id = nextId /\ new.tx = t
    BY <1>3, InsertedRow
  <2>2. /\ nextId' = nextId + 1 /\ UNCHANGED status
        /\ call' = [call EXCEPT ![t] = NoCall]
    BY <1>3 DEF InsertRow
  <2>3. \A r \in rows : r.id \in Nat
    BY DEF TypeOK, Rows
  <2> QED
    BY <1>3, <2>1, <2>2, <2>3 DEF InsertRow, TypeOK, NoCall
<1>4. ASSUME NEW t \in Txs, Commit(t) PROVE RowsInv'
  BY <1>4 DEF Commit, tableVars, TypeOK, Rows
<1>5. ASSUME NEW t \in Txs, Abort(t) PROVE RowsInv'
  BY <1>5 DEF Abort, NoCall, RowsOf, TypeOK, Rows
<1>6. ASSUME VerifierNext PROVE RowsInv'
  BY <1>6 DEF VerifierNext, VerifySelect, VerifyWalk, txVars, tableVars
<1>7. ASSUME NEW r \in rows, NEW p, EditRow(r, p) PROVE RowsInv'
  <2>1. PICK new : /\ rows' = (rows \ {r}) \cup {new}
                   /\ new.id = r.id /\ new.tx = r.tx
    BY <1>7, EditedRow
  <2> QED
    BY <1>7, <2>1 DEF EditRow, txVars
<1>8. ASSUME NEW r \in rows, DeleteRow(r) PROVE RowsInv'
  BY <1>8 DEF DeleteRow, txVars
<1>9. CASE UNCHANGED vars
  BY <1>9 DEF vars
<1> QED
  BY <1>1, <1>2, <1>3, <1>4, <1>5, <1>6, <1>7, <1>8, <1>9 DEF Next, TxNext, OutOfBand

\* A row committed before a transaction began is older than the rows of that transaction.
LEMMA OverlapInvStep ==
  TypeOK /\ RowsInv /\ OverlapInv /\ [Next]_vars => OverlapInv'
<1> SUFFICES ASSUME TypeOK, RowsInv, OverlapInv, [Next]_vars PROVE OverlapInv'
  OBVIOUS
<1> USE DEF RowsInv, OverlapInv, Started
<1>1. ASSUME NEW t \in Txs, Begin(t) PROVE OverlapInv'
  <2>1. \A r \in rows : r.tx # t
    BY <1>1 DEF Begin, TypeOK, Rows
  <2>2. \A u \in Txs : u # t => status'[u] = status[u]
    BY <1>1 DEF Begin, TypeOK
  <2>3. status'[t] = "open" /\ overlap' = overlap \cup {{t, u} : u \in Open}
    BY <1>1 DEF Begin, TypeOK
  <2>4. \A u \in Open : u \in Txs /\ status[u] = "open" /\ u # t
    BY <1>1 DEF Begin, Open
  <2>5. ASSUME NEW u \in Txs, NEW v \in Txs, {u, v} \in overlap', u # v
        PROVE  status'[u] # "idle"
    <3>1. CASE {u, v} \in overlap
      BY <2>5, <3>1, <2>2, <2>3
    <3>2. CASE \E w \in Open : {u, v} = {t, w}
      BY <2>5, <3>2, <2>2, <2>3, <2>4
    <3> QED
      BY <2>5, <3>1, <3>2, <2>3
  <2>6. ASSUME NEW u \in Txs, NEW v \in Txs, u # v,
               status'[u] = "open", status'[v] = "open"
        PROVE  {u, v} \in overlap'
    <3>1. CASE u = t
      BY <2>6, <3>1, <2>2, <2>3 DEF Open
    <3>2. CASE v = t
      <4>1. {u, v} = {t, u} /\ u \in Open
        BY <2>6, <3>2, <2>2 DEF Open
      <4> QED
        BY <4>1, <2>3
    <3>3. CASE u # t /\ v # t
      BY <2>6, <3>3, <2>2, <2>3
    <3> QED
      BY <3>1, <3>2, <3>3
  <2> QED
    <3>1. rows' = rows /\ (\A r \in rows : r.tx \in Txs)
      BY <1>1 DEF Begin, tableVars, TypeOK, Rows
    <3>2. ASSUME NEW r \in rows, NEW s \in rows,
                 r.tx # s.tx, {r.tx, s.tx} \notin overlap',
                 status'[r.tx] = "committed", status'[s.tx] = "open"
          PROVE  r.id < s.id
      BY <3>1, <3>2, <2>1, <2>2, <2>3
    <3> QED
      BY <2>5, <2>6, <3>1, <3>2
<1>2. ASSUME NEW t \in Txs, ReadHead(t) PROVE OverlapInv'
  BY <1>2 DEF ReadHead
<1>3. ASSUME NEW t \in Txs, InsertRow(t) PROVE OverlapInv'
  <2>1. PICK new : /\ rows' = rows \cup {new}
                   /\ new.id = nextId /\ new.tx = t
    BY <1>3, InsertedRow
  <2>2. status[t] = "open" /\ UNCHANGED <<status, overlap>>
    BY <1>3 DEF InsertRow
  <2> QED
    BY <2>1, <2>2
<1>4. ASSUME NEW t \in Txs, Commit(t) PROVE OverlapInv'
  BY <1>4 DEF Commit, tableVars, TypeOK, Rows
<1>5. ASSUME NEW t \in Txs, Abort(t) PROVE OverlapInv'
  BY <1>5 DEF Abort, RowsOf, TypeOK, Rows
<1>6. ASSUME VerifierNext PROVE OverlapInv'
  BY <1>6 DEF VerifierNext, VerifySelect, VerifyWalk, txVars, tableVars
<1>7. ASSUME NEW r \in rows, NEW p, EditRow(r, p) PROVE OverlapInv'
  <2>1. PICK new : /\ rows' = (rows \ {r}) \cup {new}
                   /\ new.id = r.id /\ new.tx = r.tx
    BY <1>7, EditedRow
  <2> QED
    BY <1>7, <2>1 DEF EditRow, txVars
<1>8. ASSUME NEW r \in rows, DeleteRow(r) PROVE OverlapInv'
  BY <1>8 DEF DeleteRow, txVars
<1>9. CASE UNCHANGED vars
  BY <1>9 DEF vars
<1> QED
  BY <1>1, <1>2, <1>3, <1>4, <1>5, <1>6, <1>7, <1>8, <1>9 DEF Next, TxNext, OutOfBand
-----------------------------------------------------------------------------
\* An onboarded chain has the operator's row before any other transaction begins.
LEMMA OperatorInvStep ==
  TypeOK /\ OperatorInv /\ [Next]_vars => OperatorInv'
<1> SUFFICES ASSUME TypeOK, OperatorInv, [Next]_vars PROVE OperatorInv'
  OBVIOUS
<1> USE DEF OperatorInv, Started
<1>1. ASSUME NEW a \in Txs, Begin(a) PROVE OperatorInv'
  BY <1>1 DEF Begin, tableVars, TypeOK, RowsOf, Tampered
<1>2. ASSUME NEW a \in Txs, ReadHead(a) PROVE OperatorInv'
  BY <1>2 DEF ReadHead, TypeOK, RowsOf, Tampered
<1>3. ASSUME NEW a \in Txs, InsertRow(a) PROVE OperatorInv'
  <2>1. PICK new : rows' = rows \cup {new}
    BY <1>3, InsertedRow
  <2>2. UNCHANGED <<chainOf, operator, status, tampered>>
    BY <1>3 DEF InsertRow
  <2>3. \A u \in operator : RowsOf(u) \subseteq RowsOf(u)'
    BY <2>1 DEF RowsOf
  <2> QED
    BY <2>2, <2>3 DEF Tampered
<1>4. ASSUME NEW a \in Txs, Commit(a) PROVE OperatorInv'
  BY <1>4 DEF Commit, tableVars, TypeOK, RowsOf, Tampered
<1>5. ASSUME NEW a \in Txs, Abort(a) PROVE OperatorInv'
  <2>1. /\ status' = [status EXCEPT ![a] = "aborted"] /\ status[a] = "open"
        /\ UNCHANGED <<chainOf, operator, tampered>> /\ rows' = rows \ RowsOf(a)
    BY <1>5 DEF Abort
  <2>2. \A u \in operator \ {a} : RowsOf(u)' = RowsOf(u) /\ status'[u] = status[u]
    BY <2>1 DEF RowsOf, TypeOK
  <2> QED
    BY <2>1, <2>2 DEF Tampered, TypeOK
<1>6. ASSUME VerifierNext PROVE OperatorInv'
  BY <1>6 DEF VerifierNext, VerifySelect, VerifyWalk, txVars, tableVars, RowsOf, Tampered
<1>7. ASSUME NEW r \in rows, NEW p, EditRow(r, p) PROVE OperatorInv'
  <2>1. PICK new : rows' = (rows \ {r}) \cup {new} /\ new.id = r.id /\ new.tx = r.tx
    BY <1>7, EditedRow
  <2>2. txVars' = txVars /\ tampered \subseteq tampered'
    BY <1>7 DEF EditRow
  <2>3. \A u \in operator : RowsOf(u) # {} => RowsOf(u)' # {}
    BY <2>1 DEF RowsOf
  <2> QED
    BY <2>2, <2>3 DEF Tampered, txVars
<1>8. ASSUME NEW r \in rows, DeleteRow(r) PROVE OperatorInv'
  <2>1. /\ txVars' = txVars /\ rows' = rows \ {r}
        /\ tampered' = tampered \cup {[kind |-> "deleted", chain |-> chainOf[r.tx]]}
    BY <1>8 DEF DeleteRow
  <2>2. Tampered(chainOf[r.tx])'
    <3>1. [kind |-> "deleted", chain |-> chainOf[r.tx]].chain = chainOf[r.tx]
      OBVIOUS
    <3> QED
      BY <2>1, <3>1 DEF Tampered, txVars
  <2>3. ASSUME NEW u \in operator, ~Tampered(chainOf[u])', status[u] = "committed"
        PROVE  RowsOf(u)' # {}
    <3>1. r.tx # u
      BY <2>1, <2>2, <2>3 DEF txVars
    <3>2. ~Tampered(chainOf[u])
      BY <2>1, <2>3 DEF Tampered, txVars
    <3> QED
      BY <2>1, <2>3, <3>1, <3>2 DEF RowsOf
  <2> QED
    BY <2>1, <2>3 DEF txVars
<1>9. CASE UNCHANGED vars
  BY <1>9 DEF vars, RowsOf, Tampered
<1> QED
  BY <1>1, <1>2, <1>3, <1>4, <1>5, <1>6, <1>7, <1>8, <1>9 DEF Next, TxNext, OutOfBand
-----------------------------------------------------------------------------
\* The head a transaction reads is the same from the chain's own genesis: only
\* the first writer of an untouched chain finds it empty.
LEMMA HeadFromGenesis ==
  ASSUME TypeOK, OperatorInv, NEW t \in Txs, status[t] = "open",
         ~Tampered(chainOf[t]), NEW h, IsHead(h, Visible(t), Anchor(t))
  PROVE  IsHead(h, Visible(t), Genesis(chainOf[t]))
<1>1. CASE Anchor(t) = Genesis(chainOf[t])
  BY <1>1
<1>2. CASE t \notin operator /\ Onboarded(chainOf[t])
  <2>1. PICK u \in operator : chainOf[u] = chainOf[t]
    BY <1>2 DEF Onboarded
  <2>2. u \in Txs /\ u # t
    BY <1>2, <2>1 DEF TypeOK
  <2>3. status[u] = "committed" /\ RowsOf(u) # {}
    BY <2>1, <2>2 DEF OperatorInv, Started
  <2>4. Visible(t) # {}
    BY <2>1, <2>3 DEF Visible, Committed, RowsOf
  <2> QED
    BY <2>4 DEF IsHead
<1> QED
  BY <1>1, <1>2 DEF Anchor, Genesis, Onboarded

\* Linked(t) survives a step that leaves t's rows, and the rows before them
\* that t sees, as they are.
LEMMA LinkFrame ==
  ASSUME NEW t \in Txs, Linked(t), RowsOf(t)' = RowsOf(t),
         chainOf' = chainOf, operator' = operator,
         \A r \in RowsOf(t) : {s \in Visible(t) : s.id < r.id}'
                              = {s \in Visible(t) : s.id < r.id},
         call'[t].reading => call'[t] = call[t] /\ Visible(t)' = Visible(t)
  PROVE  Linked(t)'
<1> DEFINE Below(r) == {s \in Visible(t) : s.id < r.id}
<1>1. ASSUME NEW r \in RowsOf(t)'
      PROVE  /\ Given(r)
             /\ IsHead(r.prev, {s \in Visible(t)' : s.id < r.id}, Genesis(chainOf[t]))
  <2>1. /\ Given(r)
        /\ IsHead(r.prev, {s \in Visible(t) : s.id < r.id}, Genesis(chainOf[t]))
    BY <1>1 DEF Linked
  <2>2. {s \in Visible(t)' : s.id < r.id} = {s \in Visible(t) : s.id < r.id}
    BY <1>1
  <2> QED
    BY <2>1, <2>2
<1>2. ASSUME call'[t].reading PROVE IsHead(call'[t].prev, Visible(t)', Genesis(chainOf[t]))
  BY <1>2 DEF Linked
<1>3. Genesis(chainOf[t])' = Genesis(chainOf[t])
  BY DEF Genesis, Onboarded
<1> QED
  BY <1>1, <1>2, <1>3 DEF Linked

\* Every step keeps each row of an unovertaken transaction linked to all it could see.
LEMMA LinkInvStep == IInv /\ [Next]_vars => LinkInv'
<1> SUFFICES ASSUME IInv, [Next]_vars,
                    NEW t \in Txs, Started(t)', Clear(t)', ~Tampered(chainOf[t])'
             PROVE  Linked(t)'
  BY DEF LinkInv
<1>a. TypeOK /\ RowsInv /\ OverlapInv /\ OperatorInv /\ LinkInv
  BY DEF IInv
<1>b. \A r \in rows : r.id \in Nat /\ r.tx \in Txs
  BY <1>a DEF TypeOK, Rows
<1>1. ASSUME NEW a \in Txs, Begin(a) PROVE Linked(t)'
  <2>1. /\ rows' = rows /\ chainOf' = chainOf /\ operator' = operator
        /\ call' = call /\ tampered' = tampered
        /\ status' = [status EXCEPT ![a] = "open"] /\ status[a] = "idle"
        /\ overlap \subseteq overlap'
    BY <1>1 DEF Begin, tableVars
  <2>2. CASE t = a
    <3>1. RowsOf(a)' = {} /\ ~call'[a].reading
      BY <1>a, <2>1 DEF RowsOf, RowsInv, Started
    <3> QED
      BY <2>2, <3>1 DEF Linked
  <2>3. CASE t # a
    <3>1. Started(t) /\ Clear(t) /\ ~Tampered(chainOf[t])
      BY <1>a, <2>1, <2>3 DEF Started, Clear, Tampered, TypeOK
    <3>2. Linked(t) /\ RowsOf(t)' = RowsOf(t)
      BY <1>a, <2>1, <3>1 DEF LinkInv, RowsOf
    <3>3. Visible(t)' = Visible(t)
      BY <1>a, <1>b, <2>1 DEF Visible, Committed, RowsOf, TypeOK, RowsInv, Started
    <3> QED
      BY <2>1, <3>2, <3>3, LinkFrame
  <2> QED
    BY <2>2, <2>3
<1>2. ASSUME NEW a \in Txs, ReadHead(a) PROVE Linked(t)'
  <2>1. /\ rows' = rows /\ chainOf' = chainOf /\ operator' = operator /\ status' = status
        /\ tampered' = tampered /\ overlap' = overlap
    BY <1>2 DEF ReadHead
  <2>2. Linked(t) /\ RowsOf(t)' = RowsOf(t) /\ Visible(t)' = Visible(t)
    BY <1>a, <2>1 DEF LinkInv, RowsOf, Visible, Committed, Started, Clear, Tampered
  <2>3. CASE t = a
    <3>1. IsHead(call'[a].prev, Visible(a), Anchor(a)) /\ status[a] = "open"
      BY <1>2, <1>a DEF ReadHead, TypeOK
    <3>2. ~Tampered(chainOf[a])
      BY <2>1, <2>3 DEF Tampered
    <3>3. IsHead(call'[a].prev, Visible(a), Genesis(chainOf[a]))
      BY <1>a, <3>1, <3>2, HeadFromGenesis
    <3>4. Genesis(chainOf[a])' = Genesis(chainOf[a])
      BY <2>1 DEF Genesis, Onboarded
    <3> QED
      BY <2>1, <2>2, <2>3, <3>3, <3>4 DEF Linked
  <2>4. CASE t # a
    <3>1. call'[t] = call[t]
      BY <1>2, <1>a, <2>4 DEF ReadHead, TypeOK
    <3> QED
      BY <2>1, <2>2, <3>1, LinkFrame
  <2> QED
    BY <2>3, <2>4
<1>3. ASSUME NEW a \in Txs, InsertRow(a) PROVE Linked(t)'
  <2>1. /\ chainOf' = chainOf /\ operator' = operator /\ status' = status /\ status[a] = "open"
        /\ tampered' = tampered /\ overlap' = overlap
        /\ call[a].reading /\ call' = [call EXCEPT ![a] = NoCall]
    BY <1>3 DEF InsertRow
  <2>2. PICK new : /\ rows' = rows \cup {new}
                   /\ new.id = nextId /\ new.tx = a /\ new.prev = call[a].prev
                   /\ Given(new)
    BY <1>3, InsertedRow
  <2>3. Linked(t)
    BY <1>a, <2>1 DEF LinkInv, Started, Clear, Tampered
  <2>4. CASE t = a
    <3>1. Visible(a)' = Visible(a) \cup {new} /\ RowsOf(a)' = RowsOf(a) \cup {new}
      BY <1>a, <1>b, <2>1, <2>2 DEF Visible, Committed, RowsOf
    <3>2. \A s \in Visible(a) : s.id \in Nat /\ s.id < nextId
      BY <1>a, <1>b DEF Visible, Committed, RowsOf, RowsInv
    <3>3. nextId \in Nat
      BY <1>a DEF TypeOK
    <3>4. {s \in Visible(a)' : s.id < new.id} = Visible(a)
      BY <2>2, <3>1, <3>2, <3>3
    <3>5. \A r \in RowsOf(a) : {s \in Visible(a)' : s.id < r.id}
                               = {s \in Visible(a) : s.id < r.id}
      BY <2>2, <3>1, <3>2, <3>3 DEF Visible
    <3>6. IsHead(new.prev, Visible(a), Genesis(chainOf[a]))
      BY <2>1, <2>2, <2>3, <2>4 DEF Linked
    <3>7. ~call'[a].reading
      BY <1>a, <2>1 DEF TypeOK, NoCall
    <3>8. ASSUME NEW r \in RowsOf(a)'
          PROVE  /\ Given(r)
                 /\ IsHead(r.prev, {s \in Visible(a)' : s.id < r.id}, Genesis(chainOf[a]))
      <4>1. CASE r = new
        BY <2>2, <3>4, <3>6, <4>1
      <4>2. CASE r \in RowsOf(a)
        <5>1. /\ Given(r)
              /\ IsHead(r.prev, {s \in Visible(a) : s.id < r.id}, Genesis(chainOf[a]))
          BY <2>3, <2>4, <4>2 DEF Linked
        <5> QED
          BY <3>5, <4>2, <5>1
      <4> QED
        BY <3>1, <4>1, <4>2
    <3>9. Genesis(chainOf[a])' = Genesis(chainOf[a])
      BY <2>1 DEF Genesis, Onboarded
    <3> QED
      BY <2>4, <3>7, <3>8, <3>9 DEF Linked
  <2>5. CASE t # a
    <3>1. Visible(t)' = Visible(t) /\ RowsOf(t)' = RowsOf(t)
      BY <1>a, <1>b, <2>1, <2>2, <2>5 DEF Visible, Committed, RowsOf
    <3>2. call'[t] = call[t]
      BY <1>a, <2>1, <2>5 DEF TypeOK
    <3> QED
      BY <2>1, <2>3, <3>1, <3>2, LinkFrame
  <2> QED
    BY <2>4, <2>5
<1>4. ASSUME NEW a \in Txs, Commit(a) PROVE Linked(t)'
  <2>1. /\ rows' = rows /\ overlap' = overlap /\ chainOf' = chainOf /\ operator' = operator
        /\ call' = call /\ tampered' = tampered
        /\ status' = [status EXCEPT ![a] = "committed"] /\ status[a] = "open"
    BY <1>4 DEF Commit, tableVars
  <2>2. Started(t) /\ Clear(t) /\ ~Tampered(chainOf[t])
    BY <1>a, <2>1 DEF Started, Clear, Tampered, TypeOK
  <2>3. Linked(t) /\ RowsOf(t)' = RowsOf(t)
    BY <1>a, <2>1, <2>2 DEF LinkInv, RowsOf
  <2>4. CASE t = a \/ chainOf[a] # chainOf[t]
    <3>1. Visible(t)' = Visible(t)
      BY <1>a, <1>b, <2>1, <2>4 DEF Visible, Committed, RowsOf, TypeOK
    <3> QED
      BY <2>1, <2>3, <3>1, LinkFrame
  <2>5. CASE t # a /\ chainOf[a] = chainOf[t]
    <3>1. {t, a} \notin overlap
      BY <1>a, <2>1, <2>5 DEF Clear, TypeOK
    <3>2. status[t] = "committed" /\ ~call[t].reading
      BY <1>a, <2>1, <2>2, <2>5, <3>1 DEF Started, OverlapInv, RowsInv
    <3>3. \A r \in RowsOf(t) : \A s \in RowsOf(a) : r.id < s.id
      BY <1>a, <2>1, <2>5, <3>1, <3>2 DEF RowsOf, OverlapInv
    <3>4. Visible(t)' = Visible(t) \cup RowsOf(a)
      BY <1>a, <1>b, <2>1, <2>5 DEF Visible, Committed, RowsOf, TypeOK
    <3>5. \A r \in RowsOf(t) : {s \in Visible(t) : s.id < r.id}'
                               = {s \in Visible(t) : s.id < r.id}
      BY <1>b, <2>1, <3>3, <3>4 DEF RowsOf
    <3> QED
      BY <2>1, <2>3, <3>2, <3>5, LinkFrame
  <2> QED
    BY <2>4, <2>5
<1>5. ASSUME NEW a \in Txs, Abort(a) PROVE Linked(t)'
  <2>1. /\ rows' = rows \ RowsOf(a) /\ chainOf' = chainOf /\ operator' = operator
        /\ overlap' = overlap /\ tampered' = tampered
        /\ call' = [call EXCEPT ![a] = NoCall]
        /\ status' = [status EXCEPT ![a] = "aborted"] /\ status[a] = "open"
    BY <1>5 DEF Abort
  <2>2. t # a
    BY <1>a, <2>1 DEF Started, TypeOK
  <2>3. Started(t) /\ Clear(t) /\ ~Tampered(chainOf[t])
    BY <1>a, <2>1, <2>2 DEF Started, Clear, Tampered, TypeOK
  <2>4. Linked(t)
    BY <1>a, <2>3 DEF LinkInv
  <2>5. RowsOf(t)' = RowsOf(t) /\ Visible(t)' = Visible(t)
    BY <1>a, <1>b, <2>1, <2>2 DEF Visible, Committed, RowsOf, TypeOK
  <2>6. call'[t] = call[t]
    BY <1>a, <2>1, <2>2 DEF TypeOK
  <2> QED
    BY <2>1, <2>4, <2>5, <2>6, LinkFrame
<1>6. ASSUME txVars' = txVars, tableVars' = tableVars PROVE Linked(t)'
  <2>1. Linked(t) /\ RowsOf(t)' = RowsOf(t) /\ Visible(t)' = Visible(t) /\ call' = call
    BY <1>a, <1>6
    DEF LinkInv, RowsOf, Visible, Committed, Started, Clear, Tampered, txVars, tableVars
  <2> QED
    BY <1>6, <2>1, LinkFrame DEF txVars
<1>7. ASSUME NEW r \in rows, NEW p, EditRow(r, p) PROVE Linked(t)'
  <2>1. PICK new : /\ rows' = (rows \ {r}) \cup {new}
                   /\ new.id = r.id /\ new.tx = r.tx
    BY <1>7, <1>a, EditedRow
  <2>2. /\ txVars' = txVars
        /\ tampered' = tampered \cup {[kind |-> "edited", chain |-> chainOf[r.tx]]}
    BY <1>7 DEF EditRow
  <2>3. chainOf[r.tx] # chainOf[t] /\ ~Tampered(chainOf[t])
    <3>1. \A x \in tampered' : x.chain # chainOf[t]
      BY <2>2 DEF Tampered, txVars
    <3>2. [kind |-> "edited", chain |-> chainOf[r.tx]].chain # chainOf[t]
      BY <3>1, <2>2
    <3> QED
      BY <3>1, <3>2, <2>2 DEF Tampered
  <2>4. RowsOf(t)' = RowsOf(t) /\ Visible(t)' = Visible(t) /\ call' = call
    BY <1>a, <1>b, <2>1, <2>2, <2>3 DEF Visible, Committed, RowsOf, txVars
  <2>5. Linked(t)
    BY <1>a, <2>2, <2>3 DEF LinkInv, Started, Clear, txVars
  <2> QED
    BY <2>2, <2>4, <2>5, LinkFrame DEF txVars
<1>8. ASSUME NEW r \in rows, DeleteRow(r) PROVE Linked(t)'
  <2>1. /\ txVars' = txVars /\ rows' = rows \ {r}
        /\ tampered' = tampered \cup {[kind |-> "deleted", chain |-> chainOf[r.tx]]}
    BY <1>8 DEF DeleteRow
  <2>2. chainOf[r.tx] # chainOf[t] /\ ~Tampered(chainOf[t])
    <3>1. \A x \in tampered' : x.chain # chainOf[t]
      BY <2>1 DEF Tampered, txVars
    <3>2. [kind |-> "deleted", chain |-> chainOf[r.tx]].chain # chainOf[t]
      BY <3>1, <2>1
    <3> QED
      BY <3>1, <3>2, <2>1 DEF Tampered
  <2>3. RowsOf(t)' = RowsOf(t) /\ Visible(t)' = Visible(t) /\ call' = call
    BY <1>a, <1>b, <2>1, <2>2 DEF Visible, Committed, RowsOf, txVars
  <2>4. Linked(t)
    BY <1>a, <2>1, <2>2 DEF LinkInv, Started, Clear, txVars
  <2> QED
    BY <2>1, <2>3, <2>4, LinkFrame DEF txVars
<1>9. CASE VerifierNext \/ UNCHANGED vars
  BY <1>6, <1>9 DEF VerifierNext, VerifySelect, VerifyWalk, txVars, tableVars, vars
<1> QED
  BY <1>1, <1>2, <1>3, <1>4, <1>5, <1>7, <1>8, <1>9 DEF Next, TxNext, OutOfBand

\* The whole invariant is inductive.
LEMMA IInvInit == Init => IInv
BY InitIInv, InitType DEF IInv

\* Every step keeps the whole invariant.
LEMMA IInvStep == IInv /\ [Next]_vars => IInv'
BY TypeStep, RowsInvStep, OverlapInvStep, OperatorInvStep, LinkInvStep DEF IInv

\* The rows of an untouched chain without overlaps are those each of its
\* transactions could see: they link, and verify if the database kept them.
LEMMA SoundVerifies == IInv => VerifiesUnlessOverlapped
<1> SUFFICES ASSUME IInv, NEW c \in Chains, ~Tampered(c), ~Overlapped(c),
                    NEW r \in Committed(c)
             PROVE  /\ IsHead(r.prev, {s \in Committed(c) : s.id < r.id}, Genesis(c))
                    /\ RowVerifies(r, Committed(c), Genesis(c)) \/ r.given = "undefined"
  BY DEF VerifiesUnlessOverlapped
<1>1. r.tx \in Txs /\ status[r.tx] = "committed" /\ chainOf[r.tx] = c /\ r \in RowsOf(r.tx)
  BY DEF IInv, TypeOK, Rows, Committed, RowsOf
<1>2. Linked(r.tx)
  BY <1>1 DEF IInv, LinkInv, Started, Clear, Overlapped
<1>3. Visible(r.tx) = Committed(c)
  BY <1>1 DEF Visible, Committed, RowsOf
<1>4. Given(r) /\ IsHead(r.prev, {s \in Committed(c) : s.id < r.id}, Genesis(c))
  BY <1>1, <1>2, <1>3 DEF Linked
<1>5. r.given # "undefined" => r.hash = Hash(r.prev, r.ulid, r.body)
  BY <1>4 DEF Given, Stored
<1> QED
  BY <1>4, <1>5 DEF RowVerifies

\* Whatever the database interleaves: in an untouched chain whose committed
\* transactions never overlapped every row links, and every row verifies whose
\* contents the database keeps; a row that fails a replay from genesis therefore
\* means tampering, an overlap or an undefined key in it (VerifiesUnlessOverlapped).
THEOREM RowsVerifyUnlessOverlapped == Spec => []VerifiesUnlessOverlapped
BY IInvInit, IInvStep, SoundVerifies, PTL DEF Spec
-----------------------------------------------------------------------------
\* p is genesis or the hash of a row of S, for a transaction t.
Follows(t, p, S) == p = Genesis(chainOf[t]) \/ \E s \in S : p = s.hash

\* Untampered, what t has read or inserted follows a row that t can still see.
FollowInv == tampered = {} =>
  \A t \in Txs : Started(t) =>
    /\ \A r \in RowsOf(t) : Follows(t, r.prev, {s \in Visible(t) : s.id < r.id})
    /\ call[t].reading => Follows(t, call[t].prev, Visible(t))

\* Nothing a transaction sees is ever rolled back, so every step keeps the links.
LEMMA FollowInvStep ==
  TypeOK /\ RowsInv /\ OperatorInv /\ FollowInv /\ [Next]_vars => FollowInv'
<1> SUFFICES ASSUME TypeOK, RowsInv, OperatorInv, FollowInv, [Next]_vars,
                    tampered' = {}, NEW t \in Txs, Started(t)'
             PROVE  /\ \A r \in RowsOf(t)' :
                         Follows(t, r.prev, {s \in Visible(t) : s.id < r.id})'
                    /\ call'[t].reading => Follows(t, call[t].prev, Visible(t))'
  BY DEF FollowInv
<1> DEFINE Goal == /\ \A r \in RowsOf(t)' :
                        Follows(t, r.prev, {s \in Visible(t) : s.id < r.id})'
                   /\ call'[t].reading => Follows(t, call[t].prev, Visible(t))'
<1>a. \A r \in rows : r.id \in Nat /\ r.tx \in Txs
  BY DEF TypeOK, Rows
\* A step that adds nothing to t, and takes nothing from what t sees.
<1>b. ASSUME Started(t), tampered = {}, chainOf' = chainOf, operator' = operator,
             RowsOf(t)' = RowsOf(t), Visible(t) \subseteq Visible(t)',
             call'[t].reading => call'[t] = call[t]
      PROVE  Goal
  <2>1. Genesis(chainOf[t])' = Genesis(chainOf[t])
    BY <1>b DEF Genesis, Onboarded
  <2>2. ASSUME NEW r \in RowsOf(t)
        PROVE  Follows(t, r.prev, {s \in Visible(t) : s.id < r.id})'
    <3>1. Follows(t, r.prev, {s \in Visible(t) : s.id < r.id})
      BY <1>b, <2>2 DEF FollowInv
    <3> QED
      BY <1>b, <2>1, <3>1 DEF Follows
  <2>3. ASSUME call'[t].reading PROVE Follows(t, call[t].prev, Visible(t))'
    <3>1. Follows(t, call[t].prev, Visible(t))
      BY <1>b, <2>3 DEF FollowInv
    <3> QED
      BY <1>b, <2>1, <2>3, <3>1 DEF Follows
  <2> QED
    BY <1>b, <2>2, <2>3
<1>1. ASSUME NEW a \in Txs, Begin(a) PROVE Goal
  <2>1. /\ rows' = rows /\ chainOf' = chainOf /\ operator' = operator
        /\ call' = call /\ tampered' = tampered
        /\ status' = [status EXCEPT ![a] = "open"] /\ status[a] = "idle"
    BY <1>1 DEF Begin, tableVars
  <2>2. CASE t = a
    <3>1. RowsOf(a)' = {} /\ ~call'[a].reading
      BY <2>1 DEF RowsOf, RowsInv, Started
    <3> QED
      BY <2>2, <3>1
  <2>3. CASE t # a
    <3>1. Started(t)
      BY <2>1, <2>3 DEF Started, TypeOK
    <3>2. RowsOf(t)' = RowsOf(t) /\ Visible(t) \subseteq Visible(t)'
      BY <1>a, <2>1 DEF RowsOf, Visible, Committed, TypeOK
    <3> QED
      BY <1>b, <2>1, <3>1, <3>2
  <2> QED
    BY <2>2, <2>3
<1>2. ASSUME NEW a \in Txs, ReadHead(a) PROVE Goal
  <2>1. /\ rows' = rows /\ chainOf' = chainOf /\ operator' = operator
        /\ status' = status /\ tampered' = tampered
    BY <1>2 DEF ReadHead
  <2>2. /\ Started(t) /\ RowsOf(t)' = RowsOf(t) /\ Visible(t)' = Visible(t)
        /\ Genesis(chainOf[t])' = Genesis(chainOf[t])
    BY <2>1 DEF Started, RowsOf, Visible, Committed, Genesis, Onboarded
  <2>3. CASE t = a
    <3>1. IsHead(call'[a].prev, Visible(a), Anchor(a)) /\ status[a] = "open"
      BY <1>2 DEF ReadHead, TypeOK
    <3>2. IsHead(call'[a].prev, Visible(a), Genesis(chainOf[a]))
      BY <2>1, <3>1, HeadFromGenesis DEF Tampered
    <3>3. Follows(t, call[t].prev, Visible(t))'
      BY <2>2, <2>3, <3>2 DEF IsHead, Follows
    <3>4. ASSUME NEW r \in RowsOf(t)
          PROVE  Follows(t, r.prev, {s \in Visible(t) : s.id < r.id})'
      <4>1. Follows(t, r.prev, {s \in Visible(t) : s.id < r.id})
        BY <2>1, <2>2, <3>4 DEF FollowInv
      <4> QED
        BY <2>2, <4>1 DEF Follows
    <3> QED
      BY <2>2, <3>3, <3>4
  <2>4. CASE t # a
    <3>1. call'[t] = call[t]
      BY <1>2, <2>4 DEF ReadHead, TypeOK
    <3> QED
      BY <1>b, <2>1, <2>2, <3>1
  <2> QED
    BY <2>3, <2>4
<1>3. ASSUME NEW a \in Txs, InsertRow(a) PROVE Goal
  <2>1. /\ chainOf' = chainOf /\ operator' = operator
        /\ status' = status /\ status[a] = "open" /\ tampered' = tampered
        /\ call[a].reading /\ call' = [call EXCEPT ![a] = NoCall]
    BY <1>3 DEF InsertRow
  <2>2. PICK new : /\ rows' = rows \cup {new}
                   /\ new.id = nextId /\ new.tx = a /\ new.prev = call[a].prev
    BY <1>3, InsertedRow
  <2>3. Started(t) /\ Visible(t) \subseteq Visible(t)'
    BY <2>1, <2>2 DEF Started, Visible, Committed, RowsOf
  <2>4. CASE t = a
    <3>1. RowsOf(a)' = RowsOf(a) \cup {new} /\ ~call'[a].reading
      BY <2>1, <2>2 DEF RowsOf, TypeOK, NoCall
    <3>2. Genesis(chainOf[a])' = Genesis(chainOf[a])
      BY <2>1 DEF Genesis, Onboarded
    <3>3. \A s \in Visible(a) : s.id < new.id
      BY <2>2 DEF Visible, Committed, RowsOf, RowsInv
    <3>4. Follows(a, new.prev, Visible(a))
      BY <2>1, <2>2, <2>3, <2>4 DEF FollowInv
    <3>5. Follows(a, new.prev, {s \in Visible(a) : s.id < new.id})'
      BY <2>3, <2>4, <3>2, <3>3, <3>4 DEF Follows
    <3>6. ASSUME NEW r \in RowsOf(a)
          PROVE  Follows(a, r.prev, {s \in Visible(a) : s.id < r.id})'
      <4>1. Follows(a, r.prev, {s \in Visible(a) : s.id < r.id})
        BY <2>1, <2>3, <2>4, <3>6 DEF FollowInv
      <4> QED
        BY <2>3, <2>4, <3>2, <4>1 DEF Follows
    <3> QED
      BY <2>4, <3>1, <3>5, <3>6
  <2>5. CASE t # a
    <3>1. RowsOf(t)' = RowsOf(t) /\ call'[t] = call[t]
      BY <2>1, <2>2, <2>5 DEF RowsOf, TypeOK
    <3> QED
      BY <1>b, <2>1, <2>3, <3>1
  <2> QED
    BY <2>4, <2>5
<1>4. ASSUME NEW a \in Txs, Commit(a) PROVE Goal
  <2>1. /\ rows' = rows /\ chainOf' = chainOf /\ operator' = operator
        /\ call' = call /\ tampered' = tampered
        /\ status' = [status EXCEPT ![a] = "committed"] /\ status[a] = "open"
    BY <1>4 DEF Commit, tableVars
  <2>2. Started(t) /\ RowsOf(t)' = RowsOf(t)
    BY <2>1 DEF Started, RowsOf, TypeOK
  <2>3. Visible(t) \subseteq Visible(t)'
    BY <1>a, <2>1 DEF Visible, Committed, RowsOf, TypeOK
  <2> QED
    BY <1>b, <2>1, <2>2, <2>3
<1>5. ASSUME NEW a \in Txs, Abort(a) PROVE Goal
  <2>1. /\ rows' = rows \ RowsOf(a) /\ chainOf' = chainOf /\ operator' = operator
        /\ tampered' = tampered /\ call' = [call EXCEPT ![a] = NoCall]
        /\ status' = [status EXCEPT ![a] = "aborted"] /\ status[a] = "open"
    BY <1>5 DEF Abort
  <2>2. t # a
    BY <2>1 DEF Started, TypeOK
  <2>3. Started(t) /\ RowsOf(t)' = RowsOf(t) /\ call'[t] = call[t]
    BY <1>a, <2>1, <2>2 DEF Started, RowsOf, TypeOK
  <2>4. Visible(t) \subseteq Visible(t)'
    BY <1>a, <2>1, <2>2 DEF Visible, Committed, RowsOf, TypeOK
  <2> QED
    BY <1>b, <2>1, <2>3, <2>4
<1>6. CASE VerifierNext \/ UNCHANGED vars
  <2>1. txVars' = txVars /\ tableVars' = tableVars
    BY <1>6 DEF VerifierNext, VerifySelect, VerifyWalk, txVars, tableVars, vars
  <2>2. /\ Started(t) /\ RowsOf(t)' = RowsOf(t) /\ call' = call
        /\ Visible(t) \subseteq Visible(t)'
    BY <2>1 DEF Started, RowsOf, Visible, Committed, txVars, tableVars
  <2> QED
    BY <1>b, <2>1, <2>2 DEF txVars, tableVars
<1>7. CASE OutOfBand
  <2>1. tampered' # {}
    BY <1>7 DEF OutOfBand, EditRow, DeleteRow
  <2> QED
    BY <2>1
<1> QED
  BY <1>1, <1>2, <1>3, <1>4, <1>5, <1>6, <1>7 DEF Next, TxNext

\* For any number of transactions and chains a committed row of an untouched
\* table points at genesis or at an older committed row of its own chain.
THEOREM LinksNeverDangle == Spec => []NoDanglingLink
<1> DEFINE Inv == TypeOK /\ RowsInv /\ OperatorInv /\ FollowInv
<1>1. Init => Inv
  BY InitType, InitIInv DEF Init, FollowInv, Started
<1>2. Inv /\ [Next]_vars => Inv'
  BY TypeStep, RowsInvStep, OperatorInvStep, FollowInvStep
<1>3. Inv => NoDanglingLink
  <2> SUFFICES ASSUME Inv, tampered = {}, NEW c \in Chains, NEW r \in Committed(c)
               PROVE  r.prev = Genesis(c)
                        \/ \E s \in Committed(c) : s.id < r.id /\ r.prev = s.hash
    BY DEF NoDanglingLink
  <2>1. r.tx \in Txs /\ status[r.tx] = "committed" /\ chainOf[r.tx] = c /\ r \in RowsOf(r.tx)
    BY DEF TypeOK, Rows, Committed, RowsOf
  <2>2. Follows(r.tx, r.prev, {s \in Visible(r.tx) : s.id < r.id})
    BY <2>1 DEF FollowInv, Started
  <2>3. Visible(r.tx) = Committed(c)
    BY <2>1 DEF Visible, Committed, RowsOf
  <2> QED
    BY <2>1, <2>2, <2>3 DEF Follows
<1> QED
  BY <1>1, <1>2, <1>3, PTL DEF Spec
-----------------------------------------------------------------------------
\* The committed rows of c after a step: as before, or with the rows of the one
\* transaction that commits, all newer, unless c is tampered with or overlapped.
Grown(c, before, after) ==
  \/ after = before
  \/ \E t \in Txs :
       /\ after = before \cup RowsOf(t)
       /\ chainOf[t] = c /\ status[t] = "open" /\ RowsOf(t) # {}
       /\ \A r \in before : \A s \in RowsOf(t) : r.id < s.id

\* Two transactions that overlapped on c have done so for good.
LEMMA OverlapStays ==
  ASSUME TypeOK, [Next]_vars, NEW c \in Chains, Overlapped(c)
  PROVE  Overlapped(c)'
<1>1. PICK t \in Txs, u \in Txs : /\ t # u /\ {t, u} \in overlap
                                  /\ chainOf[t] = c /\ chainOf[u] = c
                                  /\ status[t] = "committed" /\ status[u] = "committed"
  BY DEF Overlapped
<1>2. chainOf' = chainOf /\ overlap \subseteq overlap'
  BY DEF Next, TxNext, VerifierNext, OutOfBand, vars, txVars, tableVars, Begin, ReadHead,
         InsertRow, Commit, Abort, VerifySelect, VerifyWalk, EditRow, DeleteRow
<1>3. status'[t] = "committed" /\ status'[u] = "committed"
  BY <1>1 DEF TypeOK, Next, TxNext, VerifierNext, OutOfBand, vars, txVars, tableVars, Begin,
         ReadHead, InsertRow, Commit, Abort, VerifySelect, VerifyWalk, EditRow, DeleteRow
<1> QED
  BY <1>1, <1>2, <1>3 DEF Overlapped

\* The changes made by hand stay on record.
LEMMA TamperStays ==
  ASSUME [Next]_vars PROVE tampered \subseteq tampered'
BY DEF Next, TxNext, VerifierNext, OutOfBand, vars, txVars, tableVars, Begin, ReadHead,
       InsertRow, Commit, Abort, VerifySelect, VerifyWalk, EditRow, DeleteRow

\* No step changes the chain of a transaction or who the operator's are.
LEMMA ActorsStay ==
  ASSUME [Next]_vars PROVE chainOf' = chainOf /\ operator' = operator
BY DEF Next, TxNext, VerifierNext, OutOfBand, vars, txVars, tableVars, Begin, ReadHead,
       InsertRow, Commit, Abort, VerifySelect, VerifyWalk, EditRow, DeleteRow

\* Only a commit on c adds rows to it; what is committed stays.
LEMMA CommitAdds ==
  ASSUME TypeOK, RowsInv, [Next]_vars, ~OutOfBand, NEW c \in Chains
  PROVE  \/ Committed(c)' = Committed(c)
         \/ \E t \in Txs : /\ Commit(t) /\ chainOf[t] = c
                           /\ Committed(c)' = Committed(c) \cup RowsOf(t)
<1>a. \A r \in rows : r.id \in Nat /\ r.tx \in Txs /\ Started(r.tx)
  BY DEF TypeOK, Rows, RowsInv
<1>1. ASSUME NEW a \in Txs, Begin(a) PROVE Committed(c)' = Committed(c)
  <2>1. /\ rows' = rows /\ chainOf' = chainOf
        /\ status' = [status EXCEPT ![a] = "open"] /\ status[a] = "idle"
    BY <1>1 DEF Begin, tableVars
  <2> QED
    BY <1>a, <2>1 DEF Committed, TypeOK
<1>2. ASSUME NEW a \in Txs, ReadHead(a) PROVE Committed(c)' = Committed(c)
  BY <1>2 DEF ReadHead, Committed
<1>3. ASSUME NEW a \in Txs, InsertRow(a) PROVE Committed(c)' = Committed(c)
  <2>1. PICK new : rows' = rows \cup {new} /\ new.tx = a
    BY <1>3, InsertedRow
  <2>2. chainOf' = chainOf /\ status' = status /\ status[a] = "open"
    BY <1>3 DEF InsertRow
  <2> QED
    BY <2>1, <2>2 DEF Committed
<1>4. ASSUME NEW a \in Txs, Commit(a)
      PROVE  \/ Committed(c)' = Committed(c)
             \/ chainOf[a] = c /\ Committed(c)' = Committed(c) \cup RowsOf(a)
  <2>1. /\ rows' = rows /\ chainOf' = chainOf
        /\ status' = [status EXCEPT ![a] = "committed"] /\ status[a] = "open"
    BY <1>4 DEF Commit, tableVars
  <2>2. CASE chainOf[a] # c
    BY <1>a, <2>1, <2>2 DEF Committed, TypeOK
  <2>3. CASE chainOf[a] = c
    BY <1>a, <2>1, <2>3 DEF Committed, RowsOf, TypeOK
  <2> QED
    BY <2>2, <2>3
<1>5. ASSUME NEW a \in Txs, Abort(a) PROVE Committed(c)' = Committed(c)
  <2>1. /\ rows' = rows \ RowsOf(a) /\ chainOf' = chainOf
        /\ status' = [status EXCEPT ![a] = "aborted"] /\ status[a] = "open"
    BY <1>5 DEF Abort
  <2> QED
    BY <1>a, <2>1 DEF Committed, RowsOf, TypeOK
<1>6. CASE VerifierNext \/ UNCHANGED vars
  <2>1. rows' = rows /\ chainOf' = chainOf /\ status' = status
    BY <1>6 DEF VerifierNext, VerifySelect, VerifyWalk, txVars, tableVars, vars
  <2> QED
    BY <2>1 DEF Committed
<1> QED
  BY <1>1, <1>2, <1>3, <1>4, <1>5, <1>6 DEF Next, TxNext

\* As long as nothing overlapped, a commit adds rows that are newer than all others.
LEMMA CommitNewer ==
  ASSUME TypeOK, OverlapInv, NEW t \in Txs, Commit(t), NEW c \in Chains, chainOf[t] = c,
         ~Overlapped(c)'
  PROVE  \A r \in Committed(c) : \A s \in RowsOf(t) : r.id < s.id
<1>1. /\ overlap' = overlap /\ chainOf' = chainOf
      /\ status' = [status EXCEPT ![t] = "committed"] /\ status[t] = "open"
  BY DEF Commit, tableVars
<1>2. ASSUME NEW r \in Committed(c), NEW s \in RowsOf(t) PROVE r.id < s.id
  <2>1. /\ r \in rows /\ r.tx \in Txs /\ status[r.tx] = "committed" /\ chainOf[r.tx] = c
        /\ s \in rows /\ s.tx = t /\ r.tx # t
    BY <1>1 DEF Committed, RowsOf, TypeOK, Rows
  <2>2. status'[r.tx] = "committed" /\ status'[t] = "committed"
    BY <1>1, <2>1 DEF TypeOK
  <2>3. {r.tx, t} \notin overlap
    BY <1>1, <2>1, <2>2 DEF Overlapped
  <2> QED
    BY <1>1, <2>1, <2>3 DEF OverlapInv
<1> QED
  BY <1>2

\* So a chain grows at its end, by the rows of one transaction.
LEMMA CommittedGrows ==
  ASSUME TypeOK, RowsInv, OverlapInv, [Next]_vars, ~OutOfBand,
         NEW c \in Chains, ~Overlapped(c)'
  PROVE  Grown(c, Committed(c), Committed(c)')
<1>1. \A t \in Txs : Commit(t) => status[t] = "open" /\ RowsOf(t) # {}
  BY DEF Commit
<1> QED
  BY <1>1, CommitAdds, CommitNewer DEF Grown

\* A row edited by hand is replaced in its own chain.
LEMMA EditEffect ==
  ASSUME TypeOK, NEW r \in rows, NEW p, EditRow(r, p), NEW c \in Chains
  PROVE  \/ /\ c # chainOf[r.tx] /\ Committed(c)' = Committed(c)
            /\ \A x \in tampered' \ tampered : x.chain # c
         \/ /\ c = chainOf[r.tx] /\ Tampered(c)'
            /\ \E new \in Committed(c)' : new.body = "edited"
<1>1. PICK new : /\ rows' = (rows \ {r}) \cup {new}
                 /\ new.id = r.id /\ new.tx = r.tx /\ new.body = "edited"
  BY EditedRow
<1>2. txVars' = txVars /\ status[r.tx] = "committed"
  BY DEF EditRow
<1>3. \E x : tampered' = tampered \cup {x} /\ x.chain = chainOf[r.tx]
  <2>1. [kind |-> "edited", chain |-> chainOf[r.tx]].chain = chainOf[r.tx]
    OBVIOUS
  <2> QED
    BY <2>1 DEF EditRow
<1>4. CASE chainOf[r.tx] # c
  BY <1>1, <1>2, <1>3, <1>4 DEF Committed, txVars
<1>5. CASE chainOf[r.tx] = c
  <2>1. new \in Committed(c)'
    BY <1>1, <1>2, <1>5 DEF Committed, txVars
  <2>2. Tampered(c)'
    BY <1>3, <1>5 DEF Tampered
  <2> QED
    BY <1>1, <1>5, <2>1, <2>2
<1> QED
  BY <1>4, <1>5

\* A row deleted by hand is missing in its own chain.
LEMMA DeleteEffect ==
  ASSUME TypeOK, NEW r \in rows, DeleteRow(r), NEW c \in Chains
  PROVE  \/ /\ c # chainOf[r.tx] /\ Committed(c)' = Committed(c)
            /\ \A x \in tampered' \ tampered : x.chain # c
         \/ /\ c = chainOf[r.tx] /\ Tampered(c)' /\ Lost(c)'
            /\ r \in Committed(c) /\ Committed(c)' = Committed(c) \ {r}
            /\ \E s \in Committed(c) : s.id > r.id
<1>1. /\ txVars' = txVars /\ rows' = rows \ {r} /\ status[r.tx] = "committed"
      /\ \E s \in Committed(chainOf[r.tx]) : s.id > r.id
  BY DEF DeleteRow
<1>2. \E x : tampered' = tampered \cup {x} /\ x.chain = chainOf[r.tx] /\ x.kind = "deleted"
  <2>1. /\ [kind |-> "deleted", chain |-> chainOf[r.tx]].chain = chainOf[r.tx]
        /\ [kind |-> "deleted", chain |-> chainOf[r.tx]].kind = "deleted"
    OBVIOUS
  <2> QED
    BY <2>1 DEF DeleteRow
<1>3. CASE chainOf[r.tx] # c
  BY <1>1, <1>2, <1>3 DEF Committed, txVars
<1>4. CASE chainOf[r.tx] = c
  <2>1. Tampered(c)' /\ Lost(c)'
    BY <1>2, <1>4 DEF Tampered, Lost
  <2>2. r \in Committed(c) /\ Committed(c)' = Committed(c) \ {r}
    BY <1>1, <1>4 DEF Committed, txVars
  <2> QED
    BY <1>1, <1>4, <2>1, <2>2
<1> QED
  BY <1>3, <1>4

\* A change by hand tampers with one chain and leaves the others as they are.
LEMMA OutOfBandEffect ==
  ASSUME TypeOK, OutOfBand, NEW c \in Chains
  PROVE  Tampered(c)' \/ Committed(c)' = Committed(c)
BY EditEffect, DeleteEffect DEF OutOfBand
-----------------------------------------------------------------------------
\* What lets a bounded replay of c fail.
Excused(c) == Tampered(c) \/ Overlapped(c) \/ ~UlidsOrdered(c) \/ Onboarded(c)

\* S is a gapless piece of C; what precedes it, if anything, is there for the anchor.
Segment(S, C, needsAnchor) ==
  /\ S \subseteq C
  /\ \A s \in S, r \in C : r.id < s.id =>
       r \in S \/ (needsAnchor /\ \A q \in S : r.id < q.id)

\* A verification under way holds a segment of its chain, one that ended in an
\* alarm had an excuse or stopped at a row that the database did not keep.
AlarmInv ==
  /\ verifier.phase = "selected" =>
       \/ Excused(verifier.chain)
       \/ Segment(verifier.picked, Committed(verifier.chain), verifier.needsAnchor)
  /\ verifier.phase = "done" =>
       Excused(verifier.chain) \/ \A r \in verifier.brokenAt : r.given = "undefined"

\* An excuse holds for good.
LEMMA ExcuseStays ==
  ASSUME TypeOK, RowsInv, OverlapInv, [Next]_vars, NEW c \in Chains, Excused(c)
  PROVE  Excused(c)'
<1>1. Tampered(c) => Tampered(c)'
  BY TamperStays DEF Tampered
<1>2. Overlapped(c) => Overlapped(c)'
  BY OverlapStays
<1>3. Onboarded(c) => Onboarded(c)'
  BY ActorsStay DEF Onboarded
<1>4. ASSUME ~UlidsOrdered(c), ~Tampered(c)', ~Overlapped(c)' PROVE ~UlidsOrdered(c)'
  <2>1. Committed(c) \subseteq Committed(c)'
    BY <1>4, CommittedGrows, OutOfBandEffect DEF Grown
  <2> QED
    BY <1>4, <2>1 DEF UlidsOrdered
<1> QED
  BY <1>1, <1>2, <1>3, <1>4 DEF Excused

\* Rows that commit later leave a segment a segment: they are newer than all of it.
LEMMA SegmentGrows ==
  ASSUME TypeOK, NEW c \in Chains, NEW S, NEW needs, NEW after,
         Segment(S, Committed(c), needs), Grown(c, Committed(c), after)
  PROVE  Segment(S, after, needs)
<1> SUFFICES ASSUME NEW t \in Txs, after = Committed(c) \cup RowsOf(t),
                    \A r \in Committed(c) : \A s \in RowsOf(t) : r.id < s.id
             PROVE  Segment(S, after, needs)
  BY DEF Grown
<1>1. \A r \in rows : r.id \in Nat
  BY DEF TypeOK, Rows
<1>2. ASSUME NEW s \in S, NEW r \in RowsOf(t) PROVE ~(r.id < s.id)
  BY <1>1, <1>2 DEF Segment, RowsOf, Committed
<1> QED
  BY <1>2 DEF Segment

\* verifyChain's first statement selects a segment of a chain whose ulids and ids
\* agree, and asks for an anchor when a row precedes it.
LEMMA SelectSegment ==
  ASSUME TypeOK, RowsInv, NEW c \in Chains, UlidsOrdered(c),
         NEW from \in Ulids \cup {0}, NEW to \in Ulids \cup {0}
  PROVE  LET S == {r \in Committed(c) : r.ulid >= from /\ (to = 0 \/ r.ulid <= to)}
         IN  Segment(S, Committed(c), from # 0 /\ S # {})
<1> DEFINE S == {r \in Committed(c) : r.ulid >= from /\ (to = 0 \/ r.ulid <= to)}
<1>1. from \in Nat /\ to \in Nat
  BY AuditAssumption
<1>2. \A r \in Committed(c) : r \in rows /\ r.id \in Nat /\ r.ulid \in Nat
  BY AuditAssumption DEF Committed, TypeOK, Rows
<1>3. ASSUME NEW s \in S, NEW r \in Committed(c), r.id < s.id, r \notin S
      PROVE  from # 0 /\ \A q \in S : r.id < q.id
  <2>1. r.ulid < s.ulid
    BY <1>3 DEF UlidsOrdered
  <2>2. r.ulid < from
    BY <1>1, <1>2, <1>3, <2>1
  <2>3. ASSUME NEW q \in S PROVE r.id < q.id
    <3>1. r.ulid < q.ulid
      BY <1>1, <1>2, <2>2
    <3>2. ~(q.id < r.id)
      BY <1>2, <3>1 DEF UlidsOrdered
    <3>3. q.id # r.id
      BY <1>2, <3>1 DEF RowsInv
    <3> QED
      BY <1>2, <3>2, <3>3
  <2> QED
    BY <1>1, <1>2, <2>2, <2>3
<1>4. ASSUME NEW s \in S PROVE S # {}
  BY <1>4
<1>5. S \subseteq Committed(c)
  OBVIOUS
<1> HIDE DEF S
<1>6. Segment(S, Committed(c), from # 0 /\ S # {})
  BY <1>3, <1>4, <1>5 DEF Segment
<1> QED
  BY <1>6 DEF S

\* A row that verifies in the replay of the chain does so in that of a segment
\* from its anchor.
LEMMA WalkSegment ==
  ASSUME TypeOK, RowsInv, NEW c \in Chains, UlidsOrdered(c),
         \A r \in Committed(c) :
           RowVerifies(r, Committed(c), GENESIS) \/ r.given = "undefined",
         NEW S, NEW needs \in BOOLEAN, Segment(S, Committed(c), needs), NEW a,
         LET earlier == {r \in Committed(c) : \E f \in S :
                           (\A s \in S : f.id <= s.id) /\ r.ulid < f.ulid}
         IN  IsHead(a, IF needs THEN earlier ELSE {}, GENESIS)
  PROVE  \A r \in S : RowVerifies(r, S, a) \/ r.given = "undefined"
<1> DEFINE C == Committed(c)
           earlier == {r \in C : \E f \in S : (\A s \in S : f.id <= s.id) /\ r.ulid < f.ulid}
<1>1. \A r \in C : r.id \in Nat /\ r.ulid \in Nat
  BY AuditAssumption DEF Committed, TypeOK, Rows
<1>2. \A r, s \in C : r.id = s.id => r = s
  BY DEF Committed, RowsInv
<1>3. \A r, s \in C : r.id < s.id => r.ulid < s.ulid
  BY DEF UlidsOrdered
<1>4. \A r, s \in C : r.ulid < s.ulid => r.id < s.id
  <2> SUFFICES ASSUME NEW r \in C, NEW s \in C, r.ulid < s.ulid PROVE r.id < s.id
    OBVIOUS
  <2>1. ~(s.id < r.id) /\ r # s
    BY <1>1, <1>3
  <2> QED
    BY <1>1, <1>2, <2>1
<1>5. S \subseteq C /\ \A s \in S, r \in C : r.id < s.id =>
        r \in S \/ (needs /\ \A q \in S : r.id < q.id)
  BY DEF Segment
<1>6. IsHead(a, IF needs THEN earlier ELSE {}, GENESIS)
  OBVIOUS
<1>7. \A r \in C : RowVerifies(r, C, GENESIS) \/ r.given = "undefined"
  OBVIOUS
<1> HIDE DEF C, earlier
<1>8. ASSUME NEW r \in S, r.given # "undefined" PROVE RowVerifies(r, S, a)
  <2>1. r \in C /\ r.hash = Hash(r.prev, r.ulid, r.body)
    BY <1>5, <1>7, <1>8 DEF RowVerifies
  <2>2. IsHead(r.prev, {s \in C : s.id < r.id}, GENESIS)
    BY <1>7, <1>8, <2>1 DEF RowVerifies
  <2>3. CASE {s \in C : s.id < r.id} = {} /\ r.prev = GENESIS
    <3>1. {s \in S : s.id < r.id} = {}
      BY <1>5, <2>3
    <3>2. earlier = {}
      <4> SUFFICES ASSUME NEW e \in earlier PROVE FALSE
        OBVIOUS
      <4>1. PICK f \in S : (\A s \in S : f.id <= s.id) /\ e.ulid < f.ulid
        BY DEF earlier
      <4>2. e \in C /\ f \in C /\ e.id < f.id /\ f.id <= r.id
        BY <1>4, <1>5, <1>8, <4>1 DEF earlier
      <4>3. e.id < r.id
        BY <1>1, <2>1, <4>2
      <4> QED
        BY <2>3, <4>2, <4>3
    <3>3. a = GENESIS
      BY <1>6, <3>2 DEF IsHead
    <3> QED
      BY <2>1, <2>3, <3>1, <3>3 DEF RowVerifies, IsHead
  <2>4. ASSUME NEW h \in C, h.id < r.id, r.prev = h.hash,
               \A s \in C : s.id < r.id => s.id <= h.id
        PROVE  RowVerifies(r, S, a)
    <3>1. CASE h \in S
      <4>1. IsHead(r.prev, {s \in S : s.id < r.id}, a)
        BY <1>5, <2>4, <3>1 DEF IsHead
      <4> QED
        BY <2>1, <4>1 DEF RowVerifies
    <3>2. CASE h \notin S
      <4>1. needs /\ \A q \in S : h.id < q.id
        BY <1>5, <1>8, <2>4, <3>2
      <4>2. ASSUME NEW s \in S PROVE r.id <= s.id
        <5>1. s \in C /\ h.id < s.id
          BY <1>5, <4>1
        <5> QED
          BY <1>1, <2>1, <2>4, <5>1
      <4>3. {s \in S : s.id < r.id} = {}
        BY <1>1, <1>5, <2>1, <4>2
      <4>4. h \in earlier
        BY <1>3, <1>8, <2>1, <2>4, <4>2 DEF earlier
      <4>5. ASSUME NEW e \in earlier PROVE e \in C /\ e.id <= h.id
        <5>1. PICK f \in S : (\A s \in S : f.id <= s.id) /\ e.ulid < f.ulid
          BY <4>5 DEF earlier
        <5>2. e \in C /\ f \in C /\ e.id < f.id /\ f.id <= r.id
          BY <1>4, <1>5, <1>8, <4>5, <5>1 DEF earlier
        <5>3. e.id < r.id
          BY <1>1, <2>1, <5>2
        <5> QED
          BY <2>4, <5>2, <5>3
      <4>6. PICK e \in earlier : (\A s \in earlier : s.id <= e.id) /\ a = e.hash
        BY <1>6, <4>1, <4>4 DEF IsHead
      <4>7. e = h
        <5>1. e \in C /\ e.id <= h.id /\ h.id <= e.id
          BY <4>4, <4>5, <4>6
        <5> QED
          BY <1>1, <1>2, <2>4, <5>1
      <4>8. a = r.prev
        BY <2>4, <4>6, <4>7
      <4>9. IsHead(r.prev, {s \in S : s.id < r.id}, a)
        BY <4>3, <4>8 DEF IsHead
      <4> QED
        BY <2>1, <4>9 DEF RowVerifies
    <3> QED
      BY <3>1, <3>2
  <2> QED
    BY <2>2, <2>3, <2>4 DEF IsHead
<1> QED
  BY <1>8

\* Every step keeps it: rows that are committed between the two statements of
\* verifyChain are newer than the rows selected.
LEMMA AlarmInvStep == IInv /\ AlarmInv /\ [Next]_vars => AlarmInv'
<1> SUFFICES ASSUME IInv, AlarmInv, [Next]_vars PROVE AlarmInv'
  OBVIOUS
<1>a. TypeOK /\ RowsInv /\ OverlapInv
  BY DEF IInv
<1>1. ASSUME NEW c \in Chains, NEW from \in Ulids \cup {0}, NEW to \in Ulids \cup {0},
             VerifySelect(c, from, to)
      PROVE  AlarmInv'
  <2> DEFINE picked == {r \in Committed(c) : r.ulid >= from /\ (to = 0 \/ r.ulid <= to)}
  <2>1. verifier' = [phase |-> "selected", chain |-> c, picked |-> picked,
                     needsAnchor |-> from # 0 /\ picked # {}]
    BY <1>1 DEF VerifySelect
  <2>2. /\ Committed(c)' = Committed(c) /\ (UlidsOrdered(c) => UlidsOrdered(c)')
        /\ (Excused(c) => Excused(c)')
    BY <1>a, <1>1, ExcuseStays
    DEF VerifySelect, txVars, tableVars, Committed, UlidsOrdered
  <2>3. UlidsOrdered(c) => Segment(picked, Committed(c), from # 0 /\ picked # {})
    BY <1>a, SelectSegment
  <2>4. ~UlidsOrdered(c) => Excused(c)'
    BY <2>2 DEF Excused
  <2>5. /\ verifier'.phase = "selected" /\ verifier'.chain = c /\ verifier'.picked = picked
        /\ verifier'.needsAnchor = (from # 0 /\ picked # {})
    BY <2>1
  <2> HIDE DEF picked
  <2>6. Excused(c)' \/ Segment(picked, Committed(c)', from # 0 /\ picked # {})
    BY <2>2, <2>3, <2>4
  <2> QED
    BY <2>5, <2>6 DEF AlarmInv, Excused, Tampered, Overlapped, UlidsOrdered, Onboarded,
       Committed, Segment
<1>2. ASSUME VerifyWalk PROVE AlarmInv'
  <2> SUFFICES ASSUME NEW c, c = verifier.chain PROVE AlarmInv'
    OBVIOUS
  <2> DEFINE S == verifier.picked
             earlier == {r \in Committed(c) : \E f \in S :
                           (\A s \in S : f.id <= s.id) /\ r.ulid < f.ulid}
  <2>1. verifier.phase = "selected" /\ c \in Chains /\ verifier.needsAnchor \in BOOLEAN
    BY <1>2, <1>a DEF VerifyWalk, TypeOK, Idle
  <2>2. PICK a : /\ IsHead(a, IF verifier.needsAnchor THEN earlier ELSE {}, GENESIS)
                 /\ verifier' = Verdict(c, S, a)
    BY <1>2 DEF VerifyWalk
  <2>3. ASSUME ~Excused(c)
        PROVE  \A r \in S : RowVerifies(r, S, a) \/ r.given = "undefined"
    <3>1. /\ UlidsOrdered(c) /\ Genesis(c) = GENESIS
          /\ \A r \in Committed(c) :
               RowVerifies(r, Committed(c), Genesis(c)) \/ r.given = "undefined"
      BY <2>1, <2>3, SoundVerifies DEF Excused, Genesis, VerifiesUnlessOverlapped
    <3>2. Segment(S, Committed(c), verifier.needsAnchor)
      BY <2>1, <2>3 DEF AlarmInv
    <3> QED
      BY <1>a, <2>1, <2>2, <3>1, <3>2, WalkSegment
  <2>4. /\ verifier'.phase = "done" /\ verifier'.chain = c
        /\ \A r \in verifier'.brokenAt : r \in S /\ ~RowVerifies(r, S, a)
    BY <2>2 DEF Verdict
  <2>5. Excused(c)' \/ \A r \in verifier'.brokenAt : r.given = "undefined"
    BY <1>a, <2>1, <2>3, <2>4, ExcuseStays
  <2>6. Excused(c)' => Excused(verifier.chain)'
    BY <2>4 DEF Excused, Tampered, Overlapped, UlidsOrdered, Onboarded, Committed
  <2> QED
    BY <2>4, <2>5, <2>6 DEF AlarmInv
<1>3. ASSUME verifier' = verifier PROVE AlarmInv'
  <2> SUFFICES ASSUME NEW c, c = verifier.chain PROVE AlarmInv'
    OBVIOUS
  <2>1. CASE verifier.phase \notin {"selected", "done"}
    BY <1>3, <2>1 DEF AlarmInv
  <2>2. CASE verifier.phase \in {"selected", "done"}
    <3>1. c \in Chains
      BY <1>a, <2>2 DEF TypeOK, Idle
    <3>2. Excused(c) => Excused(verifier.chain)'
      <4>1. Excused(c) => Excused(c)'
        BY <1>a, <3>1, ExcuseStays
      <4> QED
        BY <1>3, <4>1 DEF Excused, Tampered, Overlapped, UlidsOrdered, Onboarded, Committed
    <3>3. ASSUME verifier.phase = "selected", ~Excused(verifier.chain)'
          PROVE  Segment(verifier.picked, Committed(verifier.chain), verifier.needsAnchor)'
      <4>1. Segment(verifier.picked, Committed(c), verifier.needsAnchor)
        BY <3>2, <3>3 DEF AlarmInv
      <4>2. Grown(c, Committed(c), Committed(c)')
        <5>1. ~Overlapped(c)' /\ ~Tampered(c)'
          BY <1>3, <3>3 DEF Excused, Overlapped, Tampered
        <5> QED
          BY <1>a, <3>1, <5>1, CommittedGrows, OutOfBandEffect DEF Grown
      <4>3. Segment(verifier.picked, Committed(c)', verifier.needsAnchor)
        BY <1>a, <3>1, <4>1, <4>2, SegmentGrows
      <4> QED
        BY <1>3, <4>3 DEF Segment, Committed
    <3> QED
      BY <1>3, <3>2, <3>3 DEF AlarmInv
  <2> QED
    BY <2>1, <2>2
<1> QED
  BY <1>1, <1>2, <1>3 DEF Next, TxNext, VerifierNext, OutOfBand, vars, Begin, ReadHead,
     InsertRow, Commit, Abort, EditRow, DeleteRow

\* For any number of transactions, chains and rows: a bounded replay that
\* raises an alarm has found tampering, an overlap, ulids out of order, the other
\* writer's genesis or, at the row it names, an undefined key, although its
\* statements run at different times.
THEOREM AlarmsAreExcused == Spec => []NoFalseAlarm
<1>1. Init => AlarmInv
  BY DEF Init, AlarmInv, Idle
<1>2. AlarmInv => NoFalseAlarm
  BY DEF AlarmInv, NoFalseAlarm, Excused
<1> QED
  BY <1>1, <1>2, IInvInit, IInvStep, AlarmInvStep, PTL DEF Spec
-----------------------------------------------------------------------------
\* What either writer's first row goes back to.
Geneses == {GENESIS, OPERATOR_GENESIS}

\* Ulids are minted once, and a row's digest covers the ulid it was minted with
\* and the contents it was given, whatever was made of the row since.
HashInv ==
  /\ \A r \in rows : r.ulid \in minted
                     /\ \E p \in Digests : r.hash = Hash(p, r.ulid, r.given)
  /\ \A r, s \in rows : r.ulid = s.ulid => r = s
  /\ \A t \in Txs : call[t].reading =>
       /\ call[t].ulid \in minted /\ call[t].prev \in Digests
       /\ \A r \in rows : r.ulid # call[t].ulid
       /\ \A u \in Txs \ {t} : call[u].reading => call[u].ulid # call[t].ulid

\* If p points into S, at a row of S or at a genesis, it points at the newest of S.
Tight(p, S) ==
  /\ \A s \in S : s.hash = p => \A x \in S : x.id <= s.id
  /\ p \in Geneses => S = {}

\* Linked(t), as far as it survives a table changed by hand.
TightOf(t) ==
  /\ \A r \in RowsOf(t) : r.body = "recorded" =>
       Tight(r.prev, {s \in Visible(t) : s.id < r.id})
  /\ call[t].reading => Tight(call[t].prev, Visible(t))

\* So it is as long as no transaction open beside t committed to t's chain.
TightInv == \A t \in Txs : Started(t) /\ Clear(t) => TightOf(t)

\* A changed chain holds an edited row, or has lost one and shows it.
Evident(c) ==
  \/ \E r \in Committed(c) : r.body = "edited"
  \/ Lost(c) /\ (~Overlapped(c) => \A g \in Geneses : ~Replays(Committed(c), g))

\* Every change by hand shows.
EvidenceInv == \A x \in tampered : Evident(x.chain)

\* A digest tells which row it covers last, and is not a genesis.
LEMMA HashCovers ==
  ASSUME NEW p \in Digests, NEW u \in Ulids, NEW w \in {"recorded", "undefined"}
  PROVE  /\ Hash(p, u, w) \notin Geneses
         /\ \A q \in Digests, v \in Ulids, b \in {"recorded", "undefined", "edited"} :
              Hash(p, u, w) = Hash(q, v, b) => u = v /\ b = w
<1> DEFINE Canon == (Ulids \X {"recorded", "undefined", "edited"}) \cup {<<0, "zeros">>}
<1>1. \A q \in Seq(Canon), e \in Canon :
        Len(Append(q, e)) = Len(q) + 1 /\ Append(q, e)[Len(q) + 1] = e
  OBVIOUS
<1>2. \A q \in Digests, v \in Ulids, b \in {"recorded", "undefined", "edited"} :
        /\ Len(q) \in Nat /\ Len(Hash(q, v, b)) = Len(q) + 1
        /\ Hash(q, v, b)[Len(q) + 1] = <<v, b>>
  BY <1>1 DEF Digests, Hash
<1>3. ASSUME NEW q \in Digests, NEW v \in Ulids, NEW b \in {"recorded", "undefined", "edited"},
             Hash(p, u, w) = Hash(q, v, b)
      PROVE  u = v /\ b = w
  <2>1. Len(p) = Len(q)
    BY <1>2, <1>3
  <2>2. <<u, w>> = <<v, b>>
    BY <1>2, <1>3, <2>1
  <2> QED
    BY <2>2
<1>4. Hash(p, u, w) # GENESIS
  BY <1>2 DEF GENESIS
<1>5. Hash(p, u, w) # OPERATOR_GENESIS
  <2> SUFFICES ASSUME Hash(p, u, w) = OPERATOR_GENESIS PROVE FALSE
    OBVIOUS
  <2>1. Len(OPERATOR_GENESIS) = 1 /\ OPERATOR_GENESIS[1] = <<0, "zeros">>
    BY DEF OPERATOR_GENESIS
  <2>2. Len(p) = 0
    BY <1>2, <2>1
  <2>3. <<u, w>> = <<0, "zeros">>
    BY <1>2, <2>1, <2>2
  <2> QED
    BY <2>3
<1> QED
  BY <1>3, <1>4, <1>5 DEF Geneses

\* Rows with one digest are one row, no digest is a genesis, and an edited row
\* no longer matches its digest.
LEMMA DigestFacts ==
  ASSUME TypeOK, HashInv
  PROVE  /\ \A r, s \in rows : r.hash = s.hash => r = s
         /\ \A r \in rows : r.hash \notin Geneses
         /\ \A r \in rows : r.body = "edited" => r.hash # Hash(r.prev, r.ulid, r.body)
<1>1. \A r \in rows : /\ r.ulid \in Ulids /\ r.prev \in Digests
                       /\ r.given \in {"recorded", "undefined"}
  BY DEF TypeOK, Rows
<1>2. \A r, s \in rows : r.hash = s.hash => r.ulid = s.ulid
  <2> SUFFICES ASSUME NEW r \in rows, NEW s \in rows, r.hash = s.hash
               PROVE  r.ulid = s.ulid
    OBVIOUS
  <2>1. PICK p \in Digests : r.hash = Hash(p, r.ulid, r.given)
    BY DEF HashInv
  <2>2. PICK q \in Digests : s.hash = Hash(q, s.ulid, s.given)
    BY DEF HashInv
  <2>3. Hash(p, r.ulid, r.given) = Hash(q, s.ulid, s.given)
    BY <2>1, <2>2
  <2>4. /\ r.given \in {"recorded", "undefined"}
        /\ s.given \in {"recorded", "undefined", "edited"}
    BY <1>1
  <2>5. r.ulid \in Ulids /\ s.ulid \in Ulids
    BY <1>1
  <2> QED
    BY <2>3, <2>4, <2>5, HashCovers
<1>3. ASSUME NEW r \in rows
      PROVE  /\ r.hash \notin Geneses
             /\ r.body = "edited" => r.hash # Hash(r.prev, r.ulid, r.body)
  <2>1. PICK p \in Digests : r.hash = Hash(p, r.ulid, r.given)
    BY DEF HashInv
  <2> QED
    BY <1>1, <2>1, HashCovers
<1> QED
  BY <1>2, <1>3 DEF HashInv

\* Every step keeps the digests.
LEMMA HashInvStep == TypeOK /\ HashInv /\ [Next]_vars => HashInv'
<1> SUFFICES ASSUME TypeOK, HashInv, [Next]_vars PROVE HashInv'
  OBVIOUS
<1>1. ASSUME NEW a \in Txs, ReadHead(a) PROVE HashInv'
  <2>1. PICK u \in Ulids \ minted, h \in HeadCandidates(Visible(a), Anchor(a)) :
          /\ call' = [call EXCEPT ![a] = [reading |-> TRUE, ulid |-> u, prev |-> h]]
          /\ minted' = minted \cup {u}
    BY <1>1 DEF ReadHead
  <2>2. h \in Digests
    BY GenesisType DEF HeadCandidates, Anchor, Visible, Committed, RowsOf, TypeOK, Rows
  <2>3. call'[a].ulid = u /\ call'[a].prev = h /\ \A t \in Txs \ {a} : call'[t] = call[t]
    BY <2>1 DEF TypeOK
  <2>4. rows' = rows
    BY <1>1 DEF ReadHead
  <2> QED
    BY <2>1, <2>2, <2>3, <2>4 DEF HashInv
<1>2. ASSUME NEW a \in Txs, InsertRow(a) PROVE HashInv'
  <2>1. PICK new : /\ rows' = rows \cup {new} /\ new.prev = call[a].prev
                   /\ new.ulid = call[a].ulid /\ Given(new)
    BY <1>2, InsertedRow
  <2>2. /\ call[a].reading /\ ~call'[a].reading /\ minted' = minted
        /\ \A t \in Txs \ {a} : call'[t] = call[t]
    BY <1>2 DEF InsertRow, TypeOK, NoCall
  <2>3. new.ulid \in minted /\ \E p \in Digests : new.hash = Hash(p, new.ulid, new.given)
    BY <2>1, <2>2 DEF HashInv, Given
  <2> QED
    BY <2>1, <2>2, <2>3 DEF HashInv
<1>3. ASSUME NEW a \in Txs, Abort(a) PROVE HashInv'
  <2>1. /\ rows' \subseteq rows /\ minted' = minted /\ ~call'[a].reading
        /\ \A t \in Txs \ {a} : call'[t] = call[t]
    BY <1>3 DEF Abort, TypeOK, NoCall
  <2> QED
    BY <2>1 DEF HashInv
<1>4. ASSUME NEW r \in rows, NEW p, EditRow(r, p) PROVE HashInv'
  <2>1. PICK new : /\ rows' = (rows \ {r}) \cup {new}
                   /\ new.ulid = r.ulid /\ new.hash = r.hash /\ new.given = r.given
    BY <1>4, EditedRow
  <2>2. call' = call /\ minted' = minted
    BY <1>4 DEF EditRow, txVars
  <2> QED
    BY <2>1, <2>2 DEF HashInv
<1>5. ASSUME NEW r \in rows, DeleteRow(r) PROVE HashInv'
  BY <1>5 DEF DeleteRow, txVars, HashInv
<1>6. ASSUME call' = call, rows' = rows, minted' = minted PROVE HashInv'
  BY <1>6 DEF HashInv
<1> QED
  BY <1>1, <1>2, <1>3, <1>4, <1>5, <1>6
  DEF Next, TxNext, OutOfBand, VerifierNext, VerifySelect, VerifyWalk, Begin, Commit,
      vars, txVars, tableVars

\* A row that is tight stays so when fewer rows precede it, edited or not.
LEMMA TightShrinks ==
  ASSUME NEW p, NEW S, Tight(p, S), NEW T,
         \A s \in T : \E q \in S : q.id = s.id /\ q.hash = s.hash
  PROVE  Tight(p, T)
<1>1. ASSUME NEW s \in T, s.hash = p, NEW x \in T PROVE x.id <= s.id
  <2>1. PICK q \in S : q.id = s.id /\ q.hash = s.hash
    OBVIOUS
  <2>2. PICK y \in S : y.id = x.id
    OBVIOUS
  <2>3. y.id <= q.id
    BY <1>1, <2>1 DEF Tight
  <2> QED
    BY <2>1, <2>2, <2>3
<1>2. p \in Geneses => T = {}
  BY DEF Tight
<1> QED
  BY <1>1, <1>2 DEF Tight

\* TightOf(t) survives a step that leaves t's rows as recorded, puts nothing
\* before them, and lets t see nothing new while it has read a head.
LEMMA TightFrame ==
  ASSUME NEW t \in Txs, TightOf(t),
         \A r \in RowsOf(t)' : r.body = "recorded" => r \in RowsOf(t),
         \A r \in RowsOf(t) : \A s \in Visible(t)' : s.id < r.id =>
           \E q \in Visible(t) : q.id = s.id /\ q.hash = s.hash,
         call'[t].reading =>
           /\ call'[t] = call[t]
           /\ \A s \in Visible(t)' : \E q \in Visible(t) : q.id = s.id /\ q.hash = s.hash
  PROVE  TightOf(t)'
<1>1. ASSUME NEW r \in RowsOf(t)', r.body = "recorded"
      PROVE  Tight(r.prev, {s \in Visible(t)' : s.id < r.id})
  <2> DEFINE S == {s \in Visible(t) : s.id < r.id}
             T == {s \in Visible(t)' : s.id < r.id}
  <2>1. r \in RowsOf(t) /\ Tight(r.prev, S)
    BY <1>1 DEF TightOf
  <2>2. ASSUME NEW s \in T PROVE \E q \in S : q.id = s.id /\ q.hash = s.hash
    BY <2>1
  <2> HIDE DEF S, T
  <2>3. Tight(r.prev, T)
    BY <2>1, <2>2, TightShrinks
  <2> QED
    BY <2>3 DEF T
<1>2. ASSUME call'[t].reading PROVE Tight(call'[t].prev, Visible(t)')
  <2> DEFINE V == Visible(t)
             W == Visible(t)'
  <2>1. Tight(call[t].prev, V)
    BY <1>2 DEF TightOf
  <2>2. \A s \in W : \E q \in V : q.id = s.id /\ q.hash = s.hash
    BY <1>2
  <2> HIDE DEF V, W
  <2>3. Tight(call[t].prev, W)
    BY <2>1, <2>2, TightShrinks
  <2> QED
    BY <1>2, <2>3 DEF W
<1> QED
  BY <1>1, <1>2 DEF TightOf, Tight

\* Every step keeps the rows of an unovertaken transaction tight, those made by
\* hand too: an edit keeps the row's id and digest.
LEMMA TightInvStep ==
  TypeOK /\ RowsInv /\ OverlapInv /\ HashInv /\ TightInv /\ [Next]_vars => TightInv'
<1> SUFFICES ASSUME TypeOK, RowsInv, OverlapInv, HashInv, TightInv, [Next]_vars,
                    NEW t \in Txs, Started(t)', Clear(t)'
             PROVE  TightOf(t)'
  BY DEF TightInv
<1>b. \A r \in rows : r.id \in Nat /\ r.tx \in Txs
  BY DEF TypeOK, Rows
<1>1. ASSUME NEW a \in Txs, Begin(a) PROVE TightOf(t)'
  <2>1. /\ rows' = rows /\ chainOf' = chainOf /\ call' = call
        /\ status' = [status EXCEPT ![a] = "open"] /\ status[a] = "idle"
        /\ overlap \subseteq overlap'
    BY <1>1 DEF Begin, tableVars
  <2>2. CASE t = a
    <3>1. RowsOf(a)' = {} /\ ~call'[a].reading
      BY <2>1 DEF RowsOf, RowsInv, Started
    <3> QED
      BY <2>2, <3>1 DEF TightOf
  <2>3. CASE t # a
    <3>1. Started(t) /\ Clear(t)
      BY <2>1, <2>3 DEF Started, Clear, TypeOK
    <3>2. TightOf(t) /\ RowsOf(t)' = RowsOf(t)
      BY <2>1, <3>1 DEF TightInv, RowsOf
    <3>3. Visible(t)' = Visible(t)
      BY <1>b, <2>1 DEF Visible, Committed, RowsOf, TypeOK, RowsInv, Started
    <3> QED
      BY <2>1, <3>2, <3>3, TightFrame
  <2> QED
    BY <2>2, <2>3
<1>2. ASSUME NEW a \in Txs, ReadHead(a) PROVE TightOf(t)'
  <2>1. /\ rows' = rows /\ chainOf' = chainOf /\ status' = status /\ overlap' = overlap
    BY <1>2 DEF ReadHead
  <2>2. TightOf(t) /\ RowsOf(t)' = RowsOf(t) /\ Visible(t)' = Visible(t)
    BY <2>1 DEF TightInv, RowsOf, Visible, Committed, Started, Clear
  <2>3. CASE t = a
    <3>1. IsHead(call'[a].prev, Visible(a), Anchor(a))
      BY <1>2 DEF ReadHead, TypeOK
    <3>2. Visible(a) \subseteq rows
      BY DEF Visible, Committed, RowsOf
    <3>3. Tight(call'[a].prev, Visible(a))
      <4>1. CASE Visible(a) = {}
        BY <4>1 DEF Tight
      <4>2. ASSUME NEW h \in Visible(a), \A s \in Visible(a) : s.id <= h.id,
                   call'[a].prev = h.hash
            PROVE  Tight(call'[a].prev, Visible(a))
        BY <3>2, <4>2, DigestFacts DEF Tight
      <4> QED
        BY <3>1, <4>1, <4>2 DEF IsHead
    <3>4. \A r \in RowsOf(t)' : r.body = "recorded" =>
            Tight(r.prev, {s \in Visible(t)' : s.id < r.id})
      BY <2>2 DEF TightOf
    <3> QED
      BY <2>2, <2>3, <3>3, <3>4 DEF TightOf, Tight
  <2>4. CASE t # a
    <3>1. call'[t] = call[t]
      BY <1>2, <2>4 DEF ReadHead, TypeOK
    <3> QED
      BY <2>1, <2>2, <3>1, TightFrame
  <2> QED
    BY <2>3, <2>4
<1>3. ASSUME NEW a \in Txs, InsertRow(a) PROVE TightOf(t)'
  <2>1. /\ chainOf' = chainOf /\ status' = status /\ status[a] = "open"
        /\ overlap' = overlap
        /\ call[a].reading /\ call' = [call EXCEPT ![a] = NoCall]
    BY <1>3 DEF InsertRow
  <2>2. PICK new : /\ rows' = rows \cup {new}
                   /\ new.id = nextId /\ new.tx = a /\ new.prev = call[a].prev
    BY <1>3, InsertedRow
  <2>3. TightOf(t)
    BY <2>1 DEF TightInv, Started, Clear
  <2>4. CASE t = a
    <3>1. Visible(a)' = Visible(a) \cup {new} /\ RowsOf(a)' = RowsOf(a) \cup {new}
      BY <1>b, <2>1, <2>2 DEF Visible, Committed, RowsOf
    <3>2. \A s \in Visible(a) : s.id \in Nat /\ s.id < nextId
      BY <1>b DEF Visible, Committed, RowsOf, RowsInv
    <3>3. nextId \in Nat
      BY DEF TypeOK
    <3>4. {s \in Visible(a)' : s.id < new.id} = Visible(a)
      BY <2>2, <3>1, <3>2, <3>3
    <3>5. \A r \in RowsOf(a) : {s \in Visible(a)' : s.id < r.id}
                               = {s \in Visible(a) : s.id < r.id}
      BY <2>2, <3>1, <3>2, <3>3 DEF Visible
    <3>6. Tight(new.prev, Visible(a))
      BY <2>1, <2>2, <2>3, <2>4 DEF TightOf
    <3>7. ~call'[a].reading
      BY <2>1 DEF TypeOK, NoCall
    <3>8. ASSUME NEW r \in RowsOf(a)', r.body = "recorded"
          PROVE  Tight(r.prev, {s \in Visible(a)' : s.id < r.id})
      <4>1. CASE r = new
        BY <3>4, <3>6, <4>1
      <4>2. CASE r \in RowsOf(a)
        <5>1. Tight(r.prev, {s \in Visible(a) : s.id < r.id})
          BY <2>3, <2>4, <3>8, <4>2 DEF TightOf
        <5> QED
          BY <3>5, <4>2, <5>1
      <4> QED
        BY <3>1, <3>8, <4>1, <4>2
    <3> QED
      BY <2>4, <3>7, <3>8 DEF TightOf, Tight
  <2>5. CASE t # a
    <3>1. Visible(t)' = Visible(t) /\ RowsOf(t)' = RowsOf(t)
      BY <1>b, <2>1, <2>2, <2>5 DEF Visible, Committed, RowsOf
    <3>2. call'[t] = call[t]
      BY <2>1, <2>5 DEF TypeOK
    <3> QED
      BY <2>1, <2>3, <3>1, <3>2, TightFrame
  <2> QED
    BY <2>4, <2>5
<1>4. ASSUME NEW a \in Txs, Commit(a) PROVE TightOf(t)'
  <2>1. /\ rows' = rows /\ overlap' = overlap /\ chainOf' = chainOf /\ call' = call
        /\ status' = [status EXCEPT ![a] = "committed"] /\ status[a] = "open"
    BY <1>4 DEF Commit, tableVars
  <2>2. Started(t) /\ Clear(t)
    BY <2>1 DEF Started, Clear, TypeOK
  <2>3. TightOf(t) /\ RowsOf(t)' = RowsOf(t)
    BY <2>1, <2>2 DEF TightInv, RowsOf
  <2>4. CASE t = a \/ chainOf[a] # chainOf[t]
    <3>1. Visible(t)' = Visible(t)
      BY <1>b, <2>1, <2>4 DEF Visible, Committed, RowsOf, TypeOK
    <3> QED
      BY <2>1, <2>3, <3>1, TightFrame
  <2>5. CASE t # a /\ chainOf[a] = chainOf[t]
    <3>1. {t, a} \notin overlap
      BY <2>1, <2>5 DEF Clear, TypeOK
    <3>2. status[t] = "committed" /\ ~call[t].reading
      BY <2>1, <2>2, <2>5, <3>1 DEF Started, OverlapInv, RowsInv
    <3>3. \A r \in RowsOf(t) : \A s \in RowsOf(a) : r.id < s.id
      BY <2>1, <2>5, <3>1, <3>2 DEF RowsOf, OverlapInv
    <3>4. Visible(t)' = Visible(t) \cup RowsOf(a)
      BY <1>b, <2>1, <2>5 DEF Visible, Committed, RowsOf, TypeOK
    <3>5. \A r \in RowsOf(t) : \A s \in Visible(t)' : s.id < r.id => s \in Visible(t)
      BY <1>b, <2>1, <3>3, <3>4 DEF RowsOf
    <3> QED
      BY <2>1, <2>3, <3>2, <3>5, TightFrame
  <2> QED
    BY <2>4, <2>5
<1>5. ASSUME NEW a \in Txs, Abort(a) PROVE TightOf(t)'
  <2>1. /\ rows' = rows \ RowsOf(a) /\ chainOf' = chainOf /\ overlap' = overlap
        /\ call' = [call EXCEPT ![a] = NoCall]
        /\ status' = [status EXCEPT ![a] = "aborted"] /\ status[a] = "open"
    BY <1>5 DEF Abort
  <2>2. t # a
    BY <2>1 DEF Started, TypeOK
  <2>3. Started(t) /\ Clear(t)
    BY <2>1, <2>2 DEF Started, Clear, TypeOK
  <2>4. TightOf(t)
    BY <2>3 DEF TightInv
  <2>5. RowsOf(t)' = RowsOf(t) /\ Visible(t)' = Visible(t)
    BY <1>b, <2>1, <2>2 DEF Visible, Committed, RowsOf, TypeOK
  <2>6. call'[t] = call[t]
    BY <2>1, <2>2 DEF TypeOK
  <2> QED
    BY <2>1, <2>4, <2>5, <2>6, TightFrame
<1>6. CASE VerifierNext \/ UNCHANGED vars
  <2>1. txVars' = txVars /\ tableVars' = tableVars
    BY <1>6 DEF VerifierNext, VerifySelect, VerifyWalk, txVars, tableVars, vars
  <2>2. TightOf(t) /\ RowsOf(t)' = RowsOf(t) /\ Visible(t)' = Visible(t) /\ call' = call
    BY <2>1 DEF TightInv, RowsOf, Visible, Committed, Started, Clear, txVars, tableVars
  <2> QED
    BY <2>2, TightFrame
<1>7. ASSUME NEW r \in rows, NEW p, EditRow(r, p) PROVE TightOf(t)'
  <2>1. PICK new : /\ rows' = (rows \ {r}) \cup {new}
                   /\ new.id = r.id /\ new.tx = r.tx
                   /\ new.hash = r.hash /\ new.body = "edited"
    BY <1>7, EditedRow
  <2>2. txVars' = txVars
    BY <1>7 DEF EditRow
  <2>3. TightOf(t) /\ call' = call
    BY <2>2 DEF TightInv, Started, Clear, txVars
  <2>4. \A q \in RowsOf(t)' : q.body = "recorded" => q \in RowsOf(t)
    BY <2>1, <2>2 DEF RowsOf, txVars
  <2>5. \A s \in Visible(t)' : \E q \in Visible(t) : q.id = s.id /\ q.hash = s.hash
    <3> SUFFICES ASSUME NEW s \in Visible(t)'
                 PROVE  \E q \in Visible(t) : q.id = s.id /\ q.hash = s.hash
      OBVIOUS
    <3>1. CASE s = new
      <4>1. r \in Visible(t)
        BY <2>1, <2>2, <3>1 DEF Visible, Committed, RowsOf, txVars
      <4> QED
        BY <2>1, <3>1, <4>1
    <3>2. CASE s # new
      BY <2>1, <2>2, <3>2 DEF Visible, Committed, RowsOf, txVars
    <3> QED
      BY <3>1, <3>2
  <2> QED
    BY <2>3, <2>4, <2>5, TightFrame
<1>8. ASSUME NEW r \in rows, DeleteRow(r) PROVE TightOf(t)'
  <2>1. txVars' = txVars /\ rows' = rows \ {r}
    BY <1>8 DEF DeleteRow
  <2>2. TightOf(t) /\ call' = call
    BY <2>1 DEF TightInv, Started, Clear, txVars
  <2>3. RowsOf(t)' \subseteq RowsOf(t) /\ Visible(t)' \subseteq Visible(t)
    BY <2>1 DEF RowsOf, Visible, Committed, txVars
  <2> QED
    BY <2>2, <2>3, TightFrame
<1> QED
  BY <1>1, <1>2, <1>3, <1>4, <1>5, <1>6, <1>7, <1>8 DEF Next, TxNext, OutOfBand

\* A set of naturals has a least member.
LEMMA LeastNumber ==
  ASSUME NEW T, T \subseteq Nat, T # {}
  PROVE  \E x \in T : \A y \in T : x <= y
<1>1. PICK x \in T : \A y \in T : <<y, x>> \notin OpToRel(<, Nat)
  BY WFMin, NatLessThanWellFounded
<1>2. ASSUME NEW y \in T PROVE x <= y
  <2>1. x \in Nat /\ y \in Nat
    OBVIOUS
  <2>2. ~(y < x)
    BY <1>1, <2>1 DEF OpToRel
  <2> QED
    BY <2>1, <2>2, SMT
<1> QED
  BY <1>2

\* An edited row fails every replay.
LEMMA EditedBreaks ==
  ASSUME TypeOK, HashInv, NEW c \in Chains, NEW r \in Committed(c), r.body = "edited", NEW g
  PROVE  ~Replays(Committed(c), g)
<1>1. r \in rows
  BY DEF Committed
<1>2. r.hash # Hash(r.prev, r.ulid, r.body)
  BY <1>1, DigestFacts
<1> QED
  BY <1>2 DEF Replays, RowVerifies

\* A chain that did not overlap does not replay without one of its rows: the
\* next row still points at the missing one.
LEMMA DeletedBreaks ==
  ASSUME TypeOK, RowsInv, HashInv, TightInv, NEW c \in Chains, ~Overlapped(c),
         NEW r \in Committed(c), NEW n \in Committed(c), n.id > r.id,
         NEW g \in Geneses, \A q \in Committed(c) \ {r} : q.body = "recorded"
  PROVE  ~Replays(Committed(c) \ {r}, g)
<1> DEFINE C == Committed(c)
           T == {q.id : q \in {s \in C : s.id > r.id}}
<1>1. \A q \in C : q \in rows /\ q.id \in Nat
  BY DEF Committed, TypeOK, Rows
<1>2. PICK q \in C : q.id > r.id /\ \A s \in C : s.id > r.id => q.id <= s.id
  <2>1. T \subseteq Nat /\ n.id \in T
    BY <1>1
  <2>2. PICK x \in T : \A y \in T : x <= y
    BY <2>1, LeastNumber
  <2> QED
    BY <2>2
<1>3. Tight(q.prev, {s \in C : s.id < q.id})
  <2>1. q.tx \in Txs /\ status[q.tx] = "committed" /\ chainOf[q.tx] = c /\ q \in RowsOf(q.tx)
    BY DEF TypeOK, Rows, Committed, RowsOf
  <2>2. TightOf(q.tx)
    BY <2>1 DEF TightInv, Started, Clear, Overlapped
  <2>3. Visible(q.tx) = C
    BY <2>1 DEF Visible, Committed, RowsOf
  <2>4. q.body = "recorded"
    BY <1>1, <1>2
  <2> QED
    BY <2>1, <2>2, <2>3, <2>4 DEF TightOf
<1> HIDE DEF C, T
<1>4. r \in C /\ q # r
  BY <1>1, <1>2 DEF C
<1>5. ~IsHead(q.prev, {s \in C \ {r} : s.id < q.id}, g)
  <2> SUFFICES ASSUME IsHead(q.prev, {s \in C \ {r} : s.id < q.id}, g) PROVE FALSE
    OBVIOUS
  <2>1. r.id < q.id /\ q.prev \notin Geneses
    BY <1>1, <1>2, <1>3, <1>4 DEF Tight
  <2>2. PICK w \in C \ {r} : w.id < q.id /\ q.prev = w.hash
    BY <2>1 DEF IsHead
  <2>3. r.id <= w.id
    BY <1>3, <1>4, <2>1, <2>2 DEF Tight
  <2>4. ~(w.id > r.id)
    BY <1>1, <1>2, <2>2
  <2>5. w.id = r.id
    BY <1>1, <1>4, <2>2, <2>3, <2>4
  <2> QED
    BY <1>1, <1>4, <2>2, <2>5 DEF RowsInv
<1> QED
  BY <1>4, <1>5 DEF Replays, RowVerifies, C

\* A failed replay keeps failing when newer rows are appended.
LEMMA AppendedBreaks ==
  ASSUME TypeOK, NEW c \in Chains, NEW after, Grown(c, Committed(c), after), NEW g,
         ~Replays(Committed(c), g)
  PROVE  ~Replays(after, g)
<1> SUFFICES ASSUME NEW t \in Txs, after = Committed(c) \cup RowsOf(t),
                    \A r \in Committed(c) : \A s \in RowsOf(t) : r.id < s.id
             PROVE  ~Replays(after, g)
  BY DEF Grown
<1>1. \A r \in Committed(c) \cup RowsOf(t) : r.id \in Nat
  BY DEF TypeOK, Rows, Committed, RowsOf
<1>2. PICK r \in Committed(c) : ~RowVerifies(r, Committed(c), g)
  BY DEF Replays
<1>3. {s \in after : s.id < r.id} = {s \in Committed(c) : s.id < r.id}
  BY <1>1
<1>4. ~RowVerifies(r, after, g)
  BY <1>2, <1>3 DEF RowVerifies
<1> QED
  BY <1>4 DEF Replays

\* Every step keeps the evidence.
LEMMA EvidenceStep ==
  /\ TypeOK /\ TypeOK' /\ RowsInv /\ OverlapInv /\ HashInv /\ TightInv /\ EvidenceInv
  /\ [Next]_vars
  => EvidenceInv'
<1> SUFFICES ASSUME TypeOK, TypeOK', RowsInv, OverlapInv, HashInv, TightInv,
                    EvidenceInv, [Next]_vars, NEW x \in tampered'
             PROVE  Evident(x.chain)'
  BY DEF EvidenceInv
<1> DEFINE c == x.chain
<1>1. c \in Chains
  BY DEF TypeOK
<1>2. (Lost(c) => Lost(c)') /\ (Overlapped(c) => Overlapped(c)')
  BY <1>1, TamperStays, OverlapStays DEF Lost
<1>3. CASE ~OutOfBand
  <2>1. x \in tampered
    BY <1>3 DEF Next, TxNext, VerifierNext, Begin, ReadHead, InsertRow, Commit, Abort,
       VerifySelect, VerifyWalk, vars, tableVars
  <2>2. Committed(c) \subseteq Committed(c)'
    BY <1>1, <1>3, CommitAdds
  <2>3. ASSUME ~Overlapped(c)', NEW g, ~Replays(Committed(c), g)
        PROVE  ~Replays(Committed(c)', g)
    BY <1>1, <1>3, <2>3, CommittedGrows, AppendedBreaks
  <2>4. Evident(c)
    BY <2>1 DEF EvidenceInv
  <2>5. CASE \E r \in Committed(c) : r.body = "edited"
    BY <2>2, <2>5 DEF Evident
  <2>6. CASE Lost(c) /\ (~Overlapped(c) => \A g \in Geneses : ~Replays(Committed(c), g))
    <3>1. Lost(c)' /\ (~Overlapped(c)' => \A g \in Geneses : ~Replays(Committed(c)', g))
      BY <1>2, <2>3, <2>6
    <3> QED
      BY <3>1 DEF Evident, Replays
  <2> QED
    BY <2>4, <2>5, <2>6 DEF Evident
\* A change by hand of another chain.
<1>4. ASSUME Committed(c)' = Committed(c), \A y \in tampered' \ tampered : y.chain # c
      PROVE  Evident(c)'
  <2>1. Evident(c)
    BY <1>4 DEF EvidenceInv
  <2>2. CASE \E r \in Committed(c) : r.body = "edited"
    BY <1>4, <2>2 DEF Evident
  <2>3. CASE Lost(c) /\ (~Overlapped(c) => \A g \in Geneses : ~Replays(Committed(c), g))
    <3>1. Lost(c)' /\ (~Overlapped(c)' => \A g \in Geneses : ~Replays(Committed(c)', g))
      BY <1>2, <1>4, <2>3
    <3> QED
      BY <3>1 DEF Evident, Replays
  <2> QED
    BY <2>1, <2>2, <2>3 DEF Evident
<1>5. ASSUME NEW r \in rows, NEW p, EditRow(r, p) PROVE Evident(c)'
  <2>1. CASE c # chainOf[r.tx]
    BY <1>1, <1>4, <1>5, <2>1, EditEffect
  <2>2. CASE c = chainOf[r.tx]
    <3>1. \E new \in Committed(c)' : new.body = "edited"
      BY <1>1, <1>5, <2>2, EditEffect
    <3> QED
      BY <3>1 DEF Evident
  <2> QED
    BY <2>1, <2>2
<1>6. ASSUME NEW r \in rows, DeleteRow(r) PROVE Evident(c)'
  <2>1. CASE c # chainOf[r.tx]
    BY <1>1, <1>4, <1>6, <2>1, DeleteEffect
  <2>2. CASE c = chainOf[r.tx]
    <3>1. /\ Lost(c)' /\ r \in Committed(c) /\ Committed(c)' = Committed(c) \ {r}
          /\ \E s \in Committed(c) : s.id > r.id
      BY <1>1, <1>6, <2>2, DeleteEffect
    <3>2. CASE \E s \in Committed(c)' : s.body = "edited"
      BY <3>2 DEF Evident
    <3>3. CASE \A s \in Committed(c)' : s.body = "recorded"
      <4>1. ASSUME ~Overlapped(c)', NEW g \in Geneses PROVE ~Replays(Committed(c)', g)
        BY <1>1, <1>2, <3>1, <3>3, <4>1, DeletedBreaks
      <4> QED
        BY <3>1, <4>1 DEF Evident, Replays
    <3>4. \A s \in Committed(c)' : s.body \in {"recorded", "edited"}
      BY DEF Committed, TypeOK, Rows
    <3> QED
      BY <3>2, <3>3, <3>4
  <2> QED
    BY <2>1, <2>2
<1> QED
  BY <1>3, <1>5, <1>6 DEF OutOfBand

\* For any number of transactions, chains, rows and changes by hand: a changed
\* chain never replays, unless it lost a row and had been forked by an overlap.
THEOREM TamperingShows == Spec => []TamperEvident
<1> DEFINE Inv == /\ TypeOK /\ RowsInv /\ OverlapInv /\ HashInv /\ TightInv
                  /\ EvidenceInv
<1>1. Init => Inv
  BY InitType, InitIInv
  DEF Init, HashInv, TightInv, EvidenceInv, Started, NoCall
<1>2. Inv /\ [Next]_vars => Inv'
  BY TypeStep, RowsInvStep, OverlapInvStep, HashInvStep, TightInvStep, EvidenceStep
<1>3. Inv => TamperEvident
  <2> SUFFICES ASSUME Inv, NEW x \in tampered, NEW g \in Geneses,
                      ~(Overlapped(x.chain) /\ Lost(x.chain))
               PROVE  ~Replays(Committed(x.chain), g)
    BY DEF TamperEvident, Geneses
  <2>1. x.chain \in Chains /\ Evident(x.chain)
    BY DEF EvidenceInv, TypeOK
  <2>2. CASE \E r \in Committed(x.chain) : r.body = "edited"
    BY <2>1, <2>2, EditedBreaks
  <2>3. CASE Lost(x.chain) /\ ~Overlapped(x.chain)
    BY <2>1, <2>2, <2>3 DEF Evident
  <2> QED
    BY <2>1, <2>2, <2>3 DEF Evident
<1> QED
  BY <1>1, <1>2, <1>3, PTL DEF Spec
-----------------------------------------------------------------------------
\* The table is finite, and a transaction keeps to its bound, a row being read included.
CountInv ==
  /\ IsFiniteSet(rows)
  /\ \A t \in Txs : /\ Cardinality(RowsOf(t)) <= MaxEvents
                    /\ call[t].reading => Cardinality(RowsOf(t)) < MaxEvents

\* The rows of t are finite, as a part of the table.
LEMMA RowsFinite ==
  ASSUME IsFiniteSet(rows), NEW S \in SUBSET rows
  PROVE  IsFiniteSet(S) /\ Cardinality(S) \in Nat
BY FS_Subset, FS_CardinalityType

\* One more row.
LEMMA OneMore ==
  ASSUME NEW S, IsFiniteSet(S), NEW x
  PROVE  /\ IsFiniteSet(S \cup {x}) /\ Cardinality(S \cup {x}) \in Nat
         /\ Cardinality(S \cup {x}) <= Cardinality(S) + 1
<1>1. /\ IsFiniteSet(S \cup {x}) /\ Cardinality(S \cup {x}) \in Nat
      /\ Cardinality(S) \in Nat
  BY FS_AddElement, FS_CardinalityType
<1>2. CASE x \in S
  <2>1. S \cup {x} = S
    BY <1>2
  <2> QED
    BY <1>1, <2>1
<1>3. CASE x \notin S
  <2>1. Cardinality(S \cup {x}) = Cardinality(S) + 1
    BY <1>3, FS_AddElement
  <2> QED
    BY <1>1, <2>1
<1> QED
  BY <1>2, <1>3

\* Every step keeps the counts.
LEMMA CountStep == TypeOK /\ CountInv /\ [Next]_vars => CountInv'
<1> SUFFICES ASSUME TypeOK, CountInv, [Next]_vars PROVE CountInv'
  OBVIOUS
<1>a. \A t \in Txs : IsFiniteSet(RowsOf(t)) /\ Cardinality(RowsOf(t)) \in Nat
  BY RowsFinite DEF CountInv, RowsOf
<1>b. MaxEvents \in Nat \ {0}
  BY AuditAssumption
<1>1. ASSUME NEW a \in Txs, ReadHead(a) PROVE CountInv'
  <2>1. rows' = rows /\ \A t \in Txs \ {a} : call'[t] = call[t]
    BY <1>1 DEF ReadHead, TypeOK
  <2>2. Cardinality(RowsOf(a)) < MaxEvents
    BY <1>1, <1>a, <1>b DEF ReadHead
  <2>3. \A t \in Txs : RowsOf(t)' = RowsOf(t)
    BY <2>1 DEF RowsOf
  <2> QED
    BY <2>1, <2>2, <2>3 DEF CountInv
<1>2. ASSUME NEW a \in Txs, InsertRow(a) PROVE CountInv'
  <2>1. PICK new : rows' = rows \cup {new} /\ new.tx = a
    BY <1>2, InsertedRow
  <2>2. /\ call[a].reading /\ ~call'[a].reading
        /\ \A t \in Txs \ {a} : call'[t] = call[t]
    BY <1>2 DEF InsertRow, TypeOK, NoCall
  <2>3. IsFiniteSet(rows')
    BY <2>1, OneMore DEF CountInv
  <2>4. RowsOf(a)' = RowsOf(a) \cup {new} /\ \A t \in Txs \ {a} : RowsOf(t)' = RowsOf(t)
    BY <2>1 DEF RowsOf
  <2>5. Cardinality(RowsOf(a) \cup {new}) <= Cardinality(RowsOf(a)) + 1
    BY <1>a, OneMore
  <2>6. Cardinality(RowsOf(a) \cup {new}) \in Nat
    BY <1>a, OneMore
  <2>7. Cardinality(RowsOf(a))' <= MaxEvents
    BY <1>a, <1>b, <2>2, <2>4, <2>5, <2>6 DEF CountInv
  <2> QED
    BY <2>2, <2>3, <2>4, <2>7 DEF CountInv
<1>3. ASSUME NEW a \in Txs, Abort(a) PROVE CountInv'
  <2>1. /\ rows' = rows \ RowsOf(a) /\ ~call'[a].reading
        /\ \A t \in Txs \ {a} : call'[t] = call[t]
    BY <1>3 DEF Abort, TypeOK, NoCall
  <2>2. IsFiniteSet(rows')
    BY <2>1, FS_Subset DEF CountInv
  <2>3. RowsOf(a)' = {} /\ \A t \in Txs \ {a} : RowsOf(t)' = RowsOf(t)
    BY <2>1 DEF RowsOf
  <2>4. Cardinality(RowsOf(a))' <= MaxEvents
    BY <1>b, <2>3, FS_EmptySet
  <2> QED
    BY <2>1, <2>2, <2>3, <2>4 DEF CountInv
<1>4. ASSUME NEW r \in rows, NEW p, EditRow(r, p) PROVE CountInv'
  <2>1. PICK new : rows' = (rows \ {r}) \cup {new} /\ new.tx = r.tx
    BY <1>4, EditedRow
  <2>2. call' = call
    BY <1>4 DEF EditRow, txVars
  <2>3. IsFiniteSet(rows')
    BY <2>1, OneMore, FS_RemoveElement DEF CountInv
  <2>4. ASSUME NEW t \in Txs PROVE Cardinality(RowsOf(t))' <= Cardinality(RowsOf(t))
    <3>1. CASE r.tx # t
      <4>1. RowsOf(t)' = RowsOf(t)
        BY <2>1, <3>1 DEF RowsOf
      <4> QED
        BY <1>a, <4>1
    <3>2. CASE r.tx = t
      <4>1. RowsOf(t)' = (RowsOf(t) \ {r}) \cup {new} /\ r \in RowsOf(t)
        BY <2>1, <3>2 DEF RowsOf
      <4>2. /\ IsFiniteSet(RowsOf(t) \ {r})
            /\ Cardinality(RowsOf(t) \ {r}) = Cardinality(RowsOf(t)) - 1
        BY <1>a, <4>1, FS_RemoveElement
      <4>3. Cardinality((RowsOf(t) \ {r}) \cup {new}) <= Cardinality(RowsOf(t) \ {r}) + 1
        BY <4>2, OneMore
      <4>4. Cardinality((RowsOf(t) \ {r}) \cup {new}) \in Nat
        BY <4>2, OneMore
      <4> QED
        BY <1>a, <4>1, <4>2, <4>3, <4>4
    <3> QED
      BY <3>1, <3>2
  <2>5. \A t \in Txs : Cardinality(RowsOf(t))' \in Nat
    <3>1. \A t \in Txs : RowsOf(t)' \subseteq rows'
      BY DEF RowsOf
    <3> QED
      BY <2>3, <3>1, FS_Subset, FS_CardinalityType
  <2> QED
    BY <1>a, <1>b, <2>2, <2>3, <2>4, <2>5 DEF CountInv
<1>5. ASSUME NEW r \in rows, DeleteRow(r) PROVE CountInv'
  <2>1. rows' = rows \ {r} /\ call' = call
    BY <1>5 DEF DeleteRow, txVars
  <2>2. IsFiniteSet(rows')
    BY <2>1, FS_RemoveElement DEF CountInv
  <2>3. \A t \in Txs : RowsOf(t)' \subseteq RowsOf(t)
    BY <2>1 DEF RowsOf
  <2>4. \A t \in Txs : /\ Cardinality(RowsOf(t)') <= Cardinality(RowsOf(t))
                       /\ Cardinality(RowsOf(t)') \in Nat
    BY <1>a, <2>3, FS_Subset, FS_CardinalityType
  <2>5. \A t \in Txs : Cardinality(RowsOf(t))' = Cardinality(RowsOf(t)')
    OBVIOUS
  <2> QED
    BY <1>a, <1>b, <2>1, <2>2, <2>4, <2>5 DEF CountInv
<1>6. ASSUME call' = call, rows' = rows PROVE CountInv'
  BY <1>6 DEF CountInv, RowsOf
<1> QED
  BY <1>1, <1>2, <1>3, <1>4, <1>5, <1>6
  DEF Next, TxNext, OutOfBand, VerifierNext, VerifySelect, VerifyWalk, Begin, Commit,
      vars, txVars, tableVars
-----------------------------------------------------------------------------
\* S is a finite set of rows with ids of their own.
Ranked(S) ==
  /\ IsFiniteSet(S)
  /\ \A r \in S : r.id \in Nat
  /\ \A r, s \in S : r.id = s.id => r = s

\* Every rank from 1 to the number of rows is that of exactly one row.
LEMMA RankOne ==
  ASSUME NEW S, Ranked(S), NEW i \in 1 .. Cardinality(S)
  PROVE  \E r \in S : /\ Cardinality(Upto(S, r)) = i
                      /\ \A s \in S : Cardinality(Upto(S, s)) = i => s = r
<1> DEFINE n == Cardinality(S)
           f == [r \in S |-> Cardinality(Upto(S, r))]
<1>a. IsFiniteSet(S) /\ n \in Nat
  BY FS_CardinalityType DEF Ranked
<1>1. ASSUME NEW r \in S
      PROVE  IsFiniteSet(Upto(S, r)) /\ Cardinality(Upto(S, r)) \in 1 .. n
  <2>1. Upto(S, r) \subseteq S /\ r \in Upto(S, r)
    BY DEF Upto, Ranked
  <2>2. /\ IsFiniteSet(Upto(S, r)) /\ Cardinality(Upto(S, r)) <= n
    BY <1>a, <2>1, FS_Subset
  <2>3. Cardinality(Upto(S, r)) \in Nat /\ Cardinality(Upto(S, r)) # 0
    BY <2>1, <2>2, FS_EmptySet, FS_CardinalityType
  <2> QED
    BY <1>a, <2>2, <2>3
<1>2. ASSUME NEW r \in S, NEW s \in S, r.id < s.id
      PROVE  Cardinality(Upto(S, r)) # Cardinality(Upto(S, s))
  <2>1. Upto(S, r) \subseteq Upto(S, s) /\ s \in Upto(S, s) /\ s \notin Upto(S, r)
    BY <1>2 DEF Upto, Ranked
  <2> QED
    BY <1>1, <2>1, FS_Subset
<1>3. \A r, s \in S : Cardinality(Upto(S, r)) = Cardinality(Upto(S, s)) => r = s
  <2> SUFFICES ASSUME NEW r \in S, NEW s \in S, r # s
               PROVE  Cardinality(Upto(S, r)) # Cardinality(Upto(S, s))
    OBVIOUS
  <2>1. r.id < s.id \/ s.id < r.id
    BY DEF Ranked
  <2> QED
    BY <1>2, <2>1
<1>4. f \in Injection(S, 1 .. n)
  BY <1>1, <1>3 DEF Injection, IsInjective
<1>5. IsFiniteSet(1 .. n) /\ Cardinality(1 .. n) = n
  BY <1>a, FS_Interval
<1>6. f \in Surjection(S, 1 .. n)
  <2> HIDE DEF f
  <2> QED
    BY <1>4, <1>5, FS_Injection
<1>7. PICK r \in S : f[r] = i
  BY <1>6 DEF Surjection
<1> QED
  BY <1>3, <1>7

\* The i-th row of S has rank i, and is the only one.
LEMMA NthRank ==
  ASSUME NEW S, Ranked(S), NEW i \in 1 .. Cardinality(S)
  PROVE  /\ Nth(S, i) \in S /\ Cardinality(Upto(S, Nth(S, i))) = i
         /\ \A s \in S : Cardinality(Upto(S, s)) = i => s = Nth(S, i)
<1>1. \E r \in S : Cardinality(Upto(S, r)) = i
  BY RankOne
<1>2. Nth(S, i) \in S /\ Cardinality(Upto(S, Nth(S, i))) = i
  BY <1>1 DEF Nth
<1>3. PICK r \in S : \A s \in S : Cardinality(Upto(S, s)) = i => s = r
  BY RankOne
<1> QED
  BY <1>2, <1>3

\* Rows that are newer than all of S leave the ranks of S as they are.
LEMMA RankAppend ==
  ASSUME NEW S, NEW T, Ranked(S \cup T), \A r \in S : \A s \in T : r.id < s.id
  PROVE  /\ IsFiniteSet(S) /\ IsFiniteSet(T)
         /\ Cardinality(S \cup T) = Cardinality(S) + Cardinality(T)
         /\ \A i \in 1 .. Cardinality(S) : Nth(S \cup T, i) = Nth(S, i)
<1> DEFINE U == S \cup T
<1>1. IsFiniteSet(S) /\ IsFiniteSet(T) /\ Ranked(S)
  BY FS_Subset DEF Ranked
<1>2. S \cap T = {}
  <2> SUFFICES ASSUME NEW r \in S, r \in T PROVE FALSE
    OBVIOUS
  <2>1. r.id \in Nat /\ r.id < r.id
    BY DEF Ranked
  <2> QED
    BY <2>1
<1>3. Cardinality(S) \in Nat /\ Cardinality(T) \in Nat
  BY <1>1, FS_CardinalityType
<1>4. Cardinality(U) = Cardinality(S) + Cardinality(T)
  <2>1. Cardinality(U) = Cardinality(S) + Cardinality(T) - Cardinality(S \cap T)
    BY <1>1, FS_Union
  <2>2. Cardinality(S \cap T) = 0
    BY <1>2, FS_EmptySet
  <2> QED
    BY <1>3, <2>1, <2>2
<1>5. ASSUME NEW i \in 1 .. Cardinality(S) PROVE Nth(U, i) = Nth(S, i)
  <2> DEFINE r == Nth(S, i)
  <2>1. r \in S /\ Cardinality(Upto(S, r)) = i
    BY <1>1, NthRank
  <2>2. i \in 1 .. Cardinality(U)
    BY <1>3, <1>4
  <2> HIDE DEF r
  <2>3. Upto(U, r) = Upto(S, r)
    BY <2>1 DEF Upto, Ranked
  <2> HIDE DEF U
  <2>4. r \in U /\ Cardinality(Upto(U, r)) = i
    BY <2>1, <2>3 DEF U
  <2>5. Ranked(U)
    BY DEF U
  <2>6. r = Nth(U, i)
    BY <2>2, <2>4, <2>5, NthRank
  <2> QED
    BY <2>6 DEF r
<1> QED
  BY <1>1, <1>4, <1>5

\* A function on 1 .. k is a sequence of length k.
LEMMA FunctionIsSeq ==
  ASSUME NEW S, NEW k \in Nat, NEW f \in [1 .. k -> S]
  PROVE  f \in Seq(S) /\ Len(f) = k
<1>1. f \in Seq(S)
  BY SeqDef
<1>2. Len(f) \in Nat /\ DOMAIN f = 1 .. Len(f)
  BY <1>1, LenProperties
<1>3. 1 .. k = 1 .. Len(f)
  BY <1>2
<1> QED
  BY <1>1, <1>2, <1>3

\* So their ulids are appended to the log.
LEMMA LogAppend ==
  ASSUME NEW S, NEW T, Ranked(S \cup T), \A r \in S : \A s \in T : r.id < s.id,
         \A r \in S \cup T : r.ulid \in Ulids
  PROVE  /\ UlidLog(S \cup T) \in Seq(Ulids) /\ UlidLog(S) \in Seq(Ulids)
         /\ Len(UlidLog(S \cup T)) = Cardinality(S) + Cardinality(T)
         /\ Len(UlidLog(S)) = Cardinality(S) /\ Cardinality(S) \in Nat
         /\ SubSeq(UlidLog(S \cup T), 1, Len(UlidLog(S))) = UlidLog(S)
<1> DEFINE m == Cardinality(S)
           n == Cardinality(T)
           L == UlidLog(S \cup T)
           K == UlidLog(S)
<1>1. /\ IsFiniteSet(S) /\ IsFiniteSet(T) /\ Cardinality(S \cup T) = m + n
      /\ \A i \in 1 .. m : Nth(S \cup T, i) = Nth(S, i)
  BY RankAppend
<1>2. Ranked(S) /\ m \in Nat /\ n \in Nat
  BY <1>1, FS_CardinalityType DEF Ranked
<1>3. L = [i \in 1 .. m + n |-> Nth(S \cup T, i).ulid]
  BY <1>1 DEF UlidLog
<1>4. K = [i \in 1 .. m |-> Nth(S, i).ulid]
  BY DEF UlidLog
<1>5. \A i \in 1 .. m + n : Nth(S \cup T, i).ulid \in Ulids
  BY <1>1, NthRank
<1>6. \A i \in 1 .. m : Nth(S, i).ulid \in Ulids
  BY <1>2, NthRank
<1> HIDE DEF m, n, L, K
<1>7. L \in Seq(Ulids) /\ Len(L) = m + n
  <2> DEFINE k == m + n
  <2>1. k \in Nat
    BY <1>2
  <2>2. L = [i \in 1 .. k |-> Nth(S \cup T, i).ulid]
    BY <1>3
  <2>3. \A i \in 1 .. k : Nth(S \cup T, i).ulid \in Ulids
    BY <1>5
  <2> HIDE DEF k
  <2>4. L \in [1 .. k -> Ulids]
    BY <2>2, <2>3
  <2>5. L \in Seq(Ulids) /\ Len(L) = k
    BY <2>1, <2>4, FunctionIsSeq
  <2> QED
    BY <2>5 DEF k
<1>8. K \in Seq(Ulids) /\ Len(K) = m
  <2>1. K \in [1 .. m -> Ulids]
    BY <1>4, <1>6
  <2> QED
    BY <1>2, <2>1, FunctionIsSeq
<1>9. ASSUME NEW i \in 1 .. m PROVE L[i] = K[i] /\ L[i] \in Ulids
  <2>1. i \in 1 .. m + n
    BY <1>2
  <2>2. L[i] = Nth(S \cup T, i).ulid /\ K[i] = Nth(S, i).ulid
    BY <1>3, <1>4, <2>1
  <2>3. Nth(S \cup T, i) = Nth(S, i)
    BY <1>1 DEF m
  <2> QED
    BY <1>5, <2>1, <2>2, <2>3
<1>10. /\ SubSeq(L, 1, m) \in Seq(Ulids) /\ Len(SubSeq(L, 1, m)) = m
       /\ \A i \in 1 .. m : SubSeq(L, 1, m)[i] = L[i]
  <2>1. /\ SubSeq(L, 1, m) \in Seq(Ulids)
        /\ Len(SubSeq(L, 1, m)) = IF 1 <= m THEN m - 1 + 1 ELSE 0
        /\ \A i \in 1 .. m - 1 + 1 : SubSeq(L, 1, m)[i] = L[1 + i - 1]
    BY <1>2, <1>9, SubSeqProperties
  <2> QED
    BY <1>2, <2>1
<1>11. SubSeq(L, 1, m) = K
  BY <1>2, <1>8, <1>9, <1>10
<1> QED
  BY <1>2, <1>7, <1>8, <1>11 DEF m, n, L, K
-----------------------------------------------------------------------------
\* The log an empty table stands for.
LEMMA LogInit == Init => Log!Init
<1> SUFFICES ASSUME Init PROVE Log!Init
  OBVIOUS
<1>1. \A c \in Chains : Committed(c) = {} /\ Sound(c)
  BY DEF Init, Committed, Sound, Overlapped, Tampered, Unkept
<1>2. UlidLog({}) = <<>>
  BY FS_EmptySet DEF UlidLog
<1>3. \A g : Replays({}, g)
  BY DEF Replays
<1>4. Logs = [c \in Chains |-> <<>>]
  BY <1>1, <1>2 DEF Logs, LogOf
<1>5. Standing = [c \in Chains |-> TRUE]
  BY <1>1 DEF Standing
<1>6. Replayable = [c \in Chains |-> TRUE]
  BY <1>1, <1>3 DEF Replayable
<1> QED
  BY <1>4, <1>5, <1>6 DEF Log!Init

\* A chain on which nothing commits keeps its rows and its standing.
LEMMA QuietChain ==
  ASSUME TypeOK, RowsInv, OverlapInv, [Next]_vars, ~OutOfBand, NEW c \in Chains,
         \A t \in Txs : Commit(t) => chainOf[t] # c
  PROVE  (Sound(c)' <=> Sound(c)) /\ Committed(c)' = Committed(c)
<1>1. Committed(c)' = Committed(c)
  BY CommitAdds
<1>2. tampered' = tampered
  BY DEF Next, TxNext, VerifierNext, Begin, ReadHead, InsertRow, Commit, Abort,
     VerifySelect, VerifyWalk, vars, tableVars
<1>3. ASSUME NEW t \in Txs, NEW u \in Txs, t # u, {t, u} \in overlap',
             chainOf'[t] = c, chainOf'[u] = c,
             status'[t] = "committed", status'[u] = "committed"
      PROVE  {t, u} \in overlap /\ status[t] = "committed" /\ status[u] = "committed"
  <2>1. chainOf' = chainOf
    BY ActorsStay
  <2>2. \A v \in Txs : status'[v] = "committed" /\ chainOf[v] = c => status[v] = "committed"
    BY DEF TypeOK, Next, TxNext, VerifierNext, Begin, ReadHead, InsertRow, Commit, Abort,
       VerifySelect, VerifyWalk, vars, txVars
  <2>3. status[t] = "committed" /\ status[u] = "committed"
    BY <1>3, <2>1, <2>2
  <2>4. CASE \E a \in Txs : Begin(a)
    <3>1. PICK a \in Txs : Begin(a)
      BY <2>4
    <3>2. overlap' = overlap \cup {{a, v} : v \in Open} /\ status[a] = "idle"
      BY <3>1 DEF Begin
    <3>3. a # t /\ a # u
      BY <2>3, <3>2
    <3> QED
      BY <1>3, <2>3, <3>2, <3>3
  <2>5. CASE ~\E a \in Txs : Begin(a)
    <3>1. overlap' = overlap
      BY <2>5 DEF Next, TxNext, VerifierNext, ReadHead, InsertRow, Commit, Abort,
         VerifySelect, VerifyWalk, vars, txVars
    <3> QED
      BY <1>3, <2>3, <3>1
  <2> QED
    BY <2>4, <2>5
<1>4. Overlapped(c)' => Overlapped(c)
  BY <1>3, ActorsStay DEF Overlapped
<1> QED
  BY <1>1, <1>2, <1>4, OverlapStays DEF Sound, Tampered, Unkept

\* A change by hand of another chain leaves this one's rows and standing.
LEMMA ForeignChain ==
  ASSUME TypeOK, NEW r \in rows, (\E p : EditRow(r, p)) \/ DeleteRow(r),
         NEW c \in Chains, c # chainOf[r.tx]
  PROVE  (Sound(c)' <=> Sound(c)) /\ Committed(c)' = Committed(c)
<1>1. Committed(c)' = Committed(c) /\ \A x \in tampered' \ tampered : x.chain # c
  BY EditEffect, DeleteEffect
<1>2. tampered \subseteq tampered' /\ txVars' = txVars
  BY DEF EditRow, DeleteRow
<1> QED
  BY <1>1, <1>2 DEF Sound, Tampered, Overlapped, Unkept, txVars

\* Such a chain stands for the same log.
LEMMA SameLog ==
  ASSUME NEW c \in Chains, Sound(c)' <=> Sound(c), Committed(c)' = Committed(c)
  PROVE  Sound(c)' = Sound(c) /\ LogOf(c)' = LogOf(c)
<1>1. Sound(c)' = Sound(c)
  BY DEF Sound
<1>2. UlidLog(Committed(c))' = UlidLog(Committed(c))
  BY DEF UlidLog, Nth, Upto
<1> QED
  BY <1>1, <1>2 DEF LogOf

\* A step that touches one chain: it stays as it is, loses its standing, or
\* has newer rows appended.
LEMMA LogStepOn ==
  ASSUME NEW c \in Chains,
         \A d \in Chains \ {c} : (Sound(d)' <=> Sound(d)) /\ Committed(d)' = Committed(d),
         Replayable = [d \in Chains |-> TRUE], Replayable' = [d \in Chains |-> TRUE],
         Sound(c)' => Sound(c),
         Sound(c)' => \E T :
           /\ Committed(c)' = Committed(c) \cup T /\ Ranked(Committed(c) \cup T)
           /\ \A r \in Committed(c) : \A s \in T : r.id < s.id
           /\ \A r \in Committed(c) \cup T : r.ulid \in Ulids
           /\ Cardinality(T) \in 1 .. MaxEvents
  PROVE  [Log!Next]_<<Logs, Standing, Replayable>>
<1>1. Replayable' = Replayable
  OBVIOUS
<1>2. \A d \in Chains \ {c} : Standing'[d] = Standing[d] /\ Logs'[d] = Logs[d]
  <2>1. \A d \in Chains \ {c} : Sound(d)' = Sound(d) /\ LogOf(d)' = LogOf(d)
    BY SameLog
  <2> QED
    BY <2>1 DEF Standing, Logs
<1>3. /\ Logs = [d \in Chains |-> Logs[d]] /\ Logs' = [d \in Chains |-> Logs'[d]]
      /\ Standing = [d \in Chains |-> Standing[d]]
      /\ Standing' = [d \in Chains |-> Standing'[d]]
  BY DEF Standing, Logs
<1>4. /\ Standing[c] = Sound(c) /\ Standing'[c] = Sound(c)'
      /\ Logs[c] = IF Sound(c) THEN UlidLog(Committed(c)) ELSE <<>>
      /\ Logs'[c] = IF Sound(c)' THEN UlidLog(Committed(c)') ELSE <<>>
  <2>1. Standing[c] = Sound(c) /\ Standing'[c] = Sound(c)'
    BY DEF Standing
  <2>2. Logs[c] = LogOf(c) /\ Logs'[c] = LogOf(c)'
    BY DEF Logs
  <2>3. UlidLog(Committed(c))' = UlidLog(Committed(c)')
    BY DEF UlidLog, Nth, Upto
  <2> QED
    BY <2>1, <2>2, <2>3 DEF LogOf
<1>5. CASE ~Sound(c)
  <2>1. Sound(c)' = Sound(c)
    BY <1>5 DEF Sound
  <2>2. Logs'[c] = Logs[c] /\ Standing'[c] = Standing[c]
    BY <1>4, <1>5, <2>1
  <2>3. Logs' = Logs /\ Standing' = Standing
    BY <1>2, <1>3, <2>2
  <2> QED
    BY <1>1, <2>3
<1>6. CASE Sound(c) /\ ~Sound(c)'
  <2>1. Standing[c] /\ Logs'[c] = <<>> /\ Standing'[c] = FALSE
    BY <1>4, <1>6
  <2>2. Standing' = [Standing EXCEPT ![c] = FALSE]
    BY <1>2, <1>3, <2>1
  <2>3. Logs' = [Logs EXCEPT ![c] = <<>>]
    BY <1>2, <1>3, <2>1
  <2>4. Log!Forfeit(c)
    BY <1>1, <2>1, <2>2, <2>3 DEF Log!Forfeit
  <2> QED
    BY <2>4 DEF Log!Next
<1>7. CASE Sound(c)'
  <2>1. PICK T :
           /\ Committed(c)' = Committed(c) \cup T /\ Ranked(Committed(c) \cup T)
           /\ \A r \in Committed(c) : \A s \in T : r.id < s.id
           /\ \A r \in Committed(c) \cup T : r.ulid \in Ulids
           /\ Cardinality(T) \in 1 .. MaxEvents
    BY <1>7
  <2>2. Logs[c] = UlidLog(Committed(c)) /\ Logs'[c] = UlidLog(Committed(c) \cup T)
    BY <1>4, <1>7, <2>1
  <2>3. /\ Logs'[c] \in Seq(Ulids)
        /\ Len(Logs'[c]) = Cardinality(Committed(c)) + Cardinality(T)
        /\ Len(Logs[c]) = Cardinality(Committed(c)) /\ Cardinality(Committed(c)) \in Nat
        /\ SubSeq(Logs'[c], 1, Len(Logs[c])) = Logs[c]
    BY <2>1, <2>2, LogAppend
  <2>4. Len(Logs'[c]) - Len(Logs[c]) \in 1 .. MaxEvents
    BY <2>1, <2>3
  <2>5. Logs' = [Logs EXCEPT ![c] = Logs'[c]]
    BY <1>2, <1>3
  <2>6. Standing[c] /\ Standing' = Standing
    BY <1>2, <1>3, <1>4, <1>7
  <2>7. Log!Record(c)
    BY <1>1, <2>3, <2>4, <2>5, <2>6 DEF Log!Record
  <2> QED
    BY <2>7 DEF Log!Next
<1> QED
  BY <1>5, <1>6, <1>7

\* Whatever has not forfeited replays.
LEMMA SoundReplays == VerifiesUnlessOverlapped => Replayable = [d \in Chains |-> TRUE]
<1> SUFFICES ASSUME VerifiesUnlessOverlapped, NEW d \in Chains, Sound(d)
             PROVE  Replays(Committed(d), Genesis(d))
  BY DEF Replayable
<1> QED
  BY DEF VerifiesUnlessOverlapped, Sound, Unkept, Replays

\* Every step of the table is a step of the log, or none: the commit of a
\* transaction appends its rows, an overlap, a change by hand or an event that
\* the database does not keep forfeits.
LEMMA LogStep ==
  ASSUME TypeOK, RowsInv, OverlapInv, CountInv, [Next]_vars,
         Replayable = [d \in Chains |-> TRUE], Replayable' = [d \in Chains |-> TRUE]
  PROVE  [Log!Next]_<<Logs, Standing, Replayable>>
<1>1. ASSUME NEW c \in Chains, Sound(c)' PROVE Sound(c)
  <2>1. ~Tampered(c) /\ ~Overlapped(c)
    BY <1>1, TamperStays, OverlapStays DEF Sound, Tampered
  <2>2. Committed(c) \subseteq Committed(c)'
    BY <1>1, CommittedGrows, OutOfBandEffect DEF Sound, Grown
  <2> QED
    BY <1>1, <2>1, <2>2 DEF Sound, Unkept
<1>2. CASE ~OutOfBand /\ \A t \in Txs : ~Commit(t)
  <2>1. \A c \in Chains : (Sound(c)' <=> Sound(c)) /\ Committed(c)' = Committed(c)
    BY <1>2, QuietChain
  <2>2. \A c \in Chains : Sound(c)' = Sound(c) /\ LogOf(c)' = LogOf(c)
    BY <2>1, SameLog
  <2>3. Logs' = Logs /\ Standing' = Standing
    BY <2>2 DEF Logs, Standing
  <2> QED
    BY <2>3
<1>3. ASSUME NEW t \in Txs, Commit(t), ~OutOfBand
      PROVE  [Log!Next]_<<Logs, Standing, Replayable>>
  <2> SUFFICES ASSUME NEW c, c = chainOf[t] PROVE [Log!Next]_<<Logs, Standing, Replayable>>
    OBVIOUS
  <2>1. c \in Chains
    BY DEF TypeOK
  <2>2. \A u \in Txs : Commit(u) => u = t
    BY <1>3 DEF Commit, TypeOK
  <2>3. \A d \in Chains \ {c} : (Sound(d)' <=> Sound(d)) /\ Committed(d)' = Committed(d)
    BY <1>3, <2>2, QuietChain
  <2>4. /\ Committed(c)' = Committed(c) \cup RowsOf(t)
        /\ ~Overlapped(c)' => \A r \in Committed(c) : \A s \in RowsOf(t) : r.id < s.id
    <3>1. /\ rows' = rows /\ chainOf' = chainOf
          /\ status' = [status EXCEPT ![t] = "committed"]
      BY <1>3 DEF Commit, tableVars
    <3>2. Committed(c)' = Committed(c) \cup RowsOf(t)
      BY <3>1 DEF Committed, RowsOf, TypeOK, Rows
    <3> QED
      BY <1>3, <2>1, <3>2, CommitNewer
  <2>5. /\ Ranked(Committed(c) \cup RowsOf(t))
        /\ \A r \in Committed(c) \cup RowsOf(t) : r.ulid \in Ulids
    <3>1. Committed(c) \cup RowsOf(t) \subseteq rows
      BY DEF Committed, RowsOf
    <3>2. IsFiniteSet(Committed(c) \cup RowsOf(t))
      BY <3>1, RowsFinite DEF CountInv
    <3> QED
      BY <3>1, <3>2 DEF Ranked, TypeOK, Rows, RowsInv
  <2>6. Cardinality(RowsOf(t)) \in 1 .. MaxEvents
    <3>1. IsFiniteSet(RowsOf(t)) /\ Cardinality(RowsOf(t)) \in Nat
      BY RowsFinite DEF CountInv, RowsOf
    <3>2. Cardinality(RowsOf(t)) # 0
      BY <1>3, <3>1, FS_EmptySet DEF Commit
    <3> QED
      BY <3>1, <3>2, AuditAssumption DEF CountInv
  <2>7. Sound(c)' => ~Overlapped(c)'
    BY DEF Sound
  <2> QED
    BY <1>1, <2>1, <2>3, <2>4, <2>5, <2>6, <2>7, LogStepOn
<1>4. ASSUME NEW r \in rows, (\E p : EditRow(r, p)) \/ DeleteRow(r)
      PROVE  [Log!Next]_<<Logs, Standing, Replayable>>
  <2> SUFFICES ASSUME NEW c, c = chainOf[r.tx]
               PROVE  [Log!Next]_<<Logs, Standing, Replayable>>
    OBVIOUS
  <2>1. c \in Chains
    BY DEF TypeOK, Rows
  <2>2. \A d \in Chains \ {c} : (Sound(d)' <=> Sound(d)) /\ Committed(d)' = Committed(d)
    BY <1>4, ForeignChain
  <2>3. ~Sound(c)'
    <3>1. Tampered(c)'
      BY <1>4, <2>1, EditEffect, DeleteEffect
    <3> QED
      BY <3>1 DEF Sound
  <2> QED
    BY <1>1, <2>1, <2>2, <2>3, LogStepOn
<1> QED
  BY <1>2, <1>3, <1>4 DEF OutOfBand

\* For any number of transactions, chains and events the AuditEvent table
\* implements the append-only log of ADR-0008: every prefix replays, blocks are
\* appended whole and in order, until a chain forfeits by an overlap, a change by
\* hand or an event with an undefined key.
THEOREM TableImplementsLog == Spec => ImplementsLog
<1> DEFINE Kept == Replayable = [d \in Chains |-> TRUE]
<1>1. Init => IInv /\ CountInv
  <2>1. Init => CountInv
    <3> SUFFICES ASSUME Init PROVE CountInv
      OBVIOUS
    <3>1. rows = {} /\ \A t \in Txs : RowsOf(t) = {} /\ ~call[t].reading
      BY DEF Init, RowsOf, NoCall
    <3> QED
      BY <3>1, FS_EmptySet, AuditAssumption DEF CountInv
  <2> QED
    BY <2>1, IInvInit
<1>2. IInv /\ CountInv /\ [Next]_vars => (IInv /\ CountInv)'
  BY IInvStep, CountStep DEF IInv
<1>3. IInv => Kept
  BY SoundVerifies, SoundReplays
<1>4. IInv /\ CountInv /\ Kept /\ Kept' /\ [Next]_vars
      => [Log!Next]_<<Logs, Standing, Replayable>>
  BY LogStep DEF IInv
<1> HIDE DEF Kept
<1> QED
  BY <1>1, <1>2, <1>3, <1>4, LogInit, PTL DEF Spec, ImplementsLog, Log!Spec
=============================================================================
