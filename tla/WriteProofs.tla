----------------------------- MODULE WriteProofs -----------------------------
(***************************************************************************)
(* The writes of the field and of the administrators, for every number of  *)
(* handlers and rows. RowEdits: what a read-then-write of one row may      *)
(* undo, and what its audit trail replays. KnockIngest: the answers a      *)
(* phone gets for the batches it resends.                                  *)
(***************************************************************************)
EXTENDS RowEdits, KnockIngest, FiniteSetTheorems, SequenceTheorems, TLAPS

-----------------------------------------------------------------------------
\* One row, read and then written (RowEdits).

\* What all edits have in common.  An edit that sets a status sets a terminal one or stops at
\* all terminal ones, and only that of a territory takes a status from its request.
LEMMA EditFacts ==
  ASSUME NEW e \in Edits
  PROVE  /\ e.table \in DOMAIN Statuses
         /\ e.asks \subseteq Fields
         /\ e.tells \subseteq Fields
         /\ DOMAIN e.sets \subseteq {"status"}
         /\ "status" \in DOMAIN e.sets => e.sets["status"] \in Statuses[e.table]
         /\ e.table # "territory" => "status" \notin e.asks
         /\ "status" \in DOMAIN e.sets /\ e.sets["status"] \notin Terminal =>
              Statuses[e.table] \cap Terminal \subseteq e.stops
<1>. USE DEF Edit, Moves, Fields, Nothing, Statuses, Terminal
<1>1. CASE e = PauseDonation
  BY <1>1 DEF PauseDonation
<1>2. CASE e = CancelDonation
  BY <1>2 DEF CancelDonation
<1>3. CASE e = ChangeDonationAmount
  BY <1>3 DEF ChangeDonationAmount
<1>4. CASE e = InstallerHandoff
  BY <1>4 DEF InstallerHandoff
<1>5. CASE e = UpdateOrg
  BY <1>5 DEF UpdateOrg
<1>6. CASE e = ArchiveOrg
  BY <1>6 DEF ArchiveOrg
<1>7. CASE e = UpsertBrandKit
  BY <1>7 DEF UpsertBrandKit
<1>8. CASE e = UpdateBilling
  BY <1>8 DEF UpdateBilling
<1>9. CASE e = UpdateTerritory
  BY <1>9 DEF UpdateTerritory
<1>10. CASE e = RemoveAssignment
  BY <1>10 DEF RemoveAssignment
<1>11. CASE e = RotateSecret
  BY <1>11 DEF RotateSecret
<1>12. CASE e = SoftDeleteEndpoint
  BY <1>12 DEF SoftDeleteEndpoint
<1>13. CASE e = UpdateUser
  BY <1>13 DEF UpdateUser
<1>14. CASE e = EndSession
  BY <1>14 DEF EndSession
<1>15. CASE e = UpsertSsoConfiguration
  BY <1>15 DEF UpsertSsoConfiguration
<1>16. CASE e = SetSsoProvider
  BY <1>16 DEF SetSsoProvider
<1>17. CASE e = ActivateSso
  BY <1>17 DEF ActivateSso
<1>18. CASE e = RevokeSso
  BY <1>18 DEF RevokeSso
<1>. QED
  BY <1>1, <1>2, <1>3, <1>4, <1>5, <1>6, <1>7, <1>8, <1>9, <1>10,
     <1>11, <1>12, <1>13, <1>14, <1>15, <1>16, <1>17, <1>18 DEF Edits

\* A request gives some of the columns the edit takes, each with a value of that column.
LEMMA RequestFacts ==
  ASSUME NEW e \in Edits, NEW q \in RequestsOf(e)
  PROVE  /\ DOMAIN q \subseteq e.asks
         /\ \A f \in DOMAIN q : \E r \in Rows(e.table) : q[f] = r[f]
  BY DEF RequestsOf, Nothing

\* An update leaves a row of its table.
LEMMA WrittenType ==
  ASSUME NEW e \in Edits, NEW q \in RequestsOf(e), e.table = table,
         row \in Rows(table), NEW read \in Rows(table)
  PROVE  Written(e, q, read) \in Rows(table)
<1>. DEFINE w == Written(e, q, read)
<1>1. /\ DOMAIN q \subseteq e.asks
      /\ \A f \in DOMAIN q : \E r \in Rows(table) : q[f] = r[f]
  BY RequestFacts
<1>2. /\ DOMAIN e.sets \subseteq {"status"}
      /\ "status" \in DOMAIN e.sets => e.sets["status"] \in Statuses[table]
  BY EditFacts
<1>3. w["status"] \in Statuses[table]
  BY <1>1, <1>2 DEF Written, Rows, Fields
<1>4. w["one"] \in Values /\ w["two"] \in Values
  BY <1>1, <1>2 DEF Written, Rows, Fields
<1>5. w = [f \in {"status", "one", "two"} |-> w[f]]
  BY DEF Written, Fields
<1>. HIDE DEF w
<1>6. w \in Rows(table)
  BY <1>3, <1>4, <1>5 DEF Rows
<1>. QED
  BY <1>6 DEF w

\* An edit of a row in a terminal status leaves it in one, if it had read one, too, and gone on.
LEMMA StaysTerminal ==
  ASSUME NEW e \in Edits, NEW q \in RequestsOf(e), e.table = table, table # "territory",
         row \in Rows(table), row.status \in Terminal,
         NEW read \in Rows(table), read.status \in Terminal, read.status \notin e.stops
  PROVE  Written(e, q, read).status \in Terminal
<1>1. "status" \notin DOMAIN q
  BY EditFacts, RequestFacts
<1>2. read.status \in Statuses[table]
  BY DEF Rows
<1>3. "status" \in DOMAIN e.sets => e.sets["status"] \in Terminal
  BY <1>2, EditFacts
<1>. QED
  BY <1>1, <1>3 DEF Written, Fields

\* A column that an update neither asks for nor sets keeps its contents, unless it is one that
\* is written back and the row has changed since it was read.
LEMMA UntouchedStays ==
  ASSUME NEW e, NEW q, NEW read, NEW f \in Fields \ Touched(e, q),
         f \notin e.keeps \/ read = row
  PROVE  Written(e, q, read)[f] = row[f]
  BY DEF Written, Touched

\* The row after the first n edits of a trail that begins with row r.
RowAt(r, t, n) == IF n = 0 THEN r ELSE t[n].now

\* A handler at its transaction has read what the row was after readAt edits, and that did
\* not stop it.
WritersInv ==
  \A h \in Handlers : handler[h].pc = "writing" =>
    LET r == handler[h] IN
      /\ r.request \in RequestsOf(r.edit)
      /\ r.read = RowAt(first, trail, r.readAt)
      /\ r.read.status \notin r.edit.stops

\* An entry starts from the row the last one left and tells what it wrote; what had read a
\* terminal status and found one left one.
TrailInv ==
  \A n \in 1 .. Len(trail) :
    LET c == trail[n] IN
      /\ c.was = RowAt(first, trail, n - 1)
      /\ \A f \in DOMAIN c.told : c.told[f] = c.now[f]
      /\ table # "territory" /\ RowAt(first, trail, c.readAt).status \in Terminal
           /\ c.was.status \in Terminal
           => c.now.status \in Terminal

\* The types, with handler and trail as a function and a sequence; the row as the replay of its
\* trail; and what writers and trail entries carry.
EditIInv ==
  /\ EditTypeOK
  /\ handler = [h \in Handlers |-> handler[h]]
  /\ trail \in Seq({trail[n] : n \in DOMAIN trail})
  /\ row = RowAt(first, trail, Len(trail))
  /\ WritersInv
  /\ TrailInv
  /\ AuditReplays

\* The invariant holds for a row that has just been created.
LEMMA InitEditIInv == EditInit => EditIInv
<1>. SUFFICES ASSUME EditInit PROVE EditIInv
  OBVIOUS
<1>1. trail = <<>> /\ Len(trail) = 0 /\ DOMAIN trail = {} /\ row = first
  BY DEF EditInit
<1>2. \A h \in Handlers : handler[h].pc = "start"
  BY DEF EditInit, NotStarted
<1>3. EditTypeOK
  BY <1>1, <1>2 DEF EditInit, EditTypeOK
<1>4. AuditReplays
  BY <1>1 DEF AuditReplays, AsLastTold
<1>. QED
  BY <1>1, <1>2, <1>3, <1>4 DEF EditIInv, EditInit, RowAt, WritersInv, TrailInv

\* An entry that is appended comes last and leaves the others.
LEMMA AppendedStep ==
  ASSUME trail \in Seq({trail[n] : n \in DOMAIN trail}), NEW c, trail' = Append(trail, c)
  PROVE  /\ Len(trail) \in Nat /\ Len(trail') = Len(trail) + 1
         /\ DOMAIN trail = 1 .. Len(trail) /\ DOMAIN trail' = 1 .. Len(trail) + 1
         /\ trail'[Len(trail) + 1] = c
         /\ \A n \in 1 .. Len(trail) : trail'[n] = trail[n]
         /\ trail' \in Seq({trail'[n] : n \in DOMAIN trail'})
<1>. DEFINE S == {trail[n] : n \in DOMAIN trail} \cup {c}
<1>1. trail \in Seq(S)
  BY SMT
<1>2. trail' \in Seq(S)
  BY <1>1, SMT
<1>3. /\ Len(trail) \in Nat /\ Len(trail') = Len(trail) + 1
      /\ DOMAIN trail = 1 .. Len(trail) /\ DOMAIN trail' = 1 .. Len(trail) + 1
      /\ trail'[Len(trail) + 1] = c
      /\ \A n \in 1 .. Len(trail) : trail'[n] = trail[n]
  BY <1>1, SMT
<1>4. trail' \in Seq({trail'[n] : n \in DOMAIN trail'})
  BY <1>2, SMT
<1>. QED
  BY <1>3, <1>4

\* A request that reads the row, and stops or carries it to its transaction, keeps the invariant.
LEMMA ReadKeepsEdit ==
  ASSUME EditIInv, NEW h \in Handlers, NEW e \in Edits, Read(h, e)
  PROVE  EditIInv'
<1>1. PICK q \in RequestsOf(e) :
        handler' = [handler EXCEPT ![h] =
          IF row.status \in e.stops THEN Finished
          ELSE [pc |-> "writing", edit |-> e, request |-> q, read |-> row,
                readAt |-> Len(trail)]]
  BY DEF Read
<1>2. /\ UNCHANGED <<table, row, first, trail>> /\ e.table = table
      /\ handler = [g \in Handlers |-> handler[g]]
  BY DEF Read, EditIInv
<1>3. /\ handler' = [g \in Handlers |-> handler'[g]]
      /\ \A g \in Handlers \ {h} : handler'[g] = handler[g]
  BY <1>1, <1>2
<1>4. handler'[h].pc = "writing" =>
        /\ handler'[h].edit = e /\ handler'[h].request = q /\ handler'[h].read = row
        /\ handler'[h].readAt = Len(trail) /\ row.status \notin e.stops
  BY <1>1, <1>2 DEF Finished
<1>5. row \in Rows(table) /\ row = RowAt(first, trail, Len(trail)) /\ Len(trail) \in 0 .. Len(trail)
  BY DEF EditIInv, EditTypeOK
<1>6. EditTypeOK'
  BY <1>2, <1>3, <1>4, <1>5 DEF EditIInv, EditTypeOK
<1>7. WritersInv'
  BY <1>2, <1>3, <1>4, <1>5 DEF EditIInv, WritersInv, RowAt
<1>. QED
  BY <1>2, <1>3, <1>6, <1>7 DEF EditIInv, TrailInv, RowAt, AuditReplays, Audited,
      WrittenBackStale, AsLastTold

\* A transaction that finds the row in a state where it changes nothing.
LEMMA EndKeepsEdit ==
  ASSUME EditIInv, NEW h \in Handlers, handler' = [handler EXCEPT ![h] = Finished],
         UNCHANGED <<table, row, first, trail>>
  PROVE  EditIInv'
<1>1. /\ handler' = [g \in Handlers |-> handler'[g]]
      /\ \A g \in Handlers : handler'[g].pc = "writing" => handler'[g] = handler[g]
  BY DEF EditIInv, Finished
<1>2. EditTypeOK'
  BY <1>1 DEF EditIInv, EditTypeOK
<1>3. WritersInv'
  BY <1>1 DEF EditIInv, WritersInv, RowAt
<1>. QED
  BY <1>1, <1>2, <1>3 DEF EditIInv, TrailInv, RowAt, AuditReplays, Audited,
      WrittenBackStale, AsLastTold

\* A transaction that writes the row and its entry.
LEMMA WriteKeepsEdit ==
  ASSUME EditIInv, NEW h \in Handlers, Write(h), row.status \in handler[h].edit.where
  PROVE  EditIInv'
<1>. DEFINE e == handler[h].edit
            q == handler[h].request
            read == handler[h].read
            at == handler[h].readAt
            next == Written(e, q, read)
            told == [f \in e.tells \cap Touched(e, q) |-> next[f]]
            entry == [was |-> row, now |-> next, readAt |-> at, keeps |-> e.keeps, told |-> told]
            n1 == Len(trail) + 1
<1>a. /\ handler[h].pc = "writing" /\ row' = next /\ trail' = Append(trail, entry)
      /\ handler' = [handler EXCEPT ![h] = Finished] /\ UNCHANGED <<table, first>>
  BY DEF Write
<1>b. /\ table \in DOMAIN Statuses /\ row \in Rows(table) /\ first \in Rows(table)
      /\ e \in Edits /\ e.table = table /\ read \in Rows(table) /\ at \in 0 .. Len(trail)
      /\ q \in RequestsOf(e) /\ read = RowAt(first, trail, at) /\ read.status \notin e.stops
  BY <1>a DEF EditIInv, EditTypeOK, WritersInv
<1>c. next \in Rows(table)
  BY <1>b, WrittenType
<1>d. /\ Len(trail) \in Nat /\ Len(trail') = n1
      /\ DOMAIN trail = 1 .. Len(trail) /\ DOMAIN trail' = 1 .. n1
      /\ trail'[n1] = entry
      /\ \A n \in 1 .. Len(trail) : trail'[n] = trail[n]
      /\ trail' \in Seq({trail'[n] : n \in DOMAIN trail'})
  BY <1>a, AppendedStep DEF EditIInv
<1>e. /\ handler' = [g \in Handlers |-> handler'[g]]
      /\ \A g \in Handlers : handler'[g].pc = "writing" => handler'[g] = handler[g]
  BY <1>a DEF EditIInv, Finished
<1>f. \A n \in 0 .. Len(trail) : RowAt(first', trail', n) = RowAt(first, trail, n)
  BY <1>a, <1>d DEF RowAt
<1>g. /\ entry.was = row /\ entry.now = next /\ entry.readAt = at /\ entry.keeps = e.keeps
      /\ entry.told = told
  OBVIOUS
<1>h. row = RowAt(first, trail, Len(trail)) /\ row' = RowAt(first', trail', n1)
  BY <1>a, <1>d, <1>g DEF EditIInv, RowAt
<1>. HIDE DEF next, told, entry
<1>1. EditTypeOK'
  <2>1. \A g \in Handlers : handler'[g].pc = "writing" =>
          /\ handler'[g].edit \in Edits /\ handler'[g].edit.table = table'
          /\ handler'[g].read \in Rows(table')
          /\ handler'[g].readAt \in 0 .. Len(trail')
    BY <1>a, <1>d, <1>e DEF EditIInv, EditTypeOK
  <2>2. \A n \in DOMAIN trail' :
          /\ {trail'[n].was, trail'[n].now} \subseteq Rows(table')
          /\ trail'[n].readAt \in 0 .. n - 1
    <3>1. \A n \in 1 .. Len(trail) :
            /\ {trail[n].was, trail[n].now} \subseteq Rows(table)
            /\ trail[n].readAt \in 0 .. n - 1
      BY <1>d DEF EditIInv, EditTypeOK
    <3>2. /\ {trail'[n1].was, trail'[n1].now} \subseteq Rows(table)
          /\ trail'[n1].readAt \in 0 .. n1 - 1
      BY <1>b, <1>c, <1>d, <1>g
    <3>. QED
      BY <1>a, <1>d, <3>1, <3>2
  <2>. QED
    BY <1>a, <1>b, <1>c, <2>1, <2>2 DEF EditTypeOK
<1>2. WritersInv'
  BY <1>b, <1>d, <1>e, <1>f DEF EditIInv, EditTypeOK, WritersInv
<1>3. TrailInv'
  <2>1. ASSUME NEW n \in 1 .. Len(trail)
        PROVE  /\ trail'[n].was = RowAt(first', trail', n - 1)
               /\ \A f \in DOMAIN trail'[n].told : trail'[n].told[f] = trail'[n].now[f]
               /\ table' # "territory"
                    /\ RowAt(first', trail', trail'[n].readAt).status \in Terminal
                    /\ trail'[n].was.status \in Terminal
                    => trail'[n].now.status \in Terminal
    <3>1. trail'[n] = trail[n] /\ trail[n].readAt \in 0 .. Len(trail) /\ n - 1 \in 0 .. Len(trail)
      BY <1>d DEF EditIInv, EditTypeOK
    <3>. QED
      BY <1>a, <1>f, <3>1 DEF EditIInv, TrailInv
  <2>2. /\ trail'[n1].was = RowAt(first', trail', n1 - 1)
        /\ \A f \in DOMAIN trail'[n1].told : trail'[n1].told[f] = trail'[n1].now[f]
        /\ table' # "territory" /\ RowAt(first', trail', trail'[n1].readAt).status \in Terminal
             /\ trail'[n1].was.status \in Terminal
             => trail'[n1].now.status \in Terminal
    <3>1. n1 - 1 = Len(trail) /\ Len(trail) \in 0 .. Len(trail)
      BY <1>d
    <3>2. trail'[n1].was = RowAt(first', trail', n1 - 1)
      BY <1>d, <1>f, <1>g, <1>h, <3>1
    <3>3. \A f \in DOMAIN told : told[f] = next[f]
      BY DEF told
    <3>4. table # "territory" /\ read.status \in Terminal /\ row.status \in Terminal
            => next.status \in Terminal
      BY <1>b, StaysTerminal DEF next
    <3>5. RowAt(first', trail', at) = read
      BY <1>b, <1>f
    <3>. QED
      BY <1>a, <1>d, <1>g, <3>2, <3>3, <3>4, <3>5
  <2>3. 1 .. Len(trail') = 1 .. Len(trail) \cup {n1}
    BY <1>d
  <2>. QED
    BY <2>1, <2>2, <2>3, Zenon DEF TrailInv
<1>4. AuditReplays'
  <2>. SUFFICES ASSUME NEW f \in Audited', ~WrittenBackStale(f)' PROVE AsLastTold(f)'
    BY DEF AuditReplays
  <2>1. f \in Audited /\ f \in Fields
    BY <1>a DEF Audited
  <2>2. ~WrittenBackStale(f) /\ ~(f \in e.keeps /\ at < n1 - 1)
    <3>1. \A i \in DOMAIN trail' : ~(f \in trail'[i].keeps /\ trail'[i].readAt < i - 1)
      BY DEF WrittenBackStale
    <3>2. n1 \in DOMAIN trail' /\ trail'[n1].keeps = e.keeps /\ trail'[n1].readAt = at
      BY <1>d, <1>g
    <3>3. \A i \in DOMAIN trail : i \in DOMAIN trail' /\ trail'[i] = trail[i]
      BY <1>d
    <3>. QED
      BY <3>1, <3>2, <3>3 DEF WrittenBackStale
  <2>3. AsLastTold(f)
    BY <2>1, <2>2 DEF EditIInv, AuditReplays
  <2>4. f \notin e.keeps \/ read = row
    <3>1. at < n1 - 1 \/ at = Len(trail)
      BY <1>b, <1>d
    <3>. QED
      BY <1>b, <1>h, <2>2, <3>1
  <2>. DEFINE before == {i \in DOMAIN trail : f \in DOMAIN trail[i].told}
              telling == {i \in DOMAIN trail' : f \in DOMAIN trail'[i].told}
  <2>5. telling = before \cup {i \in {n1} : f \in DOMAIN told}
    BY <1>d, <1>g
  <2>6. CASE f \in DOMAIN told
    <3>1. n1 \in telling /\ \A j \in telling : j <= n1
      BY <1>d, <2>5, <2>6
    <3>2. row'[f] = trail'[n1].told[f]
      BY <1>a, <1>d, <1>g, <2>6 DEF told
    <3>. QED
      BY <3>1, <3>2 DEF AsLastTold
  <2>7. CASE f \notin DOMAIN told
    <3>1. f \notin Touched(e, q)
      <4>1. DOMAIN q \subseteq e.asks
        BY <1>b, RequestFacts
      <4>2. f \in e.asks \cup DOMAIN e.sets => f \in e.tells
        BY <1>b, <2>1 DEF Audited
      <4>. QED
        BY <2>7, <4>1, <4>2 DEF told, Touched
    <3>2. row'[f] = row[f]
      BY <1>a, <2>1, <2>4, <3>1, UntouchedStays DEF next
    <3>3. telling = before
      BY <2>5, <2>7
    <3>4. CASE before = {}
      BY <1>a, <2>3, <3>2, <3>3, <3>4 DEF AsLastTold
    <3>5. CASE before # {}
      <4>1. PICK i \in before : (\A j \in before : j <= i) /\ row[f] = trail[i].told[f]
        BY <2>3, <3>5 DEF AsLastTold
      <4>2. trail'[i] = trail[i]
        BY <1>d
      <4>. QED
        BY <3>2, <3>3, <4>1, <4>2 DEF AsLastTold
    <3>. QED
      BY <3>4, <3>5
  <2>. QED
    BY <2>6, <2>7
<1>. QED
  BY <1>1, <1>2, <1>3, <1>4, <1>d, <1>e, <1>h DEF EditIInv

\* Every step keeps the invariant.
LEMMA NextEditIInv == EditIInv /\ [EditNext]_editVars => EditIInv'
<1>. SUFFICES ASSUME EditIInv, [EditNext]_editVars PROVE EditIInv'
  OBVIOUS
<1>1. ASSUME NEW h \in Handlers, NEW e \in Edits, Read(h, e) PROVE EditIInv'
  BY <1>1, ReadKeepsEdit
<1>2. ASSUME NEW h \in Handlers, Write(h) PROVE EditIInv'
  <2>1. CASE row.status \in handler[h].edit.where
    BY <1>2, <2>1, WriteKeepsEdit
  <2>2. CASE row.status \notin handler[h].edit.where
    BY <1>2, <2>2, EndKeepsEdit DEF Write
  <2>. QED
    BY <2>1, <2>2
<1>3. CASE UNCHANGED editVars
  <2>1. EditTypeOK' /\ WritersInv' /\ TrailInv'
    BY <1>3 DEF editVars, EditIInv, EditTypeOK, WritersInv, TrailInv
  <2>2. AuditReplays'
    BY <1>3 DEF editVars, EditIInv, AuditReplays, Audited, WrittenBackStale, AsLastTold
  <2>. QED
    BY <1>3, <2>1, <2>2 DEF editVars, EditIInv
<1>. QED
  BY <1>1, <1>2, <1>3 DEF EditNext

\* Row, handlers and trail keep their types, whatever table and edits.
THEOREM EditTypeCorrect == EditSpec => []EditTypeOK
<1>1. EditIInv => EditTypeOK
  BY DEF EditIInv
<1>. QED
  BY InitEditIInv, NextEditIInv, <1>1, PTL DEF EditSpec

\* For any number of requests on a row of any table, whatever they write: only an edit that had
\* read the row before it was cancelled, archived, ended or revoked takes it back.
THEOREM TerminalUnlessOverlapped == EditSpec => []UndoneOnlyByOverlap
<1>1. EditIInv => UndoneOnlyByOverlap
  <2>. SUFFICES ASSUME EditIInv, table # "territory",
                       NEW i \in DOMAIN trail, NEW j \in DOMAIN trail, i < j,
                       \A k \in i .. j - 1 : trail[k].now.status \in Terminal,
                       trail[j].now.status \notin Terminal
                PROVE  trail[j].readAt < i
    BY DEF UndoneOnlyByOverlap
  <2>1. DOMAIN trail = 1 .. Len(trail) /\ Len(trail) \in Nat
    BY DEF EditIInv
  <2>2. trail[j].readAt \in 0 .. j - 1
    BY DEF EditIInv, EditTypeOK
  <2>3. trail[j].was.status \in Terminal
    <3>1. j - 1 \in i .. j - 1 /\ j - 1 # 0
      BY <2>1
    <3>2. trail[j].was = trail[j - 1].now
      BY <2>1, <3>1 DEF EditIInv, TrailInv, RowAt
    <3>. QED
      BY <3>1, <3>2
  <2>4. RowAt(first, trail, trail[j].readAt).status \notin Terminal
    BY <2>1, <2>3 DEF EditIInv, TrailInv
  <2>. QED
    BY <2>1, <2>2, <2>4 DEF RowAt
<1>. QED
  BY InitEditIInv, NextEditIInv, <1>1, PTL DEF EditSpec

\* For any number of requests, the AuditEvents of a row replay to each of its audited columns,
\* unless an edit that writes that column back was overtaken.
THEOREM EditsReplay == EditSpec => []AuditReplays
<1>1. EditIInv => AuditReplays
  BY DEF EditIInv
<1>. QED
  BY InitEditIInv, NextEditIInv, <1>1, PTL DEF EditSpec

-----------------------------------------------------------------------------
\* Batches of knocks (KnockIngest).

\* What handler p carries, r, fits the rows that are there: the knocks it left out are stored,
\* those of its transaction are not, and no more are its addresses, which have its own ids.
Fits(p, r) ==
  /\ r.want \subseteq Firsts(p) /\ r.newKnocks \subseteq r.want
  /\ r.pc \in {"addresses", "knocks"} => r.todo \subseteq r.want
  /\ r.pc \in {"idle", "resolving"} => r.newKnocks = {} /\ r.newAddresses = {}
  /\ r.pc \in {"resolving", "addresses", "knocks", "committed"} =>
       \A i \in Firsts(p) \ r.want : Stored(Key(p, i))
  /\ r.pc \in {"addresses", "knocks"} =>
       /\ \A h \in Hashes : r.addr[h] # None
       /\ \A h \in r.newAddresses : address[h] = None /\ r.addr[h] = NewId(p, h)
       /\ \A i \in r.newKnocks : ~Stored(Key(p, i))
  /\ r.pc = "addresses" => \A i \in r.todo : r.addr[Hash(p, i)] = NewId(p, Hash(p, i))
  /\ r.pc = "knocks" => \A i \in r.want : i \in r.todo \/ i \in r.newKnocks \/ Stored(Key(p, i))
  /\ r.pc = "committed" => \A i \in r.want : Stored(Key(p, i))

\* Two open transactions hold rows of their own.
Apart(p, q) ==
  InTransaction(p) /\ InTransaction(q) =>
    /\ post[p].newAddresses \cap post[q].newAddresses = {}
    /\ \A i \in post[p].newKnocks, j \in post[q].newKnocks : Key(p, i) # Key(q, j)

\* A knock has an address.
Housed == \A n \in knocks : n.address # None

\* Transactions in flight keep apart, every stored knock has an address, and the two properties
\* hold: each of these needs the others to be kept.
KnockIInv ==
  /\ KnockTypeOK
  /\ \A p \in Posts : Fits(p, post[p])
  /\ \A p, q \in Posts : p # q => Apart(p, q)
  /\ Housed
  /\ KnockOnRecord
  /\ AnsweredMeansStored

\* A set of natural numbers has a least one.
LEMMA LeastNumber ==
  ASSUME NEW T, T \subseteq Nat, T # {}
  PROVE  \E x \in T : \A y \in T : x <= y
<1>1. PICK x \in T : \A y \in T : <<y, x>> \notin OpToRel(<, Nat)
  BY WFMin, NatLessThanWellFounded
<1>2. ASSUME NEW y \in T PROVE x <= y
  <2>1. x \in Nat /\ y \in Nat
    OBVIOUS
  <2>2. ~(y < x)
    BY <1>1, <2>1 DEF OpToRel
  <2>. QED
    BY <2>1, <2>2, SMT
<1>. QED
  BY <1>2

\* The positions of a POST, their keys and their hashes.
LEMMA PayloadFacts ==
  ASSUME NEW p \in Posts
  PROVE  /\ Len(Payload[p]) \in Nat /\ DOMAIN Payload[p] = 1 .. Len(Payload[p])
         /\ Firsts(p) \subseteq DOMAIN Payload[p] /\ DOMAIN Payload[p] \subseteq Positions
         /\ \A i \in DOMAIN Payload[p] : Key(p, i) \in Keys /\ Hash(p, i) \in Hashes
<1>1. Payload[p] \in Seq(Keys)
  BY KnockAssumption
<1>2. \A i \in DOMAIN Payload[p] : Key(p, i) \in Keys
  BY <1>1 DEF Key
<1>. QED
  BY <1>1, <1>2 DEF Firsts, Positions, Hash, Hashes

\* Every key of a POST has one first position.
LEMMA FirstsFacts ==
  ASSUME NEW p \in Posts
  PROVE  /\ \A i \in DOMAIN Payload[p] : \E j \in Firsts(p) : Key(p, j) = Key(p, i)
         /\ \A i, j \in Firsts(p) : Key(p, i) = Key(p, j) => i = j
<1>1. ASSUME NEW i \in DOMAIN Payload[p] PROVE \E j \in Firsts(p) : Key(p, j) = Key(p, i)
  <2>. DEFINE same == {j \in DOMAIN Payload[p] : Key(p, j) = Key(p, i)}
  <2>1. PICK j \in same : \A k \in same : j <= k
    <3>1. same \subseteq Nat /\ same # {}
      BY PayloadFacts
    <3>. QED
      BY <3>1, LeastNumber
  <2>2. ASSUME NEW k \in 1 .. j - 1 PROVE Key(p, k) # Key(p, j)
    <3>1. k \in DOMAIN Payload[p] /\ ~(j <= k)
      BY PayloadFacts
    <3>. QED
      BY <2>1, <3>1
  <2>. QED
    BY <2>1, <2>2 DEF Firsts
<1>2. ASSUME NEW i \in Firsts(p), NEW j \in Firsts(p), Key(p, i) = Key(p, j), i # j PROVE FALSE
  <2>1. i \in Nat \ {0} /\ j \in Nat \ {0}
    BY PayloadFacts
  <2>2. i \in 1 .. j - 1 \/ j \in 1 .. i - 1
    BY <1>2, <2>1
  <2>. QED
    BY <1>2, <2>2 DEF Firsts
<1>. QED
  BY <1>1, <1>2

\* The numbers of an answer count positions of the POST.
LEMMA AnswerCounts ==
  ASSUME NEW p \in Posts, NEW r, r.want \subseteq Firsts(p), r.newKnocks \subseteq r.want
  PROVE  {Cardinality(r.newKnocks), Deduped(p, r)} \subseteq 0 .. Len(Payload[p])
<1>1. IsFiniteSet(DOMAIN Payload[p]) /\ Cardinality(DOMAIN Payload[p]) = Len(Payload[p])
  BY PayloadFacts, FS_Interval
<1>2. r.want \subseteq DOMAIN Payload[p]
  BY PayloadFacts
<1>3. /\ IsFiniteSet(r.want) /\ Cardinality(r.want) <= Len(Payload[p])
      /\ Cardinality(r.want) \in Nat
  BY <1>1, <1>2, FS_Subset, FS_CardinalityType
<1>4. Cardinality(r.newKnocks) <= Cardinality(r.want) /\ Cardinality(r.newKnocks) \in Nat
  BY <1>3, FS_Subset, FS_CardinalityType
<1>. QED
  BY <1>3, <1>4, PayloadFacts DEF Deduped

\* A handler that starts over carries nothing.
LEMMA IdleFits ==
  ASSUME NEW p \in Posts
  PROVE  /\ Idle \in PostType /\ [Idle EXCEPT !.pc = "done"] \in PostType
         /\ Fits(p, Idle) /\ Fits(p, [Idle EXCEPT !.pc = "done"])
  BY DEF Idle, PostType, Fits, Ids

\* What is known of a handler that goes on to its knocks, or stays with its addresses.
LEMMA OnwardFits ==
  ASSUME NEW p \in Posts, NEW x \in PostType, x.pc = "addresses", Fits(p, x)
  PROVE  /\ Onward(x) \in PostType /\ Fits(p, Onward(x))
         /\ Onward(x).pc \in {"addresses", "knocks"}
         /\ Onward(x).newAddresses = x.newAddresses /\ Onward(x).newKnocks = x.newKnocks
<1>1. CASE x.todo # {}
  BY <1>1 DEF Onward
<1>2. CASE x.todo = {}
  <2>. DEFINE y == [x EXCEPT !.pc = "knocks", !.todo = x.want]
  <2>1. Onward(x) = y
    BY <1>2 DEF Onward
  <2>2. y \in PostType
    BY DEF PostType
  <2>3. /\ y.pc = "knocks" /\ y.todo = x.want /\ y.want = x.want /\ y.addr = x.addr
        /\ y.newAddresses = x.newAddresses /\ y.newKnocks = x.newKnocks
    BY DEF PostType
  <2>4. Fits(p, y)
    BY <2>3 DEF Fits
  <2>. QED
    BY <2>1, <2>2, <2>3, <2>4
<1>. QED
  BY <1>1, <1>2

\* The rows of r are not those of another open transaction.
ApartFrom(p, r) ==
  r.pc \in {"addresses", "knocks"} =>
    \A q \in Posts \ {p} : InTransaction(q) =>
      /\ r.newAddresses \cap post[q].newAddresses = {}
      /\ \A i \in r.newKnocks, j \in post[q].newKnocks : Key(p, i) # Key(q, j)

\* A step of one handler that commits nothing.
LEMMA HandlerStep ==
  ASSUME KnockIInv, NEW p \in Posts, NEW r \in PostType, post' = [post EXCEPT ![p] = r],
         UNCHANGED <<address, knocks, audits>>, Fits(p, r), ApartFrom(p, r)
  PROVE  /\ post' \in [Posts -> PostType]
         /\ \A q \in Posts : Fits(q, post[q])'
         /\ \A q, s \in Posts : q # s => Apart(q, s)'
         /\ Housed' /\ KnockOnRecord'
<1>1. post \in [Posts -> PostType]
  BY DEF KnockIInv, KnockTypeOK
<1>2. post'[p] = r /\ \A q \in Posts \ {p} : post'[q] = post[q]
  BY <1>1
<1>3. ASSUME NEW q \in Posts PROVE Fits(q, post[q])'
  <2>1. Fits(q, post'[q])
    BY <1>2 DEF KnockIInv
  <2>. QED
    BY <2>1 DEF Fits, Stored
<1>4. ASSUME NEW q \in Posts, NEW s \in Posts, q # s PROVE Apart(q, s)'
  BY <1>2, <1>4 DEF KnockIInv, Apart, ApartFrom, InTransaction
<1>. QED
  BY <1>1, <1>3, <1>4 DEF KnockIInv, Housed, KnockOnRecord

\* The same of a step that sends no answer either.
LEMMA SilentStep ==
  ASSUME KnockIInv, NEW p \in Posts, NEW r \in PostType, post' = [post EXCEPT ![p] = r],
         UNCHANGED <<address, knocks, audits, replies>>, crashes' \in 0 .. MaxCrashes,
         Fits(p, r), ApartFrom(p, r)
  PROVE  KnockIInv'
<1>1. /\ post' \in [Posts -> PostType]
      /\ \A q \in Posts : Fits(q, post[q])'
      /\ \A q, s \in Posts : q # s => Apart(q, s)'
      /\ Housed' /\ KnockOnRecord'
  BY HandlerStep
<1>2. KnockTypeOK'
  BY <1>1 DEF KnockIInv, KnockTypeOK
<1>3. AnsweredMeansStored'
  BY DEF KnockIInv, AnsweredMeansStored, Stored
<1>. QED
  BY <1>1, <1>2, <1>3 DEF KnockIInv

\* A handler that starts over, after a refused row, as the victim of a deadlock, or dead.
LEMMA IdleStep ==
  ASSUME KnockIInv, NEW p \in Posts, post' = [post EXCEPT ![p] = Idle],
         UNCHANGED <<address, knocks, audits, replies>>, crashes' \in 0 .. MaxCrashes
  PROVE  KnockIInv'
<1>1. ApartFrom(p, Idle)
  BY DEF ApartFrom, Idle
<1>. QED
  BY <1>1, IdleFits, SilentStep

\* An answer that leaves out what is stored, when all the rest is.
LEMMA AnswerStep ==
  ASSUME KnockIInv, NEW p \in Posts, NEW r, Answer(p, r),
         r.want \subseteq Firsts(p), r.newKnocks \subseteq r.want,
         \A i \in Firsts(p) : Stored(Key(p, i)),
         UNCHANGED <<address, knocks, audits, crashes>>
  PROVE  KnockIInv'
<1>. DEFINE done == [Idle EXCEPT !.pc = "done"]
            reply == [post |-> p, inserted |-> Cardinality(r.newKnocks), deduped |-> Deduped(p, r)]
<1>1. post' = [post EXCEPT ![p] = done] /\ replies' = replies \cup {reply}
  BY DEF Answer
<1>2. ApartFrom(p, done)
  BY DEF ApartFrom, Idle
<1>3. /\ post' \in [Posts -> PostType]
      /\ \A q \in Posts : Fits(q, post[q])'
      /\ \A q, s \in Posts : q # s => Apart(q, s)'
      /\ Housed' /\ KnockOnRecord'
  BY <1>1, <1>2, IdleFits, HandlerStep
<1>4. {reply.inserted, reply.deduped} \subseteq 0 .. Len(Payload[p]) /\ reply.post = p
  BY AnswerCounts
<1>5. KnockTypeOK'
  <2>. HIDE DEF reply
  <2>. QED
    BY <1>1, <1>3, <1>4 DEF KnockIInv, KnockTypeOK
<1>6. AnsweredMeansStored'
  <2>1. \A i \in DOMAIN Payload[p] : Stored(Key(p, i))
    BY FirstsFacts
  <2>2. \A s \in replies' : s \in replies \/ s.post = p
    BY <1>1
  <2>3. \A s \in replies' : \A i \in DOMAIN Payload[s.post] : Stored(Key(s.post, i))
    BY <2>1, <2>2 DEF KnockIInv, AnsweredMeansStored
  <2>. QED
    BY <2>3 DEF AnsweredMeansStored, Stored
<1>. QED
  BY <1>3, <1>5, <1>6 DEF KnockIInv

\* The knocks a POST leaves out are stored, and a POST that wants none answers at once.
LEMMA LookupKeeps == ASSUME KnockIInv, NEW p \in Posts, Lookup(p) PROVE KnockIInv'
<1>. DEFINE want == {i \in Firsts(p) : ~Stored(Key(p, i))}
            r == [Idle EXCEPT !.pc = "resolving", !.want = want]
<1>1. /\ UNCHANGED <<address, knocks, audits, crashes>>
      /\ IF r.want = {} THEN Answer(p, r)
         ELSE post' = [post EXCEPT ![p] = r] /\ UNCHANGED replies
  BY DEF Lookup
<1>2. want \subseteq Firsts(p) /\ \A i \in Firsts(p) \ want : Stored(Key(p, i))
  OBVIOUS
<1>. HIDE DEF want
<1>3. /\ r.pc = "resolving" /\ r.want = want /\ r.newKnocks = {} /\ r.newAddresses = {}
      /\ r.addr = [h \in Hashes |-> None] /\ r.todo = {}
  BY DEF Idle
<1>4. CASE want = {}
  <2>. HIDE DEF r
  <2>. QED
    BY <1>1, <1>2, <1>3, <1>4, AnswerStep
<1>5. CASE want # {}
  <2>1. want \in SUBSET Positions
    BY <1>2, PayloadFacts
  <2>2. r \in PostType
    BY <2>1 DEF Idle, PostType, Ids
  <2>. HIDE DEF r
  <2>3. Fits(p, r) /\ ApartFrom(p, r)
    BY <1>2, <1>3 DEF Fits, ApartFrom
  <2>4. crashes' \in 0 .. MaxCrashes
    BY <1>1 DEF KnockIInv, KnockTypeOK
  <2>. QED
    BY <1>1, <1>3, <1>5, <2>2, <2>3, <2>4, SilentStep
<1>. QED
  BY <1>4, <1>5

\* What NewId gives is an id.
LEMMA NewIds ==
  ASSUME NEW p \in Posts, NEW h \in Hashes
  PROVE  NewId(p, h) \in Ids /\ NewId(p, h) # None
  BY KnockAssumption DEF NewId, Ids

\* The transaction begins with nothing inserted, and an address of its own for each new hash.
LEMMA ResolveKeeps == ASSUME KnockIInv, NEW p \in Posts, Resolve(p) PROVE KnockIInv'
<1>. DEFINE want == post[p].want
            missing == {i \in want : /\ ~Known(Hash(p, i))
                                     /\ \A j \in want : j < i => Hash(p, j) # Hash(p, i)}
            addr == [h \in Hashes |-> IF Known(h) THEN address[h] ELSE NewId(p, h)]
            x == [post[p] EXCEPT !.pc = "addresses", !.todo = missing, !.addr = addr]
<1>1. /\ post[p].pc = "resolving" /\ post' = [post EXCEPT ![p] = Onward(x)]
      /\ UNCHANGED <<address, knocks, audits, replies, crashes>>
  BY DEF Resolve
<1>2. post[p] \in PostType /\ Fits(p, post[p]) /\ address \in [Hashes -> Ids]
      /\ crashes' \in 0 .. MaxCrashes
  BY <1>1 DEF KnockIInv, KnockTypeOK
<1>3. /\ x.pc = "addresses" /\ x.todo = missing /\ x.addr = addr /\ x.want = want
      /\ x.newKnocks = {} /\ x.newAddresses = {}
  BY <1>1, <1>2 DEF PostType, Fits
<1>4. addr \in [Hashes -> Ids] /\ \A h \in Hashes : addr[h] # None
  BY <1>2, NewIds DEF Known
<1>5. x \in PostType
  BY <1>2, <1>4 DEF PostType
<1>6. \A i \in missing : addr[Hash(p, i)] = NewId(p, Hash(p, i))
  BY <1>2, PayloadFacts DEF Fits
<1>7. Fits(p, x)
  <2>. HIDE DEF x, addr, missing
  <2>1. missing \subseteq want
    BY DEF missing
  <2>. QED
    BY <1>1, <1>2, <1>3, <1>4, <1>6, <2>1 DEF Fits
<1>8. ApartFrom(p, Onward(x))
  BY <1>3, <1>5, <1>7, OnwardFits DEF ApartFrom
<1>. QED
  BY <1>1, <1>2, <1>3, <1>5, <1>7, <1>8, OnwardFits, SilentStep

\* An INSERT that meets a committed row.
LEMMA ConflictKeeps ==
  ASSUME KnockIInv, NEW p \in Posts, NEW i \in post[p].todo, InTransaction(p), Conflict(p, i),
         post[p].pc = "knocks" => Stored(Key(p, i)),
         UNCHANGED <<address, knocks, audits, replies, crashes>>
  PROVE  KnockIInv'
<1>. DEFINE r == post[p]
            x == [r EXCEPT !.todo = @ \ {i}]
<1>1. r \in PostType /\ Fits(p, r) /\ crashes' \in 0 .. MaxCrashes
  BY DEF KnockIInv, KnockTypeOK
<1>2. CASE p \notin Batched
  BY <1>1, <1>2, IdleStep DEF Conflict
<1>3. CASE p \in Batched
  <2>1. post' = [post EXCEPT ![p] = Onward(x)]
    BY <1>3, Zenon DEF Conflict
  <2>2. /\ x \in PostType /\ x.pc = r.pc /\ x.todo = r.todo \ {i} /\ x.want = r.want
        /\ x.addr = r.addr /\ x.newKnocks = r.newKnocks /\ x.newAddresses = r.newAddresses
    BY <1>1 DEF PostType
  <2>. HIDE DEF x
  <2>3. Fits(p, x)
    BY <1>1, <2>2 DEF Fits, InTransaction
  <2>4. /\ Onward(x) \in PostType /\ Fits(p, Onward(x))
        /\ Onward(x).newAddresses = r.newAddresses /\ Onward(x).newKnocks = r.newKnocks
    <3>1. CASE x.pc = "addresses"
      BY <2>2, <2>3, <3>1, OnwardFits
    <3>2. CASE x.pc = "knocks"
      BY <2>2, <2>3, <3>2 DEF Onward
    <3>. QED
      BY <2>2, <3>1, <3>2 DEF InTransaction
  <2>5. ApartFrom(p, Onward(x))
    BY <2>4 DEF KnockIInv, Apart, ApartFrom
  <2>. QED
    BY <1>1, <2>1, <2>4, <2>5, SilentStep
<1>. QED
  BY <1>2, <1>3

\* An address goes in when its hash has none, and no other POST is about to insert one.
LEMMA InsertAddressKeeps ==
  ASSUME KnockIInv, NEW p \in Posts, NEW i \in Positions, InsertAddress(p, i)
  PROVE  KnockIInv'
<1>. DEFINE r == post[p]
            h == Hash(p, i)
            x == [r EXCEPT !.newAddresses = @ \cup {h}, !.todo = @ \ {i}]
<1>1. /\ r.pc = "addresses" /\ i \in r.todo /\ Turn(p, i) /\ \A q \in Posts : ~WaitsFor(p, q)
      /\ UNCHANGED <<address, knocks, audits, replies, crashes>>
      /\ IF address[h] = None THEN post' = [post EXCEPT ![p] = Onward(x)] ELSE Conflict(p, i)
  BY Zenon DEF InsertAddress, Turn
<1>2. /\ r \in PostType /\ Fits(p, r) /\ InTransaction(p) /\ crashes' \in 0 .. MaxCrashes
  BY <1>1 DEF KnockIInv, KnockTypeOK, InTransaction
<1>3. h \in Hashes
  BY <1>1, <1>2, PayloadFacts DEF Fits
<1>4. CASE address[h] # None
  BY <1>1, <1>2, <1>4, ConflictKeeps
<1>5. CASE address[h] = None
  <2>1. /\ x \in PostType /\ x.pc = "addresses" /\ x.todo = r.todo \ {i} /\ x.want = r.want
        /\ x.addr = r.addr /\ x.newKnocks = r.newKnocks
        /\ x.newAddresses = r.newAddresses \cup {h}
    BY <1>1, <1>2, <1>3 DEF PostType
  <2>. HIDE DEF x
  <2>2. Fits(p, x)
    BY <1>1, <1>2, <1>5, <2>1 DEF Fits
  <2>3. /\ Onward(x) \in PostType /\ Fits(p, Onward(x))
        /\ Onward(x).newAddresses = r.newAddresses \cup {h} /\ Onward(x).newKnocks = r.newKnocks
    BY <2>1, <2>2, OnwardFits
  <2>4. ASSUME NEW q \in Posts \ {p}, InTransaction(q) PROVE h \notin post[q].newAddresses
    BY <1>1, <1>2, <2>4 DEF WaitsFor
  <2>5. ApartFrom(p, Onward(x))
    BY <1>2, <2>3, <2>4 DEF KnockIInv, Apart, ApartFrom
  <2>. QED
    BY <1>1, <1>2, <1>5, <2>3, <2>5, SilentStep
<1>. QED
  BY <1>4, <1>5

\* A knock goes in when its key is not stored, and no other POST is about to insert it.
LEMMA InsertKnockKeeps ==
  ASSUME KnockIInv, NEW p \in Posts, NEW i \in Positions, InsertKnock(p, i)
  PROVE  KnockIInv'
<1>. DEFINE r == post[p]
            x == [r EXCEPT !.newKnocks = @ \cup {i}, !.todo = @ \ {i}]
<1>1. /\ r.pc = "knocks" /\ i \in r.todo /\ Turn(p, i) /\ \A q \in Posts : ~WaitsFor(p, q)
      /\ UNCHANGED <<address, knocks, audits, replies, crashes>>
      /\ Stored(Key(p, i)) => Conflict(p, i)
  BY DEF InsertKnock, Turn
<1>2. /\ r \in PostType /\ Fits(p, r) /\ InTransaction(p) /\ crashes' \in 0 .. MaxCrashes
      /\ post \in [Posts -> PostType]
  BY <1>1 DEF KnockIInv, KnockTypeOK, InTransaction
<1>3. CASE Stored(Key(p, i))
  BY <1>1, <1>2, <1>3, ConflictKeeps
<1>4. CASE ~Stored(Key(p, i))
  <2>1. post' = [post EXCEPT ![p] = x]
    BY <1>2, <1>4 DEF InsertKnock
  <2>2. /\ x \in PostType /\ x.pc = "knocks" /\ x.todo = r.todo \ {i} /\ x.want = r.want
        /\ x.addr = r.addr /\ x.newKnocks = r.newKnocks \cup {i}
        /\ x.newAddresses = r.newAddresses
    BY <1>1, <1>2 DEF PostType
  <2>. HIDE DEF x
  <2>3. Fits(p, x)
    BY <1>1, <1>2, <1>4, <2>2 DEF Fits
  <2>4. ASSUME NEW q \in Posts \ {p}, InTransaction(q), NEW j \in post[q].newKnocks
        PROVE  Key(p, i) # Key(q, j)
    BY <1>1, <1>2, <2>4 DEF WaitsFor
  <2>5. ApartFrom(p, x)
    BY <1>2, <2>2, <2>4 DEF KnockIInv, Apart, ApartFrom
  <2>. QED
    BY <1>1, <1>2, <2>1, <2>2, <2>3, <2>5, SilentStep
<1>. QED
  BY <1>3, <1>4

\* The rows p commits: addresses that were missing, and knocks on them or on others that are there.
LEMMA CommittedRows ==
  ASSUME KnockIInv, NEW p \in Posts, post[p].pc = "knocks", ReferencesHold(p),
         address' = [h \in Hashes |->
           IF h \in post[p].newAddresses THEN NewId(p, h) ELSE address[h]],
         knocks' = knocks \cup
           {[key |-> Key(p, i), address |-> post[p].addr[Hash(p, i)], by |-> p] :
              i \in post[p].newKnocks}
  PROVE  /\ address' \in [Hashes -> Ids]
         /\ \A h \in Hashes : address[h] # None => address'[h] = address[h]
         /\ \A h \in Hashes \ post[p].newAddresses : address'[h] = address[h]
         /\ \A i \in post[p].newKnocks :
              /\ post[p].addr[Hash(p, i)] = address'[Hash(p, i)]
              /\ post[p].addr[Hash(p, i)] # None
              /\ Key(p, i) \in Keys /\ post[p].addr[Hash(p, i)] \in Ids
         /\ knocks' \subseteq [key : Keys, address : Ids, by : Posts]
         /\ \A n \in knocks' : n \in knocks \/ \E i \in post[p].newKnocks :
              n = [key |-> Key(p, i), address |-> post[p].addr[Hash(p, i)], by |-> p]
         /\ \A k : Stored(k) => Stored(k)'
         /\ \A i \in post[p].newKnocks : Stored(Key(p, i))'
         /\ \A k : Stored(k)' => Stored(k) \/ \E i \in post[p].newKnocks : k = Key(p, i)
<1>. DEFINE r == post[p]
<1>1. /\ r \in PostType /\ Fits(p, r) /\ address \in [Hashes -> Ids]
      /\ knocks \subseteq [key : Keys, address : Ids, by : Posts]
  BY DEF KnockIInv, KnockTypeOK
<1>2. /\ r.newAddresses \subseteq Hashes /\ r.addr \in [Hashes -> Ids]
      /\ \A h \in r.newAddresses : address[h] = None /\ r.addr[h] = NewId(p, h)
      /\ \A h \in Hashes : r.addr[h] # None
  BY <1>1 DEF PostType, Fits
<1>3. \A i \in r.newKnocks : Key(p, i) \in Keys /\ Hash(p, i) \in Hashes
  BY <1>1, PayloadFacts DEF Fits
<1>4. address' \in [Hashes -> Ids]
  BY <1>1, <1>2, NewIds
<1>5. /\ \A h \in Hashes : address[h] # None => address'[h] = address[h]
      /\ \A h \in Hashes \ r.newAddresses : address'[h] = address[h]
  BY <1>2
<1>6. \A i \in r.newKnocks :
        /\ r.addr[Hash(p, i)] = address'[Hash(p, i)] /\ r.addr[Hash(p, i)] # None
        /\ Key(p, i) \in Keys /\ r.addr[Hash(p, i)] \in Ids
  BY <1>2, <1>3 DEF ReferencesHold
<1>7. \A n \in knocks' : n \in knocks \/ \E i \in r.newKnocks :
        n = [key |-> Key(p, i), address |-> r.addr[Hash(p, i)], by |-> p]
  OBVIOUS
<1>8. knocks' \subseteq [key : Keys, address : Ids, by : Posts]
  BY <1>1, <1>6, <1>7
<1>9. \A k : Stored(k) => Stored(k)'
  BY DEF Stored
<1>10. ASSUME NEW i \in r.newKnocks PROVE Stored(Key(p, i))'
  <2>. DEFINE n == [key |-> Key(p, i), address |-> r.addr[Hash(p, i)], by |-> p]
  <2>1. n \in knocks' /\ n.key = Key(p, i)
    OBVIOUS
  <2>2. \E m \in knocks' : m.key = Key(p, i)
    BY <2>1, Zenon
  <2>. QED
    BY <2>2 DEF Stored
<1>11. \A k : Stored(k)' => Stored(k) \/ \E i \in r.newKnocks : k = Key(p, i)
  BY <1>7 DEF Stored
<1>. QED
  BY <1>4, <1>5, <1>6, <1>7, <1>8, <1>9, <1>10, <1>11

\* A transaction commits, or its foreign key does not hold and it leaves nothing.
LEMMA CommitKeeps == ASSUME KnockIInv, NEW p \in Posts, Commit(p) PROVE KnockIInv'
<1>. DEFINE r == post[p]
<1>1. r.pc = "knocks" /\ r.todo = {} /\ UNCHANGED <<replies, crashes>>
  BY DEF Commit
<1>2. /\ post \in [Posts -> PostType] /\ Fits(p, r) /\ InTransaction(p)
      /\ crashes' \in 0 .. MaxCrashes
  BY <1>1 DEF KnockIInv, KnockTypeOK, InTransaction
<1>3. CASE ~ReferencesHold(p)
  BY <1>1, <1>2, <1>3, IdleStep DEF Commit
<1>4. CASE ReferencesHold(p)
  <2>1. /\ address' = [h \in Hashes |-> IF h \in r.newAddresses THEN NewId(p, h) ELSE address[h]]
        /\ knocks' = knocks \cup
             {[key |-> Key(p, i), address |-> r.addr[Hash(p, i)], by |-> p] : i \in r.newKnocks}
        /\ audits' = IF r.newKnocks = {} THEN audits
                     ELSE audits \cup {[by |-> p, named |-> {Key(p, i) : i \in r.want}]}
        /\ post' = [post EXCEPT ![p].pc = "committed"]
    BY <1>4 DEF Commit
  <2>2. /\ address' \in [Hashes -> Ids]
        /\ \A h \in Hashes : address[h] # None => address'[h] = address[h]
        /\ \A h \in Hashes \ r.newAddresses : address'[h] = address[h]
        /\ \A i \in r.newKnocks :
             /\ r.addr[Hash(p, i)] = address'[Hash(p, i)] /\ r.addr[Hash(p, i)] # None
             /\ Key(p, i) \in Keys /\ r.addr[Hash(p, i)] \in Ids
        /\ knocks' \subseteq [key : Keys, address : Ids, by : Posts]
        /\ \A n \in knocks' : n \in knocks \/ \E i \in r.newKnocks :
             n = [key |-> Key(p, i), address |-> r.addr[Hash(p, i)], by |-> p]
    BY <1>1, <1>4, <2>1, CommittedRows
  <2>3. /\ \A k : Stored(k) => Stored(k)'
        /\ \A i \in r.newKnocks : Stored(Key(p, i))'
        /\ \A k : Stored(k)' => Stored(k) \/ \E i \in r.newKnocks : k = Key(p, i)
    BY <1>1, <1>4, <2>1, CommittedRows
  <2>4. /\ post' \in [Posts -> PostType] /\ post'[p].pc = "committed"
        /\ post'[p].want = r.want /\ post'[p].newKnocks = r.newKnocks
        /\ \A q \in Posts \ {p} : post'[q] = post[q]
    BY <1>2, <2>1 DEF PostType
  <2>5. KnockTypeOK'
    <3>1. {Key(p, i) : i \in r.want} \subseteq Keys
      BY <1>2, PayloadFacts DEF Fits
    <3>2. audits' \subseteq [by : Posts, named : SUBSET Keys]
      BY <2>1, <3>1 DEF KnockIInv, KnockTypeOK
    <3>. QED
      BY <1>1, <2>2, <2>4, <3>2 DEF KnockIInv, KnockTypeOK
  <2>6. ASSUME NEW q \in Posts PROVE Fits(q, post[q])'
    <3>1. CASE q = p
      <4>1. \A i \in Firsts(p) \ r.want : Stored(Key(p, i))'
        BY <1>1, <1>2, <2>3 DEF Fits
      <4>2. \A i \in r.want : Stored(Key(p, i))'
        BY <1>1, <1>2, <2>3 DEF Fits
      <4>3. r.want \subseteq Firsts(p) /\ r.newKnocks \subseteq r.want
        BY <1>2 DEF Fits
      <4>. QED
        BY <2>4, <3>1, <4>1, <4>2, <4>3 DEF Fits
    <3>2. CASE q # p
      <4>1. post'[q] = post[q] /\ Fits(q, post[q])
        BY <2>4, <3>2 DEF KnockIInv
      <4>2. InTransaction(q) =>
              /\ \A h \in post[q].newAddresses : address'[h] = None
              /\ \A i \in post[q].newKnocks : ~Stored(Key(q, i))'
        <5>1. CASE InTransaction(q)
          <6>1. Apart(q, p) /\ post[q].newAddresses \subseteq Hashes
            BY <1>2, <3>2 DEF KnockIInv, PostType
          <6>2. \A h \in post[q].newAddresses : address'[h] = None
            BY <1>2, <2>2, <4>1, <5>1, <6>1 DEF Apart, Fits, InTransaction
          <6>3. \A i \in post[q].newKnocks : ~Stored(Key(q, i))'
            BY <1>2, <2>3, <4>1, <5>1, <6>1 DEF Apart, Fits, InTransaction
          <6>. QED
            BY <6>2, <6>3
        <5>. QED
          BY <5>1
      <4>. QED
        BY <2>3, <4>1, <4>2 DEF Fits, InTransaction
    <3>. QED
      BY <3>1, <3>2
  <2>7. ASSUME NEW q \in Posts, NEW s \in Posts, q # s PROVE Apart(q, s)'
    BY <2>4, <2>7 DEF KnockIInv, Apart, InTransaction
  <2>8. Housed'
    BY <2>2 DEF KnockIInv, Housed
  <2>9. KnockOnRecord'
    <3>1. \A i \in r.newKnocks : ~Stored(Key(p, i)) /\ i \in Firsts(p)
      BY <1>1, <1>2 DEF Fits
    <3>2. ASSUME NEW n \in knocks', NEW m \in knocks', m.key = n.key PROVE m = n
      <4>1. CASE n \in knocks /\ m \in knocks
        BY <3>2, <4>1 DEF KnockIInv, KnockOnRecord
      <4>2. CASE n \in knocks /\ m \notin knocks
        BY <2>2, <3>1, <3>2, <4>2 DEF Stored
      <4>3. CASE n \notin knocks /\ m \in knocks
        BY <2>2, <3>1, <3>2, <4>3 DEF Stored
      <4>4. CASE n \notin knocks /\ m \notin knocks
        <5>1. PICK i \in r.newKnocks :
                n = [key |-> Key(p, i), address |-> r.addr[Hash(p, i)], by |-> p]
          BY <2>2, <4>4
        <5>2. PICK j \in r.newKnocks :
                m = [key |-> Key(p, j), address |-> r.addr[Hash(p, j)], by |-> p]
          BY <2>2, <4>4
        <5>3. i = j
          BY <3>1, <3>2, <5>1, <5>2, FirstsFacts
        <5>. QED
          BY <5>1, <5>2, <5>3
      <4>. QED
        BY <4>1, <4>2, <4>3, <4>4
    <3>3. ASSUME NEW n \in knocks' PROVE n.address = address'[HashOf[n.key]]
      <4>1. CASE n \in knocks
        <5>1. n.address = address[HashOf[n.key]] /\ n.address # None /\ n.key \in Keys
          BY <4>1 DEF KnockIInv, KnockOnRecord, Housed, KnockTypeOK
        <5>2. HashOf[n.key] \in Hashes
          BY <5>1 DEF Hashes
        <5>. QED
          BY <2>2, <5>1, <5>2
      <4>2. CASE n \notin knocks
        <5>1. PICK i \in r.newKnocks :
                n = [key |-> Key(p, i), address |-> r.addr[Hash(p, i)], by |-> p]
          BY <2>2, <4>2
        <5>. QED
          BY <2>2, <5>1 DEF Hash
      <4>. QED
        BY <4>1, <4>2
    <3>4. ASSUME NEW n \in knocks' PROVE \E a \in audits' : a.by = n.by /\ n.key \in a.named
      <4>1. CASE n \in knocks
        <5>1. audits \subseteq audits'
          BY <2>1
        <5>. QED
          BY <4>1, <5>1 DEF KnockIInv, KnockOnRecord
      <4>2. CASE n \notin knocks
        <5>1. PICK i \in r.newKnocks :
                n = [key |-> Key(p, i), address |-> r.addr[Hash(p, i)], by |-> p]
          BY <2>2, <4>2
        <5>2. i \in r.want /\ [by |-> p, named |-> {Key(p, j) : j \in r.want}] \in audits'
          BY <1>2, <2>1 DEF Fits
        <5>. QED
          BY <5>1, <5>2
      <4>. QED
        BY <4>1, <4>2
    <3>. QED
      BY <3>2, <3>3, <3>4 DEF KnockOnRecord
  <2>10. AnsweredMeansStored'
    BY <1>1, <2>3 DEF KnockIInv, AnsweredMeansStored
  <2>. QED
    BY <2>5, <2>6, <2>7, <2>8, <2>9, <2>10 DEF KnockIInv
<1>. QED
  BY <1>3, <1>4

\* The invariant holds before anything is sent.
LEMMA InitKnockIInv == KnockInit => KnockIInv
<1>. SUFFICES ASSUME KnockInit PROVE KnockIInv
  OBVIOUS
<1>1. \A p \in Posts : post[p] = Idle
  BY DEF KnockInit
<1>2. KnockTypeOK
  BY IdleFits, KnockAssumption DEF KnockInit, KnockTypeOK, Ids
<1>3. \A p, q \in Posts : Apart(p, q)
  BY <1>1 DEF Apart, InTransaction, Idle
<1>. QED
  BY <1>1, <1>2, <1>3, IdleFits DEF KnockInit, KnockIInv, Housed, KnockOnRecord, AnsweredMeansStored

\* Every step keeps the invariant.
LEMMA NextKnockIInv == KnockIInv /\ [KnockNext]_knockVars => KnockIInv'
<1>. SUFFICES ASSUME KnockIInv, [KnockNext]_knockVars PROVE KnockIInv'
  OBVIOUS
<1>1. ASSUME NEW p \in Posts, Lookup(p) PROVE KnockIInv'
  BY <1>1, LookupKeeps
<1>2. ASSUME NEW p \in Posts, Resolve(p) PROVE KnockIInv'
  BY <1>2, ResolveKeeps
<1>3. ASSUME NEW p \in Posts, Insert(p) PROVE KnockIInv'
  BY <1>3, InsertAddressKeeps, InsertKnockKeeps DEF Insert
<1>4. ASSUME NEW p \in Posts, Commit(p) PROVE KnockIInv'
  BY <1>4, CommitKeeps
<1>5. ASSUME NEW p \in Posts, Reply(p) PROVE KnockIInv'
  <2>1. post[p].pc = "committed" /\ Fits(p, post[p])
    BY <1>5 DEF Reply, KnockIInv
  <2>2. \A i \in Firsts(p) : Stored(Key(p, i))
    BY <2>1 DEF Fits
  <2>3. post[p].want \subseteq Firsts(p) /\ post[p].newKnocks \subseteq post[p].want
    BY <2>1 DEF Fits
  <2>. QED
    BY <1>5, <2>2, <2>3, AnswerStep DEF Reply
<1>6. ASSUME NEW p \in Posts, DeadlockVictim(p) PROVE KnockIInv'
  <2>1. crashes' \in 0 .. MaxCrashes
    BY <1>6 DEF DeadlockVictim, KnockIInv, KnockTypeOK
  <2>. QED
    BY <1>6, <2>1, IdleStep DEF DeadlockVictim
<1>7. ASSUME NEW p \in Posts, Crash(p) PROVE KnockIInv'
  <2>1. crashes' \in 0 .. MaxCrashes
    BY <1>7, KnockAssumption DEF Crash, KnockIInv, KnockTypeOK
  <2>. QED
    BY <1>7, <2>1, IdleStep DEF Crash
<1>8. CASE UNCHANGED knockVars
  <2>1. KnockTypeOK' /\ Housed' /\ KnockOnRecord' /\ AnsweredMeansStored'
    BY <1>8 DEF knockVars, KnockIInv, KnockTypeOK, Housed, KnockOnRecord, AnsweredMeansStored,
                Stored
  <2>2. \A p \in Posts : Fits(p, post[p])'
    BY <1>8 DEF knockVars, KnockIInv, Fits, Stored
  <2>3. \A p, q \in Posts : p # q => Apart(p, q)'
    BY <1>8 DEF knockVars, KnockIInv, Apart, InTransaction
  <2>. QED
    BY <2>1, <2>2, <2>3 DEF KnockIInv
<1>. QED
  BY <1>1, <1>2, <1>3, <1>4, <1>5, <1>6, <1>7, <1>8 DEF KnockNext

\* Rows, handlers, audit rows and answers keep their types, and the numbers of an answer count
\* knocks of the POST, for any number of POSTs with any payloads.
THEOREM KnockTypeCorrect == KnockSpec => []KnockTypeOK
<1>1. KnockIInv => KnockTypeOK
  BY DEF KnockIInv
<1>. QED
  BY InitKnockIInv, NextKnockIInv, <1>1, PTL DEF KnockSpec

\* For any number of POSTs, single or in batches: what is answered is stored.
THEOREM AnswersCanBeTrusted == KnockSpec => []AnsweredMeansStored
<1>1. KnockIInv => AnsweredMeansStored
  BY DEF KnockIInv
<1>. QED
  BY InitKnockIInv, NextKnockIInv, <1>1, PTL DEF KnockSpec

\* For any number of POSTs, single or in batches: a knock is stored once, on the address of its
\* hash, and an audit row of the POST that stored it names it.
THEOREM KnocksOnRecord == KnockSpec => []KnockOnRecord
<1>1. KnockIInv => KnockOnRecord
  BY DEF KnockIInv
<1>. QED
  BY InitKnockIInv, NextKnockIInv, <1>1, PTL DEF KnockSpec
=============================================================================
