------------------------------ MODULE RowEdits ------------------------------
(***************************************************************************)
(* The handlers of apps/api/src/domains that change one row that is there  *)
(* already: donations, sales, orgs, brand kits, billing, territories and   *)
(* their assignments, webhook endpoints, users, knock sessions and SSO     *)
(* configurations.  They have one shape.  A handler reads the row, stops   *)
(* in some states, and in a later transaction updates the row by id and    *)
(* records what it did in an AuditEvent; the two statements are apart, so  *)
(* the row may be another by then.  What tells them apart is data: in      *)
(* which states they stop, which columns they write from the request,      *)
(* which they set, which they write back as they read them, and which of   *)
(* them their AuditEvent tells.                                            *)
(*                                                                         *)
(* A row is its status and two more columns that stand for the rest.       *)
(* Creating a row is an INSERT of a fresh id in a transaction of its own   *)
(* and gives the initial row.                                              *)
(***************************************************************************)
EXTENDS Integers, Sequences

CONSTANTS
  Handlers,  \* the requests on the row, one edit each
  Values     \* the contents of a column

Fields == {"status", "one", "two"}

\* The statuses of a row of each table; a table without one has "active" throughout.
Statuses ==
  [donation   |-> {"active", "paused", "cancelled"},
   sale       |-> {"active"},
   org        |-> {"active", "archived"},
   brandKit   |-> {"active"},
   orgBilling |-> {"active"},
   territory  |-> {"active", "paused", "archived"},
   assignment |-> {"active", "ended"},
   endpoint   |-> {"active", "archived"},
   user       |-> {"active"},
   session    |-> {"active", "ended"},
   sso        |-> {"pending", "active", "revoked"}]

\* No column.
Nothing == [f \in {} |-> "none"]

\* An edit with nothing special: no state stops it, a request may give columns one and
\* two or either, and the AuditEvent's afterJson tells what was asked for.
Edit(t) ==
  [table |-> t, stops |-> {}, where |-> Statuses[t], asks |-> {"one", "two"}, whole |-> FALSE,
   sets |-> Nothing, keeps |-> {}, tells |-> Fields]

\* An edit that moves the row to another status, and asks for nothing.
Moves(t, status) ==
  [Edit(t) EXCEPT !.asks = {}, !.sets = [f \in {"status"} |-> status]]

\* Mutant of PauseDonation: the conflict is forgotten.
PauseAnyDonation == [Moves("donation", "paused") EXCEPT !.stops = {"paused"}]

\* The second pause changes nothing, and a cancelled donation is a conflict.
PauseDonation == [Moves("donation", "paused") EXCEPT !.stops = {"paused", "cancelled"}]

CancelDonation == [Moves("donation", "cancelled") EXCEPT !.stops = {"cancelled"}]

\* Of a recurring donation; column one is amountCents.
ChangeDonationAmount ==
  [Edit("donation") EXCEPT !.asks = {"one"}, !.stops = {"cancelled"}]

\* Columns installerOrgId and scheduledInstallAt, both required; no code cancels a sale.
InstallerHandoff == [Edit("sale") EXCEPT !.stops = {"cancelled"}, !.whole = TRUE]

UpdateOrg == Edit("org")

ArchiveOrg == [Moves("org", "archived") EXCEPT !.stops = {"archived"}]

\* The row is read inside the transaction, and every column written.
UpsertBrandKit == [Edit("brandKit") EXCEPT !.keeps = {"one", "two"}]

\* The row is read inside the transaction, for beforeJson only.  Column two is that of the
\* processors' ids, micampMerchantId and stripeCustomerId, which serializeBilling leaves out.
UpdateBilling == [Edit("orgBilling") EXCEPT !.tells = {"one"}]

\* The status is a column like any other.
UpdateTerritory == [Edit("territory") EXCEPT !.asks = Fields]

\* It expires now, again if it had.
RemoveAssignment == Moves("assignment", "ended")

\* Column one is secretCipher, which no AuditEvent tells.
RotateSecret == [Edit("endpoint") EXCEPT !.asks = {"one"}, !.tells = {}]

\* Mutant of SoftDeleteEndpoint: a status that the schema does not know.
DeleteEndpoint == [Moves("endpoint", "deleted") EXCEPT !.stops = {"archived"}]

SoftDeleteEndpoint == [Moves("endpoint", "archived") EXCEPT !.stops = {"archived"}]

UpdateUser == Edit("user")

\* Without an AuditEvent.
EndSession == [Moves("session", "ended") EXCEPT !.stops = {"ended"}, !.tells = {}]

\* A request gives every column: one is provider, entityId and ssoUrl, two certificateKey and
\* attributeMappingJson, which the AuditEvent leaves out.  The status read is written back.
UpsertSsoConfiguration ==
  [Edit("sso") EXCEPT !.whole = TRUE, !.keeps = {"status"}, !.tells = {"one"}]

\* The same transaction sets the ssoProvider of the org; its AuditEvent tells the provider.
SetSsoProvider == [Edit("org") EXCEPT !.asks = {"two"}]

\* The end of consumeAcs: a login under a configuration that was not revoked when it was
\* loaded activates it, where it is not revoked by now.
ActivateSso ==
  [Moves("sso", "active") EXCEPT !.stops = {"revoked"}, !.where = {"pending", "active"},
                                 !.tells = {}]

\* External: an operator revokes the configuration in the database.
RevokeSso == [Moves("sso", "revoked") EXCEPT !.tells = {}]

Edits ==
  {PauseDonation, CancelDonation, ChangeDonationAmount, InstallerHandoff, UpdateOrg,
   ArchiveOrg, UpsertBrandKit, UpdateBilling, UpdateTerritory, RemoveAssignment,
   RotateSecret, SoftDeleteEndpoint, UpdateUser, EndSession, UpsertSsoConfiguration,
   SetSsoProvider, ActivateSso, RevokeSso}

\* The statuses that are meant for good; a territory's may be set to any other.
Terminal == {"cancelled", "archived", "ended", "revoked"}

VARIABLES
  table,    \* the table the row is in
  row,      \* the row
  first,    \* the row as it was created
  handler,  \* handler[h]: what h carries from its read to its transaction
  trail     \* history: the committed edits in order, with what their AuditEvents tell

editVars == <<table, row, first, handler, trail>>

Rows(t) == [status : Statuses[t], one : Values, two : Values]

NotStarted == [pc |-> "start"]
Finished == [pc |-> "done"]

\* The columns a request may give this edit: some of those it takes, or all where the schema
\* requires them, with any contents.
RequestsOf(e) ==
  IF e.asks = {} THEN {Nothing}
  ELSE {[f \in given |-> r[f]] :
          given \in IF e.whole THEN {e.asks} ELSE SUBSET e.asks \ {{}}, r \in Rows(e.table)}
-----------------------------------------------------------------------------
EditInit ==
  /\ table \in DOMAIN Statuses
  /\ row \in {r \in Rows(table) : r.status \notin Terminal \cup {"paused"}}
  /\ first = row
  /\ handler = [h \in Handlers |-> NotStarted]
  /\ trail = <<>>

\* Up to the transaction.
Read(h, e) ==
  /\ handler[h].pc = "start"
  /\ e.table = table
  /\ \E request \in RequestsOf(e) :
       handler' = [handler EXCEPT ![h] =
         IF row.status \in e.stops THEN Finished
         ELSE [pc |-> "writing", edit |-> e, request |-> request, read |-> row,
               readAt |-> Len(trail)]]
  /\ UNCHANGED <<table, row, first, trail>>

\* Mutant of Written: a column the request leaves out gets the default again.
WrittenDefault(edit, request, read) ==
  [f \in Fields |->
     IF f \in DOMAIN request THEN request[f]
     ELSE IF f \in DOMAIN edit.sets THEN edit.sets[f]
     ELSE IF f \in edit.keeps THEN first[f]
     ELSE row[f]]

\* The row the update leaves.
Written(edit, request, read) ==
  [f \in Fields |->
     IF f \in DOMAIN request THEN request[f]
     ELSE IF f \in DOMAIN edit.sets THEN edit.sets[f]
     ELSE IF f \in edit.keeps THEN read[f]
     ELSE row[f]]

Touched(edit, request) == DOMAIN request \cup DOMAIN edit.sets

\* The transaction: the update by id, and the AuditEvent.
Write(h) ==
  /\ handler[h].pc = "writing"
  /\ LET edit == handler[h].edit
         request == handler[h].request
         next == Written(edit, request, handler[h].read)
     IN  IF row.status \notin edit.where
         THEN UNCHANGED <<row, trail>>
         ELSE /\ row' = next
              /\ trail' = Append(trail,
                   [was |-> row, now |-> next, readAt |-> handler[h].readAt,
                    keeps |-> edit.keeps,
                    told |-> [f \in edit.tells \cap Touched(edit, request) |-> next[f]]])
  /\ handler' = [handler EXCEPT ![h] = Finished]
  /\ UNCHANGED <<table, first>>

EditNext == \E h \in Handlers : (\E e \in Edits : Read(h, e)) \/ Write(h)

EditSpec == EditInit /\ [][EditNext]_editVars
-----------------------------------------------------------------------------
EditTypeOK ==
  /\ table \in DOMAIN Statuses
  /\ {row, first} \subseteq Rows(table)
  /\ \A h \in Handlers :
       handler[h].pc = "writing" =>
         /\ handler[h].edit \in Edits /\ handler[h].edit.table = table
         /\ handler[h].read \in Rows(table)
         /\ handler[h].readAt \in 0 .. Len(trail)
  /\ \A i \in DOMAIN trail :
       /\ {trail[i].was, trail[i].now} \subseteq Rows(table)
       /\ trail[i].readAt \in 0 .. i - 1

\* A cancelled donation stays cancelled, an archived endpoint archived, a revoked
\* configuration revoked, unless the edit that undoes it had read the row before: the
\* check is one statement, the update another.
UndoneOnlyByOverlap ==
  table # "territory" =>
    \A i, j \in DOMAIN trail :
      /\ i < j
      /\ \A k \in i .. j - 1 : trail[k].now.status \in Terminal
      /\ trail[j].now.status \notin Terminal
      => trail[j].readAt < i

\* The columns that every edit of the table which writes them tells of in its AuditEvent:
\* not a webhook's secret, the processors' ids of a billing row, a sign-on's certificate and
\* mapping, nor the statuses of knock sessions and sign-on configurations.
Audited ==
  {f \in Fields : \A e \in Edits :
     e.table = table /\ f \in e.asks \cup DOMAIN e.sets => f \in e.tells}

\* An edit that wrote f back was overtaken since it had read it.
WrittenBackStale(f) ==
  \E i \in DOMAIN trail : f \in trail[i].keeps /\ trail[i].readAt < i - 1

\* f is what the last AuditEvent that names it tells, or what it was at first.
AsLastTold(f) ==
  LET telling == {i \in DOMAIN trail : f \in DOMAIN trail[i].told}
  IN  IF telling = {} THEN row[f] = first[f]
      ELSE \E i \in telling : (\A j \in telling : j <= i) /\ row[f] = trail[i].told[f]

\* The AuditEvents of a row replay to its audited columns: whatever requests interleave,
\* such a column holds what the last AuditEvent that names it tells, and changes under no
\* AuditEvent that does not, unless an edit that writes this very column back as it had read
\* it was overtaken in between.
AuditReplays == \A f \in Audited : WrittenBackStale(f) \/ AsLastTold(f)
=============================================================================
