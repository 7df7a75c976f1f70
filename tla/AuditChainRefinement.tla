------------------------ MODULE AuditChainRefinement ------------------------
(***************************************************************************)
(* AuditChain seen as the log of AuditLog: the committed rows of a chain   *)
(* in order of id, and whether they replay.  A chain forfeits the promise  *)
(* when two of its transactions overlap and both commit, when one of its   *)
(* rows is changed out of band, or when it commits an event that the       *)
(* database does not keep as it was given.                                 *)
(***************************************************************************)
EXTENDS AuditChain

Unkept(c) == \E r \in Committed(c) : r.given = "undefined"

Sound(c) == ~Overlapped(c) /\ ~Tampered(c) /\ ~Unkept(c)

\* The rows of S up to r, and the i-th row of S, in order of id.
Upto(S, r) == {s \in S : s.id <= r.id}
Nth(S, i) == CHOOSE r \in S : Cardinality(Upto(S, r)) = i

\* The ulids of the rows of S, in order of id.
UlidLog(S) == [i \in 1 .. Cardinality(S) |-> Nth(S, i).ulid]

LogOf(c) == IF Sound(c) THEN UlidLog(Committed(c)) ELSE <<>>

Logs == [c \in Chains |-> LogOf(c)]
Standing == [c \in Chains |-> Sound(c)]
Replayable == [c \in Chains |-> Sound(c) => Replays(Committed(c), Genesis(c))]

Log == INSTANCE AuditLog WITH
  Events <- Ulids, log <- Logs, sound <- Standing, replays <- Replayable

\* recordEvent and the commit of its transaction implement the promised log, chain by
\* chain, up to the moment two transactions of the chain overlap, one of its rows is
\* changed by hand or an event with an undefined key is committed: blocks of events are
\* appended at the end, in the order of the commits, a rollback leaves no trace, and every
\* prefix replays.
ImplementsLog == Log!Spec
=============================================================================
