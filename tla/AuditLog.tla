------------------------------ MODULE AuditLog ------------------------------
(***************************************************************************)
(* What ADR-0008 promises of the audit trail: per chain an append-only     *)
(* sequence of events that replays from genesis at all times.  A mutation  *)
(* appends its events as one block; nothing is ever put before an event    *)
(* that a reader may already have seen.  A chain may lose this standing,   *)
(* for good; until then there is no exception.                             *)
(***************************************************************************)
EXTENDS Naturals, Sequences

CONSTANTS Chains, Events, MaxEvents

VARIABLES
  log,      \* log[c]: the events of chain c, oldest first
  sound,    \* sound[c]: the promise still holds for c
  replays   \* replays[c]: a replay of c succeeds as long as c is sound

Init ==
  /\ log = [c \in Chains |-> <<>>]
  /\ sound = [c \in Chains |-> TRUE]
  /\ replays = [c \in Chains |-> TRUE]

\* A block of 1 to MaxEvents events is appended to chain c.
Record(c) ==
  /\ sound[c]
  /\ Len(log'[c]) - Len(log[c]) \in 1 .. MaxEvents
  /\ SubSeq(log'[c], 1, Len(log[c])) = log[c]
  /\ log'[c] \in Seq(Events)
  /\ log' = [log EXCEPT ![c] = log'[c]]
  /\ UNCHANGED <<sound, replays>>

\* Chain c loses its standing, and nothing is said of it any more.
Forfeit(c) ==
  /\ sound[c]
  /\ sound' = [sound EXCEPT ![c] = FALSE]
  /\ log' = [log EXCEPT ![c] = <<>>]
  /\ UNCHANGED replays

Next == \E c \in Chains :
  Forfeit(c) \/ Record(c)

Spec == Init /\ [][Next]_<<log, sound, replays>>
=============================================================================
