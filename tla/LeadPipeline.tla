---------------------------- MODULE LeadPipeline ----------------------------
(***************************************************************************)
(* One Lead row under updateLead and assignLead of                         *)
(* apps/api/src/domains/lead/service.ts.  Each reads the row, checks the   *)
(* move, and writes by id in a later transaction together with the         *)
(* LeadActivity and AuditEvent rows that tell of the change.  trail is the *)
(* order in which the transactions committed, with what their rows say and *)
(* what they really changed.                                               *)
(***************************************************************************)
EXTENDS Integers, Sequences

CONSTANTS
  Patches,  \* the requests on this lead, one handler run each
  Reps,     \* the users of the org
  Absent    \* a field the request leaves out, and an assignee of null

VARIABLES
  lead,    \* the status and the assignee of the row
  patch,   \* patch[p]: what handler p carries from its read to its transaction
  trail    \* history: the committed changes, in order

vars == <<lead, patch, trail>>

LeadStatus ==
  {"new", "contacted", "qualified", "appointment_set", "converted", "lost", "do_not_contact"}

TRANSITIONS ==
  [new             |-> {"contacted", "do_not_contact", "lost"},
   contacted       |-> {"qualified", "lost", "do_not_contact"},
   qualified       |-> {"appointment_set", "lost", "do_not_contact"},
   appointment_set |-> {"converted", "lost", "do_not_contact"},
   converted       |-> {},
   lost            |-> {},
   do_not_contact  |-> {}]

Start == [pc |-> "start"]
Done == [pc |-> "done"]

\* Mutant of IsValidTransition: any earlier status may be taken up again.
IsValidTransitionBack(from, to) == from = to \/ to \in TRANSITIONS[from] \/ from \in TRANSITIONS[to]

\* A patch that repeats the status it read is no transition.
IsValidTransition(from, to) == from = to \/ to \in TRANSITIONS[from]

Given(x, otherwise) == IF x = Absent THEN otherwise ELSE x

\* from is the row the handler had read, was the row it writes over.
Changed(from, asked, next, readAt) ==
  /\ lead' = next
  /\ trail' = Append(trail, [from |-> from, was |-> lead, asked |-> asked, to |-> next,
                            readAt |-> readAt])
-----------------------------------------------------------------------------
\* createLead leaves the row new, assigned to somebody or to nobody; requests before
\* these may have moved it on.
Init ==
  /\ lead \in [status : LeadStatus, assignee : Reps \cup {Absent}]
  /\ patch = [p \in Patches |-> Start]
  /\ trail = <<>>

\* updateLead up to its transaction.
UpdateRead(p, status, assignee) ==
  /\ patch[p].pc = "start"
  /\ patch' = [patch EXCEPT ![p] =
       IF status = Absent \/ IsValidTransition(lead.status, status)
       THEN [pc |-> "updating", from |-> lead, readAt |-> Len(trail),
             asked |-> [status |-> status, assignee |-> assignee]]
       ELSE Done]
  /\ UNCHANGED <<lead, trail>>

\* Mutant of Written: an undefined field is written as null.
WrittenRaw(p) == patch[p].asked

\* Mutant of Written: the fields the request leaves out are written back as read.
WrittenWhole(p) ==
  [status   |-> Given(patch[p].asked.status, patch[p].from.status),
   assignee |-> Given(patch[p].asked.assignee, patch[p].from.assignee)]

\* The row after an update: a field the request leaves out is not written.
Written(p) ==
  [status   |-> Given(patch[p].asked.status, lead.status),
   assignee |-> Given(patch[p].asked.assignee, lead.assignee)]

\* Its transaction, by id: the row may have changed since it was read.
UpdateCommit(p) ==
  /\ patch[p].pc = "updating"
  /\ Changed(patch[p].from, patch[p].asked, Written(p), patch[p].readAt)
  /\ patch' = [patch EXCEPT ![p] = Done]

\* assignLead up to its transaction.
AssignRead(p, rep) ==
  /\ patch[p].pc = "start"
  /\ patch' = [patch EXCEPT ![p] =
       [pc |-> "updating", from |-> lead, readAt |-> Len(trail),
        asked |-> [status |-> Absent, assignee |-> rep]]]
  /\ UNCHANGED <<lead, trail>>

\* The handler ends before its transaction, or the transaction fails.
PatchFail(p) ==
  /\ patch[p].pc = "updating"
  /\ patch' = [patch EXCEPT ![p] = Done]
  /\ UNCHANGED <<lead, trail>>

Next == \E p \in Patches :
  \/ \E status \in LeadStatus \cup {Absent}, assignee \in Reps \cup {Absent} :
       UpdateRead(p, status, assignee)
  \/ \E rep \in Reps : AssignRead(p, rep)
  \/ UpdateCommit(p)
  \/ PatchFail(p)

Spec == Init /\ [][Next]_vars
-----------------------------------------------------------------------------
RowType == [status : LeadStatus, assignee : Reps \cup {Absent}]
AskedType == [status : LeadStatus \cup {Absent}, assignee : Reps \cup {Absent}]

PatchType ==
  {Start, Done} \cup [pc : {"updating"}, from : RowType, asked : AskedType, readAt : Nat]

TypeOK ==
  /\ lead \in RowType
  /\ patch \in [Patches -> PatchType]
  /\ trail \in Seq([from : RowType, was : RowType, asked : AskedType, to : RowType,
                   readAt : Nat])

\* Something else changed field f between the read and the write of n.
Overtaken(n, f) ==
  \E m \in trail[n].readAt + 1 .. n - 1 : trail[m].was[f] # trail[m].to[f]

\* The status leaves the pipeline, and an activity or audit row names a status the lead
\* was not in, only when another change of the status committed between the read
\* and the write of a handler.
MovesLegalUnlessOvertaken ==
  \A n \in 1 .. Len(trail) :
    \/ /\ trail[n].was.status = trail[n].from.status
       /\ trail[n].to.status \in TRANSITIONS[trail[n].was.status] \cup {trail[n].was.status}
    \/ Overtaken(n, "status")

\* A change of the status and a change of the assignee never undo each other, however
\* they interleave: a handler changes a field only to the value it was asked for.
ChangesOnlyWhatWasAsked ==
  \A n \in 1 .. Len(trail) : \A f \in {"status", "assignee"} :
    trail[n].to[f] # trail[n].was[f] => trail[n].to[f] = trail[n].asked[f]
=============================================================================
