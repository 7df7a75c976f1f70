------------------------- MODULE LeadPipelineProofs -------------------------
(***************************************************************************)
(* Proofs about LeadPipeline for any number of requests and reps: a lead   *)
(* moves along the pipeline unless a handler is overtaken, and requests    *)
(* never undo one another.                                                 *)
(***************************************************************************)
EXTENDS LeadPipeline, TLAPS

\* What a handler has read of the status still holds, or a change of it overtook him.
ReadersInv ==
  \A p \in Patches : patch[p].pc = "updating" =>
    LET r == patch[p] IN
      /\ r.from \in RowType /\ r.asked \in AskedType /\ r.readAt \in 0 .. Len(trail)
      /\ r.asked.status = Absent \/ IsValidTransition(r.from.status, r.asked.status)
      /\ \/ lead.status = r.from.status
         \/ \E m \in r.readAt + 1 .. Len(trail) : trail[m].was.status # trail[m].to.status

IInv == TypeOK /\ ReadersInv /\ MovesLegalUnlessOvertaken /\ ChangesOnlyWhatWasAsked

TrailType == [from : RowType, was : RowType, asked : AskedType, to : RowType, readAt : Nat]

\* A request at its transaction is well-typed, and so is the row it writes.
LEMMA PatchShape ==
  ASSUME TypeOK, NEW p \in Patches, patch[p].pc = "updating"
  PROVE  /\ patch[p].from \in RowType /\ patch[p].asked \in AskedType
         /\ patch[p].readAt \in Nat /\ Written(p) \in RowType
<1>1. /\ patch[p].from \in RowType /\ patch[p].asked \in AskedType
      /\ patch[p].readAt \in Nat
  BY DEF TypeOK, PatchType, Start, Done
<1>2. Written(p) \in RowType
  BY <1>1 DEF TypeOK, RowType, AskedType, Written, Given
<1> QED
  BY <1>1, <1>2

\* A committed change is the next of the trail and leaves the others.
LEMMA ChangedStep ==
  ASSUME TypeOK, NEW from \in RowType, NEW asked \in AskedType, NEW next \in RowType,
         NEW readAt \in Nat, Changed(from, asked, next, readAt)
  PROVE  /\ Len(trail) \in Nat /\ Len(trail') = Len(trail) + 1
         /\ trail'[Len(trail) + 1] =
              [from |-> from, was |-> lead, asked |-> asked, to |-> next, readAt |-> readAt]
         /\ \A n \in 1 .. Len(trail) : trail'[n] = trail[n]
         /\ trail' \in Seq(TrailType) /\ lead' = next
<1>1. trail \in Seq(TrailType) /\ lead \in RowType
  BY DEF TypeOK, TrailType
<1>2. [from |-> from, was |-> lead, asked |-> asked, to |-> next, readAt |-> readAt]
        \in TrailType
  BY <1>1 DEF TrailType
<1> QED
  BY <1>1, <1>2 DEF Changed

\* The invariant holds in the initial state.
LEMMA InitIInv == Init => IInv
<1> SUFFICES ASSUME Init PROVE IInv
  OBVIOUS
<1>1. TypeOK
  BY DEF Init, TypeOK, RowType, PatchType
<1> QED
  BY <1>1 DEF Init, IInv, ReadersInv, MovesLegalUnlessOvertaken, ChangesOnlyWhatWasAsked,
              Start

\* Every step keeps the types.
LEMMA NextTyped == TypeOK /\ [Next]_vars => TypeOK'
<1> SUFFICES ASSUME TypeOK, [Next]_vars PROVE TypeOK'
  OBVIOUS
<1>a. /\ lead \in RowType /\ patch \in [Patches -> PatchType] /\ Done \in PatchType
      /\ trail \in Seq(TrailType) /\ Len(trail) \in Nat
  BY DEF TypeOK, PatchType, TrailType
<1>b. ASSUME NEW p \in Patches, NEW asked \in AskedType
      PROVE  [patch EXCEPT ![p] = [pc |-> "updating", from |-> lead, readAt |-> Len(trail),
                                   asked |-> asked]] \in [Patches -> PatchType]
  BY <1>a, <1>b DEF PatchType
<1>1. ASSUME NEW p \in Patches, NEW status \in LeadStatus \cup {Absent},
             NEW assignee \in Reps \cup {Absent}, UpdateRead(p, status, assignee)
      PROVE  TypeOK'
  <2>1. [status |-> status, assignee |-> assignee] \in AskedType
    BY DEF AskedType
  <2>2. patch' \in [Patches -> PatchType]
    BY <1>a, <1>b, <1>1, <2>1 DEF UpdateRead
  <2> QED
    BY <1>a, <1>1, <2>2 DEF UpdateRead, TypeOK, TrailType
<1>2. ASSUME NEW p \in Patches, NEW rep \in Reps, AssignRead(p, rep) PROVE TypeOK'
  <2>1. [status |-> Absent, assignee |-> rep] \in AskedType
    BY DEF AskedType
  <2>2. patch' \in [Patches -> PatchType]
    BY <1>a, <1>b, <1>2, <2>1 DEF AssignRead
  <2> QED
    BY <1>a, <1>2, <2>2 DEF AssignRead, TypeOK, TrailType
<1>3. ASSUME NEW p \in Patches, UpdateCommit(p) PROVE TypeOK'
  <2>1. trail' \in Seq(TrailType) /\ lead' \in RowType
    BY <1>3, PatchShape, ChangedStep DEF UpdateCommit
  <2>2. patch' \in [Patches -> PatchType]
    BY <1>a, <1>3 DEF UpdateCommit
  <2> QED
    BY <2>1, <2>2 DEF TypeOK, TrailType
<1>4. ASSUME NEW p \in Patches, PatchFail(p) PROVE TypeOK'
  BY <1>a, <1>4 DEF PatchFail, TypeOK, TrailType
<1>5. CASE UNCHANGED vars
  BY <1>a, <1>5 DEF vars, TypeOK, TrailType
<1> QED
  BY <1>1, <1>2, <1>3, <1>4, <1>5 DEF Next

\* A handler that reads the row as it is has not been overtaken.
LEMMA ReadReaders ==
  ASSUME TypeOK, ReadersInv, NEW p \in Patches, NEW asked \in AskedType,
         asked.status = Absent \/ IsValidTransition(lead.status, asked.status),
         patch' = [patch EXCEPT ![p] = [pc |-> "updating", from |-> lead,
                                        readAt |-> Len(trail), asked |-> asked]],
         UNCHANGED <<lead, trail>>
  PROVE  ReadersInv'
<1>1. patch \in [Patches -> PatchType] /\ Len(trail) \in Nat /\ lead \in RowType
  BY DEF TypeOK
<1>2. ASSUME NEW q \in Patches, patch'[q].pc = "updating"
      PROVE  LET r == patch'[q] IN
             /\ r.from \in RowType /\ r.asked \in AskedType /\ r.readAt \in 0 .. Len(trail)
             /\ r.asked.status = Absent \/ IsValidTransition(r.from.status, r.asked.status)
             /\ \/ lead.status = r.from.status
                \/ \E m \in r.readAt + 1 .. Len(trail) :
                     trail[m].was.status # trail[m].to.status
  <2>1. CASE q = p
    BY <1>1, <2>1
  <2>2. CASE q # p
    <3>1. patch'[q] = patch[q]
      BY <1>1, <2>2
    <3> QED
      BY <1>2, <3>1 DEF ReadersInv
  <2> QED
    BY <2>1, <2>2
<1> QED
  BY <1>2 DEF ReadersInv

\* A handler that ends takes nothing along.
LEMMA EndReaders ==
  ASSUME TypeOK, ReadersInv, NEW p \in Patches, patch' = [patch EXCEPT ![p] = Done],
         UNCHANGED <<lead, trail>>
  PROVE  ReadersInv'
<1>1. patch \in [Patches -> PatchType]
  BY DEF TypeOK
<1>2. \A q \in Patches : patch'[q].pc = "updating" => patch'[q] = patch[q]
  BY <1>1 DEF Done
<1> QED
  BY <1>2 DEF ReadersInv

\* A change overtakes every handler that read the row before it, if it changes the status.
LEMMA ChangedReaders ==
  ASSUME TypeOK, ReadersInv, NEW from \in RowType, NEW asked \in AskedType,
         NEW next \in RowType, NEW readAt \in Nat, Changed(from, asked, next, readAt),
         \A q \in Patches : patch'[q].pc = "updating" => patch'[q] = patch[q]
  PROVE  ReadersInv'
<1> DEFINE n1 == Len(trail) + 1
<1>d. /\ Len(trail) \in Nat /\ Len(trail') = n1
      /\ trail'[n1] = [from |-> from, was |-> lead, asked |-> asked, to |-> next,
                       readAt |-> readAt]
      /\ \A n \in 1 .. Len(trail) : trail'[n] = trail[n]
      /\ lead' = next
  BY ChangedStep
<1>f. lead'.status # lead.status => trail'[n1].was.status # trail'[n1].to.status
  BY <1>d
<1> SUFFICES ASSUME NEW q \in Patches, patch'[q].pc = "updating"
             PROVE  LET s == patch'[q] IN
               /\ s.from \in RowType /\ s.asked \in AskedType
               /\ s.readAt \in 0 .. Len(trail')
               /\ \/ s.asked.status = Absent
                  \/ IsValidTransition(s.from.status, s.asked.status)
               /\ \/ lead'.status = s.from.status
                  \/ \E m \in s.readAt + 1 .. Len(trail') :
                       trail'[m].was.status # trail'[m].to.status
  BY DEF ReadersInv
<1>1. patch'[q] = patch[q]
  OBVIOUS
<1> DEFINE s == patch[q]
<1>2. /\ s.from \in RowType /\ s.asked \in AskedType /\ s.readAt \in 0 .. Len(trail)
      /\ s.asked.status = Absent \/ IsValidTransition(s.from.status, s.asked.status)
      /\ \/ lead.status = s.from.status
         \/ \E m \in s.readAt + 1 .. Len(trail) : trail[m].was.status # trail[m].to.status
  BY <1>1 DEF ReadersInv
<1>3. \/ lead'.status = s.from.status
      \/ \E m \in s.readAt + 1 .. Len(trail') : trail'[m].was.status # trail'[m].to.status
  <2>1. CASE \E m \in s.readAt + 1 .. Len(trail) : trail[m].was.status # trail[m].to.status
    <3>1. PICK m \in s.readAt + 1 .. Len(trail) : trail[m].was.status # trail[m].to.status
      BY <2>1
    <3>2. m \in 1 .. Len(trail) /\ m \in s.readAt + 1 .. Len(trail')
      BY <1>d, <1>2
    <3> QED
      BY <1>d, <3>1, <3>2
  <2>2. CASE lead.status = s.from.status
    <3>1. n1 \in s.readAt + 1 .. Len(trail')
      BY <1>d, <1>2
    <3> QED
      BY <1>f, <2>2, <3>1
  <2> QED
    BY <1>2, <2>1, <2>2
<1> QED
  BY <1>d, <1>1, <1>2, <1>3

\* Every step keeps what is said of the handlers that have read the row.
LEMMA NextReaders == TypeOK /\ ReadersInv /\ [Next]_vars => ReadersInv'
<1> SUFFICES ASSUME TypeOK, ReadersInv, [Next]_vars PROVE ReadersInv'
  OBVIOUS
<1>1. ASSUME NEW p \in Patches, NEW status \in LeadStatus \cup {Absent},
             NEW assignee \in Reps \cup {Absent}, UpdateRead(p, status, assignee)
      PROVE  ReadersInv'
  <2>1. [status |-> status, assignee |-> assignee] \in AskedType
    BY DEF AskedType
  <2>2. CASE status = Absent \/ IsValidTransition(lead.status, status)
    BY <1>1, <2>1, <2>2, ReadReaders DEF UpdateRead
  <2>3. CASE ~(status = Absent \/ IsValidTransition(lead.status, status))
    BY <1>1, <2>3, EndReaders DEF UpdateRead
  <2> QED
    BY <2>2, <2>3
<1>2. ASSUME NEW p \in Patches, NEW rep \in Reps, AssignRead(p, rep) PROVE ReadersInv'
  <2>1. [status |-> Absent, assignee |-> rep] \in AskedType
    BY DEF AskedType
  <2> QED
    BY <1>2, <2>1, ReadReaders DEF AssignRead
<1>3. ASSUME NEW p \in Patches, UpdateCommit(p) PROVE ReadersInv'
  <2>1. \A q \in Patches : patch'[q].pc = "updating" => patch'[q] = patch[q]
    BY <1>3 DEF UpdateCommit, TypeOK, Done
  <2> QED
    BY <1>3, <2>1, PatchShape, ChangedReaders DEF UpdateCommit
<1>4. ASSUME NEW p \in Patches, PatchFail(p) PROVE ReadersInv'
  BY <1>4, EndReaders DEF PatchFail
<1>5. CASE UNCHANGED vars
  BY <1>5 DEF vars, ReadersInv
<1> QED
  BY <1>1, <1>2, <1>3, <1>4, <1>5 DEF Next

\* A commit writes what it was asked for, over what it had read unless it is overtaken.
LEMMA CommitKeeps ==
  ASSUME IInv, NEW p \in Patches, UpdateCommit(p)
  PROVE  MovesLegalUnlessOvertaken' /\ ChangesOnlyWhatWasAsked'
<1> DEFINE r == patch[p]
           n1 == Len(trail) + 1
<1>a. /\ patch \in [Patches -> PatchType] /\ trail \in Seq(TrailType)
      /\ r.pc = "updating"
  BY DEF IInv, TypeOK, TrailType, UpdateCommit
<1>b. /\ r.from \in RowType /\ r.asked \in AskedType /\ r.readAt \in 0 .. Len(trail)
      /\ r.asked.status = Absent \/ IsValidTransition(r.from.status, r.asked.status)
      /\ \/ lead.status = r.from.status
         \/ \E m \in r.readAt + 1 .. Len(trail) : trail[m].was.status # trail[m].to.status
  BY <1>a DEF IInv, ReadersInv
<1>c. Written(p) \in RowType
  BY <1>a, PatchShape DEF IInv
<1>d. /\ Len(trail) \in Nat /\ Len(trail') = n1
      /\ trail'[n1] = [from |-> r.from, was |-> lead, asked |-> r.asked,
                       to |-> Written(p), readAt |-> r.readAt]
      /\ \A n \in 1 .. Len(trail) : trail'[n] = trail[n]
      /\ lead' = Written(p)
  BY <1>a, <1>b, <1>c, ChangedStep, PatchShape DEF IInv, UpdateCommit
<1>e. ASSUME NEW n \in 1 .. Len(trail) PROVE trail[n].readAt \in Nat
  <2>1. trail[n] \in TrailType
    BY <1>a
  <2> QED
    BY <2>1 DEF TrailType
<1>2. MovesLegalUnlessOvertaken'
  <2>1. ASSUME NEW n \in 1 .. Len(trail)
        PROVE  \/ /\ trail'[n].was.status = trail'[n].from.status
                  /\ trail'[n].to.status \in
                       TRANSITIONS[trail'[n].was.status] \cup {trail'[n].was.status}
               \/ \E m \in trail'[n].readAt + 1 .. n - 1 :
                    trail'[m].was["status"] # trail'[m].to["status"]
    <3>1. trail'[n] = trail[n]
      BY <1>d
    <3>2. CASE \E m \in trail[n].readAt + 1 .. n - 1 :
                 trail[m].was["status"] # trail[m].to["status"]
      <4>1. PICK m \in trail[n].readAt + 1 .. n - 1 :
                   trail[m].was["status"] # trail[m].to["status"]
        BY <3>2
      <4>2. m \in 1 .. Len(trail)
        BY <1>d, <1>e
      <4> QED
        BY <1>d, <3>1, <4>1, <4>2
    <3> QED
      BY <3>1, <3>2 DEF IInv, MovesLegalUnlessOvertaken, Overtaken
  <2>2. \/ /\ lead.status = r.from.status
           /\ Written(p).status \in TRANSITIONS[lead.status] \cup {lead.status}
        \/ \E m \in r.readAt + 1 .. Len(trail) :
             trail'[m].was["status"] # trail'[m].to["status"]
    <3>1. CASE lead.status = r.from.status
      BY <1>b, <3>1 DEF Written, Given, IsValidTransition
    <3>2. CASE \E m \in r.readAt + 1 .. Len(trail) : trail[m].was.status # trail[m].to.status
      <4>1. PICK m \in r.readAt + 1 .. Len(trail) : trail[m].was.status # trail[m].to.status
        BY <3>2
      <4>2. m \in 1 .. Len(trail)
        BY <1>b, <1>d
      <4> QED
        BY <1>d, <4>1, <4>2
    <3> QED
      BY <1>b, <3>1, <3>2
  <2>3. \/ /\ trail'[n1].was.status = trail'[n1].from.status
           /\ trail'[n1].to.status \in
                TRANSITIONS[trail'[n1].was.status] \cup {trail'[n1].was.status}
        \/ \E m \in trail'[n1].readAt + 1 .. n1 - 1 :
             trail'[m].was["status"] # trail'[m].to["status"]
    BY <1>d, <2>2
  <2> QED
    BY <1>d, <2>1, <2>3 DEF MovesLegalUnlessOvertaken, Overtaken
<1>3. ChangesOnlyWhatWasAsked'
  <2>1. ASSUME NEW n \in 1 .. Len(trail), NEW f \in {"status", "assignee"},
               trail'[n].to[f] # trail'[n].was[f]
        PROVE  trail'[n].to[f] = trail'[n].asked[f]
    BY <1>d, <2>1 DEF IInv, ChangesOnlyWhatWasAsked
  <2>2. ASSUME NEW f \in {"status", "assignee"}, Written(p)[f] # lead[f]
        PROVE  Written(p)[f] = r.asked[f]
    BY <2>2 DEF Written, Given
  <2>3. ASSUME NEW f \in {"status", "assignee"}, trail'[n1].to[f] # trail'[n1].was[f]
        PROVE  trail'[n1].to[f] = trail'[n1].asked[f]
    BY <1>d, <2>2, <2>3
  <2> QED
    BY <1>d, <2>1, <2>3 DEF ChangesOnlyWhatWasAsked
<1> QED
  BY <1>2, <1>3

\* Every step keeps the invariant.
LEMMA NextIInv == IInv /\ [Next]_vars => IInv'
<1> SUFFICES ASSUME IInv, [Next]_vars PROVE IInv'
  OBVIOUS
<1>1. TypeOK' /\ ReadersInv'
  BY NextTyped, NextReaders DEF IInv
<1>2. CASE UNCHANGED trail
  BY <1>1, <1>2 DEF IInv, MovesLegalUnlessOvertaken, Overtaken, ChangesOnlyWhatWasAsked
<1>3. ASSUME NEW p \in Patches, UpdateCommit(p) PROVE IInv'
  BY <1>1, <1>3, CommitKeeps DEF IInv
<1> QED
  BY <1>2, <1>3 DEF Next, vars, UpdateRead, AssignRead, PatchFail

\* The lead is converted, or a request that had not seen it converted wrote over it.
ConvertedOrOverwritten ==
  \/ lead.status = "converted"
  \/ \E n \in 1 .. Len(trail) :
       trail[n].was.status = "converted" /\ Overtaken(n, "status")

\* A change that converts the lead, or leaves its status, loses nothing.
LEMMA ChangedConverted ==
  ASSUME TypeOK, NEW from \in RowType, NEW asked \in AskedType,
         NEW next \in RowType, NEW readAt \in Nat, Changed(from, asked, next, readAt),
         next.status = "converted" \/ ConvertedOrOverwritten,
         \/ next.status = "converted"
         \/ next.status = lead.status
         \/ lead.status = "converted" =>
              \E m \in readAt + 1 .. Len(trail) : trail[m].was.status # trail[m].to.status
  PROVE  ConvertedOrOverwritten'
<1>1. /\ Len(trail) \in Nat /\ Len(trail') = Len(trail) + 1
      /\ trail'[Len(trail) + 1] = [from |-> from, was |-> lead, asked |-> asked,
                                   to |-> next, readAt |-> readAt]
      /\ \A n \in 1 .. Len(trail) : trail'[n] = trail[n]
      /\ lead' = next
  BY ChangedStep
<1>2. ASSUME NEW n \in 1 .. Len(trail), trail[n].was.status = "converted",
             Overtaken(n, "status")
      PROVE  ConvertedOrOverwritten'
  <2>1. PICK m \in trail[n].readAt + 1 .. n - 1 :
               trail[m].was["status"] # trail[m].to["status"]
    BY <1>2 DEF Overtaken
  <2>2. trail[n].readAt \in Nat
    <3>1. trail \in Seq(TrailType)
      BY DEF TypeOK, TrailType
    <3>2. trail[n] \in TrailType
      BY <3>1
    <3>. QED
      BY <3>2 DEF TrailType
  <2>3. m \in 1 .. Len(trail) /\ n \in 1 .. Len(trail')
    BY <1>1, <2>1, <2>2
  <2>. QED
    BY <1>1, <1>2, <2>1, <2>3 DEF ConvertedOrOverwritten, Overtaken
<1>3. ASSUME lead.status = "converted",
             NEW m \in readAt + 1 .. Len(trail), trail[m].was.status # trail[m].to.status
      PROVE  ConvertedOrOverwritten'
  <2>. DEFINE n == Len(trail) + 1
  <2>1. /\ n \in 1 .. Len(trail') /\ m \in 1 .. Len(trail) /\ m \in readAt + 1 .. n - 1
        /\ trail'[n].was.status = "converted" /\ trail'[n].readAt = readAt
        /\ trail'[m].was["status"] # trail'[m].to["status"]
    BY <1>1, <1>3
  <2>. HIDE DEF n
  <2>. QED
    BY <2>1 DEF ConvertedOrOverwritten, Overtaken
<1>4. CASE next.status = "converted"
  BY <1>1, <1>4 DEF ConvertedOrOverwritten
<1>5. CASE next.status # "converted" /\ lead.status # "converted"
  BY <1>2, <1>5 DEF ConvertedOrOverwritten
<1>6. CASE next.status # "converted" /\ lead.status = "converted"
  BY <1>3, <1>6
<1>. QED
  BY <1>4, <1>5, <1>6

\* A converted lead has nowhere to go: only a request that read it before that can write
\* another status over it.
LEMMA ConvertedStays ==
  ASSUME TypeOK, ReadersInv, [Next]_vars, ConvertedOrOverwritten
  PROVE  ConvertedOrOverwritten'
<1>1. CASE UNCHANGED <<lead, trail>>
  BY <1>1 DEF ConvertedOrOverwritten, Overtaken
<1>2. ASSUME NEW p \in Patches, UpdateCommit(p) PROVE ConvertedOrOverwritten'
  <2>. DEFINE r == patch[p]
  <2>1. /\ r.pc = "updating" /\ Changed(r.from, r.asked, Written(p), r.readAt)
        /\ r.from \in RowType /\ r.asked \in AskedType /\ r.readAt \in Nat
        /\ Written(p) \in RowType
    BY <1>2, PatchShape DEF UpdateCommit
  <2>2. /\ r.asked.status = Absent \/ IsValidTransition(r.from.status, r.asked.status)
        /\ \/ lead.status = r.from.status
           \/ \E m \in r.readAt + 1 .. Len(trail) : trail[m].was.status # trail[m].to.status
    BY <2>1 DEF ReadersInv
  <2>3. CASE \E m \in r.readAt + 1 .. Len(trail) : trail[m].was.status # trail[m].to.status
    BY <2>1, <2>3, ChangedConverted
  <2>4. CASE lead.status = r.from.status /\ lead.status = "converted"
    <3>1. Written(p).status = "converted"
      BY <2>2, <2>4 DEF Written, Given, IsValidTransition, TRANSITIONS
    <3>. QED
      BY <2>1, <3>1, ChangedConverted
  <2>5. CASE lead.status # "converted"
    BY <2>1, <2>5, ChangedConverted
  <2>. QED
    BY <2>2, <2>3, <2>4, <2>5
<1>. QED
  BY <1>1, <1>2 DEF Next, vars, UpdateRead, AssignRead, PatchFail

\* The row, the requests and the trail keep their types.
THEOREM LeadTypeCorrect == Spec => []TypeOK
<1>1. IInv => TypeOK
  BY DEF IInv
<1> QED
  BY InitIInv, NextIInv, <1>1, PTL DEF Spec

\* For any number of requests, a lead leaves the pipeline, and its activity and audit rows
\* name a status it was not in, only when a change of the status overtook a handler.
THEOREM PipelineHolds == Spec => []MovesLegalUnlessOvertaken
<1>1. IInv => MovesLegalUnlessOvertaken
  BY DEF IInv
<1> QED
  BY InitIInv, NextIInv, <1>1, PTL DEF Spec

\* For any number of requests and reps, patches and assignments never undo one another.
THEOREM NothingIsUndone == Spec => []ChangesOnlyWhatWasAsked
<1>1. IInv => ChangesOnlyWhatWasAsked
  BY DEF IInv
<1> QED
  BY InitIInv, NextIInv, <1>1, PTL DEF Spec
=============================================================================
