-------------------------- MODULE ClearanceProofs --------------------------
(***************************************************************************)
(* Proofs about Clearance for any number of officers, campaigns and        *)
(* states: registrations move as the table says unless overtaken, and an   *)
(* open gate goes back to an approval that found the campaign there.       *)
(***************************************************************************)
EXTENDS Clearance, TLAPS

\* What a handler has read still holds, or a write of the same registration overtook it.
ReadersInv ==
  \A k \in Officers : officer[k].pc = "moving" =>
    LET o == officer[k] IN
      /\ o.state \in States /\ o.from \in SolicitorStatus
      /\ o.readAt \in 0 .. Len(regLog)
      /\ o.next \in STATUS_TRANSITIONS[o.from]
      /\ reg[o.state].status # "none"
      /\ \/ reg[o.state].status = o.from
         \/ \E m \in o.readAt + 1 .. Len(regLog) : regLog[m].state = o.state

\* The write at position n approved the registration of s when campaign c was there.
ApprovedAt(n, c, s) ==
  /\ regLog[n].state = s /\ regLog[n].to = "approved" /\ regLog[n].was # "none"
  /\ c \in regLog[n].campaigns

\* Such a write is among the first n, and no later one of them took the approval back.
OpenAt(c, s, n) ==
  \E a \in 1 .. n :
    /\ ApprovedAt(a, c, s)
    /\ \A m \in a + 1 .. n : regLog[m].state = s => regLog[m].to = "approved"

\* A clearance is of a registration that was filed, and while it is approved the clearance
\* was opened by such a write.
ClearedInv ==
  \A c \in Campaigns, s \in States : <<c, s>> \in cleared =>
    /\ reg[s].status # "none"
    /\ reg[s].status = "approved" => OpenAt(c, s, Len(regLog))

IInv == TypeOK /\ ReadersInv /\ LegalUnlessOvertaken /\ ClearedInv

\* A committed write is the next of the log and leaves the others.
LEMMA WroteStep ==
  ASSUME TypeOK, NEW s \in States, NEW from, NEW to, NEW readAt, Wrote(s, from, to, readAt)
  PROVE  /\ Len(regLog) \in Nat /\ Len(regLog') = Len(regLog) + 1
         /\ regLog'[Len(regLog) + 1] =
              [state |-> s, from |-> from, was |-> reg[s].status, to |-> to,
               readAt |-> readAt, campaigns |-> campaigns]
         /\ \A n \in 1 .. Len(regLog) : regLog'[n] = regLog[n]
BY DEF TypeOK, Wrote

\* A handler that moves a registration carries a well-typed request.
LEMMA OfficerShape ==
  ASSUME TypeOK, NEW k \in Officers, officer[k].pc = "moving"
  PROVE  /\ officer[k].state \in States /\ officer[k].from \in SolicitorStatus
         /\ officer[k].next \in Requested /\ officer[k].readAt \in Nat
BY DEF TypeOK, OfficerType, Start, Done

\* The invariant holds in the initial state.
LEMMA InitIInv == Init => IInv
<1> SUFFICES ASSUME Init PROVE IInv
  OBVIOUS
<1>1. TypeOK
  BY DEF Init, TypeOK, OfficerType, NoRegistration
<1> QED
  BY <1>1 DEF Init, IInv, ReadersInv, LegalUnlessOvertaken, ClearedInv, Start

\* Every step keeps the types.
LEMMA NextTyped == TypeOK /\ [Next]_vars => TypeOK'
<1> SUFFICES ASSUME TypeOK, [Next]_vars PROVE TypeOK'
  OBVIOUS
<1>a. /\ reg \in [States -> [status : SolicitorStatus \cup {"none"}, lapsed : BOOLEAN]]
      /\ campaigns \subseteq Campaigns /\ cleared \subseteq campaigns \X States
      /\ officer \in [Officers -> OfficerType] /\ Done \in OfficerType
      /\ refused \in Seq(SolicitorStatus) /\ regLog \in Seq(WriteType) /\ Len(regLog) \in Nat
  BY DEF TypeOK, OfficerType
<1>b. ASSUME NEW s \in States PROVE
        /\ reg[s].status \in SolicitorStatus \cup {"none"} /\ reg[s].lapsed \in BOOLEAN
        /\ \A x \in SolicitorStatus, b \in BOOLEAN :
             /\ [reg EXCEPT ![s].status = x] \in
                  [States -> [status : SolicitorStatus \cup {"none"}, lapsed : BOOLEAN]]
             /\ [reg EXCEPT ![s].lapsed = b] \in
                  [States -> [status : SolicitorStatus \cup {"none"}, lapsed : BOOLEAN]]
  BY <1>a
<1>1. ASSUME NEW c \in Campaigns, Launch(c) PROVE TypeOK'
  BY <1>a, <1>1 DEF Launch, TypeOK
<1>2. ASSUME NEW s \in States, NEW status \in SolicitorStatus, File(s, status) PROVE TypeOK'
  <2>1. [state |-> s, from |-> "none", was |-> reg[s].status, to |-> status,
         readAt |-> Len(regLog), campaigns |-> campaigns] \in WriteType
    BY <1>a, <1>b DEF WriteType
  <2>2. regLog' \in Seq(WriteType)
    BY <1>a, <1>2, <2>1 DEF File, Wrote
  <2>3. reg' \in [States -> [status : SolicitorStatus \cup {"none"}, lapsed : BOOLEAN]]
    BY <1>a, <1>2 DEF File
  <2> QED
    BY <1>a, <1>2, <2>2, <2>3 DEF File, TypeOK
<1>3. ASSUME NEW s \in States, FileRefused(s) PROVE TypeOK'
  <2>1. refused' \in Seq(SolicitorStatus)
    BY <1>a, <1>b, <1>3 DEF FileRefused
  <2> QED
    BY <1>a, <1>3, <2>1 DEF FileRefused, TypeOK
<1>4. ASSUME NEW s \in States, Lapse(s) PROVE TypeOK'
  BY <1>a, <1>b, <1>4 DEF Lapse, TypeOK
<1>5. ASSUME NEW k \in Officers, NEW s \in States, NEW next \in Requested,
             TransitionRead(k, s, next)
      PROVE  TypeOK'
  <2>1. [pc |-> "moving", state |-> s, from |-> reg[s].status, next |-> next,
         readAt |-> Len(regLog)] \in OfficerType
    BY <1>a, <1>b, <1>5 DEF OfficerType, TransitionRead
  <2>2. officer' \in [Officers -> OfficerType]
    BY <1>a, <1>5, <2>1 DEF TransitionRead
  <2> QED
    BY <1>a, <1>5, <2>2 DEF TransitionRead, TypeOK
<1>6. ASSUME NEW k \in Officers, TransitionCommit(k) PROVE TypeOK'
  <2> DEFINE s == officer[k].state
             next == officer[k].next
  <2>1. /\ s \in States /\ officer[k].from \in SolicitorStatus
        /\ next \in SolicitorStatus /\ officer[k].readAt \in Nat
    BY <1>6, OfficerShape DEF TransitionCommit, Requested, SolicitorStatus
  <2>2. [state |-> s, from |-> officer[k].from, was |-> reg[s].status, to |-> next,
         readAt |-> officer[k].readAt, campaigns |-> campaigns] \in WriteType
    BY <1>a, <1>b, <2>1 DEF WriteType
  <2>3. regLog' \in Seq(WriteType)
    BY <1>a, <1>6, <2>2 DEF TransitionCommit, Wrote
  <2>4. reg' \in [States -> [status : SolicitorStatus \cup {"none"}, lapsed : BOOLEAN]]
    BY <1>b, <1>6, <2>1 DEF TransitionCommit
  <2>5. cleared' \subseteq campaigns \X States
    BY <1>a, <1>6, <2>1 DEF TransitionCommit, FanOut
  <2>6. officer' \in [Officers -> OfficerType]
    BY <1>a, <1>6 DEF TransitionCommit
  <2> QED
    BY <1>a, <1>6, <2>3, <2>4, <2>5, <2>6 DEF TransitionCommit, TypeOK
<1>7. ASSUME NEW k \in Officers, TransitionFail(k) PROVE TypeOK'
  BY <1>a, <1>7 DEF TransitionFail, TypeOK
<1>8. CASE UNCHANGED vars
  BY <1>a, <1>8 DEF vars, TypeOK
<1> QED
  BY <1>1, <1>2, <1>3, <1>4, <1>5, <1>6, <1>7, <1>8 DEF Next

\* A write whose handler read the row as it is, or was overtaken, keeps the log legal.
LEMMA WroteLegal ==
  ASSUME IInv, NEW s \in States, NEW from, NEW to, NEW readAt \in Nat,
         Wrote(s, from, to, readAt), readAt <= Len(regLog),
         \/ reg[s].status = "none"
         \/ from = reg[s].status /\ to \in STATUS_TRANSITIONS[from]
         \/ \E m \in readAt + 1 .. Len(regLog) : regLog[m].state = s
  PROVE  LegalUnlessOvertaken'
<1>1. /\ Len(regLog) \in Nat /\ Len(regLog') = Len(regLog) + 1
      /\ regLog'[Len(regLog) + 1] =
           [state |-> s, from |-> from, was |-> reg[s].status, to |-> to,
            readAt |-> readAt, campaigns |-> campaigns]
      /\ \A n \in 1 .. Len(regLog) : regLog'[n] = regLog[n]
  BY WroteStep DEF IInv
<1>2. ASSUME NEW n \in 1 .. Len(regLog) PROVE regLog[n].readAt \in Nat
  <2>1. regLog \in Seq(WriteType)
    BY DEF IInv, TypeOK
  <2>2. regLog[n] \in WriteType
    BY <2>1
  <2> QED
    BY <2>2 DEF WriteType
<1>3. ASSUME NEW n \in 1 .. Len(regLog), regLog'[n].was # "none"
      PROVE  \/ /\ regLog'[n].from = regLog'[n].was
                /\ regLog'[n].to \in STATUS_TRANSITIONS[regLog'[n].was]
             \/ \E m \in regLog'[n].readAt + 1 .. n - 1 : regLog'[m].state = regLog'[n].state
  <2>1. regLog'[n] = regLog[n]
    BY <1>1
  <2>2. CASE \E m \in regLog[n].readAt + 1 .. n - 1 : regLog[m].state = regLog[n].state
    <3>1. PICK m \in regLog[n].readAt + 1 .. n - 1 : regLog[m].state = regLog[n].state
      BY <2>2
    <3>2. m \in 1 .. Len(regLog)
      BY <1>1, <1>2
    <3> QED
      BY <1>1, <2>1, <3>1, <3>2
  <2> QED
    BY <1>3, <2>1, <2>2 DEF IInv, LegalUnlessOvertaken, Overtaken
<1>4. ASSUME regLog'[Len(regLog) + 1].was # "none"
      PROVE  LET n == Len(regLog) + 1 IN
             \/ /\ regLog'[n].from = regLog'[n].was
                /\ regLog'[n].to \in STATUS_TRANSITIONS[regLog'[n].was]
             \/ \E m \in regLog'[n].readAt + 1 .. n - 1 : regLog'[m].state = regLog'[n].state
  BY <1>1, <1>4
<1> QED
  BY <1>1, <1>3, <1>4 DEF LegalUnlessOvertaken, Overtaken

\* A write of another registration leaves a clearance open.
LEMMA OpenKept ==
  ASSUME TypeOK, NEW s \in States, NEW from, NEW to, NEW readAt, Wrote(s, from, to, readAt),
         NEW c, NEW r \in States \ {s}, OpenAt(c, r, Len(regLog))
  PROVE  OpenAt(c, r, Len(regLog))'
<1>1. /\ Len(regLog) \in Nat /\ Len(regLog') = Len(regLog) + 1
      /\ regLog'[Len(regLog) + 1].state = s
      /\ \A n \in 1 .. Len(regLog) : regLog'[n] = regLog[n]
  <2>1. /\ Len(regLog) \in Nat /\ Len(regLog') = Len(regLog) + 1
        /\ regLog'[Len(regLog) + 1] =
             [state |-> s, from |-> from, was |-> reg[s].status, to |-> to,
              readAt |-> readAt, campaigns |-> campaigns]
        /\ \A n \in 1 .. Len(regLog) : regLog'[n] = regLog[n]
    BY WroteStep
  <2>. QED
    BY <2>1
<1>2. PICK a \in 1 .. Len(regLog) :
        /\ ApprovedAt(a, c, r)
        /\ \A m \in a + 1 .. Len(regLog) : regLog[m].state = r => regLog[m].to = "approved"
  BY DEF OpenAt
<1>3. a \in 1 .. Len(regLog') /\ ApprovedAt(a, c, r)'
  BY <1>1, <1>2 DEF ApprovedAt
<1>4. ASSUME NEW m \in a + 1 .. Len(regLog'), regLog'[m].state = r
      PROVE  regLog'[m].to = "approved"
  <2>1. m \in a + 1 .. Len(regLog) /\ m \in 1 .. Len(regLog)
    BY <1>1, <1>2, <1>4
  <2>. QED
    BY <1>1, <1>2, <1>4, <2>1
<1>. QED
  BY <1>3, <1>4 DEF OpenAt

\* A registration is written by one write at a time, at the end of the log.
LEMMA LogGrows ==
  ASSUME TypeOK, [Next]_vars
  PROVE  /\ Len(regLog) \in Nat /\ Len(regLog') \in Nat /\ Len(regLog) <= Len(regLog')
         /\ \A n \in 1 .. Len(regLog) : regLog'[n] = regLog[n]
<1>1. regLog \in Seq(WriteType) /\ Len(regLog) \in Nat
  BY DEF TypeOK
<1>2. UNCHANGED regLog \/ \E w : regLog' = Append(regLog, w)
  BY DEF Next, vars, Launch, File, FileRefused, Lapse, TransitionRead, TransitionCommit,
         TransitionFail, Wrote
<1>3. ASSUME NEW w, regLog' = Append(regLog, w)
      PROVE  /\ Len(regLog') = Len(regLog) + 1
             /\ \A n \in 1 .. Len(regLog) : regLog'[n] = regLog[n]
  BY <1>1, <1>3
<1>. QED
  BY <1>1, <1>2, <1>3

\* Every step keeps the invariant.
LEMMA NextIInv == IInv /\ [Next]_vars => IInv'
<1> SUFFICES ASSUME IInv, [Next]_vars PROVE IInv'
  OBVIOUS
<1>a. TypeOK /\ TypeOK' /\ Len(regLog) \in Nat
  BY NextTyped DEF IInv, TypeOK
<1>b. ASSUME UNCHANGED <<reg, cleared, officer, regLog>> PROVE IInv'
  BY <1>a, <1>b
     DEF IInv, ReadersInv, LegalUnlessOvertaken, Overtaken, ClearedInv, OpenAt, ApprovedAt
<1>c. ASSUME UNCHANGED regLog PROVE LegalUnlessOvertaken'
  BY <1>c DEF IInv, LegalUnlessOvertaken, Overtaken
<1>d. ASSUME UNCHANGED <<cleared, regLog>>, \A s \in States : reg'[s].status = reg[s].status
      PROVE  ClearedInv'
  BY <1>d DEF IInv, ClearedInv, OpenAt, ApprovedAt
<1>e. ASSUME NEW s \in States, NEW from, NEW to, NEW readAt, NEW k \in Officers,
             Wrote(s, from, to, readAt), officer[k].pc = "moving",
             reg' \in [States -> [status : SolicitorStatus \cup {"none"}, lapsed : BOOLEAN]],
             \A r \in States \ {s} : reg'[r] = reg[r], reg'[s].status # "none"
      PROVE  LET o == officer[k] IN
             /\ o.state \in States /\ o.from \in SolicitorStatus
             /\ o.readAt \in 0 .. Len(regLog') /\ o.next \in STATUS_TRANSITIONS[o.from]
             /\ reg'[o.state].status # "none"
             /\ \/ reg'[o.state].status = o.from
                \/ \E m \in o.readAt + 1 .. Len(regLog') : regLog'[m].state = o.state
  <2> DEFINE o == officer[k]
  <2>1. /\ o.state \in States /\ o.from \in SolicitorStatus
        /\ o.readAt \in 0 .. Len(regLog) /\ o.next \in STATUS_TRANSITIONS[o.from]
        /\ reg[o.state].status # "none"
        /\ \/ reg[o.state].status = o.from
           \/ \E m \in o.readAt + 1 .. Len(regLog) : regLog[m].state = o.state
    BY <1>e DEF IInv, ReadersInv
  <2>2. /\ Len(regLog') = Len(regLog) + 1
        /\ regLog'[Len(regLog) + 1].state = s
        /\ \A n \in 1 .. Len(regLog) : regLog'[n] = regLog[n]
    <3>1. /\ Len(regLog') = Len(regLog) + 1
          /\ regLog'[Len(regLog) + 1] =
               [state |-> s, from |-> from, was |-> reg[s].status, to |-> to,
                readAt |-> readAt, campaigns |-> campaigns]
          /\ \A n \in 1 .. Len(regLog) : regLog'[n] = regLog[n]
      BY <1>a, <1>e, WroteStep
    <3> QED
      BY <3>1
  <2>3. CASE o.state = s
    BY <1>a, <1>e, <2>1, <2>2, <2>3
  <2>4. CASE o.state # s
    BY <1>a, <1>e, <2>1, <2>2, <2>4
  <2> QED
    BY <2>3, <2>4
<1>1. ASSUME NEW c \in Campaigns, Launch(c) PROVE IInv'
  BY <1>b, <1>1 DEF Launch
<1>2. ASSUME NEW s \in States, NEW status \in SolicitorStatus, File(s, status) PROVE IInv'
  <2>1. Wrote(s, "none", status, Len(regLog)) /\ reg[s].status = "none"
    BY <1>2 DEF File
  <2>2. /\ \A r \in States \ {s} : reg'[r] = reg[r]
        /\ reg'[s].status # "none"
        /\ reg' \in [States -> [status : SolicitorStatus \cup {"none"}, lapsed : BOOLEAN]]
    BY <1>a, <1>2 DEF File, TypeOK, SolicitorStatus
  <2>3. ReadersInv'
    BY <1>2, <1>e, <2>1, <2>2 DEF File, ReadersInv
  <2>4. LegalUnlessOvertaken'
    BY <1>a, <2>1, WroteLegal
  <2>5. ClearedInv'
    <3>1. ASSUME NEW c \in Campaigns, NEW r \in States, <<c, r>> \in cleared'
          PROVE  /\ reg'[r].status # "none"
                 /\ reg'[r].status = "approved" => OpenAt(c, r, Len(regLog))'
      <4>1. /\ <<c, r>> \in cleared /\ reg[r].status # "none"
            /\ reg[r].status = "approved" => OpenAt(c, r, Len(regLog))
        BY <1>2, <3>1 DEF File, IInv, ClearedInv
      <4>2. r \in States \ {s} /\ reg'[r] = reg[r]
        BY <2>1, <2>2, <4>1
      <4> QED
        BY <1>a, <2>1, <4>1, <4>2, OpenKept
    <3> QED
      BY <3>1 DEF ClearedInv
  <2> QED
    BY <1>a, <2>3, <2>4, <2>5 DEF IInv
<1>3. ASSUME NEW s \in States, FileRefused(s) PROVE IInv'
  BY <1>b, <1>3 DEF FileRefused
<1>4. ASSUME NEW s \in States, Lapse(s) PROVE IInv'
  <2>1. \A r \in States : reg'[r].status = reg[r].status
    BY <1>a, <1>4 DEF Lapse, TypeOK
  <2>2. ReadersInv'
    BY <1>4, <2>1 DEF Lapse, IInv, ReadersInv
  <2> QED
    BY <1>a, <1>4, <1>c, <1>d, <2>2 DEF Lapse, IInv
<1>5. ASSUME NEW k \in Officers, NEW s \in States, NEW next \in Requested,
             TransitionRead(k, s, next)
      PROVE  IInv'
  <2>1. reg[s].status \in SolicitorStatus
    BY <1>a, <1>5 DEF TransitionRead, TypeOK
  <2>2. ASSUME NEW j \in Officers, officer'[j].pc = "moving"
        PROVE  LET o == officer'[j] IN
               /\ o.state \in States /\ o.from \in SolicitorStatus
               /\ o.readAt \in 0 .. Len(regLog) /\ o.next \in STATUS_TRANSITIONS[o.from]
               /\ reg[o.state].status # "none"
               /\ \/ reg[o.state].status = o.from
                  \/ \E m \in o.readAt + 1 .. Len(regLog) : regLog[m].state = o.state
    <3>1. CASE j = k
      BY <1>a, <1>5, <2>1, <2>2, <3>1 DEF TransitionRead, TypeOK, Done
    <3>2. CASE j # k
      <4>1. officer'[j] = officer[j]
        BY <1>a, <1>5, <3>2 DEF TransitionRead, TypeOK
      <4> QED
        BY <2>2, <4>1 DEF IInv, ReadersInv
    <3> QED
      BY <3>1, <3>2
  <2>3. ReadersInv'
    BY <1>5, <2>2 DEF TransitionRead, ReadersInv
  <2> QED
    BY <1>a, <1>5, <1>c, <1>d, <2>3 DEF TransitionRead, IInv
<1>6. ASSUME NEW k \in Officers, TransitionCommit(k) PROVE IInv'
  <2> DEFINE s == officer[k].state
             next == officer[k].next
             from == officer[k].from
             readAt == officer[k].readAt
  <2>1. /\ s \in States /\ from \in SolicitorStatus
        /\ next \in Requested /\ next \in SolicitorStatus
        /\ readAt \in Nat /\ readAt <= Len(regLog)
        /\ Wrote(s, from, next, readAt) /\ next \in STATUS_TRANSITIONS[from]
        /\ reg[s].status # "none"
        /\ reg[s].status = from \/ \E m \in readAt + 1 .. Len(regLog) : regLog[m].state = s
    BY <1>a, <1>6, OfficerShape
       DEF TransitionCommit, IInv, ReadersInv, Requested, SolicitorStatus
  <2>2. /\ \A r \in States \ {s} : reg'[r] = reg[r]
        /\ reg'[s].status # "none"
        /\ reg' \in [States -> [status : SolicitorStatus \cup {"none"}, lapsed : BOOLEAN]]
    BY <1>a, <1>6, <2>1 DEF TransitionCommit, TypeOK, SolicitorStatus
  <2>3. ASSUME NEW j \in Officers, officer'[j].pc = "moving"
        PROVE  officer'[j] = officer[j] /\ officer[j].pc = "moving"
    BY <1>a, <1>6, <2>3 DEF TransitionCommit, TypeOK, Done
  <2>4. ReadersInv'
    BY <1>e, <2>1, <2>2, <2>3 DEF ReadersInv
  <2>5. LegalUnlessOvertaken'
    BY <2>1, WroteLegal
  <2>6. /\ Len(regLog') = Len(regLog) + 1
        /\ regLog'[Len(regLog) + 1] =
             [state |-> s, from |-> from, was |-> reg[s].status, to |-> next,
              readAt |-> readAt, campaigns |-> campaigns]
        /\ \A n \in 1 .. Len(regLog) : regLog'[n] = regLog[n]
    BY <1>a, <2>1, WroteStep
  <2>7. ASSUME NEW c \in Campaigns, NEW r \in States, <<c, r>> \in cleared'
        PROVE  /\ reg'[r].status # "none"
               /\ reg'[r].status = "approved" => OpenAt(c, r, Len(regLog))'
    <3>1. CASE r # s
      <4>1. /\ <<c, r>> \in cleared /\ reg'[r] = reg[r] /\ r \in States \ {s}
            /\ reg[r].status # "none"
            /\ reg[r].status = "approved" => OpenAt(c, r, Len(regLog))
        BY <1>6, <2>2, <2>7, <3>1 DEF TransitionCommit, FanOut, IInv, ClearedInv
      <4> QED
        BY <1>a, <2>1, <4>1, OpenKept
    <3>2. CASE r = s /\ next = "approved"
      <4>1. c \in campaigns
        BY <1>a, <1>6, <2>7 DEF TransitionCommit, TypeOK
      <4>2. LET w == regLog'[Len(regLog) + 1] IN
            w.state = r /\ w.to = "approved" /\ w.was # "none" /\ c \in w.campaigns
        BY <2>1, <2>6, <3>2, <4>1
      <4>3. OpenAt(c, r, Len(regLog))'
        BY <1>a, <2>6, <4>2 DEF OpenAt, ApprovedAt
      <4> QED
        BY <2>2, <3>2, <4>3
    <3>3. CASE r = s /\ next # "approved"
      <4>1. reg'[s].status = next
        BY <1>a, <1>6, <2>1 DEF TransitionCommit, TypeOK
      <4> QED
        BY <2>2, <3>3, <4>1
    <3> QED
      BY <3>1, <3>2, <3>3
  <2> QED
    BY <1>a, <2>4, <2>5, <2>7 DEF IInv, ClearedInv
<1>7. ASSUME NEW k \in Officers, TransitionFail(k) PROVE IInv'
  <2>1. \A j \in Officers : officer'[j].pc = "moving" => officer'[j] = officer[j]
    BY <1>a, <1>7 DEF TransitionFail, TypeOK, Done
  <2>2. ReadersInv'
    BY <1>7, <2>1 DEF TransitionFail, IInv, ReadersInv
  <2> QED
    BY <1>a, <1>7, <1>c, <1>d, <2>2 DEF TransitionFail, IInv
<1>8. CASE UNCHANGED vars
  BY <1>b, <1>8 DEF vars
<1> QED
  BY <1>1, <1>2, <1>3, <1>4, <1>5, <1>6, <1>7, <1>8 DEF Next

\* Registrations, clearances, requests and the log keep their types.
THEOREM ClearanceTypeCorrect == Spec => []TypeOK
<1>1. IInv => TypeOK
  BY DEF IInv
<1> QED
  BY InitIInv, NextIInv, <1>1, PTL DEF Spec

\* For any number of officers, a registration leaves the state machine, and its audit row
\* misreports the status it left, only when another write of it overtook the handler.
THEOREM MovesAreLegal == Spec => []LegalUnlessOvertaken
<1>1. IInv => LegalUnlessOvertaken
  BY DEF IInv
<1> QED
  BY InitIInv, NextIInv, <1>1, PTL DEF Spec

\* For any number of campaigns and states, the gate is open only where a PATCH approved
\* the registration while the campaign was there.
THEOREM GateNeedsApproval == Spec => []OpenGateWasApproved
<1>1. IInv => OpenGateWasApproved
  BY DEF IInv, ClearedInv, OpenAt, ApprovedAt, OpenGateWasApproved, Cleared
<1> QED
  BY InitIInv, NextIInv, <1>1, PTL DEF Spec
=============================================================================
