------------------------- MODULE EmailDeliveryProofs -------------------------
(* What holds of the mail queue for any number of rows, runs and requests. *)
EXTENDS EmailDelivery, FiniteSetTheorems, TLAPS

\* The helpers the actions share keep the type of what they update.
LEMMA HelperTypes ==
  /\ \A T, v, S, f : f \in [Ids -> T] /\ v \in T => Put(f, S, v) \in [Ids -> T]
  /\ \A S, f : f \in [Ids -> Nat] => Count(f, S) \in [Ids -> Nat]
BY DEF Put, Count

\* The steps of a delivery change one delivery of one run.
LEMMA GotoType ==
  ASSUME TypeOK, NEW w \in QueueRuns, NEW i \in Ids, NEW s \in Steps, Goto(w, i, s)
  PROVE  /\ step' \in [QueueRuns -> [Ids -> Steps]]
         /\ seen' \in [QueueRuns -> [Ids -> Nat]]
BY DEF TypeOK, Goto

\* Every initial value and every step of the service respects the columns'
\* types: each action writes only statuses, phases and counters it can store.
THEOREM TypeCorrect == Spec => []TypeOK
<1>1. Init => TypeOK
  <2> SUFFICES ASSUME Init PROVE TypeOK
    OBVIOUS
  <2>1. paused \in BOOLEAN
    BY Zenon DEF Init
  <2>2. admin \in [Admins -> Requests \cup {NoRequest}]
    BY DEF Init
  <2>3. /\ status \in [Ids -> DeliveryStatuses \cup {Absent}] /\ attempts \in [Ids -> Nat]
        /\ due \in [Ids -> BOOLEAN] /\ notified \in [Ids -> BOOLEAN]
        /\ messageId \in [Ids -> SUBSET Ids]
    BY DEF Init
  <2>4. /\ polling \in [QueueRuns -> BOOLEAN]
        /\ step \in [QueueRuns -> [Ids -> Steps]] /\ seen \in [QueueRuns -> [Ids -> Nat]]
    BY DEF Init, Steps
  <2>5. /\ phase \in [DigestRuns -> Phases]
        /\ batch \in [DigestRuns -> SUBSET Ids] /\ group \in [DigestRuns -> SUBSET Ids]
    BY DEF Init, Phases
  <2>6. /\ requests \in Nat /\ faults \in Nat
        /\ accepted \in [Ids -> Nat] /\ alerts \in [Ids -> Nat]
        /\ resets \in [Ids -> Nat] /\ repeats \in [Ids -> Nat]
        /\ orphaned \subseteq Ids
    BY DEF Init
  <2> QED BY <2>1, <2>2, <2>3, <2>4, <2>5, <2>6 DEF TypeOK
<1>2. TypeOK /\ [Next]_vars => TypeOK'
  <2> SUFFICES ASSUME TypeOK, [Next]_vars PROVE TypeOK'
    OBVIOUS
  <2> USE DEF rows, queue, digest, control, history, Absent, DeliveryStatuses, Claimable, NewStatuses
  <2>1. ASSUME NEW i \in Ids, Enqueue(i) PROVE TypeOK'
    BY <2>1 DEF TypeOK, Enqueue, InsertRow
  <2>2. ASSUME NEW i \in Ids, BecomesDue(i) PROVE TypeOK'
    BY <2>2 DEF TypeOK, BecomesDue
  <2>3. ASSUME NEW w \in QueueRuns, StartRun(w) PROVE TypeOK'
    BY <2>3 DEF TypeOK, StartRun
  <2>4. ASSUME NEW w \in QueueRuns, SelectRows(w) PROVE TypeOK'
    <3>1. PICK S \in SUBSET Ids :
            /\ step' = [step EXCEPT ![w] = Put(@, S, "selected")]
            /\ seen' = [seen EXCEPT ![w] = [i \in Ids |-> IF i \in S THEN attempts[i] ELSE 0]]
      BY <2>4 DEF SelectRows, Pages, Selectable
    <3>2. step' \in [QueueRuns -> [Ids -> Steps]]
      BY <3>1 DEF TypeOK, Put, Steps
    <3>3. seen' \in [QueueRuns -> [Ids -> Nat]]
      BY <3>1 DEF TypeOK
    <3> QED BY <2>4, <3>2, <3>3 DEF TypeOK, SelectRows
  <2>5. ASSUME NEW w \in QueueRuns, Crash(w) PROVE TypeOK'
    BY <2>5 DEF TypeOK, Crash, Fault, Steps
  <2>6. ASSUME NEW w \in QueueRuns, NEW i \in Ids, DeliverStep(w, i) PROVE TypeOK'
    <3>1. CASE Claim(w, i)
      <4>1. /\ status' \in [Ids -> DeliveryStatuses \cup {Absent}]
            /\ attempts' \in [Ids -> Nat]
        <5>1. CASE status[i] \in Claimable
          <6>1. /\ status' = [status EXCEPT ![i] = "SENDING"]
                /\ attempts' = [attempts EXCEPT ![i] = @ + 1]
            BY <3>1, <5>1, Zenon DEF Claim
          <6> QED BY <6>1 DEF TypeOK
        <5>2. CASE status[i] \notin Claimable
          BY <3>1, <5>2 DEF TypeOK, Claim
        <5> QED BY <5>1, <5>2
      <4>2. PICK s \in Steps : Goto(w, i, s)
        BY <3>1 DEF Claim, Steps
      <4> QED BY <3>1, <4>1, <4>2, GotoType DEF TypeOK, Claim
    <3>2. CASE ProviderAnswers(w, i)
      BY <3>2, GotoType DEF TypeOK, ProviderAnswers, Steps
    <3>3. CASE RecordSent(w, i)
      BY <3>3, GotoType DEF TypeOK, RecordSent, Steps
    <3>4. CASE RecordFailed(w, i)
      BY <3>4, GotoType DEF TypeOK, RecordFailed, Steps
    <3>5. CASE ClaimAlert(w, i)
      BY <3>5, GotoType DEF TypeOK, ClaimAlert, Steps
    <3>6. CASE NotifyAdmins(w, i)
      BY <3>6, GotoType DEF TypeOK, NotifyAdmins, Steps
    <3> QED BY <2>6, <3>1, <3>2, <3>3, <3>4, <3>5, <3>6 DEF DeliverStep
  <2>7. ASSUME NEW w \in QueueRuns, NEW i \in Ids, AnswerIsLost(w, i) \/ StatementFails(w, i) PROVE TypeOK'
    <3>1. PICK s \in Steps : Goto(w, i, s)
      BY <2>7 DEF AnswerIsLost, StatementFails, Steps
    <3>2. CASE AnswerIsLost(w, i)
      BY <3>1, <3>2, GotoType DEF TypeOK, AnswerIsLost, Fault
    <3>3. CASE StatementFails(w, i)
      <4>1. repeats' \in [Ids -> Nat] /\ orphaned' \subseteq Ids /\ faults' \in Nat
        BY <3>3 DEF TypeOK, StatementFails, Fault
      <4> QED BY <3>1, <3>3, <4>1, GotoType DEF TypeOK, StatementFails, Fault
    <3> QED BY <2>7, <3>2, <3>3
  <2>8. ASSUME NEW d \in DigestRuns, DigestStep(d) PROVE TypeOK'
    <3>1. CASE SelectDigests(d)
      BY <3>1 DEF TypeOK, SelectDigests, Pages, DigestSelectable, Phases
    <3>2. CASE ClaimDigest(d)
      <4>1. PICK g \in SUBSET batch[d] :
              /\ batch' = [batch EXCEPT ![d] = @ \ g]
              /\ status' = Put(status, StillPending(g), "SENDING")
              /\ attempts' = Count(attempts, StillPending(g))
              /\ \/ /\ phase' = [phase EXCEPT ![d] = "sending"]
                    /\ group' = [group EXCEPT ![d] = g]
                    /\ repeats' = Count(repeats, g \ StillPending(g))
                 \/ UNCHANGED <<phase, group, repeats>>
        BY <3>2, Zenon DEF ClaimDigest
      <4>2. status' \in [Ids -> DeliveryStatuses \cup {Absent}]
        BY <4>1 DEF TypeOK, Put
      <4>3. attempts' \in [Ids -> Nat] /\ repeats' \in [Ids -> Nat]
        BY <4>1 DEF TypeOK, Count
      <4>4. /\ phase' \in [DigestRuns -> Phases]
            /\ batch' \in [DigestRuns -> SUBSET Ids] /\ group' \in [DigestRuns -> SUBSET Ids]
        BY <4>1 DEF TypeOK, Phases
      <4> QED BY <3>2, <4>2, <4>3, <4>4 DEF TypeOK, ClaimDigest
    <3>3. CASE DigestProviderAnswers(d)
      BY <3>3, HelperTypes DEF TypeOK, DigestProviderAnswers, Phases
    <3>4. CASE RecordDigestSent(d)
      BY <3>4, HelperTypes DEF TypeOK, RecordDigestSent, NextGroup, Phases
    <3>5. CASE RecordDigestFailed(d)
      BY <3>5, HelperTypes DEF TypeOK, RecordDigestFailed, NextGroup, AfterRefusal, Phases
    <3>6. CASE EndDigestRun(d)
      BY <3>6 DEF TypeOK, EndDigestRun, NextGroup, Phases
    <3> QED BY <2>8, <3>1, <3>2, <3>3, <3>4, <3>5, <3>6 DEF DigestStep
  <2>9. ASSUME NEW d \in DigestRuns, StopDigestRun(d) \/ DigestAnswerIsLost(d) \/ DigestSentFails(d)
        PROVE  TypeOK'
    <3>1. CASE StopDigestRun(d)
      BY <3>1 DEF TypeOK, StopDigestRun, Fault, NextGroup, Phases
    <3>2. CASE DigestSentFails(d)
      BY <3>2, HelperTypes DEF TypeOK, DigestSentFails, Fault, Phases
    <3>3. CASE DigestAnswerIsLost(d)
      BY <3>3, HelperTypes DEF TypeOK, DigestAnswerIsLost, Fault, Phases
    <3> QED BY <2>9, <3>1, <3>2, <3>3
  <2>10. ASSUME NEW a \in Admins, AdminWrite(a) PROVE TypeOK'
    <3>1. admin[a] \in Requests
      BY <2>10 DEF TypeOK, AdminWrite, CancelWrite, RetryWrite, ResendWrite, NoRequest
    <3>2. admin[a].id \in Ids
      BY <3>1 DEF Requests
    <3>3. Answer(a) => admin' \in [Admins -> Requests \cup {NoRequest}]
      BY DEF TypeOK, Answer
    <3>4. CASE CancelWrite(a)
      BY <3>2, <3>3, <3>4 DEF TypeOK, CancelWrite, Answer
    <3>5. CASE RetryWrite(a)
      BY <3>2, <3>3, <3>5, HelperTypes DEF TypeOK, RetryWrite, Answer
    <3>6. CASE ResendWrite(a)
      BY <3>2, <3>3, <3>6 DEF TypeOK, ResendWrite, InsertRow, Answer
    <3> QED BY <2>10, <3>4, <3>5, <3>6 DEF AdminWrite
  <2>11. ASSUME NEW a \in Admins, NEW r \in Requests, ReadForRequest(a, r) PROVE TypeOK'
    BY <2>11 DEF TypeOK, ReadForRequest, Request
  <2>12. CASE RetryAll
    <3>1. /\ status' \in [Ids -> DeliveryStatuses \cup {Absent}]
          /\ attempts' \in [Ids -> Nat] /\ resets' \in [Ids -> Nat]
      BY <2>12 DEF TypeOK, RetryAll, Put, Count
    <3>2. due' \in [Ids -> BOOLEAN] /\ notified' \in [Ids -> BOOLEAN]
      BY <2>12 DEF TypeOK, RetryAll, Put
    <3>3. /\ requests' \in Nat
          /\ UNCHANGED <<messageId, queue, digest, paused, admin, faults, accepted, alerts, repeats, orphaned>>
      BY <2>12 DEF TypeOK, RetryAll, Request
    <3> QED BY <3>1, <3>2, <3>3 DEF TypeOK
  <2>13. CASE PauseQueue \/ ResumeQueue
    <3>1. paused' \in BOOLEAN
      BY <2>13, Zenon DEF PauseQueue, ResumeQueue
    <3>2. requests' \in Nat /\ UNCHANGED <<rows, queue, digest, admin, faults, history>>
      BY <2>13 DEF TypeOK, PauseQueue, ResumeQueue, Request
    <3> QED BY <3>1, <3>2 DEF TypeOK
  <2>14. CASE RecordDelivered \/ RecordBounce
    <3>1. status' \in [Ids -> DeliveryStatuses \cup {Absent}]
      BY <2>14 DEF TypeOK, RecordDelivered, RecordBounce, Put
    <3> QED BY <2>14, <3>1 DEF TypeOK, RecordDelivered, RecordBounce
  <2>15. CASE UNCHANGED vars
    BY <2>15 DEF TypeOK, vars
  <2> QED
    BY <2>1, <2>2, <2>3, <2>4, <2>5, <2>6, <2>7, <2>8, <2>9, <2>10, <2>11, <2>12, <2>13, <2>14, <2>15
    DEF Next
<1> QED BY <1>1, <1>2, PTL DEF Spec

----------------------------------------------------------------------------
(* SendingIsOwned is inductive once it is known that a digest run between   *)
(* two groups holds no rows: claiming the next group must not forget a row. *)

GroupsAreInFlight == \A d \in DigestRuns : phase[d] \in {"idle", "selected"} => group[d] = {}
OwnedInv == SendingIsOwned /\ GroupsAreInFlight

\* A step of a delivery keeps the owner of every row it does not let go of.
LEMMA OwnersStay ==
  ASSUME TypeOK, NEW w \in QueueRuns, NEW i \in Ids, NEW s \in Steps, Goto(w, i, s),
         UNCHANGED group, orphaned \subseteq orphaned',
         NEW j \in Ids, Owned(j),
         j # i \/ s \in InFlight \/ step[w][i] \notin InFlight \/ i \in orphaned'
  PROVE  Owned(j)'
<1>1. CASE \E v \in QueueRuns : step[v][j] \in InFlight
  <2>1. PICK v \in QueueRuns : step[v][j] \in InFlight
    BY <1>1
  <2>2. CASE j = i /\ v = w
    BY <2>1, <2>2 DEF TypeOK, Goto, Owned
  <2>3. CASE ~(j = i /\ v = w)
    <3>1. step'[v][j] = step[v][j]
      BY <2>3 DEF TypeOK, Goto
    <3> QED BY <2>1, <3>1 DEF Owned
  <2> QED BY <2>2, <2>3
<1> QED BY <1>1 DEF Owned

LEMMA OwnedInvStep == TypeOK /\ OwnedInv /\ [Next]_vars => OwnedInv'
<1> SUFFICES ASSUME TypeOK, OwnedInv, [Next]_vars PROVE OwnedInv'
  OBVIOUS
<1> USE DEF rows, queue, digest, control, history
<1>1. ASSUME NEW i \in Ids, Enqueue(i) PROVE OwnedInv'
  BY <1>1 DEF TypeOK, OwnedInv, SendingIsOwned, GroupsAreInFlight, Owned, Enqueue, InsertRow, NewStatuses
<1>2. ASSUME NEW i \in Ids, BecomesDue(i) PROVE OwnedInv'
  BY <1>2 DEF OwnedInv, SendingIsOwned, GroupsAreInFlight, Owned, BecomesDue
<1>3. ASSUME NEW w \in QueueRuns, StartRun(w) PROVE OwnedInv'
  BY <1>3 DEF OwnedInv, SendingIsOwned, GroupsAreInFlight, Owned, StartRun
<1>4. ASSUME NEW w \in QueueRuns, SelectRows(w) PROVE OwnedInv'
  <2>1. PICK S \in SUBSET Selectable : step' = [step EXCEPT ![w] = Put(@, S, "selected")]
    BY <1>4 DEF SelectRows, Pages
  <2>2. ASSUME NEW j \in Ids, status[j] = "SENDING", NEW v \in QueueRuns
        PROVE  step'[v][j] = step[v][j]
    <3>1. j \notin S
      BY <2>1, <2>2 DEF Selectable, Claimable
    <3> QED BY <2>1, <3>1 DEF TypeOK, Put
  <2> QED BY <1>4, <2>2 DEF OwnedInv, SendingIsOwned, GroupsAreInFlight, Owned, SelectRows
<1>5. ASSUME NEW w \in QueueRuns, Crash(w) PROVE OwnedInv'
  <2>1. ASSUME NEW j \in Ids, Owned(j) PROVE Owned(j)'
    <3>1. ASSUME NEW v \in QueueRuns, step[v][j] \in InFlight PROVE Owned(j)'
      BY <1>5, <3>1 DEF TypeOK, Crash, Owned
    <3> QED BY <1>5, <2>1, <3>1 DEF Owned, Crash
  <2> QED BY <1>5, <2>1 DEF OwnedInv, SendingIsOwned, GroupsAreInFlight, Crash
<1>6. ASSUME NEW w \in QueueRuns, NEW i \in Ids, DeliverStep(w, i) PROVE OwnedInv'
  <2>1. UNCHANGED <<phase, group, orphaned>>
    BY <1>6 DEF DeliverStep, Claim, ProviderAnswers, RecordSent, RecordFailed, ClaimAlert, NotifyAdmins
  <2>2. GroupsAreInFlight'
    BY <2>1 DEF OwnedInv, GroupsAreInFlight
  <2>3. PICK s \in Steps : Goto(w, i, s)
    BY <1>6 DEF DeliverStep, Claim, ProviderAnswers, RecordSent, RecordFailed, ClaimAlert, NotifyAdmins, Steps
  <2>4. ASSUME NEW j \in Ids, status'[j] = "SENDING", j # i PROVE Owned(j)'
    <3>1. status[j] = "SENDING"
      BY <1>6, <2>4 DEF TypeOK, DeliverStep, Claim, ProviderAnswers, RecordSent, RecordFailed, ClaimAlert, NotifyAdmins
    <3> QED BY <2>1, <2>3, <2>4, <3>1, OwnersStay DEF OwnedInv, SendingIsOwned
  <2>5. ASSUME status'[i] = "SENDING" PROVE Owned(i)'
    <3>1. CASE Claim(w, i) /\ status[i] \in Claimable
      BY <3>1 DEF TypeOK, Claim, Goto, Owned, InFlight
    <3>2. CASE Claim(w, i) /\ status[i] \notin Claimable
      BY <2>1, <2>3, <2>5, <3>2, OwnersStay DEF OwnedInv, SendingIsOwned, Claim, InFlight
    <3>3. CASE ProviderAnswers(w, i)
      BY <3>3 DEF TypeOK, ProviderAnswers, Goto, Owned, InFlight
    <3>4. CASE RecordSent(w, i) \/ RecordFailed(w, i)
      BY <2>5, <3>4 DEF TypeOK, RecordSent, RecordFailed
    <3>5. CASE ClaimAlert(w, i) \/ NotifyAdmins(w, i)
      BY <2>1, <2>3, <2>5, <3>5, OwnersStay DEF OwnedInv, SendingIsOwned, ClaimAlert, NotifyAdmins, InFlight
    <3> QED BY <1>6, <3>1, <3>2, <3>3, <3>4, <3>5 DEF DeliverStep
  <2> QED BY <2>2, <2>4, <2>5 DEF OwnedInv, SendingIsOwned
<1>7. ASSUME NEW w \in QueueRuns, NEW i \in Ids, AnswerIsLost(w, i) \/ StatementFails(w, i) PROVE OwnedInv'
  <2>1. PICK s \in Steps : /\ Goto(w, i, s)
                           /\ s \in InFlight \/ step[w][i] \notin InFlight \/ i \in orphaned'
    BY <1>7 DEF AnswerIsLost, StatementFails, Steps, InFlight
  <2>2. UNCHANGED <<status, phase, group>> /\ orphaned \subseteq orphaned'
    BY <1>7 DEF AnswerIsLost, StatementFails
  <2>3. \A j \in Ids : Owned(j) => Owned(j)'
    BY <2>1, <2>2, OwnersStay
  <2> QED BY <2>2, <2>3 DEF OwnedInv, SendingIsOwned, GroupsAreInFlight
<1>8. ASSUME NEW d \in DigestRuns, SelectDigests(d) \/ DigestProviderAnswers(d) PROVE OwnedInv'
  BY <1>8 DEF TypeOK, OwnedInv, SendingIsOwned, GroupsAreInFlight, Owned, SelectDigests, DigestProviderAnswers
<1>9. ASSUME NEW d \in DigestRuns, ClaimDigest(d) PROVE OwnedInv'
  <2>1. PICK g \in SUBSET batch[d] :
          /\ status' = Put(status, StillPending(g), "SENDING")
          /\ \/ /\ phase' = [phase EXCEPT ![d] = "sending"]
                /\ group' = [group EXCEPT ![d] = g]
             \/ StillPending(g) = {} /\ UNCHANGED <<phase, group>>
    BY <1>9, Zenon DEF ClaimDigest
  <2>2. group[d] = {} /\ UNCHANGED <<step, orphaned>>
    BY <1>9 DEF OwnedInv, GroupsAreInFlight, ClaimDigest
  <2>3. ASSUME NEW j \in Ids, status'[j] = "SENDING" PROVE Owned(j)'
    <3>1. CASE j \in StillPending(g)
      BY <2>1, <3>1 DEF TypeOK, StillPending, Owned
    <3>2. CASE j \notin StillPending(g)
      <4>1. status[j] = "SENDING"
        BY <2>1, <2>3, <3>2 DEF Put
      <4>2. Owned(j)
        BY <4>1 DEF OwnedInv, SendingIsOwned
      <4>3. \A e \in DigestRuns : j \in group[e] => j \in group'[e]
        BY <2>1, <2>2 DEF TypeOK
      <4> QED BY <2>2, <4>2, <4>3 DEF Owned
    <3> QED BY <3>1, <3>2
  <2>4. GroupsAreInFlight'
    BY <2>1 DEF TypeOK, OwnedInv, GroupsAreInFlight
  <2> QED BY <2>3, <2>4 DEF OwnedInv, SendingIsOwned
<1>10. ASSUME NEW d \in DigestRuns,
              RecordDigestSent(d) \/ RecordDigestFailed(d) \/ EndDigestRun(d) \/ StopDigestRun(d)
       PROVE  OwnedInv'
  <2>1. UNCHANGED step /\ orphaned \subseteq orphaned' /\ \E s \in {"idle", "selected"} : NextGroup(d, s)
    BY <1>10 DEF RecordDigestSent, RecordDigestFailed, EndDigestRun, StopDigestRun
  <2>2. ASSUME NEW j \in Ids, status'[j] = "SENDING" PROVE Owned(j)'
    <3>1. /\ status[j] = "SENDING"
          /\ j \notin group[d] \/ j \in orphaned'
      <4>1. CASE RecordDigestSent(d)
        BY <2>2, <4>1 DEF RecordDigestSent, Put
      <4>2. CASE RecordDigestFailed(d)
        BY <2>2, <4>2 DEF RecordDigestFailed, AfterRefusal
      <4>3. CASE EndDigestRun(d)
        BY <2>2, <4>3 DEF EndDigestRun, OwnedInv, GroupsAreInFlight
      <4>4. CASE StopDigestRun(d)
        BY <2>2, <4>4 DEF StopDigestRun
      <4> QED BY <1>10, <4>1, <4>2, <4>3, <4>4
    <3>2. Owned(j)
      BY <3>1 DEF OwnedInv, SendingIsOwned
    <3>3. \A e \in DigestRuns : j \in group[e] => j \in group'[e] \/ j \in orphaned'
      BY <2>1, <3>1 DEF TypeOK, NextGroup
    <3> QED BY <2>1, <3>2, <3>3 DEF Owned
  <2>3. GroupsAreInFlight'
    BY <2>1 DEF TypeOK, OwnedInv, GroupsAreInFlight, NextGroup
  <2> QED BY <2>2, <2>3 DEF OwnedInv, SendingIsOwned
<1>11. ASSUME NEW d \in DigestRuns, DigestAnswerIsLost(d) \/ DigestSentFails(d) PROVE OwnedInv'
  BY <1>11 DEF TypeOK, OwnedInv, SendingIsOwned, GroupsAreInFlight, Owned, DigestAnswerIsLost, DigestSentFails
<1>12. ASSUME UNCHANGED <<step, phase, group, orphaned>>,
              \A i \in Ids : status'[i] = "SENDING" => status[i] = "SENDING"
       PROVE  OwnedInv'
  BY <1>12 DEF OwnedInv, SendingIsOwned, GroupsAreInFlight, Owned
<1>13. ASSUME NEW a \in Admins, AdminWrite(a) PROVE OwnedInv'
  <2>1. UNCHANGED <<step, phase, group, orphaned>>
    BY <1>13 DEF AdminWrite, CancelWrite, RetryWrite, ResendWrite
  <2>2. \A i \in Ids : status'[i] = "SENDING" => status[i] = "SENDING"
    BY <1>13 DEF TypeOK, AdminWrite, CancelWrite, RetryWrite, ResendWrite, InsertRow
  <2> QED BY <2>1, <2>2, <1>12
<1>14. ASSUME NEW a \in Admins, NEW r \in Requests, ReadForRequest(a, r) PROVE OwnedInv'
  BY <1>14, <1>12 DEF ReadForRequest
<1>15. CASE RetryAll
  BY <1>15, <1>12 DEF RetryAll, Put
<1>16. CASE PauseQueue \/ ResumeQueue
  BY <1>16, <1>12 DEF PauseQueue, ResumeQueue
<1>17. CASE RecordDelivered
  BY <1>17, <1>12 DEF RecordDelivered, Put
<1>18. CASE RecordBounce
  BY <1>18, <1>12 DEF RecordBounce, Put
<1>19. CASE UNCHANGED vars
  BY <1>19, <1>12 DEF vars
<1> QED
  BY <1>1, <1>2, <1>3, <1>4, <1>5, <1>6, <1>7, <1>8, <1>9, <1>10, <1>11, <1>13, <1>14, <1>15,
     <1>16, <1>17, <1>18, <1>19 DEF Next, DigestStep

\* No row is stranded in SENDING unless its sender died (deliver and
\* deliverDigest record an outcome for every row they claim).
THEOREM SendingOwned == Spec => []SendingIsOwned
<1>1. Init => OwnedInv
  BY DEF Init, OwnedInv, SendingIsOwned, GroupsAreInFlight, Absent
<1>2. OwnedInv => SendingIsOwned
  BY DEF OwnedInv
<1> QED BY <1>1, <1>2, OwnedInvStep, TypeCorrect, PTL DEF Spec

----------------------------------------------------------------------------
(* A row reads SENT because a run, or a digest, that had an acceptance in   *)
(* hand recorded it; the count of acceptances never goes down.              *)

AcceptedInv ==
  /\ SentWasAccepted
  /\ \A w \in QueueRuns, i \in Ids : step[w][i] = "accepted" => accepted[i] > 0
  /\ \A d \in DigestRuns, i \in Ids : phase[d] = "accepted" /\ i \in group[d] => accepted[i] > 0

LEMMA AcceptedInvStep == TypeOK /\ AcceptedInv /\ [Next]_vars => AcceptedInv'
<1> SUFFICES ASSUME TypeOK, AcceptedInv, [Next]_vars PROVE AcceptedInv'
  OBVIOUS
<1>1. ASSUME \A i \in Ids : accepted'[i] >= accepted[i] /\ accepted'[i] \in Nat,
             \A i \in Ids : status'[i] \in {"SENT", "DELIVERED"} =>
               status[i] \in {"SENT", "DELIVERED"} \/ accepted'[i] > 0,
             \A w \in QueueRuns, i \in Ids : step'[w][i] = "accepted" =>
               step[w][i] = "accepted" \/ accepted'[i] > 0,
             \A d \in DigestRuns, i \in Ids : phase'[d] = "accepted" /\ i \in group'[d] =>
               \/ phase[d] = "accepted" /\ i \in group[d]
               \/ accepted'[i] > 0
      PROVE  AcceptedInv'
  BY <1>1 DEF TypeOK, AcceptedInv, SentWasAccepted
<1>2. UNCHANGED accepted => \A i \in Ids : accepted'[i] >= accepted[i] /\ accepted'[i] \in Nat
  BY DEF TypeOK
<1>3. ASSUME NEW w \in QueueRuns, NEW i \in Ids, ProviderAnswers(w, i) PROVE AcceptedInv'
  <2>1. UNCHANGED <<status, phase, group>>
    BY <1>3 DEF ProviderAnswers, rows, digest
  <2>2. \A j \in Ids : accepted'[j] >= accepted[j] /\ accepted'[j] \in Nat
    BY <1>3 DEF TypeOK, ProviderAnswers
  <2>3. \A v \in QueueRuns, j \in Ids : step'[v][j] = "accepted" => step[v][j] = "accepted" \/ accepted'[j] > 0
    <3>1. CASE Goto(w, i, "accepted") /\ accepted' = [accepted EXCEPT ![i] = @ + 1]
      <4>1. accepted'[i] > 0
        BY <3>1 DEF TypeOK
      <4>2. \A v \in QueueRuns, j \in Ids : step'[v][j] = step[v][j] \/ j = i
        BY <3>1 DEF TypeOK, Goto
      <4> QED BY <4>1, <4>2
    <3>2. CASE Goto(w, i, "refused")
      BY <3>2 DEF TypeOK, Goto
    <3> QED BY <1>3, <3>1, <3>2 DEF ProviderAnswers
  <2> QED BY <1>1, <2>1, <2>2, <2>3
<1>4. ASSUME NEW w \in QueueRuns, NEW i \in Ids,
             \/ Claim(w, i) \/ RecordSent(w, i) \/ RecordFailed(w, i) \/ ClaimAlert(w, i)
             \/ NotifyAdmins(w, i) \/ StatementFails(w, i)
      PROVE  AcceptedInv'
  <2>1. PICK s \in Steps : Goto(w, i, s) /\ s # "accepted"
    BY <1>4 DEF Claim, RecordSent, RecordFailed, ClaimAlert, NotifyAdmins, StatementFails, Steps
  <2>2. UNCHANGED <<accepted, phase, group>>
    BY <1>4 DEF Claim, RecordSent, RecordFailed, ClaimAlert, NotifyAdmins, StatementFails, digest, history
  <2>3. \A v \in QueueRuns, j \in Ids : step'[v][j] = "accepted" => step[v][j] = "accepted"
    BY <2>1 DEF TypeOK, Goto
  <2>4. ASSUME NEW j \in Ids, status'[j] \in {"SENT", "DELIVERED"}
        PROVE  status[j] \in {"SENT", "DELIVERED"} \/ accepted'[j] > 0
    <3>1. CASE RecordSent(w, i)
      BY <2>2, <2>4, <3>1 DEF TypeOK, AcceptedInv, RecordSent
    <3>2. CASE ~RecordSent(w, i)
      BY <1>4, <2>4, <3>2 DEF TypeOK, Claim, RecordFailed, ClaimAlert, NotifyAdmins, StatementFails, rows
    <3> QED BY <3>1, <3>2
  <2> QED BY <1>1, <1>2, <2>2, <2>3, <2>4
<1>5. ASSUME NEW w \in QueueRuns, SelectRows(w) \/ Crash(w) PROVE AcceptedInv'
  <2>1. \A v \in QueueRuns, j \in Ids : step'[v][j] = "accepted" => step[v][j] = "accepted"
    <3>1. CASE SelectRows(w)
      <4>1. PICK S : step' = [step EXCEPT ![w] = Put(@, S, "selected")]
        BY <3>1 DEF SelectRows
      <4> QED BY <4>1 DEF TypeOK, Put
    <3>2. CASE Crash(w)
      BY <3>2 DEF TypeOK, Crash
    <3> QED BY <1>5, <3>1, <3>2
  <2>2. UNCHANGED <<status, accepted, phase, group>>
    BY <1>5 DEF SelectRows, Crash, rows, digest, history
  <2> QED BY <1>1, <1>2, <2>1, <2>2
<1>6. ASSUME NEW d \in DigestRuns, DigestProviderAnswers(d) PROVE AcceptedInv'
  <2>1. UNCHANGED <<status, step, group>>
    BY <1>6 DEF DigestProviderAnswers, rows, queue
  <2>2. \A j \in Ids : accepted'[j] >= accepted[j] /\ accepted'[j] \in Nat
    BY <1>6 DEF TypeOK, DigestProviderAnswers, Count
  <2>3. \A e \in DigestRuns, j \in Ids : phase'[e] = "accepted" /\ j \in group[e] =>
          phase[e] = "accepted" \/ accepted'[j] > 0
    BY <1>6 DEF TypeOK, DigestProviderAnswers, Count
  <2> QED BY <1>1, <2>1, <2>2, <2>3
<1>7. ASSUME NEW d \in DigestRuns,
             \/ SelectDigests(d) \/ ClaimDigest(d) \/ RecordDigestSent(d) \/ RecordDigestFailed(d)
             \/ EndDigestRun(d) \/ StopDigestRun(d) \/ DigestSentFails(d)
      PROVE  AcceptedInv'
  <2>1. UNCHANGED <<step, accepted>>
    BY <1>7 DEF SelectDigests, ClaimDigest, RecordDigestSent, RecordDigestFailed, EndDigestRun,
         StopDigestRun, DigestSentFails, queue, history
  <2>2. \A e \in DigestRuns : phase'[e] = "accepted" => phase[e] = "accepted" /\ group'[e] = group[e]
    BY <1>7 DEF TypeOK, SelectDigests, ClaimDigest, RecordDigestSent, RecordDigestFailed,
         EndDigestRun, StopDigestRun, DigestSentFails, NextGroup
  <2>3. ASSUME NEW j \in Ids, status'[j] \in {"SENT", "DELIVERED"}
        PROVE  status[j] \in {"SENT", "DELIVERED"} \/ accepted'[j] > 0
    <3>1. CASE RecordDigestSent(d)
      BY <2>1, <2>3, <3>1 DEF AcceptedInv, RecordDigestSent, Put
    <3>2. CASE ~RecordDigestSent(d)
      BY <1>7, <2>3, <3>2 DEF SelectDigests, ClaimDigest, RecordDigestFailed, AfterRefusal,
           EndDigestRun, StopDigestRun, DigestSentFails, Put, rows
    <3> QED BY <3>1, <3>2
  <2> QED BY <1>1, <1>2, <2>1, <2>2, <2>3
<1>8. ASSUME UNCHANGED <<step, phase, group, accepted>>,
             \A i \in Ids : status'[i] \in {"SENT", "DELIVERED"} => status[i] \in {"SENT", "DELIVERED"}
      PROVE  AcceptedInv'
  BY <1>1, <1>2, <1>8
<1>9. ASSUME NEW i \in Ids, Enqueue(i) \/ BecomesDue(i) PROVE AcceptedInv'
  <2>1. \A j \in Ids : status'[j] \in {"SENT", "DELIVERED"} => status[j] \in {"SENT", "DELIVERED"}
    BY <1>9 DEF TypeOK, Enqueue, InsertRow, NewStatuses, BecomesDue
  <2> QED BY <1>8, <1>9, <2>1 DEF Enqueue, BecomesDue, queue, digest, history
<1>10. ASSUME NEW w \in QueueRuns, StartRun(w) PROVE AcceptedInv'
  BY <1>8, <1>10 DEF StartRun, rows, digest, history
<1>11. ASSUME NEW a \in Admins, AdminWrite(a) PROVE AcceptedInv'
  <2>1. \A j \in Ids : status'[j] \in {"SENT", "DELIVERED"} => status[j] \in {"SENT", "DELIVERED"}
    BY <1>11 DEF TypeOK, AdminWrite, CancelWrite, RetryWrite, ResendWrite, InsertRow
  <2> QED BY <1>8, <1>11, <2>1 DEF AdminWrite, CancelWrite, RetryWrite, ResendWrite, queue, digest, history
<1>12. ASSUME NEW a \in Admins, NEW r \in Requests, ReadForRequest(a, r) PROVE AcceptedInv'
  BY <1>8, <1>12 DEF ReadForRequest, rows, queue, digest, history
<1>13. CASE RetryAll \/ RecordBounce
  BY <1>8, <1>13 DEF RetryAll, RecordBounce, Put, queue, digest, history
<1>14. CASE RecordDelivered
  <2>1. \A j \in Ids : status'[j] \in {"SENT", "DELIVERED"} => status[j] \in {"SENT", "DELIVERED"}
    BY <1>14 DEF RecordDelivered, HandedOver, Put
  <2> QED BY <1>8, <1>14, <2>1 DEF RecordDelivered, queue, digest, history
<1>15. CASE PauseQueue \/ ResumeQueue \/ UNCHANGED vars
  BY <1>8, <1>15 DEF PauseQueue, ResumeQueue, vars, rows, queue, digest, history
<1>16. ASSUME NEW w \in QueueRuns, NEW i \in Ids, AnswerIsLost(w, i) PROVE AcceptedInv'
  <2>1. UNCHANGED <<status, phase, group>> /\ Goto(w, i, "refused")
    BY <1>16 DEF AnswerIsLost, rows, digest
  <2>2. \A j \in Ids : accepted'[j] >= accepted[j] /\ accepted'[j] \in Nat
    BY <1>16 DEF TypeOK, AnswerIsLost
  <2>3. \A v \in QueueRuns, j \in Ids : step'[v][j] = "accepted" => step[v][j] = "accepted"
    BY <2>1 DEF TypeOK, Goto
  <2> QED BY <1>1, <2>1, <2>2, <2>3
<1>17. ASSUME NEW d \in DigestRuns, DigestAnswerIsLost(d) PROVE AcceptedInv'
  <2>1. UNCHANGED <<status, step, group>> /\ phase' = [phase EXCEPT ![d] = "refused"]
    BY <1>17 DEF DigestAnswerIsLost, rows, queue
  <2>2. \A j \in Ids : accepted'[j] >= accepted[j] /\ accepted'[j] \in Nat
    BY <1>17 DEF TypeOK, DigestAnswerIsLost, Count
  <2>3. \A e \in DigestRuns : phase'[e] = "accepted" => phase[e] = "accepted"
    BY <2>1 DEF TypeOK
  <2> QED BY <1>1, <2>1, <2>2, <2>3
<1> QED
  BY <1>3, <1>4, <1>5, <1>6, <1>7, <1>9, <1>10, <1>11, <1>12, <1>13, <1>14, <1>15, <1>16, <1>17
  DEF Next, DeliverStep, DigestStep

\* A row that reads SENT or DELIVERED was handed over: no request, event or
\* late write puts a mail there that the provider never accepted.
THEOREM SentIsAccepted == Spec => []SentWasAccepted
<1>1. Init => AcceptedInv
  BY DEF Init, AcceptedInv, SentWasAccepted, Absent
<1>2. AcceptedInv => SentWasAccepted
  BY DEF AcceptedInv
<1> QED BY <1>1, <1>2, AcceptedInvStep, TypeCorrect, PTL DEF Spec

==============================================================================
