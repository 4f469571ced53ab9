------------------------- MODULE EmailDeliveryBounds -------------------------
(***************************************************************************)
(* How often a mail can be attempted, sent and reported, for any number of *)
(* rows, runs and requests.  Each bound is proved by a count that no step  *)
(* raises: what has happened to the row, plus the runs that are about to   *)
(* make it happen once more, plus what the row still allows.  Last, what   *)
(* keeps the verdict of the provider.                                      *)
(***************************************************************************)
EXTENDS EmailDeliveryProofs

One(b) == IF b THEN 1 ELSE 0

\* The runs of processQueue whose delivery of row i is at one of the steps P,
\* and the digests that carry row i and may still hand it over
RunsAt(i, P) == Cardinality({w \in QueueRuns : step[w][i] \in P})
Carrying(i, d) == i \in group[d] /\ phase[d] \in {"sending", "refused"}
Digests(i) == Cardinality({d \in DigestRuns : Carrying(i, d)})

\* Cardinalities of a set and of what differs from it in one element
LEMMA OneElement ==
  ASSUME NEW S, IsFiniteSet(S), NEW x, NEW T, T \subseteq S \cup {x}, S \subseteq T \cup {x}
  PROVE  Cardinality(T) = Cardinality(S) + One(x \in T) - One(x \in S)
<1>1. CASE x \in T /\ x \notin S
  <2>1. T = S \cup {x}
    BY <1>1
  <2> QED BY <1>1, <2>1, FS_AddElement, FS_CardinalityType DEF One
<1>2. CASE x \notin T /\ x \in S
  <2>1. T = S \ {x}
    BY <1>2
  <2> QED BY <1>2, <2>1, FS_RemoveElement, FS_CardinalityType DEF One
<1>3. CASE (x \in T) = (x \in S)
  <2>1. T = S
    BY <1>3
  <2> QED BY <1>3, <2>1, FS_CardinalityType DEF One
<1> QED BY <1>1, <1>2, <1>3

LEMMA RunsAtType ==
  ASSUME NEW P, NEW i
  PROVE  /\ RunsAt(i, P) \in Nat /\ RunsAt(i, P) <= Cardinality(QueueRuns)
         /\ RunsAt(i, P)' \in Nat /\ RunsAt(i, P)' <= Cardinality(QueueRuns)
<1>1. \A T \in SUBSET QueueRuns : Cardinality(T) \in Nat /\ Cardinality(T) <= Cardinality(QueueRuns)
  BY FS_Subset, FS_CardinalityType, ConstantsAssumption
<1> QED BY <1>1 DEF RunsAt

\* A step of one delivery moves one run in the count of its row.
LEMMA GotoRunsAt ==
  ASSUME TypeOK, NEW w \in QueueRuns, NEW i \in Ids, NEW s \in Steps, Goto(w, i, s), NEW P,
         NEW j \in Ids
  PROVE  RunsAt(j, P)' = IF j = i THEN RunsAt(i, P) + One(s \in P) - One(step[w][i] \in P)
                                  ELSE RunsAt(j, P)
<1> DEFINE S == {v \in QueueRuns : step[v][j] \in P}
           T == {v \in QueueRuns : step'[v][j] \in P}
<1>1. \A v \in QueueRuns : step'[v][j] = IF v = w /\ j = i THEN s ELSE step[v][j]
  BY DEF TypeOK, Goto
<1>2. CASE j # i
  <2>1. S = T
    BY <1>1, <1>2
  <2> QED BY <1>2, <2>1 DEF RunsAt
<1>3. CASE j = i
  <2>1. T \subseteq S \cup {w} /\ S \subseteq T \cup {w}
    BY <1>1
  <2>2. (w \in T) = (s \in P) /\ (w \in S) = (step[w][i] \in P)
    BY <1>1, <1>3
  <2>3. IsFiniteSet(S)
    BY FS_Subset, ConstantsAssumption
  <2>4. Cardinality(T) = Cardinality(S) + One(w \in T) - One(w \in S)
    BY <2>1, <2>3, OneElement
  <2> QED BY <1>3, <2>2, <2>4 DEF RunsAt
<1> QED BY <1>2, <1>3

\* Selecting a batch, or a crash, takes runs from the later steps.
LEMMA FewerRunsAt ==
  ASSUME TypeOK, NEW w \in QueueRuns, NEW P, "idle" \notin P, NEW j \in Ids,
         Crash(w) \/ (SelectRows(w) /\ "selected" \notin P)
  PROVE  RunsAt(j, P)' <= RunsAt(j, P)
<1> DEFINE S == {v \in QueueRuns : step[v][j] \in P}
           T == {v \in QueueRuns : step'[v][j] \in P}
<1>1. \A v \in QueueRuns : step'[v][j] = step[v][j] \/ step'[v][j] \notin P
  <2>1. CASE SelectRows(w) /\ "selected" \notin P
    <3>1. PICK S0 : step' = [step EXCEPT ![w] = Put(@, S0, "selected")]
      BY <2>1 DEF SelectRows
    <3> QED BY <2>1, <3>1 DEF TypeOK, Put
  <2>2. CASE Crash(w)
    BY <2>2 DEF TypeOK, Crash
  <2> QED BY <2>1, <2>2
<1>2. T \subseteq S
  BY <1>1
<1>3. IsFiniteSet(S)
  BY FS_Subset, ConstantsAssumption
<1> QED BY <1>2, <1>3, FS_Subset DEF RunsAt

----------------------------------------------------------------------------
(* Alerts.  A row without failureNotifiedAt allows one alert, and the run   *)
(* that set it is about to write one.                                       *)

AlertInv == \A i \in Ids : alerts[i] + RunsAt(i, {"notifying"}) + One(~notified[i]) <= 1 + resets[i]

LEMMA AlertInvStep == TypeOK /\ AlertInv /\ [Next]_vars => AlertInv'
<1> SUFFICES ASSUME TypeOK, AlertInv, [Next]_vars, NEW j \in Ids
    PROVE alerts'[j] + RunsAt(j, {"notifying"})' + One(~notified'[j]) <= 1 + resets'[j]
  BY DEF AlertInv
<1> DEFINE P == {"notifying"}
<1>0. /\ alerts[j] \in Nat /\ resets[j] \in Nat
      /\ RunsAt(j, P) \in Nat /\ RunsAt(j, P)' \in Nat
      /\ One(~notified[j]) \in {0, 1}
      /\ alerts[j] + RunsAt(j, P) + One(~notified[j]) <= 1 + resets[j]
  BY RunsAtType DEF TypeOK, AlertInv, One
<1> HIDE DEF P
<1> SUFFICES alerts'[j] + RunsAt(j, P)' + One(~notified'[j]) <= 1 + resets'[j]
  BY DEF P
<1>1. ASSUME UNCHANGED <<alerts, notified, resets>>, RunsAt(j, P)' <= RunsAt(j, P)
      PROVE  alerts'[j] + RunsAt(j, P)' + One(~notified'[j]) <= 1 + resets'[j]
  BY <1>0, <1>1
<1>2. ASSUME UNCHANGED step PROVE RunsAt(j, P)' = RunsAt(j, P)
  BY <1>2 DEF RunsAt
<1>3. ASSUME NEW w \in QueueRuns, SelectRows(w) \/ Crash(w)
      PROVE  alerts'[j] + RunsAt(j, P)' + One(~notified'[j]) <= 1 + resets'[j]
  <2>1. UNCHANGED <<alerts, notified, resets>>
    BY <1>3 DEF SelectRows, Crash, rows, history
  <2>2. "selected" \notin P /\ "idle" \notin P
    BY DEF P
  <2> QED BY <1>1, <1>3, <2>1, <2>2, FewerRunsAt
<1>4. ASSUME NEW w \in QueueRuns, NEW i \in Ids, ClaimAlert(w, i)
      PROVE  alerts'[j] + RunsAt(j, P)' + One(~notified'[j]) <= 1 + resets'[j]
  <2>1. PICK s \in Steps : Goto(w, i, s) /\ (s \in P => ~notified[i]) /\ step[w][i] \notin P
    BY <1>4 DEF ClaimAlert, Steps, P
  <2>2. RunsAt(j, P)' = IF j = i THEN RunsAt(j, P) + One(s \in P) ELSE RunsAt(j, P)
    BY <1>0, <2>1, GotoRunsAt DEF One
  <2>3. /\ notified' = [notified EXCEPT ![i] = TRUE] /\ UNCHANGED <<alerts, resets>>
    BY <1>4 DEF ClaimAlert, history
  <2>4. CASE j = i
    <3>1. One(~notified'[j]) = 0
      BY <2>3, <2>4 DEF TypeOK, One
    <3>2. One(s \in P) <= One(~notified[j])
      BY <2>1, <2>4 DEF One
    <3>3. RunsAt(j, P)' = RunsAt(j, P) + One(s \in P) /\ One(s \in P) \in {0, 1}
      BY <2>2, <2>4 DEF One
    <3> QED BY <1>0, <2>3, <3>1, <3>2, <3>3
  <2>5. CASE j # i
    <3>1. One(~notified'[j]) = One(~notified[j])
      BY <2>3, <2>5 DEF TypeOK
    <3> QED BY <1>0, <2>2, <2>3, <2>5, <3>1
  <2> QED BY <2>4, <2>5
<1>5. ASSUME NEW w \in QueueRuns, NEW i \in Ids, NotifyAdmins(w, i)
      PROVE  alerts'[j] + RunsAt(j, P)' + One(~notified'[j]) <= 1 + resets'[j]
  <2>1. "idle" \in Steps /\ Goto(w, i, "idle") /\ "idle" \notin P /\ step[w][i] \in P
    BY <1>5 DEF NotifyAdmins, Steps, P
  <2>2. RunsAt(j, P)' = IF j = i THEN RunsAt(j, P) - 1 ELSE RunsAt(j, P)
    BY <1>0, <2>1, GotoRunsAt DEF One
  <2>3. /\ alerts'[j] = IF j = i THEN alerts[j] + 1 ELSE alerts[j]
        /\ UNCHANGED <<notified, resets>>
    BY <1>5 DEF TypeOK, NotifyAdmins, rows
  <2> QED BY <1>0, <2>2, <2>3
<1>6. ASSUME NEW w \in QueueRuns, NEW i \in Ids,
             \/ Claim(w, i) \/ ProviderAnswers(w, i) \/ RecordSent(w, i) \/ RecordFailed(w, i)
             \/ AnswerIsLost(w, i) \/ StatementFails(w, i)
      PROVE  alerts'[j] + RunsAt(j, P)' + One(~notified'[j]) <= 1 + resets'[j]
  <2>1. PICK s \in Steps : Goto(w, i, s) /\ s \notin P
    BY <1>6 DEF Claim, ProviderAnswers, RecordSent, RecordFailed, AnswerIsLost, StatementFails, Steps, P
  <2>2. RunsAt(j, P)' <= RunsAt(j, P)
    BY <1>0, <2>1, GotoRunsAt DEF One
  <2>3. UNCHANGED <<alerts, notified, resets>>
    BY <1>6 DEF Claim, ProviderAnswers, RecordSent, RecordFailed, AnswerIsLost, StatementFails, rows, history
  <2> QED BY <1>1, <2>2, <2>3
<1>7. CASE RetryAll
  <2>1. RunsAt(j, P)' = RunsAt(j, P) /\ UNCHANGED alerts
    BY <1>2, <1>7 DEF RetryAll, queue
  <2>2. CASE j \in Failed
    <3>1. resets'[j] = resets[j] + 1
      BY <1>7, <2>2 DEF RetryAll, Count
    <3>2. One(~notified'[j]) \in {0, 1}
      BY DEF One
    <3> QED BY <1>0, <2>1, <3>1, <3>2
  <2>3. CASE j \notin Failed
    <3>1. resets'[j] = resets[j] /\ notified'[j] = notified[j]
      BY <1>7, <2>3 DEF RetryAll, Put, Count
    <3> QED BY <1>0, <2>1, <3>1
  <2> QED BY <2>2, <2>3
<1>8. ASSUME UNCHANGED <<step, alerts, notified, resets>>
      PROVE  alerts'[j] + RunsAt(j, P)' + One(~notified'[j]) <= 1 + resets'[j]
  BY <1>0, <1>1, <1>2, <1>8
<1>9. ASSUME NEW i \in Ids, Enqueue(i) \/ BecomesDue(i)
      PROVE  UNCHANGED <<step, alerts, notified, resets>>
  BY <1>9 DEF Enqueue, BecomesDue, queue, history
<1>10. ASSUME NEW w \in QueueRuns, StartRun(w) PROVE UNCHANGED <<step, alerts, notified, resets>>
  BY <1>10 DEF StartRun, rows, history
<1>11. ASSUME NEW d \in DigestRuns,
              DigestStep(d) \/ StopDigestRun(d) \/ DigestAnswerIsLost(d) \/ DigestSentFails(d)
       PROVE  UNCHANGED <<step, alerts, notified, resets>>
  BY <1>11 DEF DigestStep, SelectDigests, ClaimDigest, DigestProviderAnswers, RecordDigestSent,
       RecordDigestFailed, EndDigestRun, StopDigestRun, DigestAnswerIsLost, DigestSentFails,
       rows, queue, history
<1>12. ASSUME NEW a \in Admins, AdminWrite(a) \/ \E r \in Requests : ReadForRequest(a, r)
       PROVE  UNCHANGED <<step, alerts, notified, resets>>
  BY <1>12 DEF AdminWrite, CancelWrite, RetryWrite, ResendWrite, ReadForRequest, rows, queue, history
<1>13. CASE PauseQueue \/ ResumeQueue \/ RecordDelivered \/ RecordBounce \/ UNCHANGED vars
  <2>1. UNCHANGED <<step, alerts, notified, resets>>
    BY <1>13 DEF PauseQueue, ResumeQueue, RecordDelivered, RecordBounce, vars, rows, queue, history
  <2> QED BY <1>8, <2>1
<1> QED
  BY <1>3, <1>4, <1>5, <1>6, <1>7, <1>8, <1>9, <1>10, <1>11, <1>12, <1>13 DEF Next, DeliverStep

\* Administrators get at most one alert about a row, and one more for each
\* retryAll that cleared its failureNotifiedAt (alertPermanentFailure).
THEOREM AlertsAreBounded == Spec => []AlertsBounded
<1>1. Init => AlertInv
  <2> SUFFICES ASSUME Init, NEW i \in Ids
               PROVE  alerts[i] + RunsAt(i, {"notifying"}) + One(~notified[i]) <= 1 + resets[i]
    BY DEF AlertInv
  <2>1. {w \in QueueRuns : step[w][i] \in {"notifying"}} = {}
    BY DEF Init
  <2>2. RunsAt(i, {"notifying"}) = 0
    BY <2>1, FS_EmptySet DEF RunsAt
  <2> QED BY <2>2 DEF Init, One
<1>2. TypeOK /\ AlertInv => AlertsBounded
  <2> SUFFICES ASSUME TypeOK, AlertInv, NEW i \in Ids PROVE alerts[i] <= 1 + resets[i]
    BY DEF AlertsBounded
  <2>1. One(~notified[i]) \in Nat
    BY DEF One
  <2> QED BY <2>1, RunsAtType DEF TypeOK, AlertInv
<1> QED BY <1>1, <1>2, AlertInvStep, TypeCorrect, PTL DEF Spec

----------------------------------------------------------------------------
(* Attempts.  Every run that has selected a row may still count one attempt *)
(* more; the runs select a row only while its attempts are below the limit, *)
(* and no digest gives a row back to DIGEST_PENDING without checking them.  *)

AttemptInv ==
  \A i \in Ids :
    /\ attempts[i] + RunsAt(i, {"selected"}) <= MaxAttempts + Cardinality(QueueRuns)
    /\ status[i] = "DIGEST_PENDING" => attempts[i] < MaxAttempts
    /\ status[i] = Absent => attempts[i] = 0

LEMMA AttemptInvStep == TypeOK /\ AttemptInv /\ [Next]_vars => AttemptInv'
<1> DEFINE Good(j) ==
      /\ attempts[j] + RunsAt(j, {"selected"}) <= MaxAttempts + Cardinality(QueueRuns)
      /\ status[j] = "DIGEST_PENDING" => attempts[j] < MaxAttempts
      /\ status[j] = Absent => attempts[j] = 0
<1> SUFFICES ASSUME TypeOK, AttemptInv, [Next]_vars, NEW j \in Ids PROVE Good(j)'
  BY DEF AttemptInv
<1> DEFINE P == {"selected"}
<1>0. /\ attempts[j] \in Nat /\ MaxAttempts \in Nat \ {0} /\ Cardinality(QueueRuns) \in Nat
      /\ RunsAt(j, P) \in Nat /\ RunsAt(j, P)' \in Nat
      /\ RunsAt(j, P) <= Cardinality(QueueRuns) /\ RunsAt(j, P)' <= Cardinality(QueueRuns)
      /\ Good(j)
  BY RunsAtType, FS_CardinalityType, ConstantsAssumption DEF TypeOK, AttemptInv
<1> HIDE DEF P
<1>1. ASSUME attempts'[j] + RunsAt(j, P)' <= MaxAttempts + Cardinality(QueueRuns),
             status'[j] = "DIGEST_PENDING" => attempts'[j] < MaxAttempts,
             status'[j] = Absent => attempts'[j] = 0
      PROVE  Good(j)'
  BY <1>1 DEF P
<1> HIDE DEF Good
<1>2. ASSUME attempts'[j] = attempts[j], RunsAt(j, P)' <= RunsAt(j, P),
             status'[j] = status[j] \/ status'[j] \notin {"DIGEST_PENDING", Absent}
      PROVE  Good(j)'
  BY <1>0, <1>1, <1>2 DEF Good, P
<1>3. ASSUME UNCHANGED step PROVE RunsAt(j, P)' = RunsAt(j, P)
  BY <1>3 DEF RunsAt
<1>4. ASSUME NEW w \in QueueRuns, SelectRows(w) PROVE Good(j)'
  <2>1. UNCHANGED <<status, attempts>>
    BY <1>4 DEF SelectRows, rows
  <2>2. CASE attempts[j] < MaxAttempts
    BY <1>0, <1>1, <2>1, <2>2 DEF Good
  <2>3. CASE ~(attempts[j] < MaxAttempts)
    <3>1. PICK S \in SUBSET Selectable : step' = [step EXCEPT ![w] = Put(@, S, "selected")]
      BY <1>4 DEF SelectRows, Pages
    <3>2. j \notin S
      BY <2>3, <3>1 DEF Selectable
    <3>3. \A v \in QueueRuns : step'[v][j] = step[v][j]
      BY <3>1, <3>2 DEF TypeOK, Put
    <3>4. RunsAt(j, P)' = RunsAt(j, P)
      BY <3>3 DEF RunsAt
    <3> QED BY <1>0, <1>2, <2>1, <3>4
  <2> QED BY <2>2, <2>3
<1>5. ASSUME NEW w \in QueueRuns, Crash(w) PROVE Good(j)'
  <2>1. UNCHANGED <<status, attempts>>
    BY <1>5 DEF Crash, rows
  <2>2. "idle" \notin P
    BY DEF P
  <2>3. RunsAt(j, P)' <= RunsAt(j, P)
    BY <1>5, <2>2, FewerRunsAt
  <2> QED BY <1>2, <2>1, <2>3
<1>6. ASSUME NEW w \in QueueRuns, NEW i \in Ids, Claim(w, i), status[i] \in Claimable PROVE Good(j)'
  <2>1. /\ status' = [status EXCEPT ![i] = "SENDING"]
        /\ attempts' = [attempts EXCEPT ![i] = @ + 1]
        /\ step[w][i] \in P /\ "sending" \notin P /\ "sending" \in Steps /\ Goto(w, i, "sending")
    BY <1>6, Zenon DEF Claim, P, Steps
  <2>2. RunsAt(j, P)' = IF j = i THEN RunsAt(j, P) - 1 ELSE RunsAt(j, P)
    BY <1>0, <2>1, GotoRunsAt DEF One
  <2>3. CASE j = i
    <3>1. attempts'[j] = attempts[j] + 1 /\ status'[j] = "SENDING"
      BY <2>1, <2>3 DEF TypeOK
    <3>2. attempts'[j] + RunsAt(j, P)' = attempts[j] + RunsAt(j, P)
      BY <1>0, <2>2, <2>3, <3>1
    <3> QED BY <1>0, <1>1, <3>1, <3>2 DEF Good, P, Absent
  <2>4. CASE j # i
    BY <1>0, <1>2, <2>1, <2>2, <2>4 DEF TypeOK
  <2> QED BY <2>3, <2>4
<1>7. ASSUME NEW w \in QueueRuns, NEW i \in Ids,
             \/ Claim(w, i) /\ status[i] \notin Claimable
             \/ ProviderAnswers(w, i) \/ RecordSent(w, i) \/ RecordFailed(w, i)
             \/ ClaimAlert(w, i) \/ NotifyAdmins(w, i) \/ AnswerIsLost(w, i) \/ StatementFails(w, i)
      PROVE  Good(j)'
  <2>1. PICK s \in Steps : Goto(w, i, s) /\ s \notin P
    BY <1>7 DEF Claim, ProviderAnswers, RecordSent, RecordFailed, ClaimAlert, NotifyAdmins,
         AnswerIsLost, StatementFails, Steps, P
  <2>2. RunsAt(j, P)' <= RunsAt(j, P)
    BY <1>0, <2>1, GotoRunsAt DEF One
  <2>3. UNCHANGED attempts
    BY <1>7 DEF Claim, ProviderAnswers, RecordSent, RecordFailed, ClaimAlert, NotifyAdmins,
         AnswerIsLost, StatementFails, rows
  <2>4. status'[j] \in {status[j], "SENT", "FAILED"}
    BY <1>7 DEF TypeOK, Claim, ProviderAnswers, RecordSent, RecordFailed, ClaimAlert, NotifyAdmins,
         AnswerIsLost, StatementFails, rows
  <2> QED BY <1>2, <2>2, <2>3, <2>4 DEF Absent
<1>8. ASSUME NEW d \in DigestRuns, ClaimDigest(d) PROVE Good(j)'
  <2>1. PICK g : /\ status' = Put(status, StillPending(g), "SENDING")
                 /\ attempts' = Count(attempts, StillPending(g))
    BY <1>8, Zenon DEF ClaimDigest
  <2>2. RunsAt(j, P)' = RunsAt(j, P)
    BY <1>3, <1>8 DEF ClaimDigest, queue
  <2>3. CASE j \in StillPending(g)
    <3>1. attempts'[j] = attempts[j] + 1 /\ status'[j] = "SENDING"
      BY <2>1, <2>3 DEF Put, Count
    <3>2. attempts[j] < MaxAttempts
      BY <1>0, <2>3 DEF Good, StillPending
    <3> QED BY <1>0, <1>1, <3>1, <3>2 DEF Absent
  <2>4. CASE j \notin StillPending(g)
    BY <1>0, <1>2, <2>1, <2>2, <2>4 DEF Put, Count
  <2> QED BY <2>3, <2>4
<1>9. ASSUME NEW d \in DigestRuns, RecordDigestFailed(d) PROVE Good(j)'
  <2>1. RunsAt(j, P)' = RunsAt(j, P) /\ UNCHANGED attempts
    BY <1>3, <1>9 DEF RecordDigestFailed, queue
  <2>2. status'[j] = IF j \in group[d] THEN AfterRefusal(j) ELSE status[j]
    BY <1>9 DEF RecordDigestFailed
  <2>3. status'[j] = status[j] \/ status'[j] = "FAILED" \/ attempts[j] < MaxAttempts
    BY <1>0, <2>2 DEF AfterRefusal
  <2>4. status'[j] = status[j] \/ status'[j] # Absent
    BY <2>2 DEF AfterRefusal, Absent
  <2> QED BY <1>0, <1>1, <2>1, <2>3, <2>4 DEF Good, P
<1>10. ASSUME NEW d \in DigestRuns,
              \/ SelectDigests(d) \/ DigestProviderAnswers(d) \/ RecordDigestSent(d)
              \/ EndDigestRun(d) \/ StopDigestRun(d) \/ DigestAnswerIsLost(d) \/ DigestSentFails(d)
       PROVE  Good(j)'
  <2>1. UNCHANGED <<step, attempts>>
    BY <1>10 DEF SelectDigests, DigestProviderAnswers, RecordDigestSent, EndDigestRun,
         StopDigestRun, DigestAnswerIsLost, DigestSentFails, rows, queue
  <2>2. status'[j] \in {status[j], "SENT"}
    BY <1>10 DEF SelectDigests, DigestProviderAnswers, RecordDigestSent, EndDigestRun,
         StopDigestRun, DigestAnswerIsLost, DigestSentFails, rows, Put
  <2> QED BY <1>0, <1>2, <1>3, <2>1, <2>2 DEF Absent
<1>11. ASSUME NEW i \in Ids, Enqueue(i) PROVE Good(j)'
  <2>1. PICK s \in NewStatuses : InsertRow(i, s)
    BY <1>11 DEF Enqueue
  <2>2. status'[j] = status[j] \/ (status[j] = Absent /\ status'[j] # Absent)
    <3>1. s # Absent
      BY DEF NewStatuses, Absent
    <3>2. status[i] = Absent /\ status' = [status EXCEPT ![i] = s]
      BY <2>1 DEF InsertRow
    <3> QED BY <3>1, <3>2 DEF TypeOK
  <2>3. UNCHANGED <<step, attempts>>
    BY <1>11 DEF Enqueue, queue
  <2>4. RunsAt(j, P)' = RunsAt(j, P)
    BY <1>3, <2>3
  <2> QED BY <1>0, <1>1, <2>2, <2>3, <2>4 DEF Good, P
<1>12. ASSUME NEW a \in Admins, AdminWrite(a) PROVE Good(j)'
  <2>1. RunsAt(j, P)' = RunsAt(j, P)
    BY <1>3, <1>12 DEF AdminWrite, CancelWrite, RetryWrite, ResendWrite, queue
  <2>2. /\ attempts'[j] \in {attempts[j], 0}
        /\ status'[j] \in {status[j], "CANCELLED", "QUEUED"}
    BY <1>12 DEF TypeOK, AdminWrite, CancelWrite, RetryWrite, ResendWrite, InsertRow
  <2> QED BY <1>0, <1>1, <2>1, <2>2 DEF Good, P, Absent
<1>13. CASE RetryAll
  <2>1. RunsAt(j, P)' = RunsAt(j, P)
    BY <1>3, <1>13 DEF RetryAll, queue
  <2>2. /\ attempts'[j] \in {attempts[j], 0}
        /\ status'[j] \in {status[j], "QUEUED"}
    BY <1>13 DEF RetryAll, Put
  <2> QED BY <1>0, <1>1, <2>1, <2>2 DEF Good, P, Absent
<1>14. ASSUME UNCHANGED <<step, attempts>>,
              status'[j] \in {status[j], "DELIVERED", "BOUNCED", "COMPLAINED"}
       PROVE  Good(j)'
  BY <1>0, <1>2, <1>3, <1>14 DEF Absent
<1>15. ASSUME NEW i \in Ids, BecomesDue(i) PROVE Good(j)'
  BY <1>14, <1>15 DEF BecomesDue, queue
<1>16. ASSUME NEW w \in QueueRuns, StartRun(w) PROVE Good(j)'
  BY <1>14, <1>16 DEF StartRun, rows
<1>17. ASSUME NEW a \in Admins, NEW r \in Requests, ReadForRequest(a, r) PROVE Good(j)'
  BY <1>14, <1>17 DEF ReadForRequest, rows, queue
<1>18. CASE PauseQueue \/ ResumeQueue \/ UNCHANGED vars
  BY <1>14, <1>18 DEF PauseQueue, ResumeQueue, vars, rows, queue
<1>19. CASE RecordDelivered \/ RecordBounce
  <2>1. status'[j] \in {status[j], "DELIVERED", "BOUNCED", "COMPLAINED"}
    BY <1>19 DEF RecordDelivered, RecordBounce, Put
  <2> QED BY <1>14, <1>19, <2>1 DEF RecordDelivered, RecordBounce, queue
<1> QED
  BY <1>4, <1>5, <1>6, <1>7, <1>8, <1>9, <1>10, <1>11, <1>12, <1>13, <1>15, <1>16, <1>17, <1>18, <1>19
  DEF Next, DeliverStep, DigestStep

\* A row is never attempted more than maxAttempts times plus once for each
\* run of processQueue that can overlap (deliver, deliverDigest).
THEOREM AttemptsAreBounded == Spec => []AttemptsBounded
<1>1. Init => AttemptInv
  <2> SUFFICES ASSUME Init, NEW i \in Ids
               PROVE  /\ attempts[i] + RunsAt(i, {"selected"}) <= MaxAttempts + Cardinality(QueueRuns)
                      /\ status[i] = "DIGEST_PENDING" => attempts[i] < MaxAttempts
                      /\ status[i] = Absent => attempts[i] = 0
    BY DEF AttemptInv
  <2> QED BY RunsAtType, FS_CardinalityType, ConstantsAssumption DEF Init, Absent
<1>2. TypeOK /\ AttemptInv => AttemptsBounded
  <2> SUFFICES ASSUME TypeOK, AttemptInv, NEW i \in Ids
               PROVE  attempts[i] <= MaxAttempts + Cardinality(QueueRuns)
    BY DEF AttemptsBounded
  <2> QED BY RunsAtType, FS_CardinalityType, ConstantsAssumption DEF TypeOK, AttemptInv
<1> QED BY <1>1, <1>2, AttemptInvStep, TypeCorrect, PTL DEF Spec

----------------------------------------------------------------------------
(* Duplicates.  A row may be handed over once more for every run or digest  *)
(* that is between its claim and the provider's acceptance, and once if it  *)
(* still waits.  Claiming trades the last for the first; what trades        *)
(* nothing is counted in repeats.                                           *)

Open == {Absent, "QUEUED", "FAILED", "DIGEST_PENDING"}
DuplicateInv ==
  \A i \in Ids :
    accepted[i] + RunsAt(i, {"sending", "refused"}) + Digests(i) + One(status[i] \in Open)
      <= 1 + repeats[i]

\* A step of one digest run changes the count by what it carried and carries.
LEMMA DigestsChange ==
  ASSUME NEW d \in DigestRuns, NEW j,
         \A e \in DigestRuns : e # d => phase'[e] = phase[e] /\ group'[e] = group[e]
  PROVE  Digests(j)' = Digests(j) + One(Carrying(j, d)') - One(Carrying(j, d))
<1> DEFINE S == {e \in DigestRuns : Carrying(j, e)}
           T == {e \in DigestRuns : Carrying(j, e)'}
<1>1. \A e \in DigestRuns : e # d => Carrying(j, e)' = Carrying(j, e)
  BY DEF Carrying
<1>2. T \subseteq S \cup {d} /\ S \subseteq T \cup {d}
  BY <1>1
<1>3. IsFiniteSet(S)
  BY FS_Subset, ConstantsAssumption
<1>4. Cardinality(T) = Cardinality(S) + One(d \in T) - One(d \in S)
  BY <1>2, <1>3, OneElement
<1>5. (d \in T <=> Carrying(j, d)') /\ (d \in S <=> Carrying(j, d))
  OBVIOUS
<1>6. One(d \in T) = One(Carrying(j, d)') /\ One(d \in S) = One(Carrying(j, d))
  BY <1>5 DEF One
<1> QED BY <1>4, <1>6 DEF Digests

LEMMA DigestsType == ASSUME NEW j PROVE Digests(j) \in Nat /\ Digests(j)' \in Nat
<1>1. \A T \in SUBSET DigestRuns : Cardinality(T) \in Nat
  BY FS_Subset, FS_CardinalityType, ConstantsAssumption
<1> QED BY <1>1 DEF Digests

LEMMA DuplicateInvStep == TypeOK /\ DuplicateInv /\ [Next]_vars => DuplicateInv'
<1> DEFINE P == {"sending", "refused"}
           Load(j) == accepted[j] + RunsAt(j, P) + Digests(j) + One(status[j] \in Open)
<1> SUFFICES ASSUME TypeOK, DuplicateInv, [Next]_vars, NEW j \in Ids
             PROVE  Load(j)' <= 1 + repeats'[j]
  BY DEF DuplicateInv
<1>0. /\ accepted[j] \in Nat /\ repeats[j] \in Nat
      /\ RunsAt(j, P) \in Nat /\ RunsAt(j, P)' \in Nat
      /\ Digests(j) \in Nat /\ Digests(j)' \in Nat
      /\ One(status[j] \in Open) \in {0, 1} /\ One(status'[j] \in Open) \in {0, 1}
      /\ Load(j) <= 1 + repeats[j]
  BY RunsAtType, DigestsType DEF TypeOK, DuplicateInv, One
<1> HIDE DEF P
<1>1. ASSUME accepted'[j] = accepted[j], repeats'[j] = repeats[j],
             RunsAt(j, P)' <= RunsAt(j, P), Digests(j)' <= Digests(j),
             status'[j] = status[j] \/ status'[j] \notin Open \/ status[j] \in Open
      PROVE  Load(j)' <= 1 + repeats'[j]
  <2>1. One(status'[j] \in Open) <= One(status[j] \in Open)
    BY <1>1 DEF One
  <2> QED BY <1>0, <1>1, <2>1
<1>2. UNCHANGED step => RunsAt(j, P)' = RunsAt(j, P)
  BY DEF RunsAt
<1>3. UNCHANGED <<phase, group>> => Digests(j)' = Digests(j)
  BY DEF Digests, Carrying
<1>4. ASSUME NEW w \in QueueRuns, SelectRows(w) \/ Crash(w) PROVE Load(j)' <= 1 + repeats'[j]
  <2>1. "selected" \notin P /\ "idle" \notin P
    BY DEF P
  <2>2. RunsAt(j, P)' <= RunsAt(j, P)
    BY <1>4, <2>1, FewerRunsAt
  <2>3. UNCHANGED <<accepted, repeats, status, phase, group>>
    BY <1>4 DEF SelectRows, Crash, rows, digest, history
  <2> QED BY <1>0, <1>1, <1>3, <2>2, <2>3
<1>5. ASSUME NEW w \in QueueRuns, NEW i \in Ids, DeliverStep(w, i) \/ AnswerIsLost(w, i) \/ StatementFails(w, i)
      PROVE  Load(j)' <= 1 + repeats'[j]
  <2>1. Digests(j)' = Digests(j)
    <3>1. UNCHANGED <<phase, group>>
      BY <1>5 DEF DeliverStep, Claim, ProviderAnswers, RecordSent, RecordFailed, ClaimAlert,
           NotifyAdmins, AnswerIsLost, StatementFails, digest
    <3> QED BY <1>3, <3>1
  <2>2. ASSUME NEW s \in Steps, Goto(w, i, s)
        PROVE  RunsAt(j, P)' = IF j = i THEN RunsAt(j, P) + One(s \in P) - One(step[w][i] \in P)
                                        ELSE RunsAt(j, P)
    BY <2>2, GotoRunsAt
  <2>3. CASE Claim(w, i) /\ status[i] \in Claimable
    <3>1. /\ status' = [status EXCEPT ![i] = "SENDING"] /\ UNCHANGED <<accepted, repeats>>
          /\ step[w][i] \notin P /\ "sending" \in P /\ "sending" \in Steps /\ Goto(w, i, "sending")
      BY <2>3 DEF Claim, P, Steps, history
    <3>2. RunsAt(j, P)' = IF j = i THEN RunsAt(j, P) + 1 ELSE RunsAt(j, P)
      BY <1>0, <2>2, <3>1 DEF One
    <3>3. CASE j = i
      <4>1. One(status[j] \in Open) = 1 /\ One(status'[j] \in Open) = 0
        BY <2>3, <3>1, <3>3 DEF TypeOK, Open, Absent, Claimable, One
      <4> QED BY <1>0, <2>1, <3>1, <3>2, <3>3, <4>1
    <3>4. CASE j # i
      <4>1. status'[j] = status[j]
        BY <3>1, <3>4 DEF TypeOK
      <4> QED BY <1>0, <1>1, <2>1, <3>1, <3>2, <3>4, <4>1
    <3> QED BY <3>3, <3>4
  <2>4. CASE ProviderAnswers(w, i)
    <3>1. PICK s \in {"accepted", "refused"} :
            /\ Goto(w, i, s)
            /\ accepted' = IF s = "accepted" THEN [accepted EXCEPT ![i] = @ + 1] ELSE accepted
      BY <2>4 DEF ProviderAnswers
    <3>2. s \in Steps /\ step[w][i] \in P /\ ((s \in P) = (s = "refused")) /\ UNCHANGED <<status, repeats>>
      BY <2>4, <3>1 DEF ProviderAnswers, P, Steps, rows
    <3>3. RunsAt(j, P)' = IF j = i /\ s = "accepted" THEN RunsAt(j, P) - 1 ELSE RunsAt(j, P)
      BY <1>0, <2>2, <3>1, <3>2 DEF One
    <3>4. accepted'[j] = IF j = i /\ s = "accepted" THEN accepted[j] + 1 ELSE accepted[j]
      BY <3>1 DEF TypeOK
    <3> QED BY <1>0, <2>1, <3>2, <3>3, <3>4
  <2>5. CASE RecordFailed(w, i)
    <3>1. PICK s \in {"alerting", "idle"} : Goto(w, i, s)
      BY <2>5 DEF RecordFailed
    <3>2. /\ s \in Steps /\ s \notin P /\ step[w][i] \in P
          /\ UNCHANGED <<accepted, repeats>>
      BY <2>5, <3>1 DEF RecordFailed, P, Steps, history
    <3>3. j # i => status'[j] = status[j]
      BY <2>5 DEF RecordFailed, TypeOK
    <3>4. RunsAt(j, P)' = IF j = i THEN RunsAt(j, P) - 1 ELSE RunsAt(j, P)
      BY <1>0, <2>2, <3>1, <3>2 DEF One
    <3>5. CASE j = i
      BY <1>0, <2>1, <3>2, <3>4, <3>5
    <3>6. CASE j # i
      BY <1>0, <1>1, <2>1, <3>2, <3>3, <3>4, <3>6
    <3> QED BY <3>5, <3>6
  <2>6. CASE \/ Claim(w, i) /\ status[i] \notin Claimable
             \/ RecordSent(w, i) \/ ClaimAlert(w, i) \/ NotifyAdmins(w, i)
    <3>1. PICK s \in Steps : Goto(w, i, s) /\ s \notin P
      BY <2>6 DEF Claim, RecordSent, ClaimAlert, NotifyAdmins, Steps, P
    <3>2. RunsAt(j, P)' <= RunsAt(j, P)
      BY <1>0, <2>2, <3>1 DEF One
    <3>3. UNCHANGED <<accepted, repeats>> /\ (status'[j] = status[j] \/ status'[j] \notin Open)
      BY <2>6 DEF TypeOK, Claim, RecordSent, ClaimAlert, NotifyAdmins, rows, history, Open, Absent
    <3> QED BY <1>0, <1>1, <2>1, <3>2, <3>3
  <2>7. CASE StatementFails(w, i)
    <3>1. PICK s \in {"refused", "idle"} :
            /\ Goto(w, i, s)
            /\ repeats' = IF s = "refused" THEN [repeats EXCEPT ![i] = @ + 1] ELSE repeats
      BY <2>7 DEF StatementFails
    <3>2. s \in Steps /\ ((s \in P) = (s = "refused")) /\ UNCHANGED <<status, accepted>>
      BY <2>7, <3>1 DEF StatementFails, P, Steps, rows
    <3>3. RunsAt(j, P)' <= IF j = i /\ s = "refused" THEN RunsAt(j, P) + 1 ELSE RunsAt(j, P)
      BY <1>0, <2>2, <3>1, <3>2 DEF One
    <3>4. repeats'[j] = IF j = i /\ s = "refused" THEN repeats[j] + 1 ELSE repeats[j]
      BY <3>1 DEF TypeOK
    <3> QED BY <1>0, <2>1, <3>2, <3>3, <3>4
  <2>8. CASE AnswerIsLost(w, i)
    <3>1. "refused" \in Steps /\ "refused" \in P /\ step[w][i] \in P /\ Goto(w, i, "refused") /\ UNCHANGED status
      BY <2>8 DEF AnswerIsLost, P, Steps, rows
    <3>2. RunsAt(j, P)' = RunsAt(j, P)
      BY <1>0, <2>2, <3>1 DEF One
    <3>3. /\ accepted'[j] = IF j = i THEN accepted[j] + 1 ELSE accepted[j]
          /\ repeats'[j] = IF j = i THEN repeats[j] + 1 ELSE repeats[j]
      BY <2>8 DEF TypeOK, AnswerIsLost
    <3> QED BY <1>0, <2>1, <3>1, <3>2, <3>3
  <2> QED BY <1>5, <2>3, <2>4, <2>5, <2>6, <2>7, <2>8 DEF DeliverStep
<1>6. ASSUME NEW d \in DigestRuns,
             DigestStep(d) \/ StopDigestRun(d) \/ DigestAnswerIsLost(d) \/ DigestSentFails(d)
      PROVE  Load(j)' <= 1 + repeats'[j]
  <2>1. RunsAt(j, P)' = RunsAt(j, P)
    <3>1. UNCHANGED step
      BY <1>6 DEF DigestStep, SelectDigests, ClaimDigest, DigestProviderAnswers, RecordDigestSent,
           RecordDigestFailed, EndDigestRun, StopDigestRun, DigestAnswerIsLost, DigestSentFails, queue
    <3> QED BY <1>2, <3>1
  <2>2. Digests(j)' = Digests(j) + One(Carrying(j, d)') - One(Carrying(j, d))
    <3>1. \A e \in DigestRuns : e # d => phase'[e] = phase[e] /\ group'[e] = group[e]
      BY <1>6 DEF TypeOK, DigestStep, SelectDigests, ClaimDigest, DigestProviderAnswers, RecordDigestSent,
           RecordDigestFailed, EndDigestRun, StopDigestRun, DigestAnswerIsLost, DigestSentFails, NextGroup
    <3> QED BY <3>1, DigestsChange
  <2>3. ASSUME ~Carrying(j, d)', UNCHANGED <<accepted, repeats>>,
               status'[j] = status[j] \/ status'[j] \notin Open \/ Carrying(j, d)
        PROVE  Load(j)' <= 1 + repeats'[j]
    <3>1. CASE Carrying(j, d)
      <4>1. Digests(j)' = Digests(j) - 1
        BY <1>0, <2>2, <2>3, <3>1 DEF One
      <4> QED BY <1>0, <2>1, <2>3, <4>1
    <3>2. CASE ~Carrying(j, d)
      <4>1. Digests(j)' = Digests(j)
        BY <1>0, <2>2, <2>3, <3>2 DEF One
      <4> QED BY <1>0, <1>1, <2>1, <2>3, <3>2, <4>1
    <3> QED BY <3>1, <3>2
  <2>4. CASE SelectDigests(d) \/ EndDigestRun(d) \/ StopDigestRun(d) \/ RecordDigestSent(d)
    <3>1. ~Carrying(j, d)'
      BY <2>4 DEF TypeOK, SelectDigests, EndDigestRun, StopDigestRun, RecordDigestSent, NextGroup, Carrying
    <3>2. UNCHANGED <<accepted, repeats>> /\ (status'[j] = status[j] \/ status'[j] \notin Open)
      BY <2>4 DEF SelectDigests, EndDigestRun, StopDigestRun, RecordDigestSent, rows, history, Put, Open, Absent
    <3> QED BY <2>3, <3>1, <3>2
  <2>5. CASE RecordDigestFailed(d)
    <3>1. ~Carrying(j, d)'
      BY <2>5 DEF TypeOK, RecordDigestFailed, NextGroup, Carrying
    <3>2. UNCHANGED <<accepted, repeats>> /\ (status'[j] = status[j] \/ Carrying(j, d))
      BY <2>5 DEF RecordDigestFailed, history, Carrying
    <3> QED BY <2>3, <3>1, <3>2
  <2>6. CASE ClaimDigest(d)
    <3>1. PICK g \in SUBSET batch[d] :
            /\ status' = Put(status, StillPending(g), "SENDING")
            /\ \/ /\ phase' = [phase EXCEPT ![d] = "sending"]
                  /\ group' = [group EXCEPT ![d] = g]
                  /\ repeats' = Count(repeats, g \ StillPending(g))
               \/ StillPending(g) = {} /\ UNCHANGED <<phase, group, repeats>>
      BY <2>6, Zenon DEF ClaimDigest
    <3>2. ~Carrying(j, d) /\ UNCHANGED accepted
      BY <2>6 DEF ClaimDigest, Carrying
    <3>3. CASE /\ phase' = [phase EXCEPT ![d] = "sending"]
               /\ group' = [group EXCEPT ![d] = g]
               /\ repeats' = Count(repeats, g \ StillPending(g))
      <4>1. Carrying(j, d)' <=> j \in g
        BY <3>3 DEF TypeOK, Carrying
      <4>2. CASE j \in StillPending(g)
        <5>1. One(status[j] \in Open) = 1 /\ One(status'[j] \in Open) = 0
          BY <3>1, <4>2 DEF Put, StillPending, Open, Absent, One
        <5>2. repeats'[j] = repeats[j]
          BY <3>3, <4>2 DEF Count
        <5>3. Digests(j)' = Digests(j) + 1
          BY <1>0, <2>2, <3>2, <4>1, <4>2 DEF One, StillPending
        <5> QED BY <1>0, <2>1, <3>2, <5>1, <5>2, <5>3
      <4>3. CASE j \in g \ StillPending(g)
        <5>1. status'[j] = status[j]
          BY <3>1, <4>3 DEF Put
        <5>2. repeats'[j] = repeats[j] + 1
          BY <3>3, <4>3 DEF Count
        <5>3. Digests(j)' = Digests(j) + 1
          BY <1>0, <2>2, <3>2, <4>1, <4>3 DEF One
        <5> QED BY <1>0, <2>1, <3>2, <5>1, <5>2, <5>3
      <4>4. CASE j \notin g
        <5>1. status'[j] = status[j] /\ repeats'[j] = repeats[j]
          BY <3>1, <3>3, <4>4 DEF Put, Count, StillPending
        <5>2. Digests(j)' = Digests(j)
          BY <1>0, <2>2, <3>2, <4>1, <4>4 DEF One
        <5> QED BY <1>0, <1>1, <2>1, <3>2, <5>1, <5>2
      <4> QED BY <4>2, <4>3, <4>4 DEF StillPending
    <3>4. CASE StillPending(g) = {} /\ UNCHANGED <<phase, group, repeats>>
      <4>1. status'[j] = status[j]
        BY <3>1, <3>4 DEF Put
      <4> QED BY <1>0, <1>1, <1>3, <2>1, <3>2, <3>4, <4>1
    <3> QED BY <3>1, <3>3, <3>4
  <2>7. CASE DigestProviderAnswers(d)
    <3>1. UNCHANGED <<status, repeats, group>> /\ (Carrying(j, d) <=> j \in group[d])
      BY <2>7 DEF DigestProviderAnswers, rows, Carrying
    <3>2. CASE phase' = [phase EXCEPT ![d] = "accepted"] /\ accepted' = Count(accepted, group[d])
      <4>1. ~Carrying(j, d)'
        BY <3>2 DEF TypeOK, Carrying
      <4>2. Digests(j)' = IF j \in group[d] THEN Digests(j) - 1 ELSE Digests(j)
        BY <1>0, <2>2, <3>1, <4>1 DEF One
      <4>3. accepted'[j] = IF j \in group[d] THEN accepted[j] + 1 ELSE accepted[j]
        BY <3>2 DEF Count
      <4> QED BY <1>0, <2>1, <3>1, <4>2, <4>3
    <3>3. CASE phase' = [phase EXCEPT ![d] = "refused"] /\ UNCHANGED accepted
      <4>1. Carrying(j, d)' <=> Carrying(j, d)
        BY <3>1, <3>3 DEF TypeOK, Carrying
      <4>2. Digests(j)' = Digests(j)
        BY <1>0, <2>2, <4>1 DEF One
      <4> QED BY <1>0, <1>1, <2>1, <3>1, <3>3, <4>2
    <3> QED BY <2>7, <3>2, <3>3 DEF DigestProviderAnswers
  <2>8. CASE DigestSentFails(d)
    <3>1. UNCHANGED <<status, accepted, group>> /\ ~Carrying(j, d)
      BY <2>8 DEF DigestSentFails, rows, Carrying
    <3>2. Carrying(j, d)' => j \in group[d]
      BY <3>1 DEF Carrying
    <3>3. repeats'[j] = IF j \in group[d] THEN repeats[j] + 1 ELSE repeats[j]
      BY <2>8 DEF DigestSentFails, Count
    <3>4. Digests(j)' <= IF j \in group[d] THEN Digests(j) + 1 ELSE Digests(j)
      BY <1>0, <2>2, <3>1, <3>2 DEF One
    <3> QED BY <1>0, <2>1, <3>1, <3>3, <3>4
  <2>9. CASE DigestAnswerIsLost(d)
    <3>1. UNCHANGED <<status, group>> /\ phase[d] = "sending" /\ phase' = [phase EXCEPT ![d] = "refused"]
      BY <2>9 DEF DigestAnswerIsLost, rows
    <3>2. Carrying(j, d)' <=> Carrying(j, d)
      BY <3>1 DEF TypeOK, Carrying
    <3>3. Digests(j)' = Digests(j)
      BY <1>0, <2>2, <3>2 DEF One
    <3>4. /\ accepted'[j] = IF j \in group[d] THEN accepted[j] + 1 ELSE accepted[j]
          /\ repeats'[j] = IF j \in group[d] THEN repeats[j] + 1 ELSE repeats[j]
      BY <2>9 DEF DigestAnswerIsLost, Count
    <3> QED BY <1>0, <2>1, <3>1, <3>3, <3>4
  <2> QED BY <1>6, <2>4, <2>5, <2>6, <2>7, <2>8, <2>9 DEF DigestStep
<1>7. ASSUME UNCHANGED <<step, phase, group, accepted, repeats>>,
             status'[j] = status[j] \/ status'[j] \notin Open \/ status[j] \in Open
      PROVE  Load(j)' <= 1 + repeats'[j]
  BY <1>0, <1>1, <1>2, <1>3, <1>7
<1>8. ASSUME NEW a \in Admins, RetryWrite(a) PROVE Load(j)' <= 1 + repeats'[j]
  <2>1. /\ repeats' = Count(repeats, {admin[a].id} \ {k \in Ids : status[k] = "FAILED"})
        /\ status' = [status EXCEPT ![admin[a].id] = "QUEUED"]
        /\ UNCHANGED <<step, phase, group, accepted>>
    BY <1>8 DEF RetryWrite, queue, digest
  <2>2. RunsAt(j, P)' = RunsAt(j, P) /\ Digests(j)' = Digests(j)
    BY <1>2, <1>3, <2>1
  <2>3. CASE j = admin[a].id /\ status[j] # "FAILED"
    <3>1. repeats'[j] = repeats[j] + 1
      BY <2>1, <2>3 DEF Count
    <3> QED BY <1>0, <2>1, <2>2, <3>1
  <2>4. CASE j # admin[a].id \/ status[j] = "FAILED"
    <3>1. repeats'[j] = repeats[j] /\ (status'[j] = status[j] \/ status[j] \in Open)
      BY <2>1, <2>4 DEF TypeOK, Count, Open
    <3> QED BY <1>0, <1>1, <2>1, <2>2, <3>1
  <2> QED BY <2>3, <2>4
<1>9. ASSUME NEW a \in Admins, CancelWrite(a) \/ ResendWrite(a) PROVE Load(j)' <= 1 + repeats'[j]
  <2>1. status'[j] \in {status[j], "CANCELLED"} \/ status[j] = Absent
    BY <1>9 DEF TypeOK, CancelWrite, ResendWrite, InsertRow
  <2>2. status'[j] = status[j] \/ status'[j] \notin Open \/ status[j] \in Open
    BY <2>1 DEF Open, Absent
  <2> QED BY <1>7, <1>9, <2>2 DEF CancelWrite, ResendWrite, queue, digest, history
<1>10. ASSUME NEW i \in Ids, Enqueue(i) \/ BecomesDue(i) PROVE Load(j)' <= 1 + repeats'[j]
  <2>1. status'[j] = status[j] \/ status[j] = Absent
    BY <1>10 DEF TypeOK, Enqueue, BecomesDue, InsertRow
  <2> QED BY <1>7, <1>10, <2>1 DEF Enqueue, BecomesDue, Open, queue, digest, history
<1>11. ASSUME NEW w \in QueueRuns, StartRun(w) PROVE Load(j)' <= 1 + repeats'[j]
  BY <1>7, <1>11 DEF StartRun, rows, digest, history
<1>12. ASSUME NEW a \in Admins, NEW r \in Requests, ReadForRequest(a, r)
       PROVE  Load(j)' <= 1 + repeats'[j]
  BY <1>7, <1>12 DEF ReadForRequest, rows, queue, digest, history
<1>13. CASE RetryAll
  <2>1. status'[j] = status[j] \/ status[j] \in Open
    BY <1>13 DEF RetryAll, Put, Failed, Open
  <2> QED BY <1>7, <1>13, <2>1 DEF RetryAll, queue, digest
<1>14. CASE PauseQueue \/ ResumeQueue \/ UNCHANGED vars
  BY <1>7, <1>14 DEF PauseQueue, ResumeQueue, vars, rows, queue, digest, history
<1>15. CASE RecordDelivered \/ RecordBounce
  <2>1. status'[j] \in {status[j], "DELIVERED", "BOUNCED", "COMPLAINED"}
    BY <1>15 DEF RecordDelivered, RecordBounce, Put
  <2> QED BY <1>7, <1>15, <2>1 DEF RecordDelivered, RecordBounce, queue, digest, history, Open, Absent
<1> QED
  BY <1>4, <1>5, <1>6, <1>8, <1>9, <1>10, <1>11, <1>12, <1>13, <1>14, <1>15 DEF Next, AdminWrite

LEMMA DuplicateStart == Init => DuplicateInv
<1> SUFFICES ASSUME Init, NEW i \in Ids
             PROVE  accepted[i] + RunsAt(i, {"sending", "refused"}) + Digests(i)
                      + One(status[i] \in Open) <= 1 + repeats[i]
  BY DEF DuplicateInv
<1>1. {w \in QueueRuns : step[w][i] \in {"sending", "refused"}} = {}
  BY DEF Init
<1>2. {d \in DigestRuns : Carrying(i, d)} = {}
  BY DEF Init, Carrying
<1>3. RunsAt(i, {"sending", "refused"}) = 0 /\ Digests(i) = 0
  BY <1>1, <1>2, FS_EmptySet DEF RunsAt, Digests
<1> QED BY <1>3 DEF Init, One

\* The provider accepts a row once, and once more only for what repeats counts:
\* an acceptance whose answer was lost, a SENT that could not be recorded, a
\* retry written late, a digest that carried a row it had not claimed (deliver,
\* deliverDigest, retry).
THEOREM DuplicatesExplained == Spec => []NoUnexplainedDuplicate
<1>1. TypeOK /\ DuplicateInv => NoUnexplainedDuplicate
  <2> SUFFICES ASSUME TypeOK, DuplicateInv, NEW i \in Ids PROVE accepted[i] <= 1 + repeats[i]
    BY DEF NoUnexplainedDuplicate
  <2>1. One(status[i] \in Open) \in Nat
    BY DEF One
  <2> QED BY <2>1, RunsAtType, DigestsType DEF TypeOK, DuplicateInv
<1> QED BY <1>1, DuplicateStart, DuplicateInvStep, TypeCorrect, PTL DEF Spec

----------------------------------------------------------------------------
(* The provider's verdict.  Whoever has an acceptance in hand is going to   *)
(* write SENT over whatever the row says by then.  A row handed over once   *)
(* is in the hands of one run or digest, and does not read SENT before it   *)
(* has been recorded: none is left to write over DELIVERED.                 *)

Recorded(i) == status[i] \in {"SENT", "DELIVERED"}
Holding(i, d) == phase[d] = "accepted" /\ i \in group[d]
InOneHand(i) ==
  /\ \A w \in QueueRuns : step[w][i] = "accepted" =>
       /\ ~Recorded(i)
       /\ \A v \in QueueRuns : step[v][i] = "accepted" => v = w
       /\ \A d \in DigestRuns : ~Holding(i, d)
  /\ \A d \in DigestRuns : Holding(i, d) =>
       ~Recorded(i) /\ \A e \in DigestRuns : Holding(i, e) => e = d
HandInv == \A i \in Ids : accepted[i] <= 1 => InOneHand(i)

LEMMA HandInvStep == TypeOK /\ TypeOK' /\ AcceptedInv /\ HandInv /\ [Next]_vars => HandInv'
<1> SUFFICES ASSUME TypeOK, TypeOK', AcceptedInv, HandInv, [Next]_vars, NEW j \in Ids, accepted'[j] <= 1
             PROVE  InOneHand(j)'
  BY DEF HandInv
<1>0. accepted[j] \in Nat /\ accepted'[j] \in Nat
  BY DEF TypeOK
<1>1. ASSUME accepted'[j] >= accepted[j],
             \A w \in QueueRuns : step'[w][j] = "accepted" => step[w][j] = "accepted",
             \A d \in DigestRuns : Holding(j, d)' => Holding(j, d),
             \/ Recorded(j)' => Recorded(j)
             \/ (\A w \in QueueRuns : step'[w][j] # "accepted") /\ \A d \in DigestRuns : ~Holding(j, d)'
      PROVE  InOneHand(j)'
  <2>1. accepted[j] <= 1
    BY <1>0, <1>1
  <2> QED BY <1>1, <2>1 DEF HandInv, InOneHand
<1>2. accepted[j] = 0 => /\ ~Recorded(j) /\ \A w \in QueueRuns : step[w][j] # "accepted"
                         /\ \A d \in DigestRuns : ~Holding(j, d)
  BY DEF AcceptedInv, SentWasAccepted, Recorded, Holding
<1>3. ASSUME NEW w \in QueueRuns, NEW i \in Ids, ProviderAnswers(w, i) PROVE InOneHand(j)'
  <2>1. UNCHANGED <<status, phase, group>>
    BY <1>3 DEF ProviderAnswers, rows, digest
  <2>2. Recorded(j)' = Recorded(j) /\ \A d \in DigestRuns : Holding(j, d)' = Holding(j, d)
    BY <2>1 DEF Recorded, Holding
  <2>3. CASE j = i /\ Goto(w, i, "accepted") /\ accepted' = [accepted EXCEPT ![i] = @ + 1]
    <3>1. accepted[j] = 0
      BY <1>0, <2>3 DEF TypeOK
    <3>2. \A v \in QueueRuns : step'[v][j] = "accepted" => v = w
      BY <1>2, <2>3, <3>1 DEF TypeOK, Goto
    <3> QED BY <1>2, <2>2, <3>1, <3>2 DEF InOneHand
  <2>4. CASE ~(j = i /\ Goto(w, i, "accepted") /\ accepted' = [accepted EXCEPT ![i] = @ + 1])
    <3>1. accepted'[j] = accepted[j] /\ \A v \in QueueRuns : step'[v][j] = "accepted" => step[v][j] = "accepted"
      <4>1. PICK s \in {"accepted", "refused"} :
              /\ Goto(w, i, s)
              /\ accepted' = IF s = "accepted" THEN [accepted EXCEPT ![i] = @ + 1] ELSE accepted
        BY <1>3 DEF ProviderAnswers
      <4>2. s = "refused" \/ j # i
        BY <2>4, <4>1
      <4>3. accepted'[j] = accepted[j]
        BY <4>1, <4>2 DEF TypeOK
      <4>4. \A v \in QueueRuns : step'[v][j] = "accepted" => step[v][j] = "accepted"
        BY <4>1, <4>2 DEF TypeOK, Goto
      <4> QED BY <4>3, <4>4
    <3> QED BY <1>0, <1>1, <2>2, <3>1
  <2> QED BY <2>3, <2>4
<1>4. ASSUME NEW w \in QueueRuns, NEW i \in Ids,
             \/ Claim(w, i) \/ RecordSent(w, i) \/ RecordFailed(w, i) \/ ClaimAlert(w, i)
             \/ NotifyAdmins(w, i) \/ StatementFails(w, i)
      PROVE  InOneHand(j)'
  <2>1. PICK s \in Steps : Goto(w, i, s) /\ s # "accepted"
    BY <1>4 DEF Claim, RecordSent, RecordFailed, ClaimAlert, NotifyAdmins, StatementFails, Steps
  <2>2. UNCHANGED <<accepted, phase, group>>
    BY <1>4 DEF Claim, RecordSent, RecordFailed, ClaimAlert, NotifyAdmins, StatementFails, digest, history
  <2>3. \A v \in QueueRuns : step'[v][j] = "accepted" => step[v][j] = "accepted" /\ ~(v = w /\ j = i)
    BY <2>1 DEF TypeOK, Goto
  <2>4. \A d \in DigestRuns : Holding(j, d)' = Holding(j, d)
    BY <2>2 DEF Holding
  <2>5. CASE RecordSent(w, i) /\ j = i
    <3>1. step[w][j] = "accepted" /\ InOneHand(j)
      BY <2>2, <2>5 DEF RecordSent, HandInv
    <3>2. (\A v \in QueueRuns : step'[v][j] # "accepted") /\ \A d \in DigestRuns : ~Holding(j, d)'
      BY <2>3, <2>4, <2>5, <3>1 DEF InOneHand
    <3> QED BY <3>2 DEF InOneHand
  <2>6. CASE ~(RecordSent(w, i) /\ j = i)
    <3>1. Recorded(j)' => Recorded(j)
      BY <1>4, <2>6 DEF TypeOK, Claim, RecordSent, RecordFailed, ClaimAlert, NotifyAdmins, StatementFails, rows, Recorded
    <3> QED BY <1>0, <1>1, <2>2, <2>3, <2>4, <3>1
  <2> QED BY <2>5, <2>6
<1>5. ASSUME NEW w \in QueueRuns, SelectRows(w) \/ Crash(w) PROVE InOneHand(j)'
  <2>1. \A v \in QueueRuns : step'[v][j] = "accepted" => step[v][j] = "accepted"
    <3>1. CASE SelectRows(w)
      <4>1. PICK S : step' = [step EXCEPT ![w] = Put(@, S, "selected")]
        BY <3>1 DEF SelectRows
      <4> QED BY <4>1 DEF TypeOK, Put
    <3>2. CASE Crash(w)
      BY <3>2 DEF TypeOK, Crash
    <3> QED BY <1>5, <3>1, <3>2
  <2>2. UNCHANGED <<status, accepted, phase, group>>
    BY <1>5 DEF SelectRows, Crash, rows, digest, history
  <2> QED BY <1>0, <1>1, <2>1, <2>2 DEF Recorded, Holding
<1>6. ASSUME NEW d \in DigestRuns, DigestProviderAnswers(d) PROVE InOneHand(j)'
  <2>1. UNCHANGED <<status, step, group>> /\ (Recorded(j)' <=> Recorded(j))
    BY <1>6 DEF DigestProviderAnswers, rows, queue, Recorded
  <2>2. CASE j \in group[d] /\ phase' = [phase EXCEPT ![d] = "accepted"] /\ accepted' = Count(accepted, group[d])
    <3>1. accepted[j] = 0
      BY <1>0, <2>2 DEF TypeOK, Count
    <3>2. \A e \in DigestRuns : Holding(j, e)' => e = d
      BY <1>2, <2>1, <2>2, <3>1 DEF TypeOK, Holding
    <3> QED BY <1>2, <2>1, <3>1, <3>2 DEF InOneHand
  <2>3. CASE ~(j \in group[d] /\ phase' = [phase EXCEPT ![d] = "accepted"] /\ accepted' = Count(accepted, group[d]))
    <3>1. accepted'[j] = accepted[j]
      BY <1>6, <2>3 DEF DigestProviderAnswers, Count
    <3>2. \A e \in DigestRuns : Holding(j, e)' => Holding(j, e)
      BY <1>6, <2>1, <2>3 DEF TypeOK, DigestProviderAnswers, Holding
    <3> QED BY <1>0, <1>1, <2>1, <3>1, <3>2
  <2> QED BY <2>2, <2>3
<1>7. ASSUME NEW d \in DigestRuns,
             \/ SelectDigests(d) \/ ClaimDigest(d) \/ RecordDigestSent(d) \/ RecordDigestFailed(d)
             \/ EndDigestRun(d) \/ StopDigestRun(d) \/ DigestSentFails(d)
      PROVE  InOneHand(j)'
  <2>1. UNCHANGED <<step, accepted>>
    BY <1>7 DEF SelectDigests, ClaimDigest, RecordDigestSent, RecordDigestFailed, EndDigestRun,
         StopDigestRun, DigestSentFails, queue, history
  <2>2. \A e \in DigestRuns : phase'[e] = "accepted" => e # d /\ phase[e] = "accepted" /\ group'[e] = group[e]
    BY <1>7 DEF TypeOK, SelectDigests, ClaimDigest, RecordDigestSent, RecordDigestFailed,
         EndDigestRun, StopDigestRun, DigestSentFails, NextGroup
  <2>3. \A e \in DigestRuns : Holding(j, e)' => Holding(j, e) /\ e # d
    BY <2>2 DEF Holding
  <2>4. CASE RecordDigestSent(d) /\ j \in group[d]
    <3>1. Holding(j, d) /\ InOneHand(j)
      BY <2>1, <2>4 DEF RecordDigestSent, Holding, HandInv
    <3>2. (\A w \in QueueRuns : step'[w][j] # "accepted") /\ \A e \in DigestRuns : ~Holding(j, e)'
      BY <2>1, <2>3, <3>1 DEF InOneHand
    <3> QED BY <3>2 DEF InOneHand
  <2>5. CASE ~(RecordDigestSent(d) /\ j \in group[d])
    <3>1. Recorded(j)' => Recorded(j)
      BY <1>7, <2>5 DEF SelectDigests, ClaimDigest, RecordDigestSent, RecordDigestFailed, AfterRefusal,
           EndDigestRun, StopDigestRun, DigestSentFails, Put, rows, Recorded
    <3> QED BY <1>0, <1>1, <2>1, <2>3, <3>1
  <2> QED BY <2>4, <2>5
<1>8. ASSUME UNCHANGED <<step, phase, group, accepted>>, Recorded(j)' => Recorded(j) PROVE InOneHand(j)'
  BY <1>0, <1>1, <1>8 DEF Holding
<1>9. ASSUME NEW i \in Ids, Enqueue(i) \/ BecomesDue(i) PROVE InOneHand(j)'
  <2>1. Recorded(j)' => Recorded(j)
    BY <1>9 DEF TypeOK, Enqueue, InsertRow, NewStatuses, BecomesDue, Recorded
  <2> QED BY <1>8, <1>9, <2>1 DEF Enqueue, BecomesDue, queue, digest, history
<1>10. ASSUME NEW w \in QueueRuns, StartRun(w) PROVE InOneHand(j)'
  BY <1>8, <1>10 DEF StartRun, rows, digest, history, Recorded
<1>11. ASSUME NEW a \in Admins, AdminWrite(a) PROVE InOneHand(j)'
  <2>1. Recorded(j)' => Recorded(j)
    BY <1>11 DEF TypeOK, AdminWrite, CancelWrite, RetryWrite, ResendWrite, InsertRow, Recorded
  <2> QED BY <1>8, <1>11, <2>1 DEF AdminWrite, CancelWrite, RetryWrite, ResendWrite, queue, digest, history
<1>12. ASSUME NEW a \in Admins, NEW r \in Requests, ReadForRequest(a, r) PROVE InOneHand(j)'
  BY <1>8, <1>12 DEF ReadForRequest, rows, queue, digest, history, Recorded
<1>13. CASE RetryAll \/ RecordBounce
  BY <1>8, <1>13 DEF RetryAll, RecordBounce, Put, queue, digest, history, Recorded
<1>14. CASE RecordDelivered
  <2>1. Recorded(j)' => Recorded(j)
    BY <1>14 DEF RecordDelivered, HandedOver, Put, Recorded
  <2> QED BY <1>8, <1>14, <2>1 DEF RecordDelivered, queue, digest, history
<1>15. CASE PauseQueue \/ ResumeQueue \/ UNCHANGED vars
  BY <1>8, <1>15 DEF PauseQueue, ResumeQueue, vars, rows, queue, digest, history, Recorded
<1>16. ASSUME NEW w \in QueueRuns, NEW i \in Ids, AnswerIsLost(w, i) PROVE InOneHand(j)'
  <2>1. UNCHANGED <<status, phase, group>> /\ Goto(w, i, "refused")
    BY <1>16 DEF AnswerIsLost, rows, digest
  <2>2. accepted'[j] >= accepted[j]
    BY <1>16 DEF TypeOK, AnswerIsLost
  <2>3. \A v \in QueueRuns : step'[v][j] = "accepted" => step[v][j] = "accepted"
    BY <2>1 DEF TypeOK, Goto
  <2> QED BY <1>1, <2>1, <2>2, <2>3 DEF Recorded, Holding
<1>17. ASSUME NEW d \in DigestRuns, DigestAnswerIsLost(d) PROVE InOneHand(j)'
  <2>1. UNCHANGED <<status, step, group>> /\ phase' = [phase EXCEPT ![d] = "refused"]
    BY <1>17 DEF DigestAnswerIsLost, rows, queue
  <2>2. accepted'[j] >= accepted[j]
    BY <1>17 DEF TypeOK, DigestAnswerIsLost, Count
  <2>3. \A e \in DigestRuns : Holding(j, e)' => Holding(j, e)
    BY <2>1 DEF TypeOK, Holding
  <2> QED BY <1>1, <2>1, <2>2, <2>3 DEF Recorded
<1> QED
  BY <1>3, <1>4, <1>5, <1>6, <1>7, <1>9, <1>10, <1>11, <1>12, <1>13, <1>14, <1>15, <1>16, <1>17
  DEF Next, DeliverStep, DigestStep

\* Nothing takes back what has been counted in repeats.
LEMMA RepeatsStay == ASSUME TypeOK, [Next]_vars, NEW j \in Ids PROVE repeats'[j] \in Nat /\ repeats'[j] >= repeats[j]
<1>1. ASSUME NEW T, repeats' = Count(repeats, T) PROVE repeats'[j] \in Nat /\ repeats'[j] >= repeats[j]
  BY <1>1 DEF TypeOK, Count
<1>2. ASSUME UNCHANGED repeats PROVE repeats'[j] \in Nat /\ repeats'[j] >= repeats[j]
  BY <1>2 DEF TypeOK
<1>3. ASSUME NEW w \in QueueRuns, NEW i \in Ids, AnswerIsLost(w, i) \/ StatementFails(w, i)
      PROVE  repeats'[j] \in Nat /\ repeats'[j] >= repeats[j]
  BY <1>3 DEF TypeOK, AnswerIsLost, StatementFails
<1>4. ASSUME NEW d \in DigestRuns, ClaimDigest(d) \/ DigestAnswerIsLost(d) \/ DigestSentFails(d)
      PROVE  (\E T : repeats' = Count(repeats, T)) \/ UNCHANGED repeats
  <2>1. CASE ClaimDigest(d)
    BY <2>1, Zenon DEF ClaimDigest
  <2>2. CASE DigestAnswerIsLost(d) \/ DigestSentFails(d)
    BY <2>2 DEF DigestAnswerIsLost, DigestSentFails
  <2> QED BY <1>4, <2>1, <2>2
<1>5. ASSUME NEW a \in Admins, RetryWrite(a) PROVE \E T : repeats' = Count(repeats, T)
  BY <1>5, Zenon DEF RetryWrite
<1>6. ASSUME NEW i \in Ids, Enqueue(i) \/ BecomesDue(i) PROVE UNCHANGED repeats
  BY <1>6 DEF Enqueue, BecomesDue, history
<1>7. ASSUME NEW w \in QueueRuns, StartRun(w) \/ SelectRows(w) \/ Crash(w) \/ \E i \in Ids : DeliverStep(w, i)
      PROVE  UNCHANGED repeats
  BY <1>7 DEF StartRun, SelectRows, Crash, DeliverStep, Claim, ProviderAnswers, RecordSent, RecordFailed,
       ClaimAlert, NotifyAdmins, history
<1>8. ASSUME NEW d \in DigestRuns, (DigestStep(d) /\ ~ClaimDigest(d)) \/ StopDigestRun(d) PROVE UNCHANGED repeats
  BY <1>8 DEF DigestStep, SelectDigests, DigestProviderAnswers, RecordDigestSent, RecordDigestFailed,
       EndDigestRun, StopDigestRun, history
<1>9. ASSUME NEW a \in Admins, CancelWrite(a) \/ ResendWrite(a) \/ \E r \in Requests : ReadForRequest(a, r)
      PROVE  UNCHANGED repeats
  BY <1>9 DEF CancelWrite, ResendWrite, ReadForRequest, history
<1>10. ASSUME RetryAll \/ PauseQueue \/ ResumeQueue \/ RecordDelivered \/ RecordBounce \/ UNCHANGED vars
       PROVE  UNCHANGED repeats
  BY <1>10 DEF RetryAll, PauseQueue, ResumeQueue, RecordDelivered, RecordBounce, vars, history
<1> QED BY <1>1, <1>2, <1>3, <1>4, <1>5, <1>6, <1>7, <1>8, <1>9, <1>10 DEF Next, AdminWrite

\* A row that reads DELIVERED, sent once, has no run or digest between its
\* claim and the record of its outcome.
LEMMA NobodySends ==
  ASSUME TypeOK, AcceptedInv, DuplicateInv, HandInv, NEW i \in Ids, status[i] = "DELIVERED", repeats[i] = 0
  PROVE  /\ \A w \in QueueRuns : step[w][i] \notin InFlight
         /\ \A d \in DigestRuns : i \in group[d] => phase[d] \notin InFlight
<1> DEFINE P == {"sending", "refused"}
<1>1. accepted[i] \in Nat /\ accepted[i] > 0 /\ RunsAt(i, P) \in Nat /\ Digests(i) \in Nat
  BY RunsAtType, DigestsType DEF TypeOK, AcceptedInv, SentWasAccepted
<1>2. One(status[i] \in Open) = 0
  BY DEF One, Open, Absent
<1>3. accepted[i] + RunsAt(i, P) + Digests(i) <= 1
  BY <1>1, <1>2 DEF DuplicateInv
<1>4. accepted[i] = 1 /\ RunsAt(i, P) = 0 /\ Digests(i) = 0
  BY <1>1, <1>3
<1>5. {w \in QueueRuns : step[w][i] \in P} = {} /\ {d \in DigestRuns : Carrying(i, d)} = {}
  <2>1. IsFiniteSet({w \in QueueRuns : step[w][i] \in P}) /\ IsFiniteSet({d \in DigestRuns : Carrying(i, d)})
    BY FS_Subset, ConstantsAssumption
  <2> QED BY <1>4, <2>1, FS_EmptySet DEF RunsAt, Digests
<1>6. (\A w \in QueueRuns : step[w][i] # "accepted") /\ \A d \in DigestRuns : ~Holding(i, d)
  BY <1>4 DEF HandInv, InOneHand, Recorded
<1> QED BY <1>5, <1>6 DEF Carrying, Holding, InFlight

LEMMA DeliveredStep ==
  ASSUME TypeOK, AcceptedInv, DuplicateInv, HandInv, [Next]_vars, NEW j \in Ids, status[j] = "DELIVERED",
         repeats'[j] = 0, \A a \in Admins : admin[a] # [op |-> "cancel", id |-> j]
  PROVE  status'[j] \in {"DELIVERED", "BOUNCED", "COMPLAINED"}
<1>1. repeats[j] = 0
  BY RepeatsStay DEF TypeOK
<1>2. /\ \A w \in QueueRuns : step[w][j] \notin {"sending", "accepted", "refused"}
      /\ \A d \in DigestRuns : j \in group[d] => phase[d] \notin {"sending", "accepted", "refused"}
  BY <1>1, NobodySends DEF InFlight
<1>3. ASSUME NEW w \in QueueRuns, NEW i \in Ids, DeliverStep(w, i) \/ AnswerIsLost(w, i) \/ StatementFails(w, i)
      PROVE  status'[j] = "DELIVERED"
  BY <1>2, <1>3 DEF TypeOK, DeliverStep, Claim, Claimable, ProviderAnswers, RecordSent, RecordFailed, ClaimAlert,
       NotifyAdmins, AnswerIsLost, StatementFails, rows
<1>4. ASSUME NEW d \in DigestRuns,
             DigestStep(d) \/ StopDigestRun(d) \/ DigestAnswerIsLost(d) \/ DigestSentFails(d)
      PROVE  status'[j] = "DELIVERED"
  <2>1. CASE ClaimDigest(d)
    <3>1. PICK g : status' = Put(status, StillPending(g), "SENDING")
      BY <2>1, Zenon DEF ClaimDigest
    <3> QED BY <3>1 DEF StillPending, Put
  <2>2. CASE RecordDigestSent(d) \/ RecordDigestFailed(d)
    BY <1>2, <2>2 DEF RecordDigestSent, RecordDigestFailed, Put
  <2>3. CASE \/ SelectDigests(d) \/ DigestProviderAnswers(d) \/ EndDigestRun(d) \/ StopDigestRun(d)
             \/ DigestAnswerIsLost(d) \/ DigestSentFails(d)
    BY <2>3 DEF SelectDigests, DigestProviderAnswers, EndDigestRun, StopDigestRun, DigestAnswerIsLost,
         DigestSentFails, rows
  <2> QED BY <1>4, <2>1, <2>2, <2>3 DEF DigestStep
<1>5. ASSUME NEW a \in Admins, CancelWrite(a) PROVE status'[j] = "DELIVERED"
  <2>1. admin[a] \in Requests /\ admin[a].op = "cancel"
    <3>1. NoRequest.op # "cancel" /\ admin[a].op = "cancel"
      BY <1>5 DEF NoRequest, CancelWrite
    <3> QED BY <3>1 DEF TypeOK
  <2>2. admin[a] = [op |-> "cancel", id |-> admin[a].id]
    BY <2>1 DEF Requests
  <2>3. admin[a].id # j
    BY <2>2
  <2> QED BY <1>5, <2>3 DEF TypeOK, CancelWrite
<1>6. ASSUME NEW a \in Admins, RetryWrite(a) PROVE status'[j] = "DELIVERED"
  <2>1. /\ repeats' = Count(repeats, {admin[a].id} \ {k \in Ids : status[k] = "FAILED"})
        /\ status' = [status EXCEPT ![admin[a].id] = "QUEUED"]
    BY <1>6 DEF RetryWrite
  <2>2. j # admin[a].id
    <3>1. j = admin[a].id => repeats'[j] = repeats[j] + 1
      BY <2>1 DEF Count
    <3> QED BY <1>1, <3>1
  <2> QED BY <2>1, <2>2 DEF TypeOK
<1>7. ASSUME NEW a \in Admins, ResendWrite(a) PROVE status'[j] = "DELIVERED"
  BY <1>7 DEF TypeOK, ResendWrite, InsertRow, Absent
<1>8. ASSUME NEW i \in Ids, Enqueue(i) \/ BecomesDue(i) PROVE status'[j] = "DELIVERED"
  BY <1>8 DEF TypeOK, Enqueue, InsertRow, BecomesDue, Absent
<1>9. CASE RetryAll \/ RecordDelivered \/ RecordBounce
  BY <1>9 DEF RetryAll, RecordDelivered, RecordBounce, Put, Failed
<1>10. ASSUME NEW w \in QueueRuns, StartRun(w) \/ SelectRows(w) \/ Crash(w) PROVE status'[j] = "DELIVERED"
  BY <1>10 DEF StartRun, SelectRows, Crash, rows
<1>11. CASE PauseQueue \/ ResumeQueue \/ UNCHANGED vars \/ \E a \in Admins, r \in Requests : ReadForRequest(a, r)
  BY <1>11 DEF PauseQueue, ResumeQueue, ReadForRequest, vars, rows
<1> QED BY <1>3, <1>4, <1>5, <1>6, <1>7, <1>8, <1>9, <1>10, <1>11 DEF Next, AdminWrite

\* The service does not undo the provider's verdict: a mail that was sent once and
\* is reported delivered is moved only by a later event, or by a cancel that had
\* read the row before (deliver, deliverDigest, recordProviderEvent, cancel).
THEOREM VerdictIsKept == Spec => DeliveredIsKept
<1>1. Init => AcceptedInv /\ HandInv
  BY DEF Init, AcceptedInv, SentWasAccepted, HandInv, InOneHand, Holding, Absent
<1>2. [](TypeOK /\ AcceptedInv /\ DuplicateInv /\ HandInv) /\ [][Next]_vars => DeliveredIsKept
  <2>1. TypeOK /\ AcceptedInv /\ DuplicateInv /\ HandInv /\ [Next]_vars =>
          [\A i \in Ids :
             /\ status[i] = "DELIVERED" /\ repeats'[i] = 0
             /\ \A a \in Admins : admin[a] # [op |-> "cancel", id |-> i]
             => status'[i] \in {"DELIVERED", "BOUNCED", "COMPLAINED"}]_vars
    BY DeliveredStep
  <2> QED BY <2>1, PTL DEF DeliveredIsKept
<1> QED BY <1>1, <1>2, DuplicateStart, DuplicateInvStep, AcceptedInvStep, HandInvStep, TypeCorrect, PTL DEF Spec

==============================================================================
