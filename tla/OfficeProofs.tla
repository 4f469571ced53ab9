---------------------------- MODULE OfficeProofs ----------------------------
(***************************************************************************)
(* Proofs about dual approval, privacy requests, billing events and the    *)
(* invoices of a quote, for any numbers of requests, people, exports,      *)
(* events and versions; and that what TLC runs as the office is a run of   *)
(* each of its modules, so that a theorem about one of them holds there.   *)
(***************************************************************************)
EXTENDS MCOffice, RecordsProofs, FiniteSetTheorems, SequenceTheorems, TLAPS

\* The numbers of requests at a step.
LEMMA RequestSets ==
  ASSUME NEW S \in SUBSET Requests, NEW r \in Requests
  PROVE  /\ Cardinality(S) \in Nat
         /\ r \notin S => Cardinality(S \cup {r}) = Cardinality(S) + 1
         /\ r \in S => Cardinality(S \ {r}) = Cardinality(S) - 1
BY PeopleAssumption, FS_Subset, FS_CardinalityType, FS_AddElement, FS_RemoveElement

----------------------------------------------------------------------------
(* Dual approval.  Whoever is about to write an approval is not the one who *)
(* asked, a second approval follows one by somebody else, and what is about *)
(* to start has both.                                                       *)

TwoApproved == \E a, b \in approvedBy : a # b

Reviewed(r) ==
  /\ review[r].at \in {"reject", "first", "second"} =>
       /\ approval.status # "absent" /\ review[r].by \in Admins /\ review[r].by # approval.requestedBy
  /\ review[r].at = "second" => \E a \in approvedBy : a # review[r].by
  /\ review[r].at \in {"start", "execute"} => approval.status # "absent" /\ TwoApproved

TwoInv ==
  /\ approval.requestedBy = NoAdmin <=> approval.status = "absent"
  /\ approval.requestedBy \notin approvedBy
  /\ approval.first # NoAdmin => approval.first \in approvedBy
  /\ approval.status = "absent" => approvedBy = {} /\ approval.first = NoAdmin
  /\ approval.status = "APPROVED" => TwoApproved
  /\ \A r \in Requests : Reviewed(r)

\* An impersonation belongs to a start that stopped, one that is about to mark
\* the row, or the mark; a request that read the row as it is knows its status.
Executing == {r \in Requests : review[r].at = "execute"}
Executed == IF approval.status = "EXECUTED" THEN 1 ELSE 0
KnowsApproval(r) ==
  review[r].fresh =>
    /\ review[r].at \in {"reject", "first", "second"} => approval.status \in {"PENDING", "FIRST_APPROVED"}
    /\ review[r].at \in {"start", "execute"} => approval.status = "APPROVED"

OnceInv ==
  ~dualOutdated =>
    /\ impersonations <= halfStarted + Cardinality(Executing) + Executed
    /\ \A r \in Requests : KnowsApproval(r)

DualInv == DualTypeOK /\ TwoInv /\ OnceInv

ReviewRows == [at : ReviewSteps, by : Admins \cup {NoAdmin}, fresh : BOOLEAN]

LEMMA DualInitial == DualInit => DualInv
<1> SUFFICES ASSUME DualInit PROVE DualInv
  OBVIOUS
<1>1. DualTypeOK
  <2>1. 0 \in 0 .. MaxStarts /\ 0 \in 0 .. MaxDualFaults
    BY DualAssumption
  <2>2. approval \in ApprovalRows
    BY DEF DualInit, ApprovalRows
  <2>3. review \in [Requests -> ReviewRows]
    BY DEF DualInit, NoReview, ReviewSteps, ReviewRows
  <2> QED BY <2>1, <2>2, <2>3 DEF DualInit, DualTypeOK, ReviewRows
<1>2. TwoInv
  BY DEF DualInit, TwoInv, Reviewed, NoReview
<1>3. OnceInv
  <2>1. Executing = {}
    BY DEF DualInit, Executing, NoReview
  <2> QED BY <2>1, FS_EmptySet DEF DualInit, OnceInv, KnowsApproval, NoReview, Executed
<1> QED BY <1>1, <1>2, <1>3 DEF DualInv

LEMMA DualRequest == ASSUME DualInv, NEW a \in Admins, RequestDualApproval(a) PROVE DualInv'
<1>1. DualTypeOK'
  BY DEF RequestDualApproval, DualInv, DualTypeOK, ApprovalRows
<1>2. TwoInv'
  BY PeopleAssumption DEF RequestDualApproval, DualInv, DualTypeOK, ApprovalRows, TwoInv, Reviewed, TwoApproved
<1>3. OnceInv'
  <2>1. Executing' = Executing /\ Executed' = 0 /\ Executed = 0
    BY DEF RequestDualApproval, DualInv, DualTypeOK, ApprovalRows, Executing, Executed
  <2> QED BY <2>1 DEF RequestDualApproval, DualInv, OnceInv, KnowsApproval, TwoInv, Reviewed
<1> QED BY <1>1, <1>2, <1>3 DEF DualInv

LEMMA DualExpires == ASSUME DualInv, ApprovalExpires PROVE DualInv'
<1>1. DualTypeOK'
  BY DEF ApprovalExpires, DualInv, DualTypeOK, ApprovalRows
<1>2. /\ approval'.status = approval.status /\ approval'.requestedBy = approval.requestedBy
      /\ approval'.first = approval.first
  BY DEF ApprovalExpires, DualInv, DualTypeOK, ApprovalRows
<1>3. TwoInv'
  BY <1>2 DEF ApprovalExpires, DualInv, TwoInv, Reviewed, TwoApproved
<1>4. OnceInv'
  BY <1>2 DEF ApprovalExpires, DualInv, OnceInv, KnowsApproval, Executing, Executed
<1> QED BY <1>1, <1>3, <1>4 DEF DualInv

\* A request reads the row: only its own record changes.
LEMMA DualBegin ==
  ASSUME DualInv, NEW r \in Requests, NEW row \in ReviewRows, review[r].at = "idle",
         review' = [review EXCEPT ![r] = row], row.at # "execute",
         UNCHANGED <<approval, approvedBy, impersonations, halfStarted, dualOutdated>>,
         Reviewed(r)', KnowsApproval(r)'
  PROVE  DualInv'
<1>1. DualTypeOK'
  BY DEF DualInv, DualTypeOK, ReviewRows
<1>2. \A q \in Requests : q # r => review'[q] = review[q]
  BY DEF DualInv, DualTypeOK
<1>3. TwoInv'
  BY <1>2 DEF DualInv, TwoInv, Reviewed, TwoApproved
<1>4. Executing' = Executing
  BY <1>2 DEF DualInv, DualTypeOK, Executing
<1>5. OnceInv'
  BY <1>2, <1>4 DEF DualInv, OnceInv, KnowsApproval, Executed
<1> QED BY <1>1, <1>3, <1>5 DEF DualInv

LEMMA DualBeginReview == ASSUME DualInv, NEW r \in Requests, NEW a \in Admins, BeginReview(r, a) PROVE DualInv'
<1>1. PICK decision \in {"reject"} \cup Approval(a) :
        review' = [review EXCEPT ![r] = [at |-> decision, by |-> a, fresh |-> TRUE]]
  BY DEF BeginReview
<1>2. decision \in {"reject", "first", "second"} /\ (decision = "second" => approval.first \notin {NoAdmin, a})
  BY DEF Approval
<1>3. [at |-> decision, by |-> a, fresh |-> TRUE] \in ReviewRows
  BY <1>2 DEF ReviewRows, ReviewSteps
<1>4. review'[r] = [at |-> decision, by |-> a, fresh |-> TRUE]
  BY <1>1 DEF DualInv, DualTypeOK
<1>5. Reviewed(r)'
  BY <1>2, <1>4 DEF BeginReview, MayReview, DualInv, TwoInv, Reviewed
<1>6. KnowsApproval(r)'
  BY <1>2, <1>4 DEF BeginReview, MayReview, KnowsApproval
<1> QED BY <1>1, <1>2, <1>3, <1>5, <1>6, DualBegin DEF BeginReview

LEMMA DualBeginImpersonation ==
  ASSUME DualInv, NEW r \in Requests, NEW a \in Admins, BeginImpersonation(r, a)
  PROVE  DualInv'
<1> DEFINE row == [at |-> "start", by |-> a, fresh |-> TRUE]
<1>1. row \in ReviewRows /\ row.at = "start"
  BY DEF ReviewRows, ReviewSteps
<1>2. review'[r] = row
  BY DEF BeginImpersonation, DualInv, DualTypeOK
<1>3. Reviewed(r)' /\ KnowsApproval(r)'
  BY <1>1, <1>2 DEF BeginImpersonation, DualInv, TwoInv, Reviewed, KnowsApproval, TwoApproved
<1> QED BY <1>1, <1>3, DualBegin DEF BeginImpersonation

\* After a write the requests are where they were, and know that it happened.
LEMMA DualWritten ==
  ASSUME DualTypeOK, NEW r \in Requests, NEW row, WriteApproval(r, row)
  PROVE  /\ approval' = row /\ dualOutdated' \in BOOLEAN
         /\ review' \in [Requests -> ReviewRows] /\ review'[r] = NoReview
         /\ \A q \in Requests : q # r =>
              /\ review'[q].at = review[q].at /\ review'[q].by = review[q].by
              /\ review'[q].fresh => review[q].at = "idle"
         /\ ~dualOutdated' => ~dualOutdated /\ review[r].fresh
<1>1. NoReview \in ReviewRows
  BY DEF NoReview, ReviewSteps, ReviewRows
<1>2. \A q \in Requests : Outdated(review)[q] \in ReviewRows
  BY DEF DualTypeOK, Outdated, ReviewRows
<1> QED BY <1>1, <1>2 DEF WriteApproval, Overwritten, Outdated, DualTypeOK, ReviewRows

\* A review is written.
LEMMA DualWrites ==
  ASSUME DualInv, NEW r \in Requests, NEW row \in ApprovalRows, WriteApproval(r, row),
         review[r].at \in {"reject", "first", "second"}, row.requestedBy = approval.requestedBy,
         row.status \in {"REJECTED", "FIRST_APPROVED", "APPROVED"},
         approvedBy' \in {approvedBy, approvedBy \cup {review[r].by}},
         row.first # NoAdmin => row.first \in approvedBy', row.status = "APPROVED" => TwoApproved',
         UNCHANGED <<impersonations, halfStarted>>
  PROVE  DualInv'
<1>1. DualTypeOK
  BY DEF DualInv
<1>2. approval' = row
  BY <1>1, DualWritten
<1>3. Reviewed(r)
  BY DEF DualInv, TwoInv
<1>4. DualTypeOK'
  BY <1>1, <1>2, <1>3, DualWritten DEF DualTypeOK, Reviewed, ReviewRows
<1>5. TwoInv'
  <2>1. \A q \in Requests : Reviewed(q)'
    <3>1. Reviewed(r)'
      BY <1>1, DualWritten DEF Reviewed, NoReview
    <3>2. ASSUME NEW q \in Requests, q # r PROVE Reviewed(q)'
      <4>1. review'[q].at = review[q].at /\ review'[q].by = review[q].by /\ Reviewed(q)
        BY <1>1, <3>2, DualWritten DEF DualInv, TwoInv
      <4>2. approvedBy \subseteq approvedBy'
        OBVIOUS
      <4> QED BY <1>2, <4>1, <4>2 DEF Reviewed, TwoApproved
    <3> QED BY <3>1, <3>2
  <2> QED BY <1>2, <1>3, <2>1 DEF DualInv, TwoInv, Reviewed
<1>6. OnceInv'
  <2> SUFFICES ASSUME ~dualOutdated' PROVE OnceInv'
    BY DEF OnceInv
  <2>1. ~dualOutdated /\ review[r].fresh
    BY <1>1, DualWritten
  <2>2. Executing' = Executing
    BY <1>1, DualWritten DEF Executing, NoReview
  <2>3. Executed = 0 /\ Executed' = 0
    BY <1>2, <2>1 DEF Executed, DualInv, OnceInv, KnowsApproval
  <2>4. \A q \in Requests : KnowsApproval(q)'
    BY <1>1, DualWritten DEF KnowsApproval, NoReview
  <2> QED BY <2>1, <2>2, <2>3, <2>4 DEF OnceInv, DualInv
<1> QED BY <1>4, <1>5, <1>6 DEF DualInv

LEMMA DualReject == ASSUME DualInv, NEW r \in Requests, Reject(r) PROVE DualInv'
<1> DEFINE row == [approval EXCEPT !.status = "REJECTED"]
<1>1. row \in ApprovalRows /\ row.status = "REJECTED" /\ row.requestedBy = approval.requestedBy /\ row.first = approval.first
  BY DEF DualInv, DualTypeOK, ApprovalRows, Resolved
<1>2. WriteApproval(r, row) /\ UNCHANGED <<approvedBy, impersonations, halfStarted>> /\ review[r].at = "reject"
  BY DEF Reject
<1> HIDE DEF row
<1> QED BY <1>1, <1>2, DualWrites DEF DualInv, TwoInv

LEMMA DualApproveFirst == ASSUME DualInv, NEW r \in Requests, ApproveFirst(r) PROVE DualInv'
<1> DEFINE row == [approval EXCEPT !.status = "FIRST_APPROVED", !.first = review[r].by]
<1>1. /\ row \in ApprovalRows /\ row.status = "FIRST_APPROVED"
      /\ row.requestedBy = approval.requestedBy /\ row.first = review[r].by
  BY DEF DualInv, DualTypeOK, ApprovalRows
<1>2. /\ WriteApproval(r, row) /\ UNCHANGED <<impersonations, halfStarted>> /\ review[r].at = "first"
      /\ approvedBy' = approvedBy \cup {review[r].by}
  BY DEF ApproveFirst
<1> HIDE DEF row
<1> QED BY <1>1, <1>2, DualWrites

LEMMA DualApproveSecond == ASSUME DualInv, NEW r \in Requests, ApproveSecond(r) PROVE DualInv'
<1> DEFINE row == [approval EXCEPT !.status = "APPROVED"]
<1>1. row \in ApprovalRows /\ row.status = "APPROVED" /\ row.requestedBy = approval.requestedBy /\ row.first = approval.first
  BY DEF DualInv, DualTypeOK, ApprovalRows, Resolved
<1>2. /\ WriteApproval(r, row) /\ UNCHANGED <<impersonations, halfStarted>> /\ review[r].at = "second"
      /\ approvedBy' = approvedBy \cup {review[r].by}
  BY DEF ApproveSecond
<1>3. TwoApproved'
  BY <1>2 DEF TwoApproved, DualInv, TwoInv, Reviewed
<1> HIDE DEF row
<1> QED BY <1>1, <1>2, <1>3, DualWrites DEF DualInv, TwoInv

LEMMA DualInsert == ASSUME DualInv, NEW r \in Requests, InsertImpersonation(r) PROVE DualInv'
<1>1. DualTypeOK'
  BY DualAssumption DEF InsertImpersonation, DualInv, DualTypeOK, ReviewSteps
<1>2. TwoInv'
  BY DEF InsertImpersonation, DualInv, DualTypeOK, TwoInv, Reviewed, TwoApproved
<1>3. OnceInv'
  <2>1. Executing' = Executing \cup {r} /\ r \notin Executing /\ Executing \in SUBSET Requests
    BY DEF InsertImpersonation, DualInv, DualTypeOK, Executing
  <2>2. Cardinality(Executing') = Cardinality(Executing) + 1 /\ Cardinality(Executing) \in Nat
    BY <2>1, RequestSets
  <2>3. Executed' = Executed /\ Executed \in Nat
    BY DEF InsertImpersonation, Executed
  <2>4. halfStarted \in Nat /\ impersonations \in Nat
    BY DualAssumption DEF DualInv, DualTypeOK
  <2>5. ~dualOutdated => impersonations' <= halfStarted + Cardinality(Executing') + Executed
    BY <2>2, <2>3, <2>4 DEF InsertImpersonation, DualInv, OnceInv
  <2>6. \A q \in Requests : KnowsApproval(q) => KnowsApproval(q)'
    BY DEF InsertImpersonation, DualInv, DualTypeOK, KnowsApproval
  <2> QED BY <2>3, <2>5, <2>6 DEF InsertImpersonation, DualInv, OnceInv
<1> QED BY <1>1, <1>2, <1>3 DEF DualInv

LEMMA DualMarkExecuted == ASSUME DualInv, NEW r \in Requests, MarkExecuted(r) PROVE DualInv'
<1> DEFINE row == [approval EXCEPT !.status = "EXECUTED"]
<1>1. row \in ApprovalRows /\ row.status = "EXECUTED" /\ row.requestedBy = approval.requestedBy /\ row.first = approval.first
  BY DEF DualInv, DualTypeOK, ApprovalRows, Resolved
<1>2. WriteApproval(r, row) /\ UNCHANGED <<approvedBy, impersonations, halfStarted>> /\ review[r].at = "execute"
  BY DEF MarkExecuted, MarkedExecuted
<1> HIDE DEF row
<1>3. DualTypeOK
  BY DEF DualInv
<1>4. approval' = row
  BY <1>2, <1>3, DualWritten
<1>5. DualTypeOK'
  BY <1>1, <1>2, <1>3, <1>4, DualWritten DEF DualTypeOK, ReviewRows
<1>6. TwoInv'
  <2>1. ASSUME NEW q \in Requests PROVE Reviewed(q)'
    <3>1. CASE q = r
      BY <1>2, <1>3, <3>1, DualWritten DEF Reviewed, NoReview
    <3>2. CASE q # r
      <4>1. review'[q].at = review[q].at /\ review'[q].by = review[q].by /\ Reviewed(q)
        BY <1>2, <1>3, <3>2, DualWritten DEF DualInv, TwoInv
      <4> QED BY <1>1, <1>2, <1>4, <4>1 DEF Reviewed, TwoApproved
    <3> QED BY <3>1, <3>2
  <2>2. approval.status # "absent"
    BY <1>2 DEF DualInv, TwoInv, Reviewed
  <2> QED BY <1>1, <1>2, <1>4, <2>1, <2>2 DEF DualInv, TwoInv
<1>7. OnceInv'
  <2> SUFFICES ASSUME ~dualOutdated' PROVE OnceInv'
    BY DEF OnceInv
  <2>1. ~dualOutdated /\ review[r].fresh
    BY <1>2, <1>3, DualWritten
  <2>2. Executing' = Executing \ {r} /\ r \in Executing /\ Executing \in SUBSET Requests
    BY <1>2, <1>3, DualWritten DEF Executing, NoReview
  <2>3. Cardinality(Executing') = Cardinality(Executing) - 1 /\ Cardinality(Executing) \in Nat
    BY <2>2, RequestSets
  <2>4. Executed = 0 /\ Executed' = 1
    BY <1>1, <1>2, <1>4, <2>1 DEF Executed, DualInv, OnceInv, KnowsApproval
  <2>5. halfStarted \in Nat /\ impersonations \in Nat
    BY DualAssumption DEF DualInv, DualTypeOK
  <2>6. impersonations' <= halfStarted' + Cardinality(Executing') + Executed'
    BY <1>2, <2>1, <2>3, <2>4, <2>5 DEF DualInv, OnceInv
  <2>7. \A q \in Requests : KnowsApproval(q)'
    BY <1>2, <1>3, DualWritten DEF KnowsApproval, NoReview
  <2> QED BY <2>6, <2>7 DEF OnceInv
<1> QED BY <1>5, <1>6, <1>7 DEF DualInv

LEMMA DualStopHalfStarted == ASSUME DualInv, NEW r \in Requests, StopHalfStarted(r) PROVE DualInv'
<1>1. DualTypeOK'
  BY DualAssumption DEF StopHalfStarted, NoReview, DualInv, DualTypeOK, ReviewSteps
<1>2. TwoInv'
  BY DEF StopHalfStarted, NoReview, DualInv, DualTypeOK, TwoInv, Reviewed, TwoApproved
<1>3. OnceInv'
  <2>1. Executing' = Executing \ {r} /\ r \in Executing /\ Executing \in SUBSET Requests
    BY DEF StopHalfStarted, NoReview, DualInv, DualTypeOK, Executing
  <2>2. Cardinality(Executing') = Cardinality(Executing) - 1 /\ Cardinality(Executing) \in Nat
    BY <2>1, RequestSets
  <2>3. Executed' = Executed /\ Executed \in Nat
    BY DEF StopHalfStarted, Executed
  <2>4. halfStarted \in Nat /\ impersonations \in Nat
    BY DualAssumption DEF DualInv, DualTypeOK
  <2>5. ~dualOutdated => impersonations' <= halfStarted' + Cardinality(Executing') + Executed
    BY <2>2, <2>3, <2>4 DEF StopHalfStarted, DualInv, OnceInv
  <2>6. \A q \in Requests : KnowsApproval(q) => KnowsApproval(q)'
    BY DEF StopHalfStarted, NoReview, DualInv, DualTypeOK, KnowsApproval
  <2> QED BY <2>3, <2>5, <2>6 DEF StopHalfStarted, DualInv, OnceInv
<1> QED BY <1>1, <1>2, <1>3 DEF DualInv

LEMMA DualInductive == DualInv /\ [DualNext]_dualVars => DualInv'
<1> SUFFICES ASSUME DualInv, [DualNext]_dualVars PROVE DualInv'
  OBVIOUS
<1>1. CASE UNCHANGED dualVars
  BY <1>1 DEF dualVars, DualInv, DualTypeOK, TwoInv, Reviewed, TwoApproved, OnceInv, KnowsApproval, Executing, Executed
<1>2. CASE DualNext
  BY <1>2, DualExpires, DualRequest, DualBeginReview, DualBeginImpersonation, DualReject, DualApproveFirst,
     DualApproveSecond, DualInsert, DualMarkExecuted, DualStopHalfStarted DEF DualNext
<1> QED BY <1>1, <1>2

\* One approval serves for one impersonation, for any number of requests, unless
\* a start stopped half way or a changed row was overwritten.
THEOREM ApprovalIsUsedOnce == DualSpec => []ApprovalUsedOnce
<1>1. DualInv => ApprovalUsedOnce
  <2> SUFFICES ASSUME DualInv, ~dualOutdated, AtRest(review) PROVE impersonations <= 1 + halfStarted
    BY DEF ApprovalUsedOnce
  <2>1. Executing = {}
    BY DEF AtRest, Executing
  <2>2. impersonations \in Nat /\ halfStarted \in Nat /\ Executed \in {0, 1}
    BY DualAssumption DEF DualInv, DualTypeOK, Executed
  <2> QED BY <2>1, <2>2, FS_EmptySet DEF DualInv, OnceInv
<1> QED BY <1>1, DualInitial, DualInductive, PTL DEF DualSpec

\* Every step of the rows and requests is a step of the rule of two people, or
\* none: whoever approves is not the one who asked, and two did before a start.
THEOREM TwoPeopleHaveApproved == DualSpec => TwoPeopleApproved
<1>1. DualInit => Rule!Init
  BY DEF DualInit, Rule!Init
<1>2. DualInv /\ [DualNext]_dualVars => [Rule!Next]_<<approval.requestedBy, approvedBy, impersonations>>
  <2> SUFFICES ASSUME DualInv, [DualNext]_dualVars
               PROVE  Rule!Next \/ UNCHANGED <<approval.requestedBy, approvedBy, impersonations>>
    OBVIOUS
  <2> DEFINE Same == UNCHANGED <<approval.requestedBy, approvedBy, impersonations>>
  <2>1. CASE UNCHANGED dualVars
    BY <2>1 DEF dualVars
  <2>2. CASE ApprovalExpires
    BY <2>2 DEF ApprovalExpires, DualInv, DualTypeOK, ApprovalRows
  <2>3. ASSUME NEW a \in Admins, RequestDualApproval(a) PROVE Rule!Next
    <3>1. approval.requestedBy = NoAdmin /\ approval'.requestedBy = a
      BY <2>3 DEF RequestDualApproval, DualInv, TwoInv, DualTypeOK, ApprovalRows
    <3> QED BY <2>3, <3>1 DEF RequestDualApproval, Rule!Next, Rule!Ask
  <2>4. ASSUME NEW r \in Requests, NEW a \in Admins, BeginReview(r, a) \/ BeginImpersonation(r, a) PROVE Same
    BY <2>4 DEF BeginReview, BeginImpersonation
  <2>5. ASSUME NEW r \in Requests, Reject(r) \/ MarkExecuted(r) \/ StopHalfStarted(r) PROVE Same
    BY <2>5 DEF Reject, MarkExecuted, MarkedExecuted, StopHalfStarted, WriteApproval, DualInv, DualTypeOK, ApprovalRows
  <2>6. ASSUME NEW r \in Requests, ApproveFirst(r) \/ ApproveSecond(r) PROVE Rule!Next
    <3>1. /\ review[r].by \in Admins /\ review[r].by # approval.requestedBy
          /\ approval.requestedBy # NoAdmin
      BY <2>6 DEF ApproveFirst, ApproveSecond, DualInv, TwoInv, Reviewed
    <3>2. approval'.requestedBy = approval.requestedBy
      BY <2>6 DEF ApproveFirst, ApproveSecond, WriteApproval, DualInv, DualTypeOK, ApprovalRows
    <3> QED BY <2>6, <3>1, <3>2 DEF ApproveFirst, ApproveSecond, Rule!Next, Rule!Approve
  <2>7. ASSUME NEW r \in Requests, InsertImpersonation(r) PROVE Rule!Next
    BY <2>7 DEF InsertImpersonation, DualInv, TwoInv, Reviewed, TwoApproved, Rule!Next, Rule!Use
  <2> QED BY <2>1, <2>2, <2>3, <2>4, <2>5, <2>6, <2>7 DEF DualNext
<1> QED BY <1>1, <1>2, DualInitial, DualInductive, PTL DEF DualSpec, TwoPeopleApproved, Rule!Spec

----------------------------------------------------------------------------
(* Privacy requests.  What an update checked before it completes a request  *)
(* stays true of the row: flags that are set are never taken back, and a    *)
(* hold that is placed meanwhile makes the update outdated.                 *)

Justified(r) ==
  LET h == handling[r] IN
  /\ h.at \in {"update", "make"} => privacy.status # "absent" /\ h.dto.status # "absent"
  /\ h.at = "update" /\ h.completes =>
       /\ privacy.identity \/ h.dto.identity
       /\ privacy.type = "DELETION" =>
            /\ privacy.approved \/ h.dto.approved
            /\ h.dto.hold # "yes" /\ (h.fresh => ~privacy.hold)
  /\ h.at = "make" =>
       /\ privacy.identity
       /\ privacy.type = "DELETION" => privacy.approved /\ (h.fresh => ~privacy.hold)

PrivacyInv ==
  /\ PrivacyTypeOK /\ DeletionJustified /\ LinksUsedOnce
  /\ ~privacy.verified => verifications = 0
  /\ \A r \in Requests : Justified(r)

LEMMA UnhandledType == Unhandled \in Handlings /\ Unhandled.at = "idle"
<1>1. 0 \in 0 .. MaxExports
  BY PrivacyAssumption
<1> QED BY <1>1 DEF Unhandled, Handling, NoChange, Dto, Handlings, Flags, PrivacyStatuses

LEMMA PrivacyInitial == PrivacyInit => PrivacyInv
<1> SUFFICES ASSUME PrivacyInit PROVE PrivacyInv
  OBVIOUS
<1>1. PrivacyTypeOK
  <2>1. 0 \in 0 .. MaxExports /\ 0 \in 0 .. MaxPrivacyFaults
    BY PrivacyAssumption
  <2>2. privacy \in PrivacyRows
    BY DEF PrivacyInit, PrivacyRows, PrivacyStatuses
  <2>3. handling \in [Requests -> Handlings]
    BY UnhandledType DEF PrivacyInit
  <2> QED BY <2>1, <2>2, <2>3 DEF PrivacyInit, PrivacyTypeOK
<1>2. \A r \in Requests : Justified(r)
  BY UnhandledType DEF PrivacyInit, Justified
<1> QED BY <1>1, <1>2 DEF PrivacyInit, PrivacyInv, DeletionJustified, LinksUsedOnce

LEMMA PrivacyCreate ==
  ASSUME PrivacyInv, NEW type \in {"DELETION", "EXPORT"}, CreatePrivacyRequest(type)
  PROVE  PrivacyInv'
<1>1. /\ privacy' \in PrivacyRows /\ privacy'.verified = privacy.verified
      /\ privacy.status = "absent"
  BY DEF CreatePrivacyRequest, PrivacyInv, PrivacyTypeOK, PrivacyRows, PrivacyStatuses
<1>2. UNCHANGED <<handling, jobs, exports, downloads, verifications, halfHandled>>
  BY DEF CreatePrivacyRequest
<1>3. PrivacyTypeOK'
  BY <1>1, <1>2 DEF PrivacyInv, PrivacyTypeOK
<1>4. \A r \in Requests : Justified(r)'
  BY <1>1, <1>2 DEF PrivacyInv, Justified
<1> QED BY <1>1, <1>2, <1>3, <1>4 DEF PrivacyInv, DeletionJustified, LinksUsedOnce

\* A request moves and nothing else.
LEMMA PrivacyProceeds ==
  ASSUME PrivacyInv, NEW r \in Requests, NEW step \in Handlings, Proceeds(r, step), Justified(r)'
  PROVE  PrivacyInv'
<1>1. PrivacyTypeOK'
  BY DEF Proceeds, PrivacyInv, PrivacyTypeOK
<1>2. \A q \in Requests : Justified(q)'
  BY DEF Proceeds, PrivacyInv, PrivacyTypeOK, Justified
<1> QED BY <1>1, <1>2 DEF Proceeds, PrivacyInv, DeletionJustified, LinksUsedOnce

\* A row written by request r, of which no flag is taken back.
LEMMA PrivacyWrites ==
  ASSUME PrivacyInv, NEW r \in Requests, NEW row \in PrivacyRows, NEW step \in Handlings,
         privacy' = row, handling' = Overwritten(handling, r, step),
         row.type = privacy.type, row.status # "absent",
         privacy.identity => row.identity, privacy.approved => row.approved, privacy.verified => row.verified,
         UNCHANGED <<jobs, exports, downloads, halfHandled>>,
         verifications' = verifications \/ (~privacy.verified /\ row.verified /\ verifications' = verifications + 1),
         Justified(r)'
  PROVE  PrivacyInv'
<1>1. handling' \in [Requests -> Handlings]
  <2>1. \A q \in Requests : Outdated(handling)[q] \in Handlings
    BY DEF Outdated, PrivacyInv, PrivacyTypeOK, Handlings
  <2> QED BY <2>1 DEF Overwritten, Outdated
<1>2. ASSUME NEW q \in Requests, q # r PROVE Justified(q)'
  <2>1. /\ handling'[q].at = handling[q].at /\ handling'[q].dto = handling[q].dto
        /\ handling'[q].completes = handling[q].completes
        /\ handling'[q].fresh = (handling[q].at = "idle")
    BY <1>2 DEF Overwritten, Outdated, PrivacyInv, PrivacyTypeOK, Handlings
  <2>2. handling'[q].at \in {"update", "make"} => ~handling'[q].fresh
    BY <2>1
  <2>3. Justified(q)
    BY DEF PrivacyInv
  <2> QED BY <2>1, <2>2, <2>3, Zenon DEF Justified
<1>3. verifications' \in Nat /\ verifications' <= 1 /\ (~privacy'.verified => verifications' = 0)
  BY DEF PrivacyInv, PrivacyTypeOK, LinksUsedOnce
<1>4. PrivacyTypeOK'
  BY <1>1, <1>3 DEF PrivacyInv, PrivacyTypeOK
<1> QED BY <1>2, <1>3, <1>4 DEF PrivacyInv, DeletionJustified, LinksUsedOnce

LEMMA HandlingType ==
  ASSUME NEW at \in {"idle", "consumeLink", "update", "make", "consumeExport"},
         NEW dto \in [status : PrivacyStatuses, identity : BOOLEAN, hold : Flags, approved : BOOLEAN],
         NEW completes \in BOOLEAN, NEW export \in 0 .. MaxExports
  PROVE  Handling(at, dto, completes, export) \in Handlings
BY DEF Handling, Handlings

LEMMA DtoTypes ==
  /\ NoChange \in [status : PrivacyStatuses, identity : BOOLEAN, hold : Flags, approved : BOOLEAN]
  /\ PrivacyDtos \subseteq [status : PrivacyStatuses, identity : BOOLEAN, hold : Flags, approved : BOOLEAN]
  /\ \A dto \in PrivacyDtos : dto.status # "absent"
BY DEF NoChange, PrivacyDtos, Dto, PrivacyStatuses, Flags

LEMMA PrivacyBeginVerify == ASSUME PrivacyInv, NEW r \in Requests, BeginVerify(r) PROVE PrivacyInv'
<1>1. 0 \in 0 .. MaxExports
  BY PrivacyAssumption
<1>2. Handling("consumeLink", NoChange, FALSE, 0) \in Handlings
  BY <1>1, DtoTypes, HandlingType
<1>3. handling'[r].at = "consumeLink"
  BY DEF BeginVerify, Proceeds, Handling, PrivacyInv, PrivacyTypeOK
<1>4. Justified(r)'
  BY <1>3 DEF Justified
<1> QED BY <1>2, <1>4, PrivacyProceeds DEF BeginVerify

\* A request that is done is justified.
LEMMA RestIsJustified ==
  ASSUME PrivacyInv, NEW r \in Requests,
         handling' = [handling EXCEPT ![r] = Unhandled] \/ handling' = Overwritten(handling, r, Unhandled)
  PROVE  Justified(r)'
<1>1. handling'[r].at = "idle"
  BY UnhandledType DEF Overwritten, Outdated, PrivacyInv, PrivacyTypeOK
<1> QED BY <1>1 DEF Justified

LEMMA PrivacyConsumeLink == ASSUME PrivacyInv, NEW r \in Requests, ConsumeLink(r) PROVE PrivacyInv'
<1>1. CASE privacy.verified
  BY <1>1, UnhandledType, RestIsJustified, PrivacyProceeds DEF ConsumeLink, Proceeds
<1>2. CASE ~privacy.verified
  <2> DEFINE row == [privacy EXCEPT !.status = "RECEIVED", !.verified = TRUE, !.identity = TRUE]
  <2>1. /\ row \in PrivacyRows /\ row.type = privacy.type /\ row.status = "RECEIVED"
        /\ row.identity /\ row.verified /\ row.approved = privacy.approved
    BY DEF PrivacyInv, PrivacyTypeOK, PrivacyRows, PrivacyStatuses
  <2>2. /\ privacy' = row /\ handling' = Overwritten(handling, r, Unhandled) /\ verifications' = verifications + 1
        /\ UNCHANGED <<jobs, exports, downloads, halfHandled>>
    BY <1>2 DEF ConsumeLink
  <2>3. Justified(r)'
    BY <2>2, RestIsJustified
  <2> HIDE DEF row
  <2> QED BY <1>2, <2>1, <2>2, <2>3, UnhandledType, PrivacyWrites
<1> QED BY <1>1, <1>2

LEMMA PrivacyBeginUpdate == ASSUME PrivacyInv, NEW r \in Requests, BeginPrivacyUpdate(r) PROVE PrivacyInv'
<1>1. PICK dto \in PrivacyDtos :
        /\ Acceptable(dto)
        /\ Proceeds(r, Handling("update", dto, dto.status = "COMPLETED" /\ privacy.status # "COMPLETED", 0))
  BY DEF BeginPrivacyUpdate
<1> DEFINE completes == dto.status = "COMPLETED" /\ privacy.status # "COMPLETED"
<1> DEFINE step == Handling("update", dto, completes, 0)
<1>2. 0 \in 0 .. MaxExports /\ completes \in BOOLEAN
  BY PrivacyAssumption
<1>3. step \in Handlings
  BY <1>2, DtoTypes, HandlingType
<1>4. step.at = "update" /\ step.dto = dto /\ step.completes = completes /\ step.fresh = TRUE
  BY DEF Handling
<1>5. handling'[r] = step
  BY <1>1 DEF Proceeds, PrivacyInv, PrivacyTypeOK
<1>6. completes => dto.status = "COMPLETED"
  OBVIOUS
<1> HIDE DEF step, completes
<1>7. Justified(r)'
  <2>1. dto.status # "absent" /\ privacy.status # "absent"
    BY DtoTypes DEF BeginPrivacyUpdate
  <2>2. completes => /\ privacy.identity \/ dto.identity
                     /\ privacy.type = "DELETION" =>
                          /\ privacy.approved \/ dto.approved
                          /\ dto.hold # "yes" /\ ~privacy.hold
    BY <1>1, <1>6, Zenon DEF Acceptable, NoHold
  <2>3. privacy' = privacy
    BY <1>1 DEF Proceeds
  <2>4. handling'[r].at # "make"
    BY <1>4, <1>5
  <2> QED BY <1>4, <1>5, <2>1, <2>2, <2>3, <2>4, Zenon DEF Justified
<1> QED BY <1>1, <1>3, <1>7, PrivacyProceeds DEF step, completes

LEMMA PrivacyUpdate == ASSUME PrivacyInv, NEW r \in Requests, UpdatePrivacyRequest(r) PROVE PrivacyInv'
<1> DEFINE dto == handling[r].dto
           row == Updated(dto)
<1>1. privacy \in PrivacyRows /\ handling[r] \in Handlings /\ Justified(r) /\ handling[r].at = "update"
  BY DEF UpdatePrivacyRequest, PrivacyInv, PrivacyTypeOK
<1>2. dto \in [status : PrivacyStatuses, identity : BOOLEAN, hold : Flags, approved : BOOLEAN] /\ dto.status # "absent"
  BY <1>1 DEF Handlings, Justified
<1>3. /\ row.type = privacy.type /\ row.status = dto.status /\ row.verified = privacy.verified
      /\ row.identity = (privacy.identity \/ dto.identity) /\ row.approved = (privacy.approved \/ dto.approved)
      /\ row.hold = IF dto.hold = "keep" THEN privacy.hold ELSE dto.hold = "yes"
  BY <1>1 DEF Updated, PrivacyRows
<1>4. row \in PrivacyRows
  BY <1>1, <1>2 DEF Updated, PrivacyRows
<1>5. privacy' = row
  BY DEF UpdatePrivacyRequest
<1>6. PICK step \in Handlings :
        /\ handling' = Overwritten(handling, r, step)
        /\ step.at = "idle" \/ (/\ handling[r].completes /\ step.at = "make"
                                /\ step.dto = dto /\ step.fresh = handling[r].fresh)
  <2>1. CASE handling[r].completes
    <3>1. [handling[r] EXCEPT !.at = "make"] \in Handlings
      BY <1>1 DEF Handlings
    <3> QED BY <1>1, <2>1, <3>1 DEF UpdatePrivacyRequest, Handlings
  <2>2. CASE ~handling[r].completes
    BY <2>2, UnhandledType DEF UpdatePrivacyRequest
  <2> QED BY <2>1, <2>2
<1>7. handling'[r] = step
  BY <1>6 DEF Overwritten, Outdated, PrivacyInv, PrivacyTypeOK
<1> HIDE DEF row
<1>8. Justified(r)'
  <2>1. CASE step.at = "idle"
    BY <1>7, <2>1 DEF Justified
  <2>2. CASE step.at # "idle"
    <3>1. handling[r].completes /\ step.at = "make" /\ step.dto = dto /\ step.fresh = handling[r].fresh
      BY <1>6, <2>2
    <3>2. privacy.identity \/ dto.identity
      BY <1>1, <3>1, Zenon DEF Justified
    <3>3. row.type = "DELETION" => /\ privacy.approved \/ dto.approved
                                   /\ dto.hold # "yes" /\ (handling[r].fresh => ~privacy.hold)
      BY <1>1, <1>3, <3>1, Zenon DEF Justified
    <3>4. row.type = "DELETION" => row.approved /\ (step.fresh => ~row.hold)
      BY <1>3, <3>1, <3>3, Zenon
    <3>5. row.identity
      BY <1>3, <3>2, Zenon
    <3>6. row.status # "absent" /\ step.dto.status # "absent"
      BY <1>2, <1>3, <3>1
    <3>7. step.at # "update"
      BY <3>1
    <3> QED BY <1>5, <1>7, <3>4, <3>5, <3>6, <3>7, Zenon DEF Justified
  <2> QED BY <2>1, <2>2
<1>9. privacy.identity => row.identity
  BY <1>3, Zenon
<1>10. privacy.approved => row.approved
  BY <1>3, Zenon
<1>11. UNCHANGED <<jobs, exports, downloads, halfHandled>> /\ verifications' = verifications
  BY DEF UpdatePrivacyRequest
<1>12. row.status # "absent" /\ row.type = privacy.type /\ (privacy.verified => row.verified)
  BY <1>2, <1>3
<1>13. handling' = Overwritten(handling, r, step)
  BY <1>6
<1> QED BY <1>4, <1>5, <1>8, <1>9, <1>10, <1>11, <1>12, <1>13, PrivacyWrites

\* A request that has done its last step: the row is what it was.
LEMMA PrivacyEnds ==
  ASSUME PrivacyInv, NEW r \in Requests, handling' = [handling EXCEPT ![r] = Unhandled],
         UNCHANGED <<privacy, verifications>>, PrivacyTypeOK', DeletionJustified', LinksUsedOnce'
  PROVE  PrivacyInv'
<1>1. Justified(r)'
  BY RestIsJustified
<1>2. \A q \in Requests : q # r => Justified(q)'
  BY DEF PrivacyInv, PrivacyTypeOK, Justified
<1> QED BY <1>1, <1>2 DEF PrivacyInv

LEMMA PrivacyApproveDeletion ==
  ASSUME PrivacyInv, NEW r \in Requests, ApproveDeletion(r)
  PROVE  PrivacyInv'
<1> DEFINE job == [identity |-> privacy.identity, approved |-> privacy.approved,
                   held |-> privacy.hold, fresh |-> handling[r].fresh]
<1>1. job \in [identity : BOOLEAN, approved : BOOLEAN, held : BOOLEAN, fresh : BOOLEAN]
  BY DEF PrivacyInv, PrivacyTypeOK, PrivacyRows, Handlings
<1>2. job.identity = privacy.identity /\ job.approved = privacy.approved /\ job.held = privacy.hold /\ job.fresh = handling[r].fresh
  OBVIOUS
<1>3. jobs' = jobs \cup {job}
  BY DEF ApproveDeletion
<1> HIDE DEF job
<1>4. privacy.identity /\ privacy.approved /\ (handling[r].fresh => ~privacy.hold)
  BY Zenon DEF ApproveDeletion, PrivacyInv, Justified
<1>5. job.identity /\ job.approved /\ (job.held => ~job.fresh)
  BY <1>2, <1>4, Zenon
<1>6. DeletionJustified'
  BY <1>3, <1>5, Zenon DEF PrivacyInv, DeletionJustified
<1>7. PrivacyTypeOK' /\ LinksUsedOnce'
  BY <1>1, <1>3, UnhandledType DEF ApproveDeletion, PrivacyInv, PrivacyTypeOK, LinksUsedOnce
<1> QED BY <1>6, <1>7, PrivacyEnds DEF ApproveDeletion

LEMMA PrivacyCreateExport ==
  ASSUME PrivacyInv, NEW r \in Requests, CreateExportArtifact(r)
  PROVE  PrivacyInv'
<1>1. PrivacyTypeOK'
  BY UnhandledType, PrivacyAssumption DEF CreateExportArtifact, PrivacyInv, PrivacyTypeOK
<1>2. DeletionJustified' /\ LinksUsedOnce'
  BY DEF CreateExportArtifact, PrivacyInv, DeletionJustified, LinksUsedOnce
<1> QED BY <1>1, <1>2, PrivacyEnds DEF CreateExportArtifact

LEMMA PrivacyStop == ASSUME PrivacyInv, NEW r \in Requests, StopHalfHandled(r) PROVE PrivacyInv'
<1>1. PrivacyTypeOK'
  BY UnhandledType, PrivacyAssumption DEF StopHalfHandled, PrivacyInv, PrivacyTypeOK
<1>2. DeletionJustified' /\ LinksUsedOnce'
  BY DEF StopHalfHandled, PrivacyInv, DeletionJustified, LinksUsedOnce
<1> QED BY <1>1, <1>2, PrivacyEnds DEF StopHalfHandled

LEMMA PrivacyBeginDownload == ASSUME PrivacyInv, NEW r \in Requests, BeginDownload(r) PROVE PrivacyInv'
<1>1. PICK x \in 1 .. exports : Proceeds(r, Handling("consumeExport", NoChange, FALSE, x))
  BY DEF BeginDownload
<1>2. x \in 0 .. MaxExports
  BY PrivacyAssumption DEF PrivacyInv, PrivacyTypeOK
<1>3. Handling("consumeExport", NoChange, FALSE, x) \in Handlings
  BY <1>2, DtoTypes, HandlingType
<1>4. handling'[r].at = "consumeExport"
  BY <1>1 DEF Proceeds, Handling, PrivacyInv, PrivacyTypeOK
<1>5. Justified(r)'
  BY <1>4 DEF Justified
<1> QED BY <1>1, <1>3, <1>5, PrivacyProceeds

LEMMA PrivacyConsumeExport == ASSUME PrivacyInv, NEW r \in Requests, ConsumeExport(r) PROVE PrivacyInv'
<1> DEFINE x == handling[r].export
<1>1. downloads \in [1 .. MaxExports -> Nat] /\ \A y \in 1 .. MaxExports : downloads[y] <= 1
  BY DEF PrivacyInv, PrivacyTypeOK, LinksUsedOnce
<1>2. downloads' = downloads \/ (downloads[x] = 0 /\ downloads' = [downloads EXCEPT ![x] = @ + 1])
  BY DEF ConsumeExport, Consumable
<1> HIDE DEF x
<1>3. [downloads EXCEPT ![x] = @ + 1] = [y \in 1 .. MaxExports |-> IF y = x THEN downloads[y] + 1 ELSE downloads[y]]
  BY <1>1
<1>4. downloads' \in [1 .. MaxExports -> Nat] /\ \A y \in 1 .. MaxExports : downloads'[y] <= 1
  <2>1. CASE downloads' = downloads
    BY <1>1, <2>1
  <2>2. CASE downloads[x] = 0 /\ downloads' = [y \in 1 .. MaxExports |-> IF y = x THEN downloads[y] + 1 ELSE downloads[y]]
    <3>1. ASSUME NEW y \in 1 .. MaxExports PROVE downloads'[y] \in Nat /\ downloads'[y] <= 1
      BY <1>1, <2>2
    <3> QED BY <2>2, <3>1
  <2> QED BY <1>2, <1>3, <2>1, <2>2
<1>5. PrivacyTypeOK' /\ DeletionJustified' /\ LinksUsedOnce'
  BY <1>4, UnhandledType DEF ConsumeExport, PrivacyInv, PrivacyTypeOK, DeletionJustified, LinksUsedOnce
<1> QED BY <1>5, PrivacyEnds DEF ConsumeExport

LEMMA PrivacyInductive == PrivacyInv /\ [PrivacyNext]_privacyVars => PrivacyInv'
<1> SUFFICES ASSUME PrivacyInv, [PrivacyNext]_privacyVars PROVE PrivacyInv'
  OBVIOUS
<1>1. CASE UNCHANGED privacyVars
  BY <1>1 DEF privacyVars, PrivacyInv, PrivacyTypeOK, DeletionJustified, LinksUsedOnce, Justified
<1>2. CASE PrivacyNext
  BY <1>2, PrivacyCreate, PrivacyBeginVerify, PrivacyConsumeLink, PrivacyBeginUpdate, PrivacyUpdate,
     PrivacyApproveDeletion, PrivacyCreateExport, PrivacyStop, PrivacyBeginDownload, PrivacyConsumeExport
     DEF PrivacyNext
<1> QED BY <1>1, <1>2

\* However many updates overlap, a deletion is handed on only for an identified
\* person and an approved deletion, and under a hold only if the hold was placed
\* while the request was completed.
THEOREM DeletionIsJustified == PrivacySpec => []DeletionJustified
BY PrivacyInitial, PrivacyInductive, PTL DEF PrivacySpec, PrivacyInv

\* However many requests present a link at once, it is honoured once.
THEOREM LinksAreUsedOnce == PrivacySpec => []LinksUsedOnce
BY PrivacyInitial, PrivacyInductive, PTL DEF PrivacySpec, PrivacyInv

----------------------------------------------------------------------------
(* Billing events.  A delivery can still lead to a change of the plan until *)
(* it has made one; so can a further delivery, while none is under way and  *)
(* the event is not recorded.  Whatever begins more of them is excused.     *)

Early == {"insert", "find", "apply", "recordFailure"}
Working(e) == {r \in Requests : delivery[r].event = e /\ delivery[r].at \in Early}
Chance(e) == IF ~UnderWay(e) /\ ~Duplicate(e) THEN 1 ELSE 0

BillingInv ==
  /\ BillingTypeOK
  /\ \A r \in Requests : delivery[r].at \in {"idle", "checkout"} <=> delivery[r].event = 0
  /\ \A e \in Events : applied[e] + Cardinality(Working(e)) + Chance(e) <= 1 + excuses[e]

LEMMA BillingInitial == BillingInit => BillingInv
<1> SUFFICES ASSUME BillingInit PROVE BillingInv
  OBVIOUS
<1>1. BillingTypeOK
  <2>1. 0 \in 0 .. MaxEvents /\ 0 \in 0 .. MaxOverlaps /\ 0 \in 0 .. MaxBillingFaults
    BY BillingAssumption
  <2>2. sent \in Seq(Kinds) /\ Len(sent) = 0
    BY EmptySeq DEF BillingInit
  <2>3. delivery \in [Requests -> Deliveries]
    BY <2>1 DEF BillingInit, NoDelivery, Deliveries
  <2> QED BY <2>1, <2>2, <2>3, BillingAssumption DEF BillingInit, BillingTypeOK, EventStatuses, PlanStatuses
<1>2. \A r \in Requests : delivery[r].at = "idle" /\ delivery[r].event = 0
  BY DEF BillingInit, NoDelivery
<1>3. ASSUME NEW e \in Events PROVE applied[e] + Cardinality(Working(e)) + Chance(e) <= 1 + excuses[e]
  <2>1. Working(e) = {}
    BY <1>2 DEF Working, Early
  <2>2. Chance(e) \in {0, 1} /\ applied[e] = 0 /\ excuses[e] = 0
    BY <1>3 DEF BillingInit, Chance
  <2> QED BY <2>1, <2>2, FS_EmptySet
<1> QED BY <1>1, <1>2, <1>3 DEF BillingInv

\* How a step of request r counts for an event.
Counts(e, step) == IF step.event = e /\ step.at \in Early THEN 1 ELSE 0

LEMMA WorkingCount ==
  ASSUME BillingInv, NEW r \in Requests, NEW step \in Deliveries, Moves(r, step), NEW e \in Events
  PROVE  /\ Cardinality(Working(e)) \in Nat
         /\ Cardinality(Working(e)') = Cardinality(Working(e)) + Counts(e, step) - Counts(e, delivery[r])
<1>1. delivery \in [Requests -> Deliveries]
  BY DEF BillingInv, BillingTypeOK
<1>2. Working(e) \in SUBSET Requests /\ Working(e)' \in SUBSET Requests
  BY DEF Working
<1>3. delivery'[r] = step /\ \A q \in Requests : q # r => delivery'[q] = delivery[q]
  BY <1>1 DEF Moves
<1>4. /\ r \in Working(e) <=> Counts(e, delivery[r]) = 1
      /\ r \in Working(e)' <=> Counts(e, step) = 1
      /\ Counts(e, delivery[r]) \in {0, 1} /\ Counts(e, step) \in {0, 1}
  BY <1>3 DEF Working, Counts
<1>5. /\ Cardinality(Working(e)) \in Nat
      /\ r \notin Working(e) => Cardinality(Working(e) \cup {r}) = Cardinality(Working(e)) + 1
      /\ r \in Working(e) => Cardinality(Working(e) \ {r}) = Cardinality(Working(e)) - 1
  BY <1>2, RequestSets
<1>6. Working(e)' = IF r \in Working(e)' THEN Working(e) \cup {r} ELSE Working(e) \ {r}
  BY <1>3 DEF Working
<1>7. /\ r \in Working(e) => Working(e) \cup {r} = Working(e)
      /\ r \notin Working(e) => Working(e) \ {r} = Working(e)
  OBVIOUS
<1> DEFINE W == Working(e)
           V == Working(e)'
           c == Counts(e, delivery[r])
           d == Counts(e, step)
<1>8. /\ Cardinality(W) \in Nat /\ (r \in W <=> c = 1) /\ (r \in V <=> d = 1) /\ c \in {0, 1} /\ d \in {0, 1}
      /\ r \notin W => Cardinality(W \cup {r}) = Cardinality(W) + 1
      /\ r \in W => Cardinality(W \ {r}) = Cardinality(W) - 1
      /\ V = IF r \in V THEN W \cup {r} ELSE W \ {r}
      /\ r \in W => W \cup {r} = W
      /\ r \notin W => W \ {r} = W
  BY <1>4, <1>5, <1>6, <1>7
<1> HIDE DEF W, V, c, d
<1>9. ASSUME r \in V PROVE Cardinality(V) = Cardinality(W) + d - c
  <2>1. V = W \cup {r} /\ d = 1
    BY <1>8, <1>9
  <2>2. Cardinality(V) = IF r \in W THEN Cardinality(W) ELSE Cardinality(W) + 1
    BY <1>8, <2>1
  <2> QED BY <1>8, <2>1, <2>2
<1>10. ASSUME r \notin V PROVE Cardinality(V) = Cardinality(W) + d - c
  <2>1. V = W \ {r} /\ d = 0
    BY <1>8, <1>10
  <2>2. Cardinality(V) = IF r \in W THEN Cardinality(W) - 1 ELSE Cardinality(W)
    BY <1>8, <2>1
  <2> QED BY <1>8, <2>1, <2>2
<1>11. Cardinality(W) \in Nat /\ Cardinality(V) = Cardinality(W) + d - c
  BY <1>8, <1>9, <1>10
<1> QED BY <1>11 DEF W, V, c, d

\* A step of request r on its event: what it adds to the count, and what excuses
\* it.  Other events keep theirs.
LEMMA BillingMoves ==
  ASSUME BillingInv, NEW r \in Requests, NEW step \in Deliveries, Moves(r, step),
         step.at \in {"idle", "checkout"} <=> step.event = 0, BillingTypeOK',
         NEW e, e # 0 => e \in Events, delivery[r].event \in {0, e}, step.event \in {0, e},
         \A d \in Events : d # e => /\ billingEvent'[d] = billingEvent[d] /\ applied'[d] = applied[d]
                                    /\ excuses'[d] = excuses[d],
         e # 0 => (applied'[e] - applied[e]) + Counts(e, step) + Chance(e)'
                    <= Counts(e, delivery[r]) + Chance(e) + (excuses'[e] - excuses[e])
  PROVE  BillingInv'
<1>1. delivery \in [Requests -> Deliveries]
  BY DEF BillingInv, BillingTypeOK
<1>2. delivery'[r] = step /\ \A q \in Requests : q # r => delivery'[q] = delivery[q]
  BY <1>1 DEF Moves
<1>3. \A q \in Requests : delivery'[q].at \in {"idle", "checkout"} <=> delivery'[q].event = 0
  BY <1>2 DEF BillingInv
<1>4. ASSUME NEW d \in Events
      PROVE  applied'[d] + Cardinality(Working(d)') + Chance(d)' <= 1 + excuses'[d]
  <2>1. d # 0
    BY DEF Events
  <2>2. /\ applied[d] \in Nat /\ applied'[d] \in Nat /\ excuses[d] \in Nat /\ excuses'[d] \in Nat
        /\ Chance(d) \in {0, 1} /\ Chance(d)' \in {0, 1}
        /\ Counts(d, step) \in {0, 1} /\ Counts(d, delivery[r]) \in {0, 1}
    BY BillingAssumption DEF BillingInv, BillingTypeOK, Chance, Counts
  <2>3. applied[d] + Cardinality(Working(d)) + Chance(d) <= 1 + excuses[d]
    BY DEF BillingInv
  <2>4. /\ Cardinality(Working(d)) \in Nat
        /\ Cardinality(Working(d)') = Cardinality(Working(d)) + Counts(d, step) - Counts(d, delivery[r])
    BY WorkingCount
  <2>5. CASE d = e
    BY <2>1, <2>2, <2>3, <2>4, <2>5
  <2>6. CASE d # e
    <3>1. Counts(d, step) = 0 /\ Counts(d, delivery[r]) = 0
      BY <2>1, <2>6 DEF Counts
    <3>2. UnderWay(d)' <=> UnderWay(d)
      BY <1>2, <2>1, <2>6 DEF UnderWay
    <3>3. Duplicate(d)' <=> Duplicate(d)
      BY <2>6 DEF Duplicate
    <3>4. Chance(d)' = Chance(d)
      BY <3>2, <3>3 DEF Chance
    <3>5. applied'[d] = applied[d] /\ excuses'[d] = excuses[d]
      BY <2>6
    <3> QED BY <2>2, <2>3, <2>4, <3>1, <3>4, <3>5
  <2> QED BY <2>5, <2>6
<1> QED BY <1>3, <1>4 DEF BillingInv

\* While a delivery is under way a further one has no chance of its own.
LEMMA ChanceValues ==
  ASSUME BillingInv, NEW r \in Requests, NEW step \in Deliveries, Moves(r, step), NEW e \in Events
  PROVE  /\ Chance(e) \in {0, 1} /\ Chance(e)' \in {0, 1}
         /\ delivery[r].event = e => Chance(e) = 0
         /\ step.event = e => Chance(e)' = 0
         /\ Duplicate(e)' => Chance(e)' = 0
<1>1. delivery'[r] = step
  BY DEF Moves, BillingInv, BillingTypeOK
<1> QED BY <1>1 DEF Chance, UnderWay

LEMMA BillingSends == ASSUME BillingInv, ProviderSends PROVE BillingInv'
<1>1. PICK kind \in Kinds : sent' = Append(sent, kind)
  BY DEF ProviderSends
<1>2. sent' \in Seq(Kinds) /\ Len(sent') = Len(sent) + 1
  BY <1>1, AppendProperties DEF BillingInv, BillingTypeOK
<1>3. Len(sent') <= MaxEvents
  BY <1>2, BillingAssumption, LenProperties DEF ProviderSends, BillingInv, BillingTypeOK
<1>4. BillingTypeOK'
  BY <1>2, <1>3 DEF ProviderSends, BillingInv, BillingTypeOK
<1> QED BY <1>4 DEF ProviderSends, BillingInv, Working, Chance, UnderWay, Duplicate

\* The types after a step of a request.
LEMMA BillingTypes ==
  ASSUME BillingInv, NEW r \in Requests, NEW step \in Deliveries, Moves(r, step), UNCHANGED sent,
         billingEvent' \in [Events -> EventStatuses], companyPlan' \in PlanStatuses,
         applied' \in [Events -> Nat], excuses' \in [Events -> 0 .. MaxOverlaps],
         billingFaults' \in 0 .. MaxBillingFaults
  PROVE  BillingTypeOK'
BY DEF Moves, BillingInv, BillingTypeOK

LEMMA ExcusedType ==
  ASSUME BillingInv, NEW e \in Events, Excused(e)
  PROVE  /\ excuses' \in [Events -> 0 .. MaxOverlaps] /\ excuses'[e] = excuses[e] + 1
         /\ \A d \in Events : d # e => excuses'[d] = excuses[d]
<1>1. excuses \in [Events -> 0 .. MaxOverlaps] /\ excuses[e] < MaxOverlaps /\ excuses' = [excuses EXCEPT ![e] = excuses[e] + 1]
  BY DEF BillingInv, BillingTypeOK, Excused
<1>2. excuses[e] + 1 \in 0 .. MaxOverlaps
  BY <1>1, BillingAssumption
<1> QED BY <1>1, <1>2

LEMMA BillingBegin ==
  ASSUME BillingInv, NEW r \in Requests, NEW e \in 1 .. Len(sent), BeginDelivery(r, e)
  PROVE  BillingInv'
<1> DEFINE step == [at |-> IF billingEvent[e] = "none" THEN "insert" ELSE "find", event |-> e]
<1>1. e \in Events /\ e # 0 /\ e \in 0 .. MaxEvents
  BY BillingAssumption, LenProperties DEF BillingInv, BillingTypeOK, Events
<1>2. step \in Deliveries /\ step.event = e /\ step.at \in {"insert", "find"}
  BY <1>1 DEF Deliveries
<1>3. Moves(r, step) /\ UNCHANGED <<sent, billingEvent, companyPlan, applied, billingFaults>>
  BY DEF BeginDelivery
<1> HIDE DEF step
<1>4. delivery[r].at = "idle" /\ delivery[r].event = 0
  BY DEF BeginDelivery, BillingInv
<1>5. Counts(e, delivery[r]) = 0 /\ Counts(e, step) = 1
  BY <1>1, <1>2, <1>4 DEF Counts, Early
<1>6. Chance(e) \in {0, 1} /\ Chance(e)' = 0
  BY <1>1, <1>2, <1>3, ChanceValues
<1>7. /\ excuses' \in [Events -> 0 .. MaxOverlaps] /\ \A d \in Events : d # e => excuses'[d] = excuses[d]
      /\ excuses'[e] = excuses[e] + (IF UnderWay(e) THEN 1 ELSE 0)
  <2>1. CASE UnderWay(e)
    BY <1>1, <2>1, ExcusedType DEF BeginDelivery
  <2>2. CASE ~UnderWay(e)
    BY <1>1, <2>2 DEF BeginDelivery, BillingInv, BillingTypeOK
  <2> QED BY <2>1, <2>2
<1>8. Chance(e) = IF UnderWay(e) THEN 0 ELSE 1
  BY DEF Chance, BeginDelivery
<1>9. BillingTypeOK'
  BY <1>2, <1>3, <1>7, BillingTypes DEF BillingInv, BillingTypeOK
<1>10. applied[e] \in Nat /\ excuses[e] \in Nat /\ applied'[e] = applied[e]
  BY <1>1, <1>3, BillingAssumption DEF BillingInv, BillingTypeOK
<1>11. (applied'[e] - applied[e]) + Counts(e, step) + Chance(e)'
         <= Counts(e, delivery[r]) + Chance(e) + (excuses'[e] - excuses[e])
  BY <1>5, <1>6, <1>7, <1>8, <1>10
<1> QED BY <1>1, <1>2, <1>3, <1>4, <1>7, <1>9, <1>11, BillingMoves

\* What every further step of a delivery starts from.
LEMMA UnderWayFacts ==
  ASSUME BillingInv, NEW r \in Requests, delivery[r].at \notin {"idle", "checkout"}
  PROVE  /\ delivery[r].event \in Events /\ delivery[r].event # 0 /\ delivery[r] \in Deliveries
         /\ Counts(delivery[r].event, delivery[r]) = IF delivery[r].at \in Early THEN 1 ELSE 0
         /\ applied[delivery[r].event] \in Nat /\ excuses[delivery[r].event] \in Nat
<1>1. delivery[r] \in Deliveries /\ delivery[r].event # 0
  BY DEF BillingInv, BillingTypeOK
<1>2. delivery[r].event \in Events
  BY <1>1, BillingAssumption DEF Deliveries, Events
<1> QED BY <1>1, <1>2, BillingAssumption DEF Counts, BillingInv, BillingTypeOK

\* A further step of a delivery, which keeps its event or is the last.
LEMMA BillingGoesOn ==
  ASSUME BillingInv, NEW r \in Requests, delivery[r].at \notin {"idle", "checkout"}, NEW e, e = delivery[r].event,
         NEW step \in Deliveries, Moves(r, step), BillingTypeOK',
         (step.at \notin {"idle", "checkout"} /\ step.event = e) \/ step = NoDelivery,
         \A d \in Events : d # e =>
           /\ billingEvent'[d] = billingEvent[d] /\ applied'[d] = applied[d] /\ excuses'[d] = excuses[d],
         NEW did \in {0, 1}, NEW excused \in {0, 1},
         applied'[e] = applied[e] + did, excuses'[e] = excuses[e] + excused,
         did + (IF step.at \in Early THEN 1 ELSE 0) + (IF step = NoDelivery /\ ~Duplicate(e)' THEN 1 ELSE 0)
           <= (IF delivery[r].at \in Early THEN 1 ELSE 0) + excused
  PROVE  BillingInv'
<1>1. e \in Events /\ e # 0 /\ applied[e] \in Nat /\ excuses[e] \in Nat
  BY UnderWayFacts
<1>2. Counts(e, delivery[r]) = IF delivery[r].at \in Early THEN 1 ELSE 0
  BY UnderWayFacts
<1>3. Counts(e, step) = IF step.at \in Early THEN 1 ELSE 0
  BY <1>1 DEF Counts, NoDelivery, Early
<1>4. Chance(e) = 0 /\ Chance(e)' \in {0, 1}
  BY <1>1, ChanceValues
<1>5. Chance(e)' <= IF step = NoDelivery /\ ~Duplicate(e)' THEN 1 ELSE 0
  <2>1. CASE step = NoDelivery /\ ~Duplicate(e)'
    BY <1>4, <2>1
  <2>2. CASE ~(step = NoDelivery /\ ~Duplicate(e)')
    <3>1. step.event = e \/ Duplicate(e)'
      BY <2>2
    <3>2. Chance(e)' = 0
      BY <1>1, <3>1, ChanceValues
    <3> QED BY <2>2, <3>2
  <2> QED BY <2>1, <2>2
<1>6. step.at \in {"idle", "checkout"} <=> step.event = 0
  BY <1>1 DEF NoDelivery
<1>7. step.event \in {0, e}
  BY DEF NoDelivery
<1>8. (applied'[e] - applied[e]) + Counts(e, step) + Chance(e)'
         <= Counts(e, delivery[r]) + Chance(e) + (excuses'[e] - excuses[e])
  BY <1>1, <1>2, <1>3, <1>4, <1>5
<1>9. /\ e # 0 => e \in Events
      /\ delivery[r].event \in {0, e}
      /\ \A d \in Events : d # e => /\ billingEvent'[d] = billingEvent[d] /\ applied'[d] = applied[d]
                                    /\ excuses'[d] = excuses[d]
      /\ e # 0 => (applied'[e] - applied[e]) + Counts(e, step) + Chance(e)'
                    <= Counts(e, delivery[r]) + Chance(e) + (excuses'[e] - excuses[e])
  BY <1>1, <1>8
<1> QED BY <1>6, <1>7, <1>9, BillingMoves

LEMMA BillingRows ==
  ASSUME BillingInv, NEW r \in Requests, delivery[r].at \notin {"idle", "checkout"},
         NEW at \in {"find", "apply", "record", "recordFailure"}
  PROVE  /\ [delivery[r] EXCEPT !.at = at] \in Deliveries /\ [delivery[r] EXCEPT !.at = at] # NoDelivery
         /\ [delivery[r] EXCEPT !.at = at].at = at /\ [delivery[r] EXCEPT !.at = at].event = delivery[r].event
         /\ NoDelivery \in Deliveries /\ NoDelivery.at = "idle"
<1>1. delivery[r] \in Deliveries /\ 0 \in 0 .. MaxEvents
  BY UnderWayFacts, BillingAssumption
<1> QED BY <1>1 DEF Deliveries, NoDelivery

LEMMA BillingInsert == ASSUME BillingInv, NEW r \in Requests, InsertEvent(r) PROVE BillingInv'
<1>1. delivery[r].at \notin {"idle", "checkout"} /\ delivery[r].at \in Early
  BY DEF InsertEvent, Early
<1>2. PICK e : e = delivery[r].event
  OBVIOUS
<1>3. applied[e] = applied[e] + 0 /\ excuses[e] = excuses[e] + 0
  BY <1>1, <1>2, UnderWayFacts
<1>4. CASE billingEvent[e] = "none"
  <2>1. PICK step \in Deliveries :
          step # NoDelivery /\ step.at = "find" /\ step.event = e /\ Moves(r, step)
    BY <1>1, <1>2, <1>4, BillingRows DEF InsertEvent
  <2>2. billingEvent' = [billingEvent EXCEPT ![e] = "RECEIVED"] /\ UNCHANGED <<sent, companyPlan, applied, excuses, billingFaults>>
    BY <1>2, <1>4 DEF InsertEvent
  <2>3. billingEvent' \in [Events -> EventStatuses] /\ \A d \in Events : d # e => billingEvent'[d] = billingEvent[d]
    BY <2>2 DEF BillingInv, BillingTypeOK, EventStatuses
  <2>4. BillingTypeOK'
    BY <2>1, <2>2, <2>3, BillingTypes DEF BillingInv, BillingTypeOK
  <2>5. applied'[e] = applied[e] + 0 /\ excuses'[e] = excuses[e] + 0
    BY <1>3, <2>2
  <2>6. (IF step.at \in Early THEN 1 ELSE 0) = 1 /\ step.at \notin {"idle", "checkout"}
    BY <2>1 DEF Early
  <2>7. \A d \in Events : d # e =>
          billingEvent'[d] = billingEvent[d] /\ applied'[d] = applied[d] /\ excuses'[d] = excuses[d]
    BY <2>2, <2>3
  <2> QED BY <1>1, <1>2, <2>1, <2>4, <2>5, <2>6, <2>7, BillingGoesOn
<1>5. CASE billingEvent[e] # "none"
  <2>1. Moves(r, NoDelivery) /\ UNCHANGED <<sent, billingEvent, companyPlan, applied, excuses, billingFaults>>
    BY <1>2, <1>5 DEF InsertEvent
  <2>2. NoDelivery \in Deliveries /\ NoDelivery.at \notin Early
    BY <1>1, BillingRows DEF Early
  <2>3. BillingTypeOK'
    BY <2>1, <2>2, BillingTypes DEF BillingInv, BillingTypeOK
  <2> QED BY <1>1, <1>2, <1>3, <2>1, <2>2, <2>3, BillingGoesOn
<1> QED BY <1>4, <1>5

LEMMA BillingFind == ASSUME BillingInv, NEW r \in Requests, FindCompanyPlan(r) PROVE BillingInv'
<1>1. delivery[r].at \notin {"idle", "checkout"} /\ delivery[r].at \in Early
  BY DEF FindCompanyPlan, Early
<1>2. PICK e : e = delivery[r].event
  OBVIOUS
<1>3. applied[e] = applied[e] + 0 /\ excuses[e] = excuses[e] + 0
  BY <1>1, <1>2, UnderWayFacts
<1>4. PICK at \in {"record", "recordFailure", "apply"} : Moves(r, [delivery[r] EXCEPT !.at = at])
  BY DEF FindCompanyPlan
<1>5. PICK step \in Deliveries : step # NoDelivery /\ step.at = at /\ step.event = e /\ Moves(r, step)
  BY <1>1, <1>2, <1>4, BillingRows
<1>6. UNCHANGED <<sent, billingEvent, companyPlan, applied, excuses, billingFaults>>
  BY DEF FindCompanyPlan
<1>7. BillingTypeOK'
  BY <1>5, <1>6, BillingTypes DEF BillingInv, BillingTypeOK
<1>8. (step.at \notin {"idle", "checkout"} /\ step.event = e) \/ step = NoDelivery
  BY <1>5
<1>9. /\ applied'[e] = applied[e] + 0 /\ excuses'[e] = excuses[e] + 0
      /\ \A d \in Events : d # e =>
           billingEvent'[d] = billingEvent[d] /\ applied'[d] = applied[d] /\ excuses'[d] = excuses[d]
  BY <1>3, <1>6
<1>10. 0 + (IF step.at \in Early THEN 1 ELSE 0) + (IF step = NoDelivery /\ ~Duplicate(e)' THEN 1 ELSE 0)
         <= (IF delivery[r].at \in Early THEN 1 ELSE 0) + 0
  BY <1>1, <1>5
<1> QED BY <1>1, <1>2, <1>5, <1>7, <1>8, <1>9, <1>10, BillingGoesOn

LEMMA BillingApply == ASSUME BillingInv, NEW r \in Requests, ApplyEvent(r) PROVE BillingInv'
<1>1. delivery[r].at \notin {"idle", "checkout"} /\ delivery[r].at \in Early
  BY DEF ApplyEvent, Early
<1>2. PICK e : e = delivery[r].event
  OBVIOUS
<1>3. e \in Events /\ applied[e] \in Nat /\ excuses[e] = excuses[e] + 0
  BY <1>1, <1>2, UnderWayFacts
<1>4. PICK step \in Deliveries : step # NoDelivery /\ step.at = "record" /\ step.event = e /\ Moves(r, step)
  BY <1>1, <1>2, BillingRows DEF ApplyEvent
<1>5. applied' = [applied EXCEPT ![e] = @ + 1] /\ UNCHANGED <<sent, billingEvent, excuses, billingFaults>>
  BY <1>2 DEF ApplyEvent
<1>6. applied' \in [Events -> Nat] /\ applied'[e] = applied[e] + 1 /\ \A d \in Events : d # e => applied'[d] = applied[d]
  BY <1>3, <1>5 DEF BillingInv, BillingTypeOK
<1>7. companyPlan' \in PlanStatuses
  BY DEF ApplyEvent, PlanAfter, PlanStatuses
<1>8. BillingTypeOK'
  BY <1>4, <1>5, <1>6, <1>7, BillingTypes DEF BillingInv, BillingTypeOK
<1>9. step.at \notin {"idle", "checkout"} /\ step.at \notin Early
  BY <1>4 DEF Early
<1>10. /\ applied'[e] = applied[e] + 1 /\ excuses'[e] = excuses[e] + 0
       /\ \A d \in Events : d # e =>
            billingEvent'[d] = billingEvent[d] /\ applied'[d] = applied[d] /\ excuses'[d] = excuses[d]
  BY <1>3, <1>5, <1>6
<1>11. (step.at \notin {"idle", "checkout"} /\ step.event = e) \/ step = NoDelivery
  BY <1>4, <1>9
<1>12. 1 + (IF step.at \in Early THEN 1 ELSE 0) + (IF step = NoDelivery /\ ~Duplicate(e)' THEN 1 ELSE 0)
         <= (IF delivery[r].at \in Early THEN 1 ELSE 0) + 0
  BY <1>1, <1>4, <1>9
<1> QED BY <1>1, <1>2, <1>4, <1>8, <1>10, <1>12, <1>11, BillingGoesOn

LEMMA BillingRecord == ASSUME BillingInv, NEW r \in Requests, RecordOutcome(r) PROVE BillingInv'
<1>1. delivery[r].at \notin {"idle", "checkout"} /\ delivery[r].at \in {"record", "recordFailure"}
  BY DEF RecordOutcome
<1>2. PICK e : e = delivery[r].event
  OBVIOUS
<1>3. e \in Events /\ applied[e] = applied[e] + 0 /\ excuses[e] = excuses[e] + 0
  BY <1>1, <1>2, UnderWayFacts
<1>4. PICK outcome \in {"FAILED", "IGNORED", "PROCESSED"} :
        /\ billingEvent' = [billingEvent EXCEPT ![e] = outcome]
        /\ delivery[r].at = "record" => outcome # "FAILED"
  BY <1>2 DEF RecordOutcome
<1>5. Moves(r, NoDelivery) /\ UNCHANGED <<sent, companyPlan, applied, excuses, billingFaults>>
  BY DEF RecordOutcome
<1>6. NoDelivery \in Deliveries /\ NoDelivery.at \notin Early
  BY <1>1, BillingRows DEF Early
<1>7. /\ billingEvent' \in [Events -> EventStatuses] /\ billingEvent'[e] = outcome
      /\ \A d \in Events : d # e => billingEvent'[d] = billingEvent[d]
  BY <1>3, <1>4 DEF BillingInv, BillingTypeOK, EventStatuses
<1>8. BillingTypeOK'
  BY <1>5, <1>6, <1>7, BillingTypes DEF BillingInv, BillingTypeOK
<1>9. delivery[r].at \in Early \/ Duplicate(e)'
  BY <1>1, <1>4, <1>7 DEF Early, Duplicate
<1>10. /\ applied'[e] = applied[e] + 0 /\ excuses'[e] = excuses[e] + 0
       /\ \A d \in Events : d # e =>
            billingEvent'[d] = billingEvent[d] /\ applied'[d] = applied[d] /\ excuses'[d] = excuses[d]
  BY <1>3, <1>5, <1>7
<1>11. 0 + (IF NoDelivery.at \in Early THEN 1 ELSE 0) + (IF NoDelivery = NoDelivery /\ ~Duplicate(e)' THEN 1 ELSE 0)
         <= (IF delivery[r].at \in Early THEN 1 ELSE 0) + 0
  BY <1>6, <1>9
<1> QED BY <1>1, <1>2, <1>5, <1>6, <1>8, <1>10, <1>11, BillingGoesOn

LEMMA BillingFails ==
  ASSUME BillingInv, NEW r \in Requests, StatementFails(r) \/ DeliveryStops(r)
  PROVE  BillingInv'
<1>1. delivery[r].at \notin {"idle", "checkout"}
  BY DEF StatementFails, DeliveryStops
<1>2. PICK e : e = delivery[r].event
  OBVIOUS
<1>3. e \in Events /\ applied[e] = applied[e] + 0 /\ excuses[e] \in Nat
  BY <1>1, <1>2, UnderWayFacts
<1>4. PICK step \in Deliveries :
        /\ DeliveryFault(r, step)
        /\ \/ step = NoDelivery /\ step.at \notin Early
           \/ step # NoDelivery /\ step.at = "recordFailure" /\ step.event = e
  BY <1>1, <1>2, BillingRows DEF StatementFails, DeliveryStops, Early
<1>5. /\ Moves(r, step) /\ Excused(e) /\ UNCHANGED <<sent, billingEvent, companyPlan, applied>>
      /\ billingFaults' \in 0 .. MaxBillingFaults
  BY <1>2, <1>4, BillingAssumption DEF DeliveryFault, BillingInv, BillingTypeOK
<1>6. /\ excuses' \in [Events -> 0 .. MaxOverlaps] /\ excuses'[e] = excuses[e] + 1
      /\ \A d \in Events : d # e => excuses'[d] = excuses[d]
  BY <1>3, <1>5, ExcusedType
<1>7. BillingTypeOK'
  BY <1>4, <1>5, <1>6, BillingTypes DEF BillingInv, BillingTypeOK
<1>8. /\ applied'[e] = applied[e] + 0
      /\ \A d \in Events : d # e =>
           billingEvent'[d] = billingEvent[d] /\ applied'[d] = applied[d] /\ excuses'[d] = excuses[d]
  BY <1>3, <1>5, <1>6
<1>9. 0 + (IF step.at \in Early THEN 1 ELSE 0) + (IF step = NoDelivery /\ ~Duplicate(e)' THEN 1 ELSE 0)
        <= (IF delivery[r].at \in Early THEN 1 ELSE 0) + 1
  BY <1>4
<1>10. (step.at \notin {"idle", "checkout"} /\ step.event = e) \/ step = NoDelivery
  BY <1>4
<1> QED BY <1>1, <1>2, <1>4, <1>5, <1>6, <1>7, <1>8, <1>9, <1>10, BillingGoesOn

\* A checkout counts for no event.
LEMMA BillingCheckout ==
  ASSUME BillingInv, NEW r \in Requests, BeginCheckout(r) \/ FinishCheckout(r)
  PROVE  BillingInv'
<1>1. PICK step \in Deliveries : Moves(r, step) /\ step.at \in {"idle", "checkout"} /\ step.event = 0
  <2>1. 0 \in 0 .. MaxEvents
    BY BillingAssumption
  <2>2. NoDelivery \in Deliveries /\ [at |-> "checkout", event |-> 0] \in Deliveries
    BY <2>1 DEF Deliveries, NoDelivery
  <2> QED BY <2>2 DEF BeginCheckout, FinishCheckout, NoDelivery
<1>2. UNCHANGED <<sent, billingEvent, applied, excuses, billingFaults>> /\ companyPlan' \in PlanStatuses
  BY DEF BeginCheckout, FinishCheckout, PlanStatuses, BillingInv, BillingTypeOK
<1>3. BillingTypeOK'
  BY <1>1, <1>2, BillingTypes DEF BillingInv, BillingTypeOK
<1>4. delivery[r].event = 0
  BY DEF BeginCheckout, FinishCheckout, BillingInv
<1>5. /\ delivery[r].event \in {0, 0} /\ step.event \in {0, 0} /\ (0 # 0 => 0 \in Events)
      /\ \A d \in Events : d # 0 => /\ billingEvent'[d] = billingEvent[d] /\ applied'[d] = applied[d]
                                    /\ excuses'[d] = excuses[d]
  BY <1>1, <1>2, <1>4
<1> QED BY <1>1, <1>3, <1>5, BillingMoves

LEMMA BillingInductive == BillingInv /\ [BillingNext]_billingVars => BillingInv'
<1> SUFFICES ASSUME BillingInv, [BillingNext]_billingVars PROVE BillingInv'
  OBVIOUS
<1>1. CASE UNCHANGED billingVars
  BY <1>1 DEF billingVars, BillingInv, BillingTypeOK, Working, Chance, UnderWay, Duplicate
<1>2. CASE BillingNext
  BY <1>2, BillingSends, BillingBegin, BillingInsert, BillingFind, BillingApply, BillingRecord, BillingFails,
     BillingCheckout DEF BillingNext
<1> QED BY <1>1, <1>2

\* However often and in whatever order events are delivered, an event changes the
\* plan once, and once more at most for each overlap or fault of its deliveries.
THEOREM EventsAreAppliedOnce == BillingSpec => []AppliedOnce
<1>1. BillingInv => AppliedOnce
  <2> SUFFICES ASSUME BillingInv, NEW e \in Events PROVE applied[e] <= 1 + excuses[e]
    BY DEF AppliedOnce
  <2>1. Working(e) \in SUBSET Requests
    BY DEF Working
  <2>2. Cardinality(Working(e)) \in Nat
    BY <2>1, PeopleAssumption, FS_Subset, FS_CardinalityType
  <2>3. Chance(e) \in {0, 1} /\ applied[e] \in Nat /\ excuses[e] \in Nat
    BY BillingAssumption DEF Chance, BillingInv, BillingTypeOK
  <2>4. applied[e] + Cardinality(Working(e)) + Chance(e) <= 1 + excuses[e]
    BY DEF BillingInv
  <2> QED BY <2>2, <2>3, <2>4
<1> QED BY <1>1, BillingInitial, BillingInductive, PTL DEF BillingSpec

----------------------------------------------------------------------------
(* Quotes and invoices.  A request between two of its writes leaves the    *)
(* documents half done.  If another wrote since, it is going to write on   *)
(* an outdated reading (Doomed); otherwise it is the only one (Whole).     *)

At(steps) == {r \in Requests : document[r].at \in steps}
HalfWritten == At({"lines", "totals", "copy", "link"})
Doomed == \E r \in HalfWritten : ~document[r].fresh

HalfDone(r) ==
  LET step == document[r] IN
  /\ step.at \in {"delete", "lines", "totals", "readLines", "number", "invoice"} => step.version # 0
  /\ step.at = "lines" => \E k \in Positions : step.left = {step.version} \X (k .. LineCount)
  /\ step.at \in {"number", "invoice"} => step.lines # {}
  /\ step.at = "invoice" => step.invoice \in 1 .. Len(invoices) + 1
  /\ step.at \in {"copy", "link"} => step.invoice \in DOMAIN invoices
  /\ step.at = "copy" => step.left # {}
  /\ step.at = "link" => invoices[step.invoice].lines # {}

Named == quote.invoice # 0 => quote.invoice \in DOMAIN invoices /\ invoices[quote.invoice].lines # {}
DocShape == DocTypeOK /\ Named /\ \A r \in Requests : HalfDone(r)

Replaces(r) ==
  LET step == document[r] IN
  /\ step.at = "lines" => quoteLines = Lines(step.version) \ step.left
  /\ step.at = "totals" => quoteLines = Lines(step.version)
Converts(r) ==
  LET step == document[r] IN
  step.fresh /\ step.at \in {"readLines", "number", "invoice"} =>
    /\ quote.invoice = 0 /\ step.version = quote.total
    /\ step.at # "readLines" => step.lines = quoteLines
    /\ step.at = "invoice" => step.invoice = Len(invoices) + 1
Copies(r) ==
  LET step == document[r] IN
  step.at \in {"copy", "link"} =>
    /\ quote.invoice = 0 /\ Len(invoices) = 1 /\ step.invoice = 1
    /\ invoices[1].lines \cup (IF step.at = "copy" THEN step.left ELSE {}) = Lines(invoices[1].total)

Whole ==
  /\ \A r, s \in HalfWritten : r = s
  /\ At({"lines", "totals"}) = {} => Agrees(quote, quoteLines)
  /\ At({"copy", "link"}) = {} =>
       /\ quote.invoice = Len(invoices) /\ Len(invoices) <= 1
       /\ Len(invoices) = 1 => Agrees(invoices[1], invoices[1].lines)
  /\ \A r \in Requests : Replaces(r) /\ Converts(r) /\ Copies(r)

DocInv == DocShape /\ (~docOutdated /\ halted = 0 /\ ~Doomed => Whole)

Line == (1 .. MaxVersions) \X Positions
DocumentRows ==
  [at : DocSteps, version : 0 .. MaxVersions, lines : SUBSET Line, left : SUBSET Line,
   invoice : 0 .. MaxInvoices, fresh : BOOLEAN]
InvoiceRows == [total : 1 .. MaxVersions, lines : SUBSET Line]

LEMMA DocTypes ==
  ASSUME DocTypeOK
  PROVE  /\ document \in [Requests -> DocumentRows] /\ invoices \in Seq(InvoiceRows)
         /\ quoteLines \in SUBSET Line /\ DOMAIN invoices = 1 .. Len(invoices) /\ Len(invoices) \in Nat
BY DEF DocTypeOK, DocumentRows, InvoiceRows, Line

LEMMA NoDocumentRow == NoDocument \in DocumentRows /\ NoDocument.at = "idle"
BY DocumentAssumption DEF NoDocument, DocumentRows, DocSteps

LEMMA LinesType == ASSUME NEW v \in 1 .. MaxVersions PROVE Lines(v) \in SUBSET Line /\ Lines(v) # {}
<1>1. <<v, 1>> \in Lines(v)
  BY DocumentAssumption DEF Lines, Positions
<1> QED BY <1>1 DEF Lines, Line

LEMMA DocInitial == DocInit => DocInv
<1> SUFFICES ASSUME DocInit PROVE DocInv
  OBVIOUS
<1>1. 1 \in 1 .. MaxVersions
  BY DocumentAssumption
<1>2. quoteLines \in SUBSET Line /\ invoices \in Seq(InvoiceRows) /\ document \in [Requests -> DocumentRows]
  BY <1>1, LinesType, NoDocumentRow DEF DocInit
<1>3. DocTypeOK
  <2>1. quote \in [converted : BOOLEAN, total : 1 .. MaxVersions, invoice : 0 .. MaxInvoices]
    BY <1>1, DocumentAssumption DEF DocInit
  <2>2. versions \in 1 .. MaxVersions
    BY <1>1, DocumentAssumption DEF DocInit
  <2>3. halted \in 0 .. MaxDocFaults
    BY DocumentAssumption DEF DocInit
  <2>4. docOutdated \in BOOLEAN
    BY DEF DocInit
  <2> QED BY <1>2, <2>1, <2>2, <2>3, <2>4 DEF DocTypeOK, DocumentRows, InvoiceRows, Line
<1>4. \A r \in Requests : document[r].at = "idle"
  BY NoDocumentRow DEF DocInit
<1>5. DocShape
  BY <1>3, <1>4 DEF DocShape, Named, HalfDone, DocInit
<1>6. Whole
  BY <1>4 DEF Whole, At, HalfWritten, Replaces, Converts, Copies, DocInit, Agrees
<1> QED BY <1>5, <1>6 DEF DocInv

\* What the other requests see of a step of request r.
LEMMA OtherDocuments ==
  ASSUME DocTypeOK, NEW r \in Requests, NEW row \in DocumentRows, Goes(r, row) \/ Writes(r, row)
  PROVE  /\ document' \in [Requests -> DocumentRows] /\ document'[r] = row
         /\ \A s \in Requests \ {r} :
              /\ document'[s].at = document[s].at /\ document'[s].version = document[s].version
              /\ document'[s].lines = document[s].lines /\ document'[s].left = document[s].left
              /\ document'[s].invoice = document[s].invoice
              /\ Goes(r, row) => document'[s] = document[s]
              /\ Writes(r, row) => (document'[s].fresh <=> document[s].at = "idle")
<1>1. document \in [Requests -> DocumentRows]
  BY DocTypes
<1>2. CASE Goes(r, row)
  <2>1. Writes(r, row) => \A s \in Requests \ {r} : (document'[s].fresh <=> document[s].at = "idle")
    BY <1>1 DEF Writes, Overwritten, Outdated, DocumentRows
  <2> QED BY <1>1, <1>2, <2>1 DEF Goes
<1>3. CASE Writes(r, row)
  <2>1. document' = [[s \in Requests |-> [document[s] EXCEPT !.fresh = (document[s].at = "idle")]] EXCEPT ![r] = row]
    BY <1>3 DEF Writes, Overwritten, Outdated
  <2>2. \A s \in Requests : [document[s] EXCEPT !.fresh = (document[s].at = "idle")] \in DocumentRows
    BY <1>1 DEF DocumentRows
  <2>3. Goes(r, row) => \A s \in Requests \ {r} : document'[s] = document[s]
    BY <1>1 DEF Goes
  <2> QED BY <1>1, <2>1, <2>2, <2>3 DEF DocumentRows
<1> QED BY <1>2, <1>3

\* Invoices are only added, and lines only added to them.
LEMMA ShapeKept ==
  ASSUME DocShape, NEW r \in Requests, NEW row \in DocumentRows, Goes(r, row) \/ Writes(r, row), HalfDone(r)',
         invoices' \in Seq(InvoiceRows), Len(invoices) <= Len(invoices'),
         \A i \in DOMAIN invoices : invoices[i].lines \subseteq invoices'[i].lines
  PROVE  document' \in [Requests -> DocumentRows] /\ \A s \in Requests : HalfDone(s)'
<1> USE DEF DocShape
<1>1. DOMAIN invoices = 1 .. Len(invoices) /\ DOMAIN invoices' = 1 .. Len(invoices')
      /\ Len(invoices) \in Nat /\ Len(invoices') \in Nat /\ document \in [Requests -> DocumentRows]
  BY DocTypes
<1>2. DOMAIN invoices \subseteq DOMAIN invoices' /\ 1 .. Len(invoices) + 1 \subseteq 1 .. Len(invoices') + 1
  BY <1>1
<1>3. ASSUME NEW s \in Requests \ {r} PROVE HalfDone(s)'
  <2>1. HalfDone(s) /\ document'[s].at = document[s].at /\ document'[s].version = document[s].version
        /\ document'[s].lines = document[s].lines /\ document'[s].left = document[s].left
        /\ document'[s].invoice = document[s].invoice
    BY OtherDocuments
  <2>2. document[s].at = "link" => invoices'[document[s].invoice].lines # {}
    BY <2>1 DEF HalfDone
  <2> QED BY <2>1, <2>2, <1>2 DEF HalfDone
<1> QED BY <1>3, OtherDocuments

\* A step that writes nothing another request looks at keeps the documents
\* whole if it leaves its own request right.
LEMMA WholeKept ==
  ASSUME DocInv, NEW r \in Requests, NEW row \in DocumentRows, Goes(r, row), UNCHANGED docOutdated, halted' = halted,
         UNCHANGED <<quote, quoteLines, invoices>>,
         document[r].at \notin {"lines", "totals", "copy", "link"},
         row.at \notin {"lines", "totals", "copy", "link"},
         (Whole /\ ~Doomed) => Converts(r)'
  PROVE  ~docOutdated' /\ halted' = 0 /\ ~Doomed' => Whole'
<1>1. document' \in [Requests -> DocumentRows] /\ document'[r] = row
      /\ \A s \in Requests \ {r} : document'[s] = document[s]
  BY OtherDocuments DEF DocInv, DocShape
<1>2. HalfWritten' = HalfWritten /\ At({"lines", "totals"})' = At({"lines", "totals"})
      /\ At({"copy", "link"})' = At({"copy", "link"})
  BY <1>1 DEF HalfWritten, At
<1>3. Doomed' <=> Doomed
  BY <1>1, <1>2 DEF Doomed, HalfWritten, At
<1> SUFFICES ASSUME ~docOutdated, halted = 0, ~Doomed PROVE Whole'
  BY <1>3
<1>4. Whole
  BY DEF DocInv
<1>5. ASSUME NEW s \in Requests \ {r} PROVE Replaces(s)' /\ Converts(s)' /\ Copies(s)'
  BY <1>1, <1>4 DEF Whole, Replaces, Converts, Copies
<1>6. Replaces(r)' /\ Copies(r)'
  BY <1>1 DEF Replaces, Copies
<1> QED BY <1>2, <1>4, <1>5, <1>6 DEF Whole

\* A request that writes what is up to date, and dooms nobody, was the only one
\* half-way; the others have to read again.
LEMMA WritesAlone ==
  ASSUME DocInv, NEW r \in Requests, NEW row \in DocumentRows, Writes(r, row), halted' = halted,
         ~docOutdated', halted' = 0, ~Doomed'
  PROVE  /\ document[r].fresh /\ Whole /\ HalfWritten \subseteq {r} /\ HalfWritten' \subseteq {r}
         /\ \A s \in Requests \ {r} : Replaces(s)' /\ Converts(s)' /\ Copies(s)'
<1>1. document' \in [Requests -> DocumentRows] /\ document'[r] = row
      /\ \A s \in Requests \ {r} : document'[s].at = document[s].at /\ (document'[s].fresh <=> document[s].at = "idle")
  BY OtherDocuments DEF DocInv, DocShape
<1>2. document[r].fresh /\ ~docOutdated
  BY DEF Writes
<1>3. \A s \in Requests \ {r} : s \notin HalfWritten' /\ s \notin HalfWritten
  BY <1>1 DEF Doomed, HalfWritten, At
<1>4. ~Doomed
  BY <1>2, <1>3 DEF Doomed, HalfWritten, At
<1>5. Whole
  BY <1>2, <1>4 DEF DocInv
<1>6. ASSUME NEW s \in Requests \ {r} PROVE Replaces(s)' /\ Converts(s)' /\ Copies(s)'
  BY <1>1, <1>3 DEF Replaces, Converts, Copies, HalfWritten, At
<1> QED BY <1>2, <1>3, <1>5, <1>6 DEF HalfWritten, At

\* updateQuote.

LEMMA UpdateBegins == ASSUME DocInv, NEW r \in Requests, BeginUpdate(r) PROVE DocInv'
<1> DEFINE row == [NoDocument EXCEPT !.at = "delete", !.version = versions + 1]
<1>1. versions + 1 \in 1 .. MaxVersions /\ versions + 1 # 0 /\ versions + 1 \in 0 .. MaxVersions
  BY DocumentAssumption DEF BeginUpdate, DocInv, DocShape, DocTypeOK
<1>2. row \in DocumentRows /\ row.at = "delete" /\ row.version # 0 /\ row.fresh
  <2>1. row \in DocumentRows
    BY <1>1, NoDocumentRow DEF DocumentRows, DocSteps
  <2> QED BY <2>1, <1>1 DEF NoDocument
<1>3. Goes(r, row)
  BY DEF BeginUpdate
<1> HIDE DEF row
<1>4. document'[r] = row
  BY <1>2, <1>3, OtherDocuments DEF DocInv, DocShape
<1>5. DocShape'
  <2>1. HalfDone(r)'
    BY <1>2, <1>4 DEF HalfDone
  <2>2. document' \in [Requests -> DocumentRows] /\ \A s \in Requests : HalfDone(s)'
    BY <2>1, <1>2, <1>3, ShapeKept, DocTypes DEF BeginUpdate, DocInv, DocShape
  <2> QED BY <2>2, <1>1 DEF BeginUpdate, DocInv, DocShape, DocTypeOK, DocumentRows, Line, Named
<1>6. Converts(r)'
  BY <1>2, <1>4 DEF Converts
<1>7. document[r].at = "idle"
  BY DEF BeginUpdate
<1> QED BY <1>2, <1>3, <1>5, <1>6, <1>7, WholeKept DEF BeginUpdate, DocInv

LEMMA LinesAreDeleted == ASSUME DocInv, NEW r \in Requests, DeleteLines(r) PROVE DocInv'
<1> DEFINE v == document[r].version
           row == [document[r] EXCEPT !.at = "lines", !.left = Lines(v)]
<1>1. document[r] \in DocumentRows /\ v \in 1 .. MaxVersions
  <2>1. document[r] \in DocumentRows /\ v # 0
    BY DocTypes DEF DeleteLines, DocInv, DocShape, HalfDone
  <2> QED BY <2>1, DocumentAssumption DEF DocumentRows
<1>2. row \in DocumentRows /\ row.at = "lines" /\ row.version = v /\ row.left = Lines(v)
  BY <1>1, LinesType DEF DocumentRows, DocSteps
<1>3. Writes(r, row) /\ quoteLines' = {} /\ UNCHANGED <<quote, invoices, versions, halted>>
  BY DEF DeleteLines
<1> HIDE DEF row, v
<1>4. document'[r] = row
  BY <1>2, <1>3, OtherDocuments DEF DocInv, DocShape
<1>5. DocShape'
  <2>1. HalfDone(r)'
    <3>1. 1 \in Positions /\ Lines(v) = {v} \X (1 .. LineCount)
      BY DocumentAssumption DEF Lines, Positions
    <3> QED BY <3>1, <1>1, <1>2, <1>4, DocumentAssumption DEF HalfDone
  <2>2. document' \in [Requests -> DocumentRows] /\ \A s \in Requests : HalfDone(s)'
    BY <2>1, <1>2, <1>3, ShapeKept, DocTypes DEF DocInv, DocShape
  <2>3. docOutdated' \in BOOLEAN
    BY <1>1 DEF DeleteLines, Writes, DocInv, DocShape, DocTypeOK, DocumentRows
  <2> QED BY <2>2, <2>3, <1>3 DEF DocInv, DocShape, DocTypeOK, DocumentRows, Line, Named
<1>6. ASSUME ~docOutdated', halted' = 0, ~Doomed' PROVE Whole'
  <2>1. HalfWritten' \subseteq {r} /\ Whole /\ HalfWritten \subseteq {r}
        /\ \A s \in Requests \ {r} : Replaces(s)' /\ Converts(s)' /\ Copies(s)'
    BY <1>2, <1>3, <1>6, WritesAlone
  <2>2. r \in At({"lines", "totals"})' /\ document[r].at = "delete"
    BY <1>2, <1>4 DEF At, DeleteLines
  <2>3. Replaces(r)' /\ Converts(r)' /\ Copies(r)'
    BY <1>2, <1>3, <1>4 DEF Replaces, Converts, Copies
  <2>4. At({"copy", "link"}) = {}
    BY <2>1, <2>2 DEF At, HalfWritten
  <2> QED BY <2>1, <2>2, <2>3, <2>4, <1>3 DEF Whole
<1> QED BY <1>5, <1>6 DEF DocInv

LEMMA LineIsInserted == ASSUME DocInv, NEW r \in Requests, InsertLine(r) PROVE DocInv'
<1> DEFINE v == document[r].version
           left == document[r].left
           line == FirstOf(left)
           row == [document[r] EXCEPT !.left = @ \ {line}, !.at = IF left = {line} THEN "totals" ELSE "lines"]
<1>1. document[r] \in DocumentRows /\ document[r].at = "lines" /\ v \in 1 .. MaxVersions /\ LineCount \in Nat
  <2>1. document[r] \in DocumentRows /\ v # 0
    BY DocTypes DEF InsertLine, DocInv, DocShape, HalfDone
  <2> QED BY <2>1, DocumentAssumption DEF DocumentRows, InsertLine
<1>2. PICK k \in Positions : left = {v} \X (k .. LineCount)
  BY <1>1 DEF DocInv, DocShape, HalfDone
<1>3. line = <<v, k>> /\ k \in 1 .. LineCount
  <2>1. k \in 1 .. LineCount /\ <<v, k>> \in left /\ \A other \in left : other[2] \in k .. LineCount /\ other = <<v, other[2]>>
    BY <1>1, <1>2 DEF Positions
  <2>2. \A other \in left : k <= other[2]
    BY <2>1
  <2>3. \E x \in left : \A other \in left : x[2] <= other[2]
    BY <2>1, <2>2
  <2>4. line \in left /\ \A other \in left : line[2] <= other[2]
    BY <2>3 DEF FirstOf
  <2>5. line[2] <= k /\ k <= line[2] /\ line[2] \in k .. LineCount
    BY <2>1, <2>2, <2>4
  <2> QED BY <2>1, <2>4, <2>5
<1>4. left \ {line} = {v} \X (k + 1 .. LineCount)
  BY <1>1, <1>2, <1>3
<1>5. left = {line} <=> k = LineCount
  <2>1. k # LineCount => <<v, LineCount>> \in left /\ <<v, LineCount>> # line
    BY <1>1, <1>2, <1>3
  <2> QED BY <2>1, <1>1, <1>2, <1>3
<1>6. row \in DocumentRows /\ row.version = v /\ row.left = left \ {line}
      /\ row.at = IF left = {line} THEN "totals" ELSE "lines"
  BY <1>1 DEF DocumentRows, DocSteps
<1>7. Writes(r, row) /\ quoteLines' = quoteLines \cup {line} /\ UNCHANGED <<quote, invoices, versions, halted>>
  BY DEF InsertLine
<1> HIDE DEF row
<1>8. document'[r] = row
  BY <1>6, <1>7, OtherDocuments DEF DocInv, DocShape
<1>9. DocShape'
  <2>1. HalfDone(r)'
    <3>1. left # {line} => k + 1 \in Positions
      BY <1>5, <1>3, <1>1 DEF Positions
    <3>2. v # 0
      BY <1>1
    <3> QED BY <3>1, <3>2, <1>4, <1>6, <1>8 DEF HalfDone
  <2>2. document' \in [Requests -> DocumentRows] /\ \A s \in Requests : HalfDone(s)'
    BY <2>1, <1>6, <1>7, ShapeKept, DocTypes DEF DocInv, DocShape
  <2>3. docOutdated' \in BOOLEAN
    BY <1>1 DEF InsertLine, Writes, DocInv, DocShape, DocTypeOK, DocumentRows
  <2>4. line \in Line
    BY <1>1, <1>3 DEF Line, Positions
  <2> QED BY <2>2, <2>3, <2>4, <1>7 DEF DocInv, DocShape, DocTypeOK, DocumentRows, Line, Named
<1>10. ASSUME ~docOutdated', halted' = 0, ~Doomed' PROVE Whole'
  <2>1. HalfWritten' \subseteq {r} /\ Whole /\ HalfWritten \subseteq {r}
        /\ \A s \in Requests \ {r} : Replaces(s)' /\ Converts(s)' /\ Copies(s)'
    BY <1>6, <1>7, <1>10, WritesAlone
  <2>2. r \in At({"lines", "totals"})' /\ At({"copy", "link"}) = {} /\ At({"copy", "link"})' = {}
    BY <2>1, <1>1, <1>6, <1>8 DEF At, HalfWritten
  <2>3. quoteLines = Lines(v) \ left
    BY <2>1, <1>1 DEF Whole, Replaces
  <2>4. line \in Lines(v)
    BY <1>3 DEF Lines, Positions
  <2>5. quoteLines' = Lines(v) \ (left \ {line})
    BY <2>3, <2>4, <1>7
  <2>6. Replaces(r)' /\ Converts(r)' /\ Copies(r)'
    BY <2>5, <1>6, <1>8 DEF Replaces, Converts, Copies
  <2> QED BY <2>1, <2>2, <2>6, <1>7 DEF Whole
<1> QED BY <1>9, <1>10 DEF DocInv

LEMMA TotalsAreWritten == ASSUME DocInv, NEW r \in Requests, WriteTotals(r) PROVE DocInv'
<1> DEFINE v == document[r].version
<1>1. document[r] \in DocumentRows /\ document[r].at = "totals" /\ v \in 1 .. MaxVersions
  <2>1. document[r] \in DocumentRows /\ v # 0
    BY DocTypes DEF WriteTotals, DocInv, DocShape, HalfDone
  <2> QED BY <2>1, DocumentAssumption DEF DocumentRows, WriteTotals
<1>2. /\ Writes(r, NoDocument) /\ UNCHANGED <<quoteLines, invoices, versions, halted>>
      /\ \E converted \in BOOLEAN : quote' = [quote EXCEPT !.total = v, !.converted = converted]
  BY DEF WriteTotals
<1>3. document'[r] = NoDocument
  BY <1>2, NoDocumentRow, OtherDocuments DEF DocInv, DocShape
<1>4. quote' \in [converted : BOOLEAN, total : 1 .. MaxVersions, invoice : 0 .. MaxInvoices]
      /\ quote'.total = v /\ quote'.invoice = quote.invoice
  BY <1>1, <1>2 DEF DocInv, DocShape, DocTypeOK
<1>5. DocShape'
  <2>1. HalfDone(r)'
    BY <1>3, NoDocumentRow DEF HalfDone
  <2>2. document' \in [Requests -> DocumentRows] /\ \A s \in Requests : HalfDone(s)'
    BY <2>1, <1>2, NoDocumentRow, ShapeKept, DocTypes DEF DocInv, DocShape
  <2>3. docOutdated' \in BOOLEAN
    BY <1>1 DEF WriteTotals, Writes, DocInv, DocShape, DocTypeOK, DocumentRows
  <2> QED BY <2>2, <2>3, <1>2, <1>4 DEF DocInv, DocShape, DocTypeOK, DocumentRows, Line, Named
<1>6. ASSUME ~docOutdated', halted' = 0, ~Doomed' PROVE Whole'
  <2>1. HalfWritten' \subseteq {r} /\ Whole /\ HalfWritten \subseteq {r}
        /\ \A s \in Requests \ {r} : Replaces(s)' /\ Converts(s)' /\ Copies(s)'
    BY <1>2, <1>6, NoDocumentRow, WritesAlone
  <2>2. HalfWritten' = {} /\ At({"copy", "link"}) = {}
    BY <2>1, <1>1, <1>3, NoDocumentRow DEF At, HalfWritten
  <2>3. Agrees(quote, quoteLines)'
    BY <2>1, <1>1, <1>2, <1>4 DEF Whole, Replaces, Agrees
  <2>4. Replaces(r)' /\ Converts(r)' /\ Copies(r)'
    BY <1>3, NoDocumentRow DEF Replaces, Converts, Copies
  <2> QED BY <2>1, <2>2, <2>3, <2>4, <1>2, <1>4 DEF Whole
<1> QED BY <1>5, <1>6 DEF DocInv

LEMMA StatusIsSet == ASSUME DocInv, UpdateStatus PROVE DocInv'
<1>1. quote' \in [converted : BOOLEAN, total : 1 .. MaxVersions, invoice : 0 .. MaxInvoices]
      /\ quote'.total = quote.total /\ quote'.invoice = quote.invoice
  BY DEF UpdateStatus, DocInv, DocShape, DocTypeOK
<1>2. UNCHANGED <<quoteLines, invoices, document, versions, halted, docOutdated>>
  BY DEF UpdateStatus
<1>3. DocShape'
  BY <1>1, <1>2 DEF DocInv, DocShape, DocTypeOK, Named, HalfDone
<1>4. Doomed' = Doomed /\ (Whole => Whole')
  BY <1>1, <1>2 DEF Doomed, HalfWritten, At, Whole, Agrees, Replaces, Converts, Copies
<1> QED BY <1>2, <1>3, <1>4 DEF DocInv

\* convertQuoteToInvoice.

\* A step to a row that keeps its shape and writes no table.
LEMMA DocumentMoves ==
  ASSUME DocInv, NEW r \in Requests, NEW row \in DocumentRows, Goes(r, row),
         UNCHANGED <<quote, quoteLines, invoices, versions, halted, docOutdated>>,
         document[r].at \notin {"lines", "totals", "copy", "link"},
         row.at \notin {"lines", "totals", "copy", "link"},
         HalfDone(r)', (Whole /\ ~Doomed) => Converts(r)'
  PROVE  DocInv'
<1>1. document' \in [Requests -> DocumentRows] /\ \A s \in Requests : HalfDone(s)'
  BY ShapeKept, DocTypes DEF DocInv, DocShape
<1>2. DocShape'
  BY <1>1 DEF DocInv, DocShape, DocTypeOK, DocumentRows, Line, Named
<1> QED BY <1>2, WholeKept DEF DocInv

LEMMA ConversionBegins == ASSUME DocInv, NEW r \in Requests, BeginConvert(r) PROVE DocInv'
<1> DEFINE row == [NoDocument EXCEPT !.at = "readLines", !.version = quote.total]
<1>1. quote.total \in 1 .. MaxVersions /\ quote.total \in 0 .. MaxVersions /\ quote.total # 0
  BY DocumentAssumption DEF DocInv, DocShape, DocTypeOK
<1>2. row \in DocumentRows /\ row.at = "readLines" /\ row.version = quote.total
  <2>1. row \in DocumentRows
    BY <1>1, NoDocumentRow DEF DocumentRows, DocSteps
  <2> QED BY <2>1 DEF NoDocument
<1>3. Goes(r, row) /\ quote.invoice = 0 /\ document[r].at = "idle"
      /\ UNCHANGED <<quote, quoteLines, invoices, versions, halted, docOutdated>>
  BY DEF BeginConvert, AlreadyConverted
<1> HIDE DEF row
<1>4. document'[r] = row
  BY <1>2, <1>3, OtherDocuments DEF DocInv, DocShape
<1>5. HalfDone(r)' /\ Converts(r)'
  BY <1>1, <1>2, <1>3, <1>4 DEF HalfDone, Converts
<1> QED BY <1>2, <1>3, <1>5, DocumentMoves

LEMMA LinesAreRead == ASSUME DocInv, NEW r \in Requests, ReadLines(r) PROVE DocInv'
<1> DEFINE row == IF quoteLines = {} THEN NoDocument ELSE [document[r] EXCEPT !.at = "number", !.lines = quoteLines]
<1>1. document[r] \in DocumentRows /\ document[r].version # 0 /\ document[r].at = "readLines" /\ quoteLines \in SUBSET Line
  BY DocTypes DEF ReadLines, DocInv, DocShape, HalfDone
<1>2. Goes(r, row) /\ UNCHANGED <<quote, quoteLines, invoices, versions, halted, docOutdated>>
  BY DEF ReadLines
<1>3. row \in DocumentRows
      /\ \/ row.at = "idle"
         \/ row.at = "number" /\ row.lines = quoteLines /\ quoteLines # {}
            /\ row.version = document[r].version /\ row.fresh = document[r].fresh
  BY <1>1, NoDocumentRow DEF DocumentRows, DocSteps
<1> HIDE DEF row
<1>4. document'[r] = row
  BY <1>2, <1>3, OtherDocuments DEF DocInv, DocShape
<1>5. HalfDone(r)'
  BY <1>1, <1>3, <1>4 DEF HalfDone
<1>6. Whole => Converts(r)'
  BY <1>1, <1>2, <1>3, <1>4 DEF Whole, Converts
<1> QED BY <1>1, <1>2, <1>3, <1>5, <1>6, DocumentMoves

LEMMA NumberIsTaken == ASSUME DocInv, NEW r \in Requests, CountInvoices(r) PROVE DocInv'
<1> DEFINE row == [document[r] EXCEPT !.at = "invoice", !.invoice = Len(invoices) + 1]
<1>1. document[r] \in DocumentRows /\ document[r].version # 0 /\ document[r].at = "number" /\ document[r].lines # {}
      /\ Len(invoices) \in Nat
  BY DocTypes DEF CountInvoices, DocInv, DocShape, HalfDone
<1>2. Goes(r, row) /\ UNCHANGED <<quote, quoteLines, invoices, versions, halted, docOutdated>>
      /\ Len(invoices) + 1 \in 0 .. MaxInvoices
  BY <1>1, DocumentAssumption DEF CountInvoices
<1>3. row \in DocumentRows /\ row.at = "invoice" /\ row.invoice = Len(invoices) + 1
      /\ row.version = document[r].version /\ row.fresh = document[r].fresh /\ row.lines = document[r].lines
  BY <1>1, <1>2 DEF DocumentRows, DocSteps
<1> HIDE DEF row
<1>4. document'[r] = row
  BY <1>2, <1>3, OtherDocuments DEF DocInv, DocShape
<1>5. HalfDone(r)'
  BY <1>1, <1>2, <1>3, <1>4 DEF HalfDone
<1>6. Whole => Converts(r)'
  BY <1>1, <1>2, <1>3, <1>4 DEF Whole, Converts
<1> QED BY <1>1, <1>2, <1>3, <1>5, <1>6, DocumentMoves

LEMMA InvoiceIsInserted == ASSUME DocInv, NEW r \in Requests, InsertInvoice(r) PROVE DocInv'
<1> DEFINE step == document[r]
           row == [step EXCEPT !.at = "copy", !.left = step.lines]
           bill == [total |-> step.version, lines |-> {}]
<1>1. /\ step \in DocumentRows /\ step.at = "invoice" /\ step.version \in 1 .. MaxVersions /\ step.lines # {}
      /\ step.invoice \in 1 .. Len(invoices) + 1
      /\ Len(invoices) \in Nat /\ DOMAIN invoices = 1 .. Len(invoices) /\ invoices \in Seq(InvoiceRows)
  <2>1. step \in DocumentRows /\ step.version # 0 /\ step.at = "invoice" /\ step.lines # {}
        /\ step.invoice \in 1 .. Len(invoices) + 1
    BY DocTypes DEF InsertInvoice, DocInv, DocShape, HalfDone
  <2> QED BY <2>1, DocTypes, DocumentAssumption DEF DocumentRows, DocInv, DocShape
<1>2. CASE step.invoice \in DOMAIN invoices
  <2>1. Goes(r, NoDocument) /\ UNCHANGED <<quote, quoteLines, invoices, versions, halted, docOutdated>>
    BY <1>2 DEF InsertInvoice
  <2>2. document'[r] = NoDocument
    BY <2>1, NoDocumentRow, OtherDocuments DEF DocInv, DocShape
  <2>3. HalfDone(r)' /\ Converts(r)'
    BY <2>2, NoDocumentRow DEF HalfDone, Converts
  <2> QED BY <1>1, <2>1, <2>3, NoDocumentRow, DocumentMoves
<1>3. CASE step.invoice \notin DOMAIN invoices
  <2>1. Writes(r, row) /\ invoices' = Append(invoices, bill) /\ UNCHANGED <<quote, quoteLines, versions, halted>>
    BY <1>3 DEF InsertInvoice
  <2>2. row \in DocumentRows /\ row.at = "copy" /\ row.left = step.lines /\ row.invoice = step.invoice
    BY <1>1 DEF DocumentRows, DocSteps
  <2>3. step.invoice = Len(invoices) + 1 /\ bill \in InvoiceRows
    BY <1>1, <1>3 DEF InvoiceRows
  <2>4. /\ invoices' \in Seq(InvoiceRows) /\ Len(invoices') = Len(invoices) + 1 /\ invoices'[Len(invoices) + 1] = bill
        /\ \A i \in DOMAIN invoices : invoices'[i] = invoices[i]
        /\ DOMAIN invoices' = 1 .. Len(invoices) + 1
    BY <1>1, <2>1, <2>3, AppendProperties
  <2> HIDE DEF row
  <2>5. document'[r] = row
    BY <2>1, <2>2, OtherDocuments DEF DocInv, DocShape
  <2>6. DocShape'
    <3>1. HalfDone(r)'
      BY <1>1, <2>2, <2>3, <2>4, <2>5 DEF HalfDone
    <3>2. document' \in [Requests -> DocumentRows] /\ \A s \in Requests : HalfDone(s)'
      <4>1. Len(invoices) <= Len(invoices') /\ \A i \in DOMAIN invoices : invoices[i].lines \subseteq invoices'[i].lines
        BY <1>1, <2>4
      <4>2. DocShape /\ (Goes(r, row) \/ Writes(r, row))
        BY <2>1 DEF DocInv
      <4> QED BY <2>2, <2>4, <3>1, <4>1, <4>2, ShapeKept
    <3>3. docOutdated' \in BOOLEAN
      BY <1>1, <2>1 DEF Writes, DocInv, DocShape, DocTypeOK, DocumentRows
    <3>4. Named'
      BY <2>1, <2>4, <1>1 DEF Named, DocInv, DocShape
    <3>5. DocTypeOK'
      BY <2>1, <2>4, <3>2, <3>3 DEF DocInv, DocShape, DocTypeOK, DocumentRows, InvoiceRows, Line
    <3> QED BY <3>2, <3>4, <3>5 DEF DocShape
  <2>7. ASSUME ~docOutdated', halted' = 0, ~Doomed' PROVE Whole'
    <3>1. HalfWritten' \subseteq {r} /\ Whole /\ HalfWritten \subseteq {r} /\ step.fresh
          /\ \A s \in Requests \ {r} : Replaces(s)' /\ Converts(s)' /\ Copies(s)'
      BY <2>1, <2>2, <2>7, WritesAlone
    <3>2. HalfWritten = {} /\ At({"lines", "totals"}) = {} /\ At({"copy", "link"}) = {}
      BY <3>1, <1>1 DEF At, HalfWritten
    <3>3. Agrees(quote, quoteLines) /\ quote.invoice = Len(invoices)
          /\ quote.invoice = 0 /\ step.version = quote.total /\ step.lines = quoteLines
      BY <3>1, <3>2, <1>1 DEF Whole, Converts
    <3>4. Len(invoices') = 1 /\ invoices'[1] = bill /\ step.invoice = 1
      <4>1. Len(invoices) = 0
        BY <3>3
      <4> QED BY <4>1, <2>3, <2>4
    <3>5. Replaces(r)' /\ Converts(r)' /\ Copies(r)'
      <4>1. step.lines = Lines(step.version)
        BY <3>3 DEF Agrees
      <4>2. quote'.invoice = 0 /\ invoices'[1].lines = {} /\ invoices'[1].total = step.version
        BY <3>3, <3>4, <2>1
      <4> QED BY <3>4, <4>1, <4>2, <2>2, <2>5 DEF Replaces, Converts, Copies
    <3>6. r \in At({"copy", "link"})'
      BY <2>2, <2>5 DEF At
    <3> QED BY <3>1, <3>3, <3>5, <3>6, <2>1 DEF Whole
  <2> QED BY <2>6, <2>7 DEF DocInv
<1> QED BY <1>2, <1>3

LEMMA LineIsCopied == ASSUME DocInv, NEW r \in Requests, CopyLine(r) PROVE DocInv'
<1> DEFINE step == document[r]
           n == step.invoice
<1>1. /\ step \in DocumentRows /\ step.at = "copy" /\ n \in DOMAIN invoices
      /\ Len(invoices) \in Nat /\ DOMAIN invoices = 1 .. Len(invoices) /\ invoices \in Seq(InvoiceRows)
  BY DocTypes DEF CopyLine, DocInv, DocShape, HalfDone
<1>2. PICK line \in step.left :
        /\ invoices' = [invoices EXCEPT ![n].lines = @ \cup {line}]
        /\ Goes(r, [step EXCEPT !.left = @ \ {line}, !.at = IF step.left = {line} THEN "link" ELSE "copy"])
  BY DEF CopyLine
<1> DEFINE row == [step EXCEPT !.left = @ \ {line}, !.at = IF step.left = {line} THEN "link" ELSE "copy"]
<1>3. /\ row \in DocumentRows /\ row.left = step.left \ {line} /\ row.invoice = n /\ row.fresh = step.fresh
      /\ row.at = (IF step.left = {line} THEN "link" ELSE "copy")
  BY <1>1 DEF DocumentRows, DocSteps
<1>4. Goes(r, row) /\ UNCHANGED <<quote, quoteLines, versions, halted, docOutdated>>
  BY <1>2 DEF CopyLine
<1>5. invoices[n] \in InvoiceRows /\ line \in Line
  BY <1>1 DEF DocumentRows
<1>6. /\ invoices' \in Seq(InvoiceRows) /\ Len(invoices') = Len(invoices) /\ DOMAIN invoices' = DOMAIN invoices
      /\ invoices'[n].lines = invoices[n].lines \cup {line} /\ invoices'[n].total = invoices[n].total
      /\ \A i \in DOMAIN invoices \ {n} : invoices'[i] = invoices[i]
  <2> DEFINE bill == [invoices[n] EXCEPT !.lines = @ \cup {line}]
  <2>1. bill \in InvoiceRows /\ bill.lines = invoices[n].lines \cup {line} /\ bill.total = invoices[n].total
    BY <1>5 DEF InvoiceRows
  <2>2. invoices' = [invoices EXCEPT ![n] = bill]
    BY <1>2
  <2> HIDE DEF bill
  <2> QED BY <1>1, <2>1, <2>2
<1> HIDE DEF row
<1>7. /\ document' \in [Requests -> DocumentRows] /\ document'[r] = row
      /\ \A s \in Requests \ {r} : document'[s] = document[s]
  BY <1>3, <1>4, OtherDocuments DEF DocInv, DocShape
<1>8. DocShape'
  <2>1. HalfDone(r)'
    <3>1. step.left \ {line} # {} \/ step.left = {line}
      BY <1>2
    <3> QED BY <3>1, <1>1, <1>3, <1>6, <1>7 DEF HalfDone
  <2>2. document' \in [Requests -> DocumentRows] /\ \A s \in Requests : HalfDone(s)'
    <3>1. Len(invoices) <= Len(invoices') /\ \A i \in DOMAIN invoices : invoices[i].lines \subseteq invoices'[i].lines
      BY <1>1, <1>6
    <3>2. DocShape /\ (Goes(r, row) \/ Writes(r, row))
      BY <1>4 DEF DocInv
    <3> QED BY <1>3, <1>6, <2>1, <3>1, <3>2, ShapeKept
  <2>3. Named'
    BY <1>4, <1>6 DEF Named, DocInv, DocShape
  <2> QED BY <2>2, <2>3, <1>4, <1>6 DEF DocInv, DocShape, DocTypeOK, DocumentRows, InvoiceRows, Line
<1>9. HalfWritten' = HalfWritten /\ (Doomed' <=> Doomed) /\ r \in At({"copy", "link"})' /\ r \in HalfWritten
      /\ At({"lines", "totals"})' = At({"lines", "totals"})
  <2>1. row.at \in {"copy", "link"}
    BY <1>3
  <2>2. HalfWritten' = HalfWritten /\ r \in At({"copy", "link"})' /\ r \in HalfWritten
        /\ At({"lines", "totals"})' = At({"lines", "totals"})
    BY <1>1, <1>7, <2>1 DEF HalfWritten, At
  <2> QED BY <1>1, <1>3, <1>7, <2>2 DEF Doomed, HalfWritten, At
<1>10. ASSUME ~docOutdated', halted' = 0, ~Doomed' PROVE Whole'
  <2>1. Whole
    BY <1>4, <1>9, <1>10 DEF DocInv
  <2>2. \A s \in Requests \ {r} : document[s].at \notin {"lines", "totals", "copy", "link"}
    BY <2>1, <1>9 DEF Whole, HalfWritten, At
  <2>3. \A s \in Requests \ {r} : Replaces(s)' /\ Converts(s)' /\ Copies(s)'
    BY <2>1, <2>2, <1>4, <1>6, <1>7 DEF Whole, Replaces, Converts, Copies
  <2>4. Copies(r)'
    <3>1. quote.invoice = 0 /\ Len(invoices) = 1 /\ n = 1 /\ invoices[1].lines \cup step.left = Lines(invoices[1].total)
      BY <2>1, <1>1 DEF Whole, Copies
    <3>2. invoices'[1].lines = invoices[1].lines \cup {line} /\ invoices'[1].total = invoices[1].total
      BY <3>1, <1>6
    <3>3. row.at = "link" => step.left = {line}
      BY <1>3
    <3> QED BY <3>1, <3>2, <3>3, <1>2, <1>3, <1>4, <1>6, <1>7 DEF Copies
  <2>5. Replaces(r)' /\ Converts(r)'
    BY <1>3, <1>7 DEF Replaces, Converts
  <2> QED BY <2>1, <2>3, <2>4, <2>5, <1>4, <1>9 DEF Whole
<1> QED BY <1>8, <1>10 DEF DocInv

LEMMA InvoiceIsLinked == ASSUME DocInv, NEW r \in Requests, LinkInvoice(r) PROVE DocInv'
<1> DEFINE n == document[r].invoice
<1>1. /\ document[r] \in DocumentRows /\ document[r].at = "link" /\ n \in DOMAIN invoices /\ n \in 0 .. MaxInvoices
      /\ invoices[n].lines # {}
  BY DocTypes DEF LinkInvoice, DocInv, DocShape, HalfDone, DocumentRows
<1>2. /\ Writes(r, NoDocument) /\ UNCHANGED <<quoteLines, invoices, versions, halted>>
      /\ quote' = [quote EXCEPT !.converted = TRUE, !.invoice = n]
  BY DEF LinkInvoice
<1>3. document'[r] = NoDocument
  BY <1>2, NoDocumentRow, OtherDocuments DEF DocInv, DocShape
<1>4. quote' \in [converted : BOOLEAN, total : 1 .. MaxVersions, invoice : 0 .. MaxInvoices]
      /\ quote'.total = quote.total /\ quote'.invoice = n
  BY <1>1, <1>2 DEF DocInv, DocShape, DocTypeOK
<1>5. DocShape'
  <2>1. HalfDone(r)'
    BY <1>3, NoDocumentRow DEF HalfDone
  <2>2. document' \in [Requests -> DocumentRows] /\ \A s \in Requests : HalfDone(s)'
    BY <2>1, <1>2, NoDocumentRow, ShapeKept, DocTypes DEF DocInv, DocShape
  <2>3. docOutdated' \in BOOLEAN
    BY <1>1 DEF LinkInvoice, Writes, DocInv, DocShape, DocTypeOK, DocumentRows
  <2>4. Named'
    BY <1>1, <1>2, <1>4 DEF Named
  <2> QED BY <2>2, <2>3, <2>4, <1>2, <1>4 DEF DocInv, DocShape, DocTypeOK, DocumentRows, Line
<1>6. ASSUME ~docOutdated', halted' = 0, ~Doomed' PROVE Whole'
  <2>1. HalfWritten' \subseteq {r} /\ Whole /\ HalfWritten \subseteq {r}
        /\ \A s \in Requests \ {r} : Replaces(s)' /\ Converts(s)' /\ Copies(s)'
    BY <1>2, <1>6, NoDocumentRow, WritesAlone
  <2>2. HalfWritten' = {} /\ At({"lines", "totals"}) = {}
    BY <2>1, <1>1, <1>3, NoDocumentRow DEF At, HalfWritten
  <2>3. Agrees(quote, quoteLines)'
    BY <2>1, <2>2, <1>2, <1>4 DEF Whole, Agrees
  <2>4. Len(invoices) = 1 /\ n = 1 /\ Agrees(invoices[1], invoices[1].lines)
    BY <2>1, <1>1 DEF Whole, Copies, Agrees
  <2>5. Replaces(r)' /\ Converts(r)' /\ Copies(r)'
    BY <1>3, NoDocumentRow DEF Replaces, Converts, Copies
  <2>6. quote'.invoice = Len(invoices') /\ Len(invoices') <= 1 /\ Agrees(invoices[1], invoices[1].lines)'
    <3>1. invoices' = invoices
      BY <1>2
    <3>2. Len(invoices') = 1 /\ quote'.invoice = 1
      BY <3>1, <2>4, <1>4
    <3>3. Agrees(invoices[1], invoices[1].lines)'
      BY <3>1, <2>4 DEF Agrees
    <3> QED BY <3>1, <3>2, <3>3
  <2>7. \A s \in Requests : Replaces(s)' /\ Converts(s)' /\ Copies(s)'
    BY <2>1, <2>5
  <2>8. \A s, t \in HalfWritten' : s = t
    BY <2>2
  <2> QED BY <2>3, <2>6, <2>7, <2>8 DEF Whole
<1> QED BY <1>5, <1>6 DEF DocInv

LEMMA RequestStops == ASSUME DocInv, NEW r \in Requests, StopsHalfWay(r) PROVE DocInv'
<1>1. Goes(r, NoDocument) /\ UNCHANGED <<quote, quoteLines, invoices, versions, docOutdated>>
      /\ halted' = halted + 1 /\ halted' \in 0 .. MaxDocFaults /\ halted' # 0
  BY DocumentAssumption DEF StopsHalfWay, DocInv, DocShape, DocTypeOK
<1>2. HalfDone(r)'
  BY <1>1, NoDocumentRow, OtherDocuments DEF HalfDone, DocInv, DocShape
<1>3. document' \in [Requests -> DocumentRows] /\ \A s \in Requests : HalfDone(s)'
  BY <1>1, <1>2, NoDocumentRow, ShapeKept, DocTypes DEF DocInv, DocShape
<1>4. DocShape'
  BY <1>1, <1>3 DEF DocInv, DocShape, DocTypeOK, DocumentRows, Line, Named
<1> QED BY <1>1, <1>4 DEF DocInv

LEMMA DocInductive == DocInv /\ [DocNext]_docVars => DocInv'
<1> SUFFICES ASSUME DocInv, [DocNext]_docVars PROVE DocInv'
  OBVIOUS
<1>1. CASE UpdateStatus
  BY <1>1, StatusIsSet
<1>2. CASE \E r \in Requests :
             \/ BeginUpdate(r) \/ DeleteLines(r) \/ InsertLine(r) \/ WriteTotals(r)
             \/ BeginConvert(r) \/ ReadLines(r) \/ CountInvoices(r) \/ InsertInvoice(r)
             \/ CopyLine(r) \/ LinkInvoice(r) \/ StopsHalfWay(r)
  BY <1>2, UpdateBegins, LinesAreDeleted, LineIsInserted, TotalsAreWritten, ConversionBegins, LinesAreRead,
     NumberIsTaken, InvoiceIsInserted, LineIsCopied, InvoiceIsLinked, RequestStops
<1>3. CASE UNCHANGED docVars
  BY <1>3 DEF docVars, DocInv, DocShape, DocTypeOK, Named, HalfDone, Doomed, HalfWritten, At, Whole, Agrees,
              Replaces, Converts, Copies
<1> QED BY <1>1, <1>2, <1>3 DEF DocNext

\* Unless requests overlapped or stopped half way, a quote at rest has at most one
\* invoice, which it names, and both have the lines and the total of one version;
\* an invoice that a quote names has lines whatever happened (updateQuote and
\* convertQuoteToInvoice).
THEOREM InvoicesStayWhole == DocSpec => []InvoicesAreWhole
<1>1. DocInv => InvoicesAreWhole
  <2> SUFFICES ASSUME DocInv PROVE InvoicesAreWhole
    OBVIOUS
  <2>1. Named
    BY DEF DocInv, DocShape
  <2>2. ASSUME ~docOutdated, halted = 0, AtRest(document)
        PROVE  /\ Len(invoices) <= 1 /\ quote.invoice = Len(invoices) /\ Agrees(quote, quoteLines)
               /\ \A i \in DOMAIN invoices : Agrees(invoices[i], invoices[i].lines)
    <3>1. HalfWritten = {} /\ At({"lines", "totals"}) = {} /\ At({"copy", "link"}) = {}
      BY <2>2 DEF AtRest, HalfWritten, At
    <3>2. Whole
      BY <2>2, <3>1 DEF DocInv, Doomed
    <3>3. DOMAIN invoices = 1 .. Len(invoices) /\ Len(invoices) \in Nat
      BY DocTypes DEF DocInv, DocShape
    <3> QED BY <3>1, <3>2, <3>3 DEF Whole
  <2> QED BY <2>1, <2>2 DEF InvoicesAreWhole, Named
<1> QED BY <1>1, DocInitial, DocInductive, PTL DEF DocSpec

----------------------------------------------------------------------------
(* The office as a whole.                                                   *)

\* One area moves: each module takes a step of its own or none.
LEMMA OfficeSteps ==
  [OfficeNext]_officeVars =>
    /\ [DualNext]_dualVars /\ [PrivacyNext]_privacyVars /\ [BillingNext]_billingVars /\ [DocNext]_docVars
    /\ [StockNext]_stockVars /\ [NumberingNext]_numberingVars /\ [ElevationNext]_elevationVars
    /\ [FactorNext]_factorVars /\ [DevicesNext]_deviceVars
<1> SUFFICES ASSUME [OfficeNext]_officeVars
             PROVE  /\ [DualNext]_dualVars /\ [PrivacyNext]_privacyVars /\ [BillingNext]_billingVars /\ [DocNext]_docVars
                    /\ [StockNext]_stockVars /\ [NumberingNext]_numberingVars /\ [ElevationNext]_elevationVars
                    /\ [FactorNext]_factorVars /\ [DevicesNext]_deviceVars
  OBVIOUS
<1>1. CASE UNCHANGED officeVars
  BY <1>1 DEF officeVars
<1>2. CASE OfficeNext
  BY <1>2 DEF OfficeNext, Still
<1> QED BY <1>1, <1>2

\* What is checked as one instance runs every module by its own specification: the
\* theorems about each of them hold of all the handlers of the back office together.
THEOREM OfficeRunsItsModules ==
  OfficeSpec =>
    /\ DualSpec /\ PrivacySpec /\ BillingSpec /\ DocSpec
    /\ StockSpec /\ NumberingSpec /\ ElevationSpec /\ FactorSpec /\ DevicesSpec
<1>1. OfficeInit => /\ DualInit /\ PrivacyInit /\ BillingInit /\ DocInit
                    /\ StockInit /\ NumberingInit /\ ElevationInit /\ FactorInit /\ DevicesInit
  BY DEF OfficeInit
<1> QED BY <1>1, OfficeSteps, PTL
        DEF OfficeSpec, DualSpec, PrivacySpec, BillingSpec, DocSpec, StockSpec, NumberingSpec, ElevationSpec,
            FactorSpec, DevicesSpec

\* Every statement of every handler of the back office writes values of the types of
\* its columns, and leaves its request where the next statement expects it.
THEOREM OfficeTypesHold == OfficeSpec => []OfficeTypeOK
<1>1. /\ DualInv => DualTypeOK
      /\ PrivacyInv => PrivacyTypeOK
      /\ BillingInv => BillingTypeOK
      /\ DocInv => DocTypeOK
      /\ StockInv => StockTypeOK
      /\ NumberingInv => NumberingTypeOK
      /\ ElevationInv => ElevationTypeOK
      /\ FactorInv => FactorTypeOK
      /\ DevicesInv => DevicesTypeOK
  BY DEF DualInv, PrivacyInv, BillingInv, DocInv, DocShape, StockInv, NumberingInv, ElevationInv, FactorInv, DevicesInv
<1>2. DualSpec => []DualInv
  BY DualInitial, DualInductive, PTL DEF DualSpec
<1>3. PrivacySpec => []PrivacyInv
  BY PrivacyInitial, PrivacyInductive, PTL DEF PrivacySpec
<1>4. BillingSpec => []BillingInv
  BY BillingInitial, BillingInductive, PTL DEF BillingSpec
<1>5. DocSpec => []DocInv
  BY DocInitial, DocInductive, PTL DEF DocSpec
<1>6. StockSpec => []StockInv
  BY StockInitial, StockInductive, PTL DEF StockSpec
<1>7. NumberingSpec => []NumberingInv
  BY NumberingInitial, NumberingInductive, PTL DEF NumberingSpec
<1>8. ElevationSpec => []ElevationInv
  BY ElevationInitial, ElevationInductive, PTL DEF ElevationSpec
<1>9. FactorSpec => []FactorInv
  BY FactorInitial, FactorInductive, PTL DEF FactorSpec
<1>10. DevicesSpec => []DevicesInv
  BY DevicesInitial, DevicesInductive, PTL DEF DevicesSpec
<1>11. OfficeSpec => [](area \in Areas)
  <2>1. OfficeInit => area \in Areas
    BY DEF OfficeInit
  <2>2. area \in Areas /\ [OfficeNext]_officeVars => (area \in Areas)'
    BY DEF OfficeNext, Still, officeVars
  <2> QED BY <2>1, <2>2, PTL DEF OfficeSpec
<1>12. area \in Areas /\ DualTypeOK /\ PrivacyTypeOK /\ BillingTypeOK /\ DocTypeOK /\ StockTypeOK
         /\ NumberingTypeOK /\ ElevationTypeOK /\ FactorTypeOK /\ DevicesTypeOK => OfficeTypeOK
  BY DEF OfficeTypeOK
<1> QED BY <1>1, <1>2, <1>3, <1>4, <1>5, <1>6, <1>7, <1>8, <1>9, <1>10, <1>11, <1>12, OfficeRunsItsModules, PTL

============================================================================
