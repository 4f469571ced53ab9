------------------------- MODULE EmailPolicyProofs -------------------------
(***************************************************************************)
(* An unsubscribe is honoured, for any number of concurrent requests.      *)
(*                                                                         *)
(* What makes the property inductive is what stands between the reads of   *)
(* enqueue and its insert: only a resubscribe empties the suppression, so  *)
(* as long as none has begun since (NoneBegun), a recipient who had opted  *)
(* out stays suppressed (StaysSuppressed) and what enqueue has read says   *)
(* so.                                                                     *)
(***************************************************************************)
EXTENDS EmailPolicy, TLAPS

\* A resubscribe that begins releases what is owed to the recipient.
NoneBegun ==
  \A c \in Callers : request[c].op = "resubscribe" =>
    ~optedOut /\ \A d \in Callers : ~owed[d]

\* Suppressed is what was suppressed, and has been read as such.
StaysSuppressed ==
  /\ optedOut => reason # "NONE"
  /\ \A c \in Callers : owed[c] =>
       /\ request[c].op = "enqueue" => reason # "NONE" /\ (pc[c] > 1 => reasonRead[c] # "NONE")
       /\ At(c, "unsubscribe", 2) => reason # "NONE"

Inv == TypeOK /\ NoneBegun /\ StaysSuppressed /\ OptOutHonoured

LEMMA OpOfRequest ==
  ASSUME NEW r \in Requests
  PROVE  r.op # "none"
BY DEF Requests, NoRequest

LEMMA InitTypeOK == Init => TypeOK
<1> SUFFICES ASSUME Init PROVE TypeOK
  OBVIOUS
<1>1. prefs \in Prefs
  BY DEF Init, Prefs
<1>2. owed \in [Callers -> BOOLEAN]
  BY DEF Init
<1>3. reason \in Reasons /\ reasonRead \in [Callers -> Reasons]
  BY DEF Init, Reasons
<1>4. request \in [Callers -> Requests \cup {NoRequest}] /\ pc \in [Callers -> 0 .. 3]
  BY DEF Init
<1>5. prefsRead \in [Callers -> Prefs]
  BY <1>1 DEF Init
<1>6. made \in 0 .. MaxRequests
  BY PolicyAssumption DEF Init
<1>7. optedOut \in BOOLEAN
  BY DEF Init
<1> QED BY <1>1, <1>2, <1>3, <1>4, <1>5, <1>6, <1>7 DEF Init, TypeOK

----------------------------------------------------------------------------

\* The columns and the requests keep their types: no statement of enqueue,
\* of the recipient's requests or of the provider's event writes another value.
THEOREM TypeCorrect == Spec => []TypeOK
<1>1. TypeOK /\ [Next]_vars => TypeOK'
  <2> SUFFICES ASSUME TypeOK, [Next]_vars PROVE TypeOK'
    OBVIOUS
  <2> USE DEF TypeOK
  <2>1. ASSUME NEW c \in Callers, NEW r \in Requests, Begin(c, r) PROVE TypeOK'
    BY <2>1, PolicyAssumption DEF Begin, tables, Unopposed
  <2>2. ASSUME NEW c \in Callers, ReadSuppression(c) PROVE TypeOK'
    BY <2>2 DEF ReadSuppression, At, Proceed, tables
  <2>3. ASSUME NEW c \in Callers, ReadPreferences(c) PROVE TypeOK'
    BY <2>3 DEF ReadPreferences, At, Proceed, tables
  <2>4. ASSUME NEW c \in Callers, InsertMail(c) PROVE TypeOK'
    BY <2>4 DEF InsertMail, At, Finish, tables, StatusOf, Statuses
  <2>5. ASSUME NEW c \in Callers, WritePreferences(c) PROVE TypeOK'
    <3>1. request[c].field \in Fields /\ request[c].to \in BOOLEAN
      BY <2>5 DEF WritePreferences, At, Requests, NoRequest
    <3>2. prefs' \in Prefs
      <4>1. prefsRead[c] \in Prefs /\ prefs' = [prefsRead[c] EXCEPT ![request[c].field] = request[c].to]
        BY <2>5 DEF WritePreferences
      <4> QED BY <4>1, <3>1 DEF Prefs, Fields
    <3> QED BY <2>5, <3>2 DEF WritePreferences, At, Finish
  <2>6. ASSUME NEW c \in Callers, UnsubscribeAddress(c) PROVE TypeOK'
    BY <2>6 DEF UnsubscribeAddress, At, Proceed, Reasons
  <2>7. ASSUME NEW c \in Callers, UnsubscribeUser(c) PROVE TypeOK'
    <3>1. prefs' \in Prefs
      BY <2>7 DEF UnsubscribeUser, Prefs
    <3>2. optedOut' \in BOOLEAN
      BY <2>7 DEF UnsubscribeUser
    <3> QED BY <2>7, <3>1, <3>2 DEF UnsubscribeUser, At, Finish
  <2>8. ASSUME NEW c \in Callers, ResubscribeUser(c) PROVE TypeOK'
    <3>1. prefs' \in Prefs
      BY <2>8 DEF ResubscribeUser, Prefs
    <3> QED BY <2>8, <3>1 DEF ResubscribeUser, At, Proceed
  <2>9. ASSUME NEW c \in Callers, ResubscribeAddress(c) PROVE TypeOK'
    BY <2>9 DEF ResubscribeAddress, At, Finish, Reasons
  <2>10. ASSUME ProviderReports PROVE TypeOK'
    BY <2>10 DEF ProviderReports, calls, Reasons
  <2>11. ASSUME UNCHANGED vars PROVE TypeOK'
    BY <2>11 DEF vars, tables, calls, history
  <2> QED BY <2>1, <2>2, <2>3, <2>4, <2>5, <2>6, <2>7, <2>8, <2>9, <2>10, <2>11 DEF Next, Step
<1> QED BY InitTypeOK, <1>1, PTL DEF Spec

----------------------------------------------------------------------------

LEMMA InvInit == Init => Inv
<1> SUFFICES ASSUME Init PROVE Inv
  OBVIOUS
<1> QED BY InitTypeOK DEF Init, Inv, NoneBegun, StaysSuppressed, OptOutHonoured, At, NoRequest

LEMMA InvNext == Inv /\ TypeOK' /\ [Next]_vars => Inv'
<1> SUFFICES ASSUME Inv, TypeOK', [Next]_vars PROVE NoneBegun' /\ StaysSuppressed' /\ OptOutHonoured'
  BY DEF Inv
<1> USE DEF Inv, TypeOK
<1>1. ASSUME NEW c \in Callers, NEW r \in Requests, Begin(c, r) PROVE NoneBegun' /\ StaysSuppressed' /\ OptOutHonoured'
  <2>1. NoneBegun'
    BY <1>1, OpOfRequest DEF Begin, NoneBegun, Unopposed, NoRequest
  <2>2. StaysSuppressed'
    BY <1>1, OpOfRequest DEF Begin, StaysSuppressed, At, Unopposed, tables
  <2>3. OptOutHonoured'
    BY <1>1 DEF Begin, OptOutHonoured
  <2> QED BY <2>1, <2>2, <2>3
<1>2. ASSUME NEW c \in Callers, ReadSuppression(c) PROVE NoneBegun' /\ StaysSuppressed' /\ OptOutHonoured'
  BY <1>2 DEF ReadSuppression, At, Proceed, tables, NoneBegun, StaysSuppressed, OptOutHonoured
<1>3. ASSUME NEW c \in Callers, ReadPreferences(c) PROVE NoneBegun' /\ StaysSuppressed' /\ OptOutHonoured'
  BY <1>3 DEF ReadPreferences, At, Proceed, tables, NoneBegun, StaysSuppressed, OptOutHonoured
<1>4. ASSUME NEW c \in Callers, InsertMail(c) PROVE NoneBegun' /\ StaysSuppressed' /\ OptOutHonoured'
  <2>1. NoneBegun' /\ StaysSuppressed'
    BY <1>4 DEF InsertMail, At, Finish, tables, NoneBegun, StaysSuppressed, NoRequest
  <2>2. OptOutHonoured'
    BY <1>4 DEF InsertMail, At, StatusOf, Blocked, StaysSuppressed, OptOutHonoured
  <2> QED BY <2>1, <2>2
<1>5. ASSUME NEW c \in Callers, WritePreferences(c) PROVE NoneBegun' /\ StaysSuppressed' /\ OptOutHonoured'
  BY <1>5 DEF WritePreferences, At, Finish, NoneBegun, StaysSuppressed, OptOutHonoured, NoRequest
<1>6. ASSUME NEW c \in Callers, UnsubscribeAddress(c) PROVE NoneBegun' /\ StaysSuppressed' /\ OptOutHonoured'
  BY <1>6 DEF UnsubscribeAddress, At, Proceed, NoneBegun, StaysSuppressed, OptOutHonoured
<1>7. ASSUME NEW c \in Callers, UnsubscribeUser(c) PROVE NoneBegun' /\ StaysSuppressed' /\ OptOutHonoured'
  BY <1>7 DEF UnsubscribeUser, At, Finish, NoneBegun, StaysSuppressed, OptOutHonoured, NoRequest
<1>8. ASSUME NEW c \in Callers, ResubscribeUser(c) PROVE NoneBegun' /\ StaysSuppressed' /\ OptOutHonoured'
  BY <1>8 DEF ResubscribeUser, At, Proceed, NoneBegun, StaysSuppressed, OptOutHonoured
<1>9. ASSUME NEW c \in Callers, ResubscribeAddress(c) PROVE NoneBegun' /\ StaysSuppressed' /\ OptOutHonoured'
  BY <1>9 DEF ResubscribeAddress, At, Finish, NoneBegun, StaysSuppressed, OptOutHonoured, NoRequest
<1>10. ASSUME ProviderReports PROVE NoneBegun' /\ StaysSuppressed' /\ OptOutHonoured'
  BY <1>10 DEF ProviderReports, calls, NoneBegun, StaysSuppressed, OptOutHonoured, At
<1>11. ASSUME UNCHANGED vars PROVE NoneBegun' /\ StaysSuppressed' /\ OptOutHonoured'
  BY <1>11 DEF vars, tables, calls, history, NoneBegun, StaysSuppressed, OptOutHonoured, At
<1> QED BY <1>1, <1>2, <1>3, <1>4, <1>5, <1>6, <1>7, <1>8, <1>9, <1>10, <1>11 DEF Next, Step

\* An optional mail enqueued after an unsubscribe is suppressed, however the
\* recipient's requests, the provider's events and enqueue interleave.
THEOREM UnsubscribeHolds == Spec => []OptOutHonoured
<1>1. Inv => OptOutHonoured
  BY DEF Inv
<1> QED BY TypeCorrect, InvInit, InvNext, <1>1, PTL DEF Spec

============================================================================
