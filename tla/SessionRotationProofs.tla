----------------------- MODULE SessionRotationProofs -----------------------
(***************************************************************************)
(* Rotation implements the ledger of tokens, for any number of sessions,   *)
(* requests and tokens.                                                    *)
(*                                                                         *)
(* The invariant says who can hold a token: no two sessions hold the same  *)
(* one, only issued ones are held, a session that was never created holds  *)
(* none (Held), and a token that was exchanged is held by nobody (Spent).  *)
(* The condition of rotate names the token, so a spent one matches no row. *)
(*                                                                         *)
(* The limit on active sessions rests on the order by lastSeenAt (InOrder) *)
(* and on what the trims under way are about to revoke (Trimmed).          *)
(***************************************************************************)
EXTENDS SessionRotation, FiniteSetTheorems, TLAPS

\* A refresh presents a token, and what is trimmed or answered for has one.
CallOK ==
  \A c \in Callers :
    /\ call[c].at \in {"find", "rotate", "record", "lookup", "family"} => call[c].presented \in Tokens
    /\ call[c].at \in {"record", "trim", "trimWrite"} => call[c].own \in Sessions /\ token[call[c].own] # 0

Held ==
  /\ \A s \in Sessions : token[s] <= issued
  /\ \A s \in Sessions : status[s] = "none" => token[s] = 0 /\ s \notin expired
  /\ \A s, r \in Sessions : s # r /\ token[s] = token[r] => token[s] = 0

Spent ==
  \A p \in exchanged : p[1] # 0 /\ p[1] <= issued /\ \A s \in Sessions : token[s] # p[1]

Inv == TypeOK /\ CallOK /\ Held /\ Spent /\ ExchangedOnce

----------------------------------------------------------------------------
(* What the operators return.                                               *)

LEMMA RevokedType ==
  ASSUME TypeOK, NEW S
  PROVE  /\ Revoked(S) \in [Sessions -> RowStates]
         /\ \A s \in Sessions : Revoked(S)[s] = "active" => status[s] = "active"
         /\ \A s \in Sessions : status[s] # "active" => Revoked(S)[s] = status[s]
         /\ \A s \in Sessions : status[s] = "active" => Revoked(S)[s] \in {"active", "revoked"}
BY DEF Revoked, TypeOK, RowStates

LEMMA SeenType ==
  ASSUME TypeOK, NEW s
  PROVE  Seen(s) \in [Sessions -> Nat]
<1>1. ASSUME NEW r \in Sessions
      PROVE  (IF r = s THEN 0 ELSE IF age[r] < age[s] THEN age[r] + 1 ELSE age[r]) \in Nat
  BY DEF TypeOK
<1> QED BY <1>1 DEF Seen

LEMMA IdleType == Idle \in Calls
BY RotationAssumption DEF Idle, Nothing, Calls, Steps

LEMMA GoesType ==
  ASSUME TypeOK, NEW c \in Callers, NEW from, NEW to \in Steps, Goes(c, from, to)
  PROVE  call' \in [Callers -> Calls]
BY DEF TypeOK, Goes, Calls

LEMMA EndsType ==
  ASSUME TypeOK, NEW c \in Callers, NEW from, Ends(c, from)
  PROVE  call' \in [Callers -> Calls]
BY IdleType DEF TypeOK, Ends

LEMMA OwnType ==
  ASSUME TypeOK, NEW c \in Callers, NEW to \in Steps, NEW s \in Sessions,
         call' = [call EXCEPT ![c].at = to, ![c].own = s]
  PROVE  call' \in [Callers -> Calls]
<1> DEFINE k == [call[c] EXCEPT !.at = to, !.own = s]
<1>1. call[c] \in Calls
  BY DEF TypeOK
<1>2. k \in Calls
  BY <1>1 DEF Calls
<1>3. call' = [call EXCEPT ![c] = k]
  BY DEF TypeOK
<1> QED BY <1>2, <1>3 DEF TypeOK

LEMMA StaleType ==
  ASSUME TypeOK, NEW c \in Callers, NEW to \in Steps, NEW S \in SUBSET Sessions,
         call' = [call EXCEPT ![c].at = to, ![c].stale = S]
  PROVE  call' \in [Callers -> Calls]
<1> DEFINE k == [call[c] EXCEPT !.at = to, !.stale = S]
<1>1. call[c] \in Calls
  BY DEF TypeOK
<1>2. k \in Calls
  BY <1>1 DEF Calls
<1>3. call' = [call EXCEPT ![c] = k]
  BY DEF TypeOK
<1> QED BY <1>2, <1>3 DEF TypeOK

----------------------------------------------------------------------------
(* Types.                                                                   *)

LEMMA InitTypeOK == Init => TypeOK
<1> SUFFICES ASSUME Init PROVE TypeOK
  OBVIOUS
<1>1. status \in [Sessions -> RowStates]
  BY DEF Init, RowStates
<1>2. age \in [Sessions -> Nat]
  BY RotationAssumption, FS_CardinalityType DEF Init
<1>3. call \in [Callers -> Calls]
  BY IdleType DEF Init
<1> QED BY <1>1, <1>2, <1>3, RotationAssumption DEF Init, TypeOK, Tokens

LEMMA TypeStep == TypeOK /\ CallOK /\ [Next]_vars => TypeOK'
<1> SUFFICES ASSUME TypeOK, CallOK, [Next]_vars PROVE TypeOK'
  OBVIOUS
<1>1. ASSUME NEW c \in Callers, BeginLogin(c) PROVE TypeOK'
  <2>1. call' \in [Callers -> Calls]
    BY <1>1, GoesType DEF BeginLogin, Steps
  <2> QED BY <1>1, <2>1 DEF BeginLogin, TypeOK, rows
<1>2. ASSUME NEW c \in Callers, BeginRefresh(c) PROVE TypeOK'
  <2>1. PICK t \in known :
          call' = [call EXCEPT ![c] = [Idle EXCEPT
            !.at = "find", !.presented = t,
            !.began = [sessions |-> {s \in Sessions : status[s] = "active"},
                       rotated |-> \E u \in Tokens : <<t, u>> \in exchanged,
                       recorded |-> t \in tokenHistory]]]
    BY <1>2 DEF BeginRefresh
  <2> DEFINE began == [sessions |-> {s \in Sessions : status[s] = "active"},
                       rotated |-> \E u \in Tokens : <<t, u>> \in exchanged,
                       recorded |-> t \in tokenHistory]
  <2>2. began \in [sessions : SUBSET Sessions, rotated : BOOLEAN, recorded : BOOLEAN]
    OBVIOUS
  <2>3. call' = [call EXCEPT ![c] = [Idle EXCEPT !.at = "find", !.presented = t, !.began = began]]
    BY <2>1
  <2> HIDE DEF began
  <2>4. t \in 0 .. MaxTokens
    BY RotationAssumption DEF TypeOK, Tokens
  <2>5. [Idle EXCEPT !.at = "find", !.presented = t, !.began = began] \in Calls
    BY <2>2, <2>4, IdleType DEF Calls, Steps
  <2>6. call' \in [Callers -> Calls]
    BY <2>3, <2>5 DEF TypeOK
  <2> QED BY <1>2, <2>6 DEF BeginRefresh, TypeOK, rows
<1>3. ASSUME NEW c \in Callers, CreateSession(c) PROVE TypeOK'
  <2>1. PICK s \in Sessions :
          /\ status' = [status EXCEPT ![s] = "active"]
          /\ token' = [token EXCEPT ![s] = issued + 1]
          /\ age' = Seen(s)
          /\ call' = [call EXCEPT ![c].at = "trim", ![c].own = s]
    BY <1>3 DEF CreateSession
  <2>2. issued + 1 \in 0 .. MaxTokens
    BY <1>3, RotationAssumption DEF CreateSession, TypeOK
  <2>3. age' \in [Sessions -> Nat]
    BY <2>1, SeenType
  <2>4. call' \in [Callers -> Calls]
    BY <2>1, OwnType DEF Steps
  <2> QED BY <1>3, <2>1, <2>2, <2>3, <2>4 DEF CreateSession, TypeOK, RowStates
<1>4. ASSUME NEW c \in Callers, FindByRefreshToken(c) PROVE TypeOK'
  <2>1. call' \in [Callers -> Calls]
    <3>1. CASE Goes(c, "find", "lookup")
      BY <3>1, GoesType DEF Steps
    <3>2. CASE Ends(c, "find")
      BY <3>2, EndsType
    <3>3. CASE \E s \in Sessions : call' = [call EXCEPT ![c].at = "rotate", ![c].own = s]
      BY <3>3, OwnType DEF Steps
    <3> QED BY <1>4, <3>1, <3>2, <3>3 DEF FindByRefreshToken
  <2> QED BY <1>4, <2>1 DEF FindByRefreshToken, TypeOK, rows
<1>5. ASSUME NEW c \in Callers, Rotate(c) PROVE TypeOK'
  <2> DEFINE s == call[c].own
             t == call[c].presented
  <2>1. t \in Tokens
    BY <1>5 DEF Rotate, CallOK
  <2>2. issued + 1 \in Tokens /\ issued + 1 \in 0 .. MaxTokens
    BY <1>5, RotationAssumption DEF Rotate, TypeOK, Tokens
  <2>3. exchanged' \in SUBSET (Tokens \X Tokens)
    BY <1>5, <2>1, <2>2 DEF Rotate, TypeOK
  <2>4. call' \in [Callers -> Calls]
    BY <1>5, GoesType DEF Rotate, Steps
  <2>5. age' \in [Sessions -> Nat]
    BY <1>5, SeenType DEF Rotate
  <2>6. status' \in [Sessions -> RowStates] /\ token' \in [Sessions -> 0 .. MaxTokens]
    BY <1>5, <2>2 DEF Rotate, TypeOK, RowStates
  <2> QED BY <1>5, <2>2, <2>3, <2>4, <2>5, <2>6 DEF Rotate, TypeOK
<1>6. ASSUME NEW c \in Callers, AlreadyRotated(c) PROVE TypeOK'
  <2>1. call' \in [Callers -> Calls]
    BY <1>6, EndsType DEF AlreadyRotated
  <2> QED BY <1>6, <2>1 DEF AlreadyRotated, TypeOK, rows
<1>7. ASSUME NEW c \in Callers, RecordRotation(c) PROVE TypeOK'
  <2>1. call' \in [Callers -> Calls]
    BY <1>7, GoesType DEF RecordRotation, Steps
  <2>2. call[c].presented \in Tokens
    BY <1>7 DEF RecordRotation, Goes, CallOK
  <2> QED BY <1>7, <2>1, <2>2 DEF RecordRotation, Recorded, TypeOK, rows
<1>8. ASSUME NEW c \in Callers, FindReusedToken(c) PROVE TypeOK'
  <2>1. call' \in [Callers -> Calls]
    BY <1>8, GoesType, EndsType DEF FindReusedToken, Steps
  <2> QED BY <1>8, <2>1 DEF FindReusedToken, TypeOK, rows
<1>9. ASSUME NEW c \in Callers, RevokeActiveFamily(c) PROVE TypeOK'
  <2>1. call' \in [Callers -> Calls]
    BY <1>9, EndsType DEF RevokeActiveFamily
  <2> QED BY <1>9, <2>1, RevokedType DEF RevokeActiveFamily, TypeOK
<1>10. ASSUME NEW c \in Callers, ReadSessions(c) PROVE TypeOK'
  <2>1. {s \in Live : Beyond(s)} \ {call[c].own} \in SUBSET Sessions
    BY DEF Live
  <2>2. call' \in [Callers -> Calls]
    BY <1>10, <2>1, StaleType DEF ReadSessions, Steps
  <2> QED BY <1>10, <2>2 DEF ReadSessions, TypeOK, rows
<1>11. ASSUME NEW c \in Callers, TrimAndAnswer(c) PROVE TypeOK'
  <2>1. call' \in [Callers -> Calls]
    BY <1>11, EndsType DEF TrimAndAnswer
  <2>2. token[call[c].own] \in Tokens
    BY <1>11, RotationAssumption DEF TrimAndAnswer, Ends, CallOK, TypeOK, Tokens
  <2> QED BY <1>11, <2>1, <2>2, RevokedType DEF TrimAndAnswer, TypeOK
<1>12. ASSUME NEW c \in Callers, Abandon(c) PROVE TypeOK'
  <2>1. call' \in [Callers -> Calls]
    BY <1>12, EndsType DEF Abandon
  <2> QED BY <1>12, <2>1, RotationAssumption DEF Abandon, TypeOK, rows
<1>13. ASSUME Logout \/ RevokeSession \/ RevokeOtherSessions PROVE TypeOK'
  <2>1. status' \in [Sessions -> RowStates]
    BY <1>13, RevokedType DEF Logout, RevokeSession, RevokeOtherSessions, SetRows
  <2> QED BY <1>13, <2>1 DEF Logout, RevokeSession, RevokeOtherSessions, SetRows, TypeOK
<1>14. ASSUME ResetPassword PROVE TypeOK'
  BY <1>14 DEF ResetPassword, SetRows, TypeOK, RowStates
<1>15. ASSUME Touch PROVE TypeOK'
  BY <1>15, SeenType DEF Touch, TypeOK
<1>16. ASSUME Expire \/ LapseHistory PROVE TypeOK'
  BY <1>16 DEF Expire, LapseHistory, LastRotated, TypeOK, rows, Live
<1>17. ASSUME UNCHANGED vars PROVE TypeOK'
  BY <1>17 DEF vars, rows, TypeOK
<1> QED BY <1>1, <1>2, <1>3, <1>4, <1>5, <1>6, <1>7, <1>8, <1>9, <1>10, <1>11, <1>12, <1>13, <1>14, <1>15,
           <1>16, <1>17 DEF Next, RequestStep

----------------------------------------------------------------------------
(* The invariant.                                                           *)

LEMMA CallStep == TypeOK /\ CallOK /\ [Next]_vars => CallOK'
<1> SUFFICES ASSUME TypeOK, CallOK, [Next]_vars PROVE CallOK'
  OBVIOUS
<1> USE DEF TypeOK, CallOK
<1>1. ASSUME NEW c \in Callers, BeginLogin(c) \/ FindReusedToken(c) \/ AlreadyRotated(c) \/ Abandon(c)
      PROVE  CallOK'
  BY <1>1 DEF BeginLogin, FindReusedToken, AlreadyRotated, Abandon, Goes, Ends, Idle, rows, Calls
<1>2. ASSUME NEW c \in Callers, BeginRefresh(c) PROVE CallOK'
  <2>1. PICK t \in known : /\ call'[c].at = "find" /\ call'[c].presented = t
                           /\ \A d \in Callers \ {c} : call'[d] = call[d]
    BY <1>2 DEF BeginRefresh, Idle
  <2> QED BY <1>2, <2>1 DEF BeginRefresh, rows
<1>3. ASSUME NEW c \in Callers, CreateSession(c) PROVE CallOK'
  <2>1. PICK s \in Sessions :
          /\ token' = [token EXCEPT ![s] = issued + 1]
          /\ call' = [call EXCEPT ![c].at = "trim", ![c].own = s]
    BY <1>3 DEF CreateSession
  <2> QED BY <2>1 DEF Calls
<1>4. ASSUME NEW c \in Callers, FindByRefreshToken(c) PROVE CallOK'
  BY <1>4 DEF FindByRefreshToken, Goes, Ends, Idle, rows, Calls
<1>5. ASSUME NEW c \in Callers, Rotate(c) PROVE CallOK'
  BY <1>5 DEF Rotate, Goes, Calls, Rotatable, Live
<1>6. ASSUME NEW c \in Callers, RecordRotation(c) PROVE CallOK'
  BY <1>6 DEF RecordRotation, Goes, Calls, rows
<1>7. ASSUME NEW c \in Callers, RevokeActiveFamily(c) \/ TrimAndAnswer(c) PROVE CallOK'
  BY <1>7 DEF RevokeActiveFamily, TrimAndAnswer, Ends, Idle, Calls
<1>8. ASSUME NEW c \in Callers, ReadSessions(c) PROVE CallOK'
  BY <1>8 DEF ReadSessions, Calls, rows
<1>9. ASSUME Logout \/ RevokeSession \/ RevokeOtherSessions \/ ResetPassword \/ Touch \/ Expire \/ LapseHistory \/ UNCHANGED vars
      PROVE  CallOK'
  BY <1>9 DEF Logout, RevokeSession, RevokeOtherSessions, ResetPassword, Touch, Expire, LapseHistory, SetRows, vars, rows
<1> QED BY <1>1, <1>2, <1>3, <1>4, <1>5, <1>6, <1>7, <1>8, <1>9 DEF Next, RequestStep

\* What no step does but CreateSession, Rotate and Expire.
RowsKept ==
  /\ UNCHANGED <<token, issued, expired, exchanged>>
  /\ \A s \in Sessions :
       /\ status'[s] = "none" <=> status[s] = "none"
       /\ status'[s] = "active" => status[s] = "active"
       /\ status[s] \in {"revoked", "deleted"} => status'[s] \in {status[s], "deleted"}

LEMMA KeptOrNot ==
  ASSUME TypeOK, [Next]_vars
  PROVE  RowsKept \/ Expire \/ \E c \in Callers : CreateSession(c) \/ Rotate(c)
<1>1. ASSUME NEW c \in Callers,
             BeginLogin(c) \/ BeginRefresh(c) \/ FindByRefreshToken(c) \/ AlreadyRotated(c) \/ RecordRotation(c)
               \/ FindReusedToken(c) \/ ReadSessions(c) \/ Abandon(c)
      PROVE  RowsKept
  BY <1>1 DEF BeginLogin, BeginRefresh, FindByRefreshToken, AlreadyRotated, RecordRotation,
       FindReusedToken, ReadSessions, Abandon, rows, RowsKept
<1>2. ASSUME NEW c \in Callers, RevokeActiveFamily(c) \/ TrimAndAnswer(c) PROVE RowsKept
  BY <1>2 DEF RevokeActiveFamily, TrimAndAnswer, Revoked, RowsKept, TypeOK, RowStates
<1>3. ASSUME Logout \/ RevokeSession \/ RevokeOtherSessions \/ ResetPassword PROVE RowsKept
  BY <1>3 DEF Logout, RevokeSession, RevokeOtherSessions, ResetPassword, SetRows, Revoked, RowsKept, TypeOK, RowStates
<1>4. ASSUME Touch \/ LapseHistory \/ UNCHANGED vars PROVE RowsKept
  BY <1>4 DEF Touch, LapseHistory, vars, rows, RowsKept
<1> QED BY <1>1, <1>2, <1>3, <1>4 DEF Next, RequestStep

LEMMA InvStep == Inv /\ [Next]_vars => Inv'
<1> SUFFICES ASSUME Inv, [Next]_vars PROVE Held' /\ Spent' /\ ExchangedOnce'
  BY TypeStep, CallStep DEF Inv
<1> USE DEF Inv
<1>1. CASE RowsKept
  BY <1>1 DEF RowsKept, Held, Spent, ExchangedOnce, TypeOK
<1>2. CASE Expire
  BY <1>2 DEF Expire, rows, Live, Held, Spent, ExchangedOnce, TypeOK
<1>3. ASSUME NEW c \in Callers, CreateSession(c) PROVE Held' /\ Spent' /\ ExchangedOnce'
  <2>1. PICK s \in Sessions :
          /\ status' = [status EXCEPT ![s] = "active"]
          /\ token' = [token EXCEPT ![s] = issued + 1]
    BY <1>3 DEF CreateSession
  <2>2. issued' = issued + 1 /\ UNCHANGED <<expired, exchanged>> /\ issued \in Nat
    BY <1>3 DEF CreateSession, TypeOK
  <2>3. \A r \in Sessions : token[r] \in Nat /\ token[r] <= issued
    BY DEF TypeOK, Held
  <2>4. Held'
    BY <2>1, <2>2, <2>3 DEF Held, TypeOK
  <2>5. Spent'
    <3>1. \A p \in exchanged : p[1] \in Nat
      BY DEF TypeOK, Tokens
    <3> QED BY <3>1, <2>1, <2>2, <2>3 DEF Spent, TypeOK
  <2>6. ExchangedOnce'
    BY <2>2 DEF ExchangedOnce
  <2> QED BY <2>4, <2>5, <2>6
<1>4. ASSUME NEW c \in Callers, Rotate(c) PROVE Held' /\ Spent' /\ ExchangedOnce'
  <2> DEFINE s == call[c].own
             t == call[c].presented
  <2>1. /\ s \in Sessions /\ token[s] = t /\ t \in Tokens
        /\ status' = [status EXCEPT ![s] = "active"]
        /\ token' = [token EXCEPT ![s] = issued + 1]
        /\ exchanged' = exchanged \cup {<<t, issued + 1>>}
    BY <1>4 DEF Rotate, Rotatable, Holds, Live, CallOK
  <2>2. issued' = issued + 1 /\ expired' = expired /\ issued \in Nat
    BY <1>4 DEF Rotate, TypeOK
  <2>3. \A r \in Sessions : token[r] \in Nat /\ token[r] <= issued
    BY DEF TypeOK, Held
  <2>4. status[s] = "active"
    BY <1>4 DEF Rotate, Rotatable, Live
  <2> HIDE DEF s, t
  <2>5. Held'
    BY <2>1, <2>2, <2>3, <2>4 DEF Held, TypeOK
  <2>6. t # 0 /\ t <= issued /\ \A r \in Sessions : token'[r] # t
    BY <2>1, <2>2, <2>3 DEF Held, TypeOK, Tokens
  <2>7. Spent'
    <3> SUFFICES ASSUME NEW p \in exchanged'
                 PROVE  p[1] # 0 /\ p[1] <= issued' /\ \A r \in Sessions : token'[r] # p[1]
      BY DEF Spent
    <3>1. CASE p \in exchanged
      <4>1. p[1] \in Nat /\ p[1] # 0 /\ p[1] <= issued /\ \A r \in Sessions : token[r] # p[1]
        BY <3>1 DEF Spent, TypeOK, Tokens
      <4> QED BY <4>1, <2>1, <2>2 DEF TypeOK
    <3>2. CASE p = <<t, issued + 1>>
      BY <3>2, <2>6, <2>2, <2>3, <2>1
    <3> QED BY <3>1, <3>2, <2>1
  <2>8. ExchangedOnce'
    BY <2>1 DEF ExchangedOnce, Spent
  <2> QED BY <2>5, <2>7, <2>8
<1> QED BY <1>1, <1>2, <1>3, <1>4, KeptOrNot

LEMMA InitInv == Init => Inv
<1> SUFFICES ASSUME Init PROVE Inv
  OBVIOUS
<1>1. CallOK
  BY DEF Init, CallOK, Idle
<1> QED BY <1>1, InitTypeOK DEF Init, Inv, Held, Spent, ExchangedOnce

LEMMA Invariance == Spec => []Inv
BY InitInv, InvStep, PTL DEF Spec

\* Rows, tokens and requests keep their types: every statement of login,
\* refresh, trim and revocation writes values of its columns.
THEOREM TypeCorrect == Spec => []TypeOK
<1>1. Inv => TypeOK
  BY DEF Inv
<1> QED BY Invariance, <1>1, PTL

\* However many refreshes present a token at once, rotate lets one through.
THEOREM TokensAreExchangedOnce == Spec => []ExchangedOnce
<1>1. Inv => ExchangedOnce
  BY DEF Inv
<1> QED BY Invariance, <1>1, PTL

----------------------------------------------------------------------------
(* What a step may never do.                                                *)

\* rotate clears revokedAt, but never that of a revoked session: a revocation
\* that comes between the check of refresh and the UPDATE wins.
THEOREM RevokedIsFinal == Spec => RevokedStaysRevoked
<1>1. Inv /\ [Next]_vars =>
        [\A s \in Sessions : status[s] \in {"revoked", "deleted"} => status'[s] \in {status[s], "deleted"}]_vars
  <2> SUFFICES ASSUME Inv, [Next]_vars,
                      NEW s \in Sessions, status[s] \in {"revoked", "deleted"}
               PROVE  status'[s] \in {status[s], "deleted"}
    OBVIOUS
  <2>1. CASE RowsKept
    BY <2>1 DEF RowsKept
  <2>2. CASE Expire
    BY <2>2 DEF Expire, rows
  <2>3. ASSUME NEW c \in Callers, CreateSession(c) PROVE status'[s] = status[s]
    BY <2>3 DEF CreateSession, Inv, TypeOK
  <2>4. ASSUME NEW c \in Callers, Rotate(c) PROVE status'[s] = status[s]
    BY <2>4 DEF Rotate, Rotatable, Live, Inv, TypeOK
  <2> QED BY <2>1, <2>2, <2>3, <2>4, KeptOrNot DEF Inv
<1> QED BY Invariance, <1>1, PTL DEF Spec, RevokedStaysRevoked

----------------------------------------------------------------------------
(* A token whose rotation was recorded is held by nobody, so that a        *)
(* refresh that began after that does not find it and looks up the record. *)

RecordedIsSpent ==
  /\ \A t \in tokenHistory : \E p \in exchanged : p[1] = t
  /\ \A c \in Callers : call[c].at = "record" => \E p \in exchanged : p[1] = call[c].presented
  /\ \A c \in Callers : call[c].began.recorded =>
       /\ \E p \in exchanged : p[1] = call[c].presented
       /\ call[c].at \in {"find", "lookup", "family"}

LEMMA RecordedNotHeld ==
  ASSUME Inv, RecordedIsSpent, NEW c \in Callers, call[c].began.recorded, NEW s \in Sessions
  PROVE  ~Holds(s, call[c].presented)
BY DEF Inv, Spent, RecordedIsSpent, Holds

\* One request moves on; what was exchanged stays so.
LEMMA RecordedMoves ==
  ASSUME RecordedIsSpent, NEW c \in Callers,
         exchanged \subseteq exchanged',
         \A t \in tokenHistory' \ tokenHistory : \E p \in exchanged' : p[1] = t,
         \A d \in Callers \ {c} : call'[d] = call[d],
         call'[c].at = "record" => \E p \in exchanged' : p[1] = call'[c].presented,
         call'[c].began.recorded =>
           /\ \E p \in exchanged' : p[1] = call'[c].presented
           /\ call'[c].at \in {"find", "lookup", "family"}
  PROVE  RecordedIsSpent'
BY DEF RecordedIsSpent

LEMMA RecordedStep == Inv /\ RecordedIsSpent /\ [Next]_vars => RecordedIsSpent'
<1> SUFFICES ASSUME Inv, RecordedIsSpent, [Next]_vars PROVE RecordedIsSpent'
  OBVIOUS
<1>a. call \in [Callers -> Calls]
  BY DEF Inv, TypeOK
<1>1. ASSUME NEW c \in Callers, BeginLogin(c) \/ CreateSession(c) \/ ReadSessions(c) PROVE RecordedIsSpent'
  <2>1. /\ UNCHANGED <<tokenHistory, exchanged>> /\ \A d \in Callers \ {c} : call'[d] = call[d]
        /\ call[c].at \in {"idle", "create", "trim"} /\ call'[c].at # "record"
        /\ call'[c].began = call[c].began
    BY <1>1, <1>a DEF BeginLogin, CreateSession, ReadSessions, Goes, Calls
  <2> QED BY <2>1, RecordedMoves DEF RecordedIsSpent
<1>2. ASSUME NEW c \in Callers, BeginRefresh(c) PROVE RecordedIsSpent'
  <2>1. /\ UNCHANGED <<tokenHistory, exchanged>> /\ \A d \in Callers \ {c} : call'[d] = call[d]
        /\ call'[c].at = "find" /\ call'[c].began.recorded = (call'[c].presented \in tokenHistory)
    BY <1>2, <1>a DEF BeginRefresh, Idle
  <2> QED BY <2>1, RecordedMoves DEF RecordedIsSpent
<1>3. ASSUME NEW c \in Callers,
             AlreadyRotated(c) \/ RevokeActiveFamily(c) \/ TrimAndAnswer(c) \/ Abandon(c)
      PROVE  RecordedIsSpent'
  <2>1. /\ UNCHANGED <<tokenHistory, exchanged>> /\ \A d \in Callers \ {c} : call'[d] = call[d]
        /\ call'[c].at # "record" /\ ~call'[c].began.recorded
    BY <1>3, <1>a DEF AlreadyRotated, RevokeActiveFamily, TrimAndAnswer, Abandon, Ends, Idle, Nothing
  <2> QED BY <2>1, RecordedMoves
<1>4. ASSUME NEW c \in Callers, FindByRefreshToken(c) PROVE RecordedIsSpent'
  <2>1. /\ UNCHANGED <<tokenHistory, exchanged>> /\ \A d \in Callers \ {c} : call'[d] = call[d]
        /\ call'[c].at # "record"
    <3>1. UNCHANGED <<tokenHistory, exchanged>>
      BY <1>4 DEF FindByRefreshToken
    <3>2. CASE Goes(c, "find", "lookup")
      BY <3>1, <3>2, <1>a DEF Goes, Calls
    <3>3. CASE call' = [call EXCEPT ![c].at = "rotate", ![c].own = call'[c].own]
      BY <3>1, <3>3, <1>a DEF Calls
    <3>4. CASE Ends(c, "find")
      BY <3>1, <3>4, <1>a DEF Ends, Idle
    <3>5. ASSUME NEW s \in Sessions, call' = [call EXCEPT ![c].at = "rotate", ![c].own = s]
          PROVE  call' = [call EXCEPT ![c].at = "rotate", ![c].own = call'[c].own]
      BY <3>5, <1>a DEF Calls
    <3> QED BY <3>2, <3>3, <3>4, <3>5, <1>4 DEF FindByRefreshToken
  <2>2. CASE \A s \in Sessions : ~Holds(s, call[c].presented)
    <3>1. call'[c] = [call[c] EXCEPT !.at = "lookup"]
      BY <2>2, <1>4, <1>a DEF FindByRefreshToken, Goes
    <3> QED BY <2>1, <3>1, <1>a, RecordedMoves DEF RecordedIsSpent, Calls
  <2>3. CASE \E s \in Sessions : Holds(s, call[c].presented)
    <3>1. ~call[c].began.recorded
      BY <2>3, RecordedNotHeld
    <3>2. ~call'[c].began.recorded
      BY <2>3, <3>1, <1>4, <1>a DEF FindByRefreshToken, Ends, Idle, Nothing, Calls
    <3> QED BY <2>1, <3>2, RecordedMoves
  <2> QED BY <2>2, <2>3
<1>5. ASSUME NEW c \in Callers, Rotate(c) PROVE RecordedIsSpent'
  <2>1. /\ tokenHistory' = tokenHistory /\ \A d \in Callers \ {c} : call'[d] = call[d]
        /\ exchanged' = exchanged \cup {<<call[c].presented, issued + 1>>}
        /\ call[c].at = "rotate" /\ call'[c].began = call[c].began /\ call'[c].presented = call[c].presented
    BY <1>5, <1>a DEF Rotate, Goes, Calls
  <2>2. \E p \in exchanged' : p[1] = call'[c].presented
    <3> DEFINE q == <<call[c].presented, issued + 1>>
    <3>1. q \in exchanged' /\ q[1] = call[c].presented
      BY <2>1
    <3> QED BY <2>1, <3>1
  <2> QED BY <2>1, <2>2, RecordedMoves DEF RecordedIsSpent
<1>6. ASSUME NEW c \in Callers, RecordRotation(c) PROVE RecordedIsSpent'
  <2>1. /\ tokenHistory' \subseteq tokenHistory \cup {call[c].presented} /\ exchanged' = exchanged
        /\ \A d \in Callers \ {c} : call'[d] = call[d]
        /\ call[c].at = "record" /\ call'[c].at = "trim" /\ call'[c].began = call[c].began
    BY <1>6, <1>a DEF RecordRotation, Recorded, Goes, Calls
  <2> QED BY <2>1, RecordedMoves DEF RecordedIsSpent
<1>7. ASSUME NEW c \in Callers, FindReusedToken(c) PROVE RecordedIsSpent'
  <2>1. /\ UNCHANGED <<tokenHistory, exchanged>> /\ \A d \in Callers \ {c} : call'[d] = call[d]
        /\ \/ ~call'[c].began.recorded /\ call'[c].at = "idle"
           \/ call'[c] = [call[c] EXCEPT !.at = "family"]
    BY <1>7, <1>a DEF FindReusedToken, Goes, Ends, Idle, Nothing
  <2> QED BY <2>1, <1>a, RecordedMoves DEF RecordedIsSpent, Calls
<1>8. ASSUME Logout \/ RevokeSession \/ RevokeOtherSessions \/ ResetPassword \/ Touch \/ Expire \/ LapseHistory \/ UNCHANGED vars
      PROVE  RecordedIsSpent'
  BY <1>8 DEF Logout, RevokeSession, RevokeOtherSessions, ResetPassword, Touch, Expire, LapseHistory, SetRows, vars, rows,
       RecordedIsSpent
<1> QED BY <1>1, <1>2, <1>3, <1>4, <1>5, <1>6, <1>7, <1>8 DEF Next, RequestStep

\* A refresh with a token whose rotation was recorded before it began is refused
\* only by revoking the family, unless the record has expired when it is looked
\* up: neither the look-up of the session nor the UPDATE of rotate lets it out.
THEOREM RecordedReuseIsRevoked == Spec => RecordedReuseRevokes
<1>1. Init => RecordedIsSpent
  BY DEF Init, RecordedIsSpent, Idle, Nothing
<1>2. Inv /\ RecordedIsSpent /\ [Next]_vars =>
        [\A c \in Callers :
           /\ Refused(c) /\ call[c].began.recorded
           /\ call[c].at = "lookup" => call[c].presented \in tokenHistory
           => \A s \in call[c].began.sessions : status'[s] # "active"]_vars
  <2> SUFFICES ASSUME Inv, RecordedIsSpent, Next, NEW c \in Callers, Refused(c), call[c].began.recorded,
                      call[c].at = "lookup" => call[c].presented \in tokenHistory,
                      NEW s \in call[c].began.sessions
               PROVE  status'[s] # "active"
    OBVIOUS
  <2>1. call \in [Callers -> Calls] /\ s \in Sessions /\ status \in [Sessions -> RowStates]
    BY DEF Inv, TypeOK, Calls
  <2>2. call[c].at \in {"find", "lookup", "family"}
    BY DEF RecordedIsSpent
  <2>3. call'[c] # call[c]
    BY DEF Refused
  <2>4. PICK d \in Callers : RequestStep(d)
    BY <2>3 DEF Next, Logout, RevokeSession, RevokeOtherSessions, ResetPassword, Touch, Expire, LapseHistory, SetRows, rows
  <2>5. d = c
    BY <2>1, <2>3, <2>4 DEF RequestStep, BeginLogin, CreateSession, BeginRefresh, FindByRefreshToken, Rotate,
         AlreadyRotated, RecordRotation, FindReusedToken, RevokeActiveFamily, ReadSessions, TrimAndAnswer,
         Abandon, Goes, Ends
  <2>6. ~FindByRefreshToken(c)
    <3>1. \A r \in Sessions : ~Holds(r, call[c].presented)
      BY RecordedNotHeld
    <3>2. FindByRefreshToken(c) => call'[c] = [call[c] EXCEPT !.at = "lookup"]
      BY <3>1, <2>1 DEF FindByRefreshToken, Goes
    <3>3. [call[c] EXCEPT !.at = "lookup"].at = "lookup"
      BY <2>1 DEF Calls
    <3> QED BY <3>2, <3>3 DEF Refused
  <2>7. ~FindReusedToken(c)
    <3>1. FindReusedToken(c) => call'[c] = [call[c] EXCEPT !.at = "family"]
      BY <2>1 DEF FindReusedToken, Goes, Ends
    <3>2. [call[c] EXCEPT !.at = "family"].at = "family"
      BY <2>1 DEF Calls
    <3> QED BY <3>1, <3>2 DEF Refused
  <2>8. ~Abandon(c)
    BY DEF Abandon, Refused, Inv, TypeOK
  <2>9. RevokeActiveFamily(c)
    BY <2>2, <2>4, <2>5, <2>6, <2>7, <2>8 DEF RequestStep, BeginLogin, CreateSession, BeginRefresh, Rotate,
         AlreadyRotated, RecordRotation, ReadSessions, TrimAndAnswer, Goes, Ends
  <2> QED BY <2>1, <2>9 DEF RevokeActiveFamily, Family, Revoked
<1> QED BY Invariance, <1>1, RecordedStep, <1>2, PTL DEF Spec, RecordedReuseRevokes

----------------------------------------------------------------------------
(* The limit on active sessions.  Only a login makes a session, and it has  *)
(* yet to trim.  Whoever trims last finds at most MaxActive sessions with   *)
(* fewer than MaxActive younger ones, since no two have the same age, and   *)
(* its own: no more survive what the trims under way are about to revoke.   *)

Created == {s \in Sessions : status[s] # "none"}
InOrder ==
  /\ \A s \in Sessions : status[s] = "none" => age[s] = Cardinality(Sessions)
  /\ \A s \in Created : age[s] < Cardinality(Created)
  /\ \A s, r \in Created : age[s] = age[r] => s = r

\* Sessions that a trim under way is going to revoke.
Doomed == {s \in Sessions : \E c \in Callers : call[c].at = "trimWrite" /\ s \in call[c].stale}
Trimmed ==
  faults = 0 /\ (\A c \in Callers : call[c].at # "trim") => Cardinality(Live \ Doomed) <= MaxActive + 1

\* Sets of sessions have a size.
LEMMA SessionSets ==
  /\ \A S \in SUBSET Sessions : IsFiniteSet(S) /\ Cardinality(S) \in Nat
  /\ \A S \in SUBSET Sessions : \A T \in SUBSET S :
       Cardinality(T) <= Cardinality(S) /\ (Cardinality(T) = Cardinality(S) => S = T)
<1>1. ASSUME NEW S \in SUBSET Sessions PROVE IsFiniteSet(S) /\ Cardinality(S) \in Nat
  BY RotationAssumption, FS_Subset, FS_CardinalityType
<1>2. ASSUME NEW S \in SUBSET Sessions, NEW T \in SUBSET S
      PROVE  Cardinality(T) <= Cardinality(S) /\ (Cardinality(T) = Cardinality(S) => S = T)
  BY <1>1, FS_Subset
<1> QED BY <1>1, <1>2

\* Of sessions with distinct ages, n have fewer than n younger ones.
LEMMA FewAreYoung ==
  ASSUME TypeOK, NEW L \in SUBSET Sessions, \A s, r \in L : age[s] = age[r] => s = r, NEW n \in Nat
  PROVE  Cardinality({s \in L : Cardinality({r \in L : age[r] < age[s]}) < n}) <= n
<1> DEFINE Younger(s) == {r \in L : age[r] < age[s]}
           Y == {s \in L : Cardinality(Younger(s)) < n}
           rank == [s \in Y |-> Cardinality(Younger(s))]
<1>1. \A s \in L : age[s] \in Nat /\ Younger(s) \in SUBSET Sessions /\ Cardinality(Younger(s)) \in Nat
  BY SessionSets DEF TypeOK
<1>2. ASSUME NEW s \in L, NEW r \in L, age[s] < age[r] PROVE Cardinality(Younger(s)) < Cardinality(Younger(r))
  <2>0. \A q \in L : age[q] \in Nat
    BY <1>1
  <2>1. Younger(s) \in SUBSET Younger(r) /\ s \in Younger(r) /\ s \notin Younger(s)
    <3>1. ASSUME NEW q \in Younger(s) PROVE q \in Younger(r)
      BY <1>2, <2>0
    <3>2. s \in Younger(r) /\ s \notin Younger(s)
      BY <1>2, <2>0
    <3> QED BY <3>1, <3>2
  <2> QED BY <1>1, <2>1, SessionSets
<1>3. \A s, r \in Y : rank[s] = rank[r] => s = r
  <2> SUFFICES ASSUME NEW s \in Y, NEW r \in Y, s # r PROVE rank[s] # rank[r]
    OBVIOUS
  <2>1. s \in L /\ r \in L /\ age[s] # age[r] /\ age[s] \in Nat /\ age[r] \in Nat
    BY <1>1
  <2>2. rank[s] = Cardinality(Younger(s)) /\ rank[r] = Cardinality(Younger(r))
    OBVIOUS
  <2>3. Cardinality(Younger(s)) \in Nat /\ Cardinality(Younger(r)) \in Nat
    BY <1>1, <2>1
  <2> HIDE DEF Younger, rank
  <2>4. CASE age[s] < age[r]
    BY <1>2, <2>1, <2>2, <2>3, <2>4
  <2>5. CASE age[r] < age[s]
    BY <1>2, <2>1, <2>2, <2>3, <2>5
  <2> QED BY <2>1, <2>4, <2>5
<1>4. rank \in [Y -> 0 .. n - 1]
  BY <1>1
<1>5. rank \in Injection(Y, 0 .. n - 1)
  BY <1>3, <1>4 DEF Injection, IsInjective
<1>6. IsFiniteSet(0 .. n - 1) /\ Cardinality(0 .. n - 1) = n
  BY FS_Interval
<1>7. Cardinality(Y) <= Cardinality(0 .. n - 1)
  BY <1>5, <1>6, FS_Injection
<1> QED BY <1>6, <1>7

\* A session that is used, or made, becomes the youngest; the order of the others stays.
LEMMA SeenInOrder ==
  ASSUME TypeOK, InOrder, NEW s \in Sessions, age' = Seen(s), Created' = Created \cup {s}
  PROVE  InOrder'
<1> DEFINE k == Cardinality(Created)
           k2 == Cardinality(Created \cup {s})
           n == Cardinality(Sessions)
<1>1. /\ k \in Nat /\ k2 \in Nat /\ n \in Nat /\ k <= n /\ k <= k2 /\ Created \in SUBSET Sessions
      /\ s \notin Created => k2 = k + 1 /\ k < n
  <2>1. Created \in SUBSET Sessions /\ Created \cup {s} \in SUBSET Sessions
    BY DEF Created
  <2>2. s \notin Created => k2 = k + 1 /\ Created # Sessions
    BY <2>1, SessionSets, FS_AddElement
  <2> QED BY <2>1, <2>2, SessionSets
<1>2. \A r \in Sessions : age[r] \in Nat /\ age'[r] = IF r = s THEN 0 ELSE IF age[r] < age[s] THEN age[r] + 1 ELSE age[r]
  BY DEF Seen, TypeOK
<1>3. \A r \in Sessions : r \in Created <=> status[r] # "none"
  BY DEF Created
<1>4. \A r \in Sessions : r \in Created' <=> status'[r] # "none"
  BY DEF Created
<1>5. age[s] <= n /\ (s \in Created => age[s] < k) /\ (s \notin Created => age[s] = n)
  BY <1>1, <1>2, <1>3 DEF InOrder
<1>6. ASSUME NEW r \in Sessions, status'[r] = "none" PROVE age'[r] = n
  <2>1. r # s /\ r \notin Created /\ age[r] = n
    BY <1>3, <1>4, <1>6 DEF InOrder
  <2> QED BY <1>1, <1>2, <1>5, <2>1
<1>7. ASSUME NEW r \in Created \cup {s} PROVE age'[r] < k2
  <2>1. CASE r = s
    <3>1. k2 # 0
      BY <1>1, SessionSets, FS_EmptySet DEF Created
    <3> QED BY <1>1, <1>2, <2>1, <3>1
  <2>2. CASE r # s
    <3>1. r \in Created /\ r \in Sessions /\ age[r] < k
      BY <1>1, <1>7, <2>2 DEF InOrder
    <3> QED BY <1>1, <1>2, <1>5, <2>2, <3>1
  <2> QED BY <2>1, <2>2
<1>8. ASSUME NEW q \in Created \cup {s}, NEW r \in Created \cup {s}, age'[q] = age'[r] PROVE q = r
  <2>1. \A t \in Created : t \in Sessions /\ age[t] < k /\ age[t] \in Nat
    BY <1>1, <1>2 DEF InOrder
  <2>2. \A t \in Created : t # s => age[t] # age[s]
    BY <1>1, <1>5, <2>1 DEF InOrder
  <2>3. \A t, u \in Created : age[t] = age[u] => t = u
    BY DEF InOrder
  <2> QED BY <1>2, <1>8, <2>1, <2>2, <2>3
<1> QED BY <1>4, <1>6, <1>7, <1>8 DEF InOrder

LEMMA InOrderStep == Inv /\ InOrder /\ [Next]_vars => InOrder'
<1> SUFFICES ASSUME Inv, InOrder, [Next]_vars PROVE InOrder'
  OBVIOUS
<1>0. TypeOK
  BY DEF Inv
<1>1. ASSUME UNCHANGED age, RowsKept \/ UNCHANGED status PROVE InOrder'
  <2>1. Created' = Created /\ \A s \in Sessions : status'[s] = "none" <=> status[s] = "none"
    BY <1>1 DEF RowsKept, Created
  <2> QED BY <1>1, <2>1 DEF InOrder
<1>2. ASSUME NEW c \in Callers, CreateSession(c) PROVE InOrder'
  <2>1. PICK s \in Sessions : status' = [status EXCEPT ![s] = "active"] /\ age' = Seen(s)
    BY <1>2 DEF CreateSession
  <2>2. Created' = Created \cup {s}
    BY <1>0, <2>1 DEF Created, TypeOK
  <2> QED BY <1>0, <2>1, <2>2, SeenInOrder
<1>3. ASSUME NEW c \in Callers, Rotate(c) PROVE InOrder'
  <2> DEFINE s == call[c].own
  <2>1. s \in Sessions /\ status[s] = "active" /\ status' = [status EXCEPT ![s] = "active"] /\ age' = Seen(s)
    BY <1>3 DEF Rotate, Rotatable, Live
  <2>2. Created' = Created \cup {s}
    BY <1>0, <2>1 DEF Created, TypeOK
  <2> QED BY <1>0, <2>1, <2>2, SeenInOrder
<1>4. CASE Touch
  <2>1. PICK s \in Live : age' = Seen(s)
    BY <1>4 DEF Touch
  <2>2. s \in Sessions /\ Created' = Created \cup {s}
    BY <1>4, <2>1 DEF Touch, Live, Created
  <2> QED BY <1>0, <2>1, <2>2, SeenInOrder
<1>5. UNCHANGED age \/ Touch \/ \E c \in Callers : CreateSession(c) \/ Rotate(c)
  BY DEF Next, RequestStep, BeginLogin, BeginRefresh, FindByRefreshToken, AlreadyRotated, RecordRotation,
    FindReusedToken, RevokeActiveFamily, ReadSessions, TrimAndAnswer, Abandon, Logout, RevokeSession,
    RevokeOtherSessions, ResetPassword, SetRows, Expire, LapseHistory, vars, rows
<1>6. RowsKept \/ Expire \/ \E c \in Callers : CreateSession(c) \/ Rotate(c)
  BY <1>0, KeptOrNot
<1>7. Expire => UNCHANGED <<age, status>>
  BY DEF Expire, rows
<1> QED BY <1>1, <1>2, <1>3, <1>4, <1>5, <1>6, <1>7

\* No session becomes live that was not, but by a login.
LEMMA LiveOrLogin == Inv /\ [Next]_vars => Live' \in SUBSET Live \/ \E c \in Callers : CreateSession(c)
<1> SUFFICES ASSUME Inv, [Next]_vars, ~ \E c \in Callers : CreateSession(c) PROVE Live' \in SUBSET Live
  OBVIOUS
<1>0. TypeOK
  BY DEF Inv
<1>1. ASSUME RowsKept PROVE Live' \in SUBSET Live
  BY <1>1 DEF RowsKept, Live
<1>2. ASSUME NEW c \in Callers, Rotate(c) PROVE Live' \in SUBSET Live
  <2>1. status' = status
    BY <1>0, <1>2 DEF Rotate, Rotatable, Live, TypeOK
  <2> QED BY <1>2, <2>1 DEF Rotate, Live
<1>3. Expire => Live' \in SUBSET Live
  BY DEF Expire, Live, rows
<1> QED BY <1>0, <1>1, <1>2, <1>3, KeptOrNot

\* Nobody leaves "trim" but by its read or a fault, and no trim under way is
\* forgotten but by its own write or a fault.
LEMMA TrimMoves ==
  ASSUME Inv, [Next]_vars, faults' = 0
  PROVE  /\ faults = 0
         /\ \A d \in Callers :
              /\ call[d].at = "trim" => call'[d].at = "trim" \/ ReadSessions(d)
              /\ call[d].at = "trimWrite" => call'[d] = call[d] \/ TrimAndAnswer(d)
<1>0. TypeOK /\ faults \in Nat /\ faults' # faults + 1
  BY RotationAssumption DEF Inv, TypeOK
<1>2. ASSUME NEW c \in Callers, RequestStep(c)
      PROVE  /\ faults = 0
             /\ \A d \in Callers \ {c} : call'[d] = call[d]
             /\ call[c].at = "trim" => ReadSessions(c)
             /\ call[c].at = "trimWrite" => TrimAndAnswer(c)
  <2>1. faults = 0 /\ ~Abandon(c)
    BY <1>0, <1>2 DEF RequestStep, BeginLogin, CreateSession, BeginRefresh, FindByRefreshToken, Rotate, AlreadyRotated,
      RecordRotation, FindReusedToken, RevokeActiveFamily, ReadSessions, TrimAndAnswer, Abandon
  <2>2. \A d \in Callers \ {c} : call'[d] = call[d]
    BY <1>0, <1>2 DEF RequestStep, BeginLogin, CreateSession, BeginRefresh, FindByRefreshToken, Rotate, AlreadyRotated,
      RecordRotation, FindReusedToken, RevokeActiveFamily, ReadSessions, TrimAndAnswer, Abandon, Goes, Ends, TypeOK
  <2>3. call[c].at \in {"trim", "trimWrite"} => ReadSessions(c) \/ TrimAndAnswer(c)
    BY <1>2, <2>1 DEF RequestStep, BeginLogin, CreateSession, BeginRefresh, FindByRefreshToken, Rotate, AlreadyRotated,
      RecordRotation, FindReusedToken, RevokeActiveFamily, Goes, Ends
  <2>4. (ReadSessions(c) => call[c].at = "trim") /\ (TrimAndAnswer(c) => call[c].at = "trimWrite")
    BY DEF ReadSessions, TrimAndAnswer, Ends
  <2> QED BY <2>1, <2>2, <2>3, <2>4
<1>3. UNCHANGED <<call, faults>> \/ \E c \in Callers : RequestStep(c)
  BY DEF Next, Logout, RevokeSession, RevokeOtherSessions, ResetPassword, SetRows, Touch, Expire, LapseHistory, vars, rows
<1> QED BY <1>2, <1>3

LEMMA TrimmedStep == Inv /\ InOrder /\ Trimmed /\ [Next]_vars => Trimmed'
<1> SUFFICES ASSUME Inv, InOrder, Trimmed, [Next]_vars, faults' = 0, \A c \in Callers : call'[c].at # "trim"
             PROVE  Cardinality(Live' \ Doomed') <= MaxActive + 1
  BY DEF Trimmed
<1>0. TypeOK /\ MaxActive \in Nat /\ Live \in SUBSET Sessions /\ Live' \in SUBSET Sessions
  BY RotationAssumption DEF Inv, Live
<1>1. ASSUME NEW c \in Callers, ReadSessions(c) PROVE Cardinality(Live' \ Doomed') <= MaxActive + 1
  <2> DEFINE Y == {s \in Live : Cardinality({r \in Live : age[r] < age[s]}) < MaxActive}
  <2>1. Y \in SUBSET Sessions /\ IsFiniteSet(Y) /\ Cardinality(Y) \in Nat
    BY <1>0, SessionSets
  <2>2. \A s, r \in Live : age[s] = age[r] => s = r
    BY DEF InOrder, Live, Created
  <2>3. Cardinality(Y) <= MaxActive
    BY <1>0, <2>2, FewAreYoung
  <2>4. Live' = Live /\ call'[c].at = "trimWrite" /\ call'[c].stale = {s \in Live : Beyond(s)} \ {call[c].own}
    BY <1>0, <1>1 DEF ReadSessions, Live, rows, TypeOK, Calls
  <2>5. \A s \in Live : ~Beyond(s) => s \in Y
    <3> SUFFICES ASSUME NEW s \in Live, ~Beyond(s) PROVE s \in Y
      OBVIOUS
    <3> DEFINE Younger == {r \in Live : age[r] < age[s]}
    <3>1. Younger \in SUBSET Sessions
      BY <1>0
    <3>2. Cardinality(Younger) \in Nat
      BY <3>1, SessionSets
    <3>3. ~(Cardinality(Younger) >= MaxActive)
      BY DEF Beyond
    <3> HIDE DEF Younger
    <3>4. Cardinality(Younger) < MaxActive
      BY <1>0, <3>2, <3>3
    <3> QED BY <3>4 DEF Younger
  <2>6. Live' \ Doomed' \in SUBSET (Y \cup {call[c].own})
    BY <1>0, <2>4, <2>5 DEF Doomed
  <2> HIDE DEF Y
  <2>7. Cardinality(Y \cup {call[c].own}) <= MaxActive + 1 /\ IsFiniteSet(Y \cup {call[c].own})
    <3>1. /\ IsFiniteSet(Y \cup {call[c].own})
          /\ Cardinality(Y \cup {call[c].own}) = Cardinality(Y) \/ Cardinality(Y \cup {call[c].own}) = Cardinality(Y) + 1
      BY <2>1, FS_AddElement
    <3> QED BY <1>0, <2>1, <2>3, <3>1
  <2>8. Cardinality(Live' \ Doomed') <= Cardinality(Y \cup {call[c].own}) /\ Cardinality(Live' \ Doomed') \in Nat
    BY <1>0, <2>6, <2>7, FS_Subset, SessionSets
  <2>9. Cardinality(Y \cup {call[c].own}) \in Nat
    BY <2>7, FS_CardinalityType
  <2> QED BY <1>0, <2>7, <2>8, <2>9
<1>2. ASSUME \A c \in Callers : ~ReadSessions(c) PROVE Cardinality(Live' \ Doomed') <= MaxActive + 1
  <2>1. faults = 0
    BY TrimMoves
  <2>2. \A c \in Callers : call[c].at # "trim"
    BY <1>2, TrimMoves
  <2>3. Live' \in SUBSET Live
    <3>1. ASSUME NEW c \in Callers, CreateSession(c) PROVE FALSE
      BY <1>0, <3>1 DEF CreateSession, TypeOK, Calls
    <3> QED BY <3>1, LiveOrLogin
  <2>4. Live' \ Doomed' \in SUBSET (Live \ Doomed)
    <3> SUFFICES ASSUME NEW s \in Live', s \in Doomed PROVE s \in Doomed'
      BY <2>3
    <3>1. PICK c \in Callers : call[c].at = "trimWrite" /\ s \in call[c].stale
      BY DEF Doomed
    <3>2. ~TrimAndAnswer(c)
      BY <1>0, <3>1 DEF TrimAndAnswer, Revoked, Live
    <3>3. call'[c] = call[c]
      BY <3>1, <3>2, TrimMoves
    <3> QED BY <1>0, <3>1, <3>3 DEF Doomed
  <2>5. Cardinality(Live \ Doomed) <= MaxActive + 1
    BY <2>1, <2>2 DEF Trimmed
  <2>6. Live \ Doomed \in SUBSET Sessions
    BY <1>0
  <2> QED BY <1>0, <2>4, <2>5, <2>6, SessionSets
<1> QED BY <1>1, <1>2

LEMMA InitTrimmed == Init => InOrder /\ Trimmed
<1> SUFFICES ASSUME Init PROVE InOrder /\ Trimmed
  OBVIOUS
<1>1. Created = {} /\ Live = {}
  BY DEF Init, Created, Live
<1>2. InOrder
  BY <1>1 DEF Init, InOrder
<1>3. Cardinality(Live \ Doomed) = 0
  BY <1>1, FS_EmptySet
<1> QED BY <1>2, <1>3, RotationAssumption DEF Trimmed

LEMMA TrimsAtRest == Trimmed => LimitHolds
<1> SUFFICES ASSUME Trimmed, faults = 0, \A c \in Callers : call[c].at = "idle"
             PROVE  Cardinality(Live) <= MaxActive + 1
  BY DEF LimitHolds
<1>1. Live \ Doomed = Live
  BY DEF Doomed
<1> QED BY <1>1 DEF Trimmed

\* Once every request has ended, and none stopped half way, the user has at
\* most one session beyond the limit: whoever trims last counts the sessions
\* of all that were made before, however many logged in at once.
THEOREM LimitIsKept == Spec => []LimitHolds
<1>1. Inv /\ InOrder /\ Trimmed /\ [Next]_vars => (InOrder /\ Trimmed)'
  BY InOrderStep, TrimmedStep
<1> QED BY <1>1, Invariance, InitTrimmed, TrimsAtRest, PTL DEF Spec

----------------------------------------------------------------------------
(* The refinement.                                                          *)

LEMMA LifeOf ==
  ASSUME NEW t \in Tokens
  PROVE  /\ tokenLife[t] = "unissued" <=> t > issued
         /\ tokenLife[t] = "live" <=> ~(t > issued) /\ \E s \in Live : token[s] = t
         /\ tokenLife[t] \in {"unissued", "live", "dead"}
BY DEF tokenLife

\* Sessions that stop being live kill their tokens.
LEMMA FewerLive ==
  ASSUME UNCHANGED <<token, issued, exchanged>>, Live' \subseteq Live
  PROVE  Ledger!Next
<1> DEFINE D == {t \in Tokens : tokenLife[t] = "live" /\ tokenLife'[t] # "live"}
<1>1. tokenLife' = [t \in Tokens |-> IF t \in D THEN "dead" ELSE tokenLife[t]]
  <2>1. \A t \in Tokens : tokenLife'[t] = IF t \in D THEN "dead" ELSE tokenLife[t]
    BY DEF tokenLife
  <2> QED BY <2>1 DEF tokenLife
<1>2. Ledger!Kill(D)
  BY <1>1 DEF Ledger!Kill
<1> QED BY <1>2 DEF Ledger!Next

LEMMA CreateIssues ==
  ASSUME Inv, NEW c \in Callers, CreateSession(c)
  PROVE  Ledger!Next
<1> DEFINE u == issued + 1
<1>1. PICK s \in Sessions :
        /\ status[s] = "none"
        /\ status' = [status EXCEPT ![s] = "active"]
        /\ token' = [token EXCEPT ![s] = u]
  BY DEF CreateSession
<1>2. u \in Tokens /\ issued \in Nat /\ issued' = u /\ expired' = expired /\ s \notin expired
  BY RotationAssumption, <1>1 DEF CreateSession, Inv, TypeOK, Held, Tokens
<1>3. Live' = Live \cup {s} /\ s \notin Live
  BY <1>1, <1>2 DEF Live, Inv, TypeOK
<1>4. \A t \in Tokens : tokenLife'[t] = IF t = u THEN "live" ELSE tokenLife[t]
  <2> SUFFICES ASSUME NEW t \in Tokens PROVE tokenLife'[t] = IF t = u THEN "live" ELSE tokenLife[t]
    OBVIOUS
  <2>1. t \in Nat /\ (t # u => (t > issued' <=> t > issued)) /\ ~(u > issued')
    BY <1>2 DEF Tokens
  <2>2. token'[s] = u /\ \A r \in Live : token'[r] = token[r]
    BY <1>1, <1>3 DEF Inv, TypeOK, Live
  <2>3. t # u => ((\E r \in Live' : token'[r] = t) <=> (\E r \in Live : token[r] = t))
    BY <2>2, <1>3
  <2>4. \E r \in Live' : token'[r] = u
    BY <2>2, <1>3
  <2> QED BY <2>1, <2>3, <2>4 DEF tokenLife
<1>5. tokenLife[u] = "unissued" /\ tokenLife' = [tokenLife EXCEPT ![u] = "live"]
  <2>1. u > issued
    BY <1>2
  <2>2. tokenLife \in [Tokens -> {"unissued", "live", "dead"}]
    BY DEF tokenLife
  <2>3. tokenLife' = [t \in Tokens |-> tokenLife'[t]]
    BY DEF tokenLife
  <2> QED BY <2>1, <2>2, <2>3, <1>2, <1>4, LifeOf
<1>6. Ledger!Issue(u)
  BY <1>5 DEF Ledger!Issue, CreateSession
<1> QED BY <1>6, <1>2 DEF Ledger!Next

LEMMA RotateExchanges ==
  ASSUME Inv, NEW c \in Callers, Rotate(c)
  PROVE  Ledger!Next
<1> DEFINE s == call[c].own
           t == call[c].presented
           u == issued + 1
<1>1. /\ s \in Live /\ s \in Sessions /\ token[s] = t /\ t \in Tokens
      /\ status' = [status EXCEPT ![s] = "active"] /\ status[s] = "active"
      /\ token' = [token EXCEPT ![s] = u]
  BY DEF Rotate, Rotatable, Holds, Live, Inv, CallOK
<1>2. u \in Tokens /\ issued \in Nat /\ issued' = u /\ expired' = expired
  BY RotationAssumption DEF Rotate, Inv, TypeOK, Tokens
<1> HIDE DEF s, t
<1>3. Live' = Live
  BY <1>1, <1>2 DEF Live, Inv, TypeOK
<1>4. t # 0 /\ t <= issued /\ t # u /\ t \in Nat
  BY <1>1, <1>2 DEF Inv, Held, TypeOK, Tokens
<1>5. \A r \in Live : r # s => token'[r] = token[r] /\ token[r] # t /\ token[r] # u
  BY <1>1, <1>2, <1>4 DEF Inv, Held, TypeOK, Live
<1>6. \A v \in Tokens : tokenLife'[v] = IF v = u THEN "live" ELSE IF v = t THEN "dead" ELSE tokenLife[v]
  <2> SUFFICES ASSUME NEW v \in Tokens
               PROVE  tokenLife'[v] = IF v = u THEN "live" ELSE IF v = t THEN "dead" ELSE tokenLife[v]
    OBVIOUS
  <2>1. v \in Nat /\ (v # u => (v > issued' <=> v > issued)) /\ ~(u > issued')
    BY <1>2 DEF Tokens
  <2>2. token'[s] = u
    BY <1>1 DEF Inv, TypeOK
  <2>3. CASE v = u
    BY <2>3, <2>1, <2>2, <1>1, <1>3 DEF tokenLife
  <2>4. CASE v = t
    <3>1. ~(v > issued') /\ v # u
      BY <2>4, <1>4, <1>2
    <3>2. \A r \in Live' : token'[r] # v
      BY <2>4, <2>2, <1>3, <1>4, <1>5
    <3> QED BY <3>1, <3>2, <2>4 DEF tokenLife
  <2>5. CASE v # u /\ v # t
    <3>1. (\E r \in Live' : token'[r] = v) <=> (\E r \in Live : token[r] = v)
      BY <2>5, <2>2, <1>1, <1>3, <1>5
    <3> QED BY <3>1, <2>1, <2>5 DEF tokenLife
  <2> QED BY <2>3, <2>4, <2>5
<1>7. tokenLife[t] = "live" /\ tokenLife[u] = "unissued"
  <2>1. ~(t > issued) /\ u > issued
    BY <1>2, <1>4
  <2> QED BY <2>1, <1>1, <1>2, LifeOf
<1>8. tokenLife' = [tokenLife EXCEPT ![t] = "dead", ![u] = "live"]
  <2>1. tokenLife' = [v \in Tokens |-> tokenLife'[v]] /\ tokenLife = [v \in Tokens |-> tokenLife[v]]
    BY DEF tokenLife
  <2> QED BY <2>1, <1>6, <1>4
<1>9. Ledger!Exchange(t, u)
  <2>1. exchanged' = exchanged \cup {<<t, u>>}
    BY DEF Rotate, s, t
  <2> QED BY <1>7, <1>8, <2>1 DEF Ledger!Exchange
<1> QED BY <1>9, <1>1, <1>2 DEF Ledger!Next

\* Seen through the tokens its live sessions hold, every statement of every
\* request issues, exchanges or kills tokens as the ledger does, or does
\* nothing: a dead token is never live again, and only a live one is exchanged.
THEOREM ImplementsLedger == Spec => LedgerSpec
<1>1. Init => Ledger!Init
  <2>1. ASSUME Init, NEW t \in Tokens PROVE t > issued
    BY <2>1 DEF Init, Tokens
  <2> QED BY <2>1 DEF Ledger!Init, Init, tokenLife
<1>2. Inv /\ [Next]_vars => [Ledger!Next]_<<tokenLife, exchanged>>
  <2> SUFFICES ASSUME Inv, [Next]_vars PROVE [Ledger!Next]_<<tokenLife, exchanged>>
    OBVIOUS
  <2>1. CASE RowsKept
    <3>1. Live' \subseteq Live
      BY <2>1 DEF RowsKept, Live
    <3> QED BY <2>1, <3>1, FewerLive DEF RowsKept
  <2>2. CASE Expire
    <3>1. Live' \subseteq Live
      BY <2>2 DEF Expire, rows, Live
    <3> QED BY <2>2, <3>1, FewerLive DEF Expire, rows
  <2>3. ASSUME NEW c \in Callers, CreateSession(c) \/ Rotate(c) PROVE Ledger!Next
    BY <2>3, CreateIssues, RotateExchanges
  <2> QED BY <2>1, <2>2, <2>3, KeptOrNot DEF Inv
<1> QED BY Invariance, <1>1, <1>2, PTL DEF Spec, LedgerSpec, Ledger!Spec

============================================================================
