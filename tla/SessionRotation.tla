-------------------------- MODULE SessionRotation --------------------------
(***************************************************************************)
(* The sessions of one user: AuthService.generateTokens, refresh, logout   *)
(* and revocations over SessionRepository.  Each request is a series of    *)
(* statements with no transaction around them, and requests interleave at  *)
(* every statement.  What guards the sessions is the condition in the      *)
(* UPDATE of rotate.                                                       *)
(*                                                                         *)
(* A token is a number, issued in order.  The hash of a token, the older   *)
(* sessions that stored it in clear, the labels of the devices and the     *)
(* access token are left out, and so is a collision of two random tokens.  *)
(*                                                                         *)
(* A row of SessionRefreshHistory expires when the session would have that *)
(* was rotated with it.  The lifetime of sessions is a setting, so that    *)
(* the rows of earlier rotations may expire in any order and at any time;  *)
(* the row of a session's last rotation expires with the session.          *)
(***************************************************************************)
EXTENDS Naturals, FiniteSets

CONSTANTS
  Sessions,   \* rows of Session there can be
  Callers,    \* requests that can be in progress at once
  NoSession,
  MaxActive,  \* PlatformSecurityPolicy.maxActiveSessions
  MaxTokens,  \* bound: tokens ever issued
  MaxFaults   \* bound: requests that stop half way

ASSUME RotationAssumption ==
  /\ IsFiniteSet(Sessions) /\ NoSession \notin Sessions
  /\ MaxActive \in Nat \ {0} /\ MaxTokens \in Nat /\ MaxFaults \in Nat

VARIABLES
  status,        \* revokedAt of the row, and whether there is one
  token,         \* its refreshToken
  expired,       \* sessions whose expiresAt has passed
  age,           \* their order by lastSeenAt, 0 for the latest
  tokenHistory,  \* SessionRefreshHistory: tokens rotated away, unless the row has expired
  issued,        \* tokens made so far
  known,         \* tokens some client was given
  call,          \* each caller's statement and what its request has read
  faults,        \* requests that stopped half way
  exchanged      \* history: pairs of a token and the one given for it

rows == <<status, token, age, issued>>
vars == <<rows, expired, tokenHistory, known, call, faults, exchanged>>

Tokens == 1 .. MaxTokens
RowStates == {"none", "active", "revoked", "deleted"}
Steps == {"idle", "create", "find", "rotate", "record", "trim", "trimWrite", "lookup", "family"}

\* The token presented, the session found or created, those to be trimmed,
\* and (history) which sessions were active when the refresh began, and
\* whether the token had been rotated, and recorded as such, by then.
Nothing == [sessions |-> {}, rotated |-> FALSE, recorded |-> FALSE]
Idle == [at |-> "idle", presented |-> 0, own |-> NoSession, stale |-> {}, began |-> Nothing]
Calls == [at : Steps, presented : 0 .. MaxTokens, own : Sessions \cup {NoSession}, stale : SUBSET Sessions,
          began : [sessions : SUBSET Sessions, rotated : BOOLEAN, recorded : BOOLEAN]]

Init ==
  /\ status = [s \in Sessions |-> "none"] /\ token = [s \in Sessions |-> 0]
  /\ expired = {} /\ age = [s \in Sessions |-> Cardinality(Sessions)]
  /\ tokenHistory = {} /\ issued = 0 /\ known = {}
  /\ call = [c \in Callers |-> Idle]
  /\ faults = 0 /\ exchanged = {}

Live == {s \in Sessions : status[s] = "active" /\ s \notin expired}
Holds(s, t) == status[s] \in {"active", "revoked"} /\ token[s] = t
Seen(s) == [r \in Sessions |-> IF r = s THEN 0 ELSE IF age[r] < age[s] THEN age[r] + 1 ELSE age[r]]
Revoked(S) == [s \in Sessions |-> IF s \in S /\ status[s] = "active" THEN "revoked" ELSE status[s]]

Goes(c, from, to) == call[c].at = from /\ call' = [call EXCEPT ![c].at = to]
Ends(c, from) == call[c].at = from /\ call' = [call EXCEPT ![c] = Idle]

----------------------------------------------------------------------------
(* Requests begin.  A client refreshes with any token it was ever given.    *)

BeginLogin(c) ==
  /\ Goes(c, "idle", "create")
  /\ UNCHANGED <<rows, expired, tokenHistory, known, faults, exchanged>>

BeginRefresh(c) ==
  /\ call[c].at = "idle"
  /\ \E t \in known :
       call' = [call EXCEPT ![c] = [Idle EXCEPT
         !.at = "find", !.presented = t,
         !.began = [sessions |-> {s \in Sessions : status[s] = "active"},
                    rotated |-> \E u \in Tokens : <<t, u>> \in exchanged,
                    recorded |-> t \in tokenHistory]]]
  /\ UNCHANGED <<rows, expired, tokenHistory, known, faults, exchanged>>

----------------------------------------------------------------------------
(* generateTokens for a login.                                              *)

CreateSession(c) ==
  /\ call[c].at = "create" /\ issued < MaxTokens
  /\ \E s \in Sessions :
       /\ status[s] = "none"
       /\ status' = [status EXCEPT ![s] = "active"]
       /\ token' = [token EXCEPT ![s] = issued + 1]
       /\ age' = Seen(s)
       /\ call' = [call EXCEPT ![c].at = "trim", ![c].own = s]
  /\ issued' = issued + 1
  /\ UNCHANGED <<expired, tokenHistory, known, faults, exchanged>>

----------------------------------------------------------------------------
(* refresh.                                                                 *)

\* The session that holds the token, if there is one and it may go on.
FindByRefreshToken(c) ==
  /\ call[c].at = "find"
  /\ \/ (\A s \in Sessions : ~Holds(s, call[c].presented)) /\ Goes(c, "find", "lookup")
     \/ \E s \in Sessions :
          /\ Holds(s, call[c].presented)
          /\ IF s \in Live THEN call' = [call EXCEPT ![c].at = "rotate", ![c].own = s] ELSE Ends(c, "find")
  /\ UNCHANGED <<rows, expired, tokenHistory, known, faults, exchanged>>

Rotatable_WrongRevoked(s, t) == Holds(s, t) /\ s \notin expired
Rotatable_WrongToken(s, t) == s \in Live
Rotatable(s, t) == Holds(s, t) /\ s \in Live

\* The UPDATE writes the new token and clears revokedAt, if its condition holds.
Rotate(c) ==
  LET s == call[c].own  t == call[c].presented IN
  /\ call[c].at = "rotate" /\ Rotatable(s, t) /\ issued < MaxTokens
  /\ status' = [status EXCEPT ![s] = "active"]
  /\ token' = [token EXCEPT ![s] = issued + 1]
  /\ age' = Seen(s)
  /\ issued' = issued + 1
  /\ exchanged' = exchanged \cup {<<t, issued + 1>>}
  /\ Goes(c, "rotate", "record")
  /\ UNCHANGED <<expired, tokenHistory, known, faults>>

AlreadyRotated(c) ==
  /\ Ends(c, "rotate") /\ ~Rotatable(call[c].own, call[c].presented)
  /\ UNCHANGED <<rows, expired, tokenHistory, known, faults, exchanged>>

\* The row is written with the expiry of the rotation, which may have passed.
Recorded(c) == IF call[c].own \in expired THEN {} ELSE {call[c].presented}

RecordRotation(c) ==
  /\ Goes(c, "record", "trim")
  /\ tokenHistory' = tokenHistory \cup Recorded(c)
  /\ UNCHANGED <<rows, expired, known, faults, exchanged>>

\* A row that has expired is not found.  A look-up that fails counts as one that
\* found nothing: that is Abandon.
FindReusedToken(c) ==
  /\ IF call[c].presented \in tokenHistory THEN Goes(c, "lookup", "family") ELSE Ends(c, "lookup")
  /\ UNCHANGED <<rows, expired, tokenHistory, known, faults, exchanged>>

Family_Wrong(c) == {s \in Sessions : token[s] = call[c].presented}
Family(c) == Sessions

RevokeActiveFamily(c) ==
  /\ Ends(c, "family")
  /\ status' = Revoked(Family(c))
  /\ UNCHANGED <<token, age, issued, expired, tokenHistory, known, faults, exchanged>>

----------------------------------------------------------------------------
(* trimSessions, and the answer with the new token after it.                *)

Beyond_Wrong(s) == Cardinality({r \in Live : age[r] < age[s]}) > MaxActive
Beyond(s) == Cardinality({r \in Live : age[r] < age[s]}) >= MaxActive

ReadSessions(c) ==
  /\ call[c].at = "trim"
  /\ call' = [call EXCEPT ![c].at = "trimWrite", ![c].stale = {s \in Live : Beyond(s)} \ {call[c].own}]
  /\ UNCHANGED <<rows, expired, tokenHistory, known, faults, exchanged>>

\* The token this request made is still in the row: it was not given out before.
TrimAndAnswer(c) ==
  /\ Ends(c, "trimWrite")
  /\ status' = Revoked(call[c].stale)
  /\ known' = known \cup {token[call[c].own]}
  /\ UNCHANGED <<token, age, issued, expired, tokenHistory, faults, exchanged>>

----------------------------------------------------------------------------
(* Requests of one statement, the clock, and faults.                        *)

SetRows(status2) ==
  /\ status' = status2
  /\ UNCHANGED <<token, age, issued, expired, tokenHistory, known, call, faults, exchanged>>

Logout == \E t \in known : SetRows(Revoked({s \in Sessions : token[s] = t}))
RevokeSession == \E s \in Sessions : status[s] = "active" /\ SetRows(Revoked({s}))
RevokeOtherSessions == \E s \in Live : SetRows(Revoked(Sessions \ {s}))
ResetPassword == SetRows([s \in Sessions |-> IF status[s] = "none" THEN "none" ELSE "deleted"])

\* JwtStrategy.validate and stepUp: the session is used.
Touch ==
  /\ \E s \in Live : age' = Seen(s)
  /\ UNCHANGED <<status, token, issued, expired, tokenHistory, known, call, faults, exchanged>>

LastRotated(s) == {t \in tokenHistory : <<t, token[s]>> \in exchanged}

Expire ==
  /\ \E s \in Live : /\ expired' = expired \cup {s}
                     /\ tokenHistory' = tokenHistory \ LastRotated(s)
  /\ UNCHANGED <<rows, known, call, faults, exchanged>>

\* A row of an earlier rotation, or of a session that is over, expires.
LapseHistory ==
  /\ \E t \in tokenHistory : /\ \A s \in Live : t \notin LastRotated(s)
                             /\ tokenHistory' = tokenHistory \ {t}
  /\ UNCHANGED <<rows, expired, known, call, faults, exchanged>>

\* A statement fails, or the process stops: the request gets no further.
Abandon(c) ==
  /\ call[c].at # "idle" /\ Ends(c, call[c].at)
  /\ faults < MaxFaults /\ faults' = faults + 1
  /\ UNCHANGED <<rows, expired, tokenHistory, known, exchanged>>

RequestStep(c) ==
  \/ BeginLogin(c) \/ CreateSession(c)
  \/ BeginRefresh(c) \/ FindByRefreshToken(c) \/ Rotate(c) \/ AlreadyRotated(c) \/ RecordRotation(c)
  \/ FindReusedToken(c) \/ RevokeActiveFamily(c)
  \/ ReadSessions(c) \/ TrimAndAnswer(c) \/ Abandon(c)

Next ==
  \/ \E c \in Callers : RequestStep(c)
  \/ Logout \/ RevokeSession \/ RevokeOtherSessions \/ ResetPassword \/ Touch \/ Expire \/ LapseHistory

Spec == Init /\ [][Next]_vars

----------------------------------------------------------------------------

\* Rows, tokens and requests hold values of their types.
TypeOK ==
  /\ status \in [Sessions -> RowStates] /\ token \in [Sessions -> 0 .. MaxTokens]
  /\ expired \in SUBSET Sessions /\ age \in [Sessions -> Nat]
  /\ tokenHistory \in SUBSET Tokens /\ issued \in 0 .. MaxTokens /\ known \in SUBSET Tokens
  /\ call \in [Callers -> Calls]
  /\ faults \in 0 .. MaxFaults /\ exchanged \in SUBSET (Tokens \X Tokens)

\* A refresh token is exchanged at most once, however many requests present it.
ExchangedOnce == \A p, q \in exchanged : p[1] = q[1] => p = q

\* A session that was revoked or deleted never becomes active again, although
\* rotate clears revokedAt.
RevokedStaysRevoked ==
  [][\A s \in Sessions : status[s] \in {"revoked", "deleted"} => status'[s] \in {status[s], "deleted"}]_vars

Refused(c) ==
  /\ call[c].at \in {"find", "rotate", "lookup", "family"} /\ call'[c].at = "idle"
  /\ faults' = faults

\* A refresh with a token whose rotation was recorded before it began is refused
\* only by revoking every session that was active then, unless the record has
\* expired by the time refresh looks it up.
RecordedReuseRevokes ==
  [][\A c \in Callers :
       /\ Refused(c) /\ call[c].began.recorded
       /\ call[c].at = "lookup" => call[c].presented \in tokenHistory
       => \A s \in call[c].began.sessions : status'[s] # "active"]_vars

\* Reuse of a rotated refresh token revokes the user's active session family.
ReuseRevokesFamily ==
  [][\A c \in Callers : Refused(c) /\ call[c].began.rotated =>
       \A s \in call[c].began.sessions : status'[s] # "active"]_vars

\* With no request in progress there is at most one session beyond the limit,
\* the one that trimSessions kept because it was the caller's own, unless a
\* request stopped before its trim.
LimitHolds ==
  faults = 0 /\ (\A c \in Callers : call[c].at = "idle") => Cardinality(Live) <= MaxActive + 1

----------------------------------------------------------------------------
(* The ledger: a token is live as long as a live session holds it.          *)

tokenLife == [t \in Tokens |->
  IF t > issued THEN "unissued"
  ELSE IF \E s \in Live : token[s] = t THEN "live" ELSE "dead"]
Ledger == INSTANCE TokenLedger WITH Tokens <- Tokens, life <- tokenLife, exchanged <- exchanged
LedgerSpec == Ledger!Spec

============================================================================
