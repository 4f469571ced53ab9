---------------------------- MODULE SecondFactor ----------------------------
(***************************************************************************)
(* The second factor of one user (MfaService, MfaResetService, and the     *)
(* handlers of AuthService that call them): the columns mfaEnabled,        *)
(* mfaSecretEncrypted, mfaPendingSecretEncrypted and mfaRecoveryCodes.     *)
(*                                                                         *)
(* verifyUserCode reads the row; a code of the authenticator changes       *)
(* nothing, a recovery code is cut from the list as it was read, and the   *)
(* whole list is written back.  An approved reset is one transaction.      *)
(*                                                                         *)
(* A list of recovery codes has the number of its issue; an absent list is *)
(* an empty one, as parseRecoveryHashes has it.  The secrets are written   *)
(* and cleared together with mfaEnabled, so that this column stands for    *)
(* both.  A wrong code changes nothing; passwords, challenges and the mail *)
(* about a reset are left out.                                             *)
(***************************************************************************)
EXTENDS ReadThenWrite, Naturals

CONSTANTS
  Codes,        \* recovery codes of one issue
  MaxIssues     \* bound: lists of recovery codes issued

ASSUME FactorAssumption == MaxIssues \in Nat

VARIABLES
  factor,       \* the columns of the user's row
  resets,       \* rows of MfaResetRequest that are PENDING
  proving,      \* what each request has read, and is going to write
  issued,       \* how many lists there have been
  spent,        \* history: recovery codes that were accepted and written off
  factorOutdated     \* history: a list was written that no longer fits the row

factorVars == <<factor, resets, proving, issued, spent, factorOutdated>>

Factors == [enabled : BOOLEAN, pending : BOOLEAN, issue : 0 .. MaxIssues, left : SUBSET Codes]
NoFactor == [enabled |-> FALSE, pending |-> FALSE, issue |-> 0, left |-> {}]

\* What a code is asked for: to sign in or step up, to disable, to get new codes.
Purposes == {"proceed", "disable", "regenerate"}
Provings == [at : {"idle", "confirm", "spend", "apply", "request"}, goal : Purposes,
             issue : 0 .. MaxIssues, left : SUBSET Codes, fresh : BOOLEAN]
NotProving == [at |-> "idle", goal |-> "proceed", issue |-> 0, left |-> {}, fresh |-> TRUE]
Proving(step, goal) == [NotProving EXCEPT !.at = step, !.goal = goal]

FactorInit ==
  /\ factor = NoFactor /\ resets = 0
  /\ proving = [r \in Requests |-> NotProving]
  /\ issued = 0 /\ spent = {} /\ factorOutdated = FALSE

\* beginSetup: a statement of its own, which nothing that was read contradicts.
BeginSetup ==
  /\ factor' = [factor EXCEPT !.pending = TRUE]
  /\ UNCHANGED <<resets, proving, issued, spent, factorOutdated>>

Reads(r, step, goal) ==
  /\ proving[r].at = "idle"
  /\ proving' = [proving EXCEPT ![r] = Proving(step, goal)]
  /\ UNCHANGED <<factor, resets, issued, spent, factorOutdated>>

\* confirmSetup and verifyUserCode read the row and compare the code.
ReadPending(r) == factor.pending /\ Reads(r, "confirm", "proceed")

Configured == factor.enabled
AcceptTotp(r, goal) == Configured /\ goal # "proceed" /\ Reads(r, "apply", goal)

\* The recovery code is found in the list, and the rest of it is to be written back.
AcceptRecovery(r, goal, code) ==
  /\ Configured /\ code \in factor.left /\ proving[r].at = "idle"
  /\ proving' = [proving EXCEPT ![r] =
       [Proving("spend", goal) EXCEPT !.issue = factor.issue, !.left = factor.left \ {code}]]
  /\ UNCHANGED <<factor, resets, issued, spent, factorOutdated>>

WriteFactor(r, columns, next) ==
  /\ factor' = columns
  /\ proving' = Overwritten(proving, r, next)
  /\ UNCHANGED resets

\* A list is written that was decided on from the row as it was read.
WriteList(r, columns, next) ==
  WriteFactor(r, columns, next) /\ factorOutdated' = (factorOutdated \/ ~proving[r].fresh)

\* The list goes back as it was read, less the code.
WriteSpent(r) ==
  /\ proving[r].at = "spend"
  /\ WriteList(r, [factor EXCEPT !.issue = proving[r].issue, !.left = proving[r].left],
       IF proving[r].goal = "proceed" THEN NotProving ELSE Proving("apply", proving[r].goal))
  /\ spent' = spent \cup ({proving[r].issue} \X (Codes \ proving[r].left))
  /\ UNCHANGED issued

Issue == issued < MaxIssues /\ issued' = issued + 1
WithNewCodes(columns) == [columns EXCEPT !.issue = issued + 1, !.left = Codes]

WriteConfirmed(r) ==
  /\ proving[r].at = "confirm" /\ Issue
  /\ WriteFactor(r, WithNewCodes([factor EXCEPT !.enabled = TRUE, !.pending = FALSE]), NotProving)
  /\ UNCHANGED <<spent, factorOutdated>>

WriteRegenerated(r) ==
  /\ proving[r].at = "apply" /\ proving[r].goal = "regenerate" /\ Issue
  /\ WriteList(r, WithNewCodes(factor), NotProving)
  /\ UNCHANGED spent

Cleared_Wrong == [factor EXCEPT !.enabled = FALSE, !.pending = FALSE]
\* All five columns are cleared; an empty list is what is left of the last issue.
Cleared == [NoFactor EXCEPT !.issue = factor.issue]

WriteDisabled(r) ==
  /\ proving[r].at = "apply" /\ proving[r].goal = "disable"
  /\ WriteFactor(r, Cleared, NotProving)
  /\ UNCHANGED <<issued, spent, factorOutdated>>

\* MfaResetService.create: no pending request of the user is found, and one is inserted.
FindNoReset(r) == resets = 0 /\ Reads(r, "request", "proceed")
InsertReset(r) ==
  /\ proving[r].at = "request"
  /\ resets' = resets + 1
  /\ proving' = [proving EXCEPT ![r] = NotProving]
  /\ UNCHANGED <<factor, issued, spent, factorOutdated>>

\* review: the request is locked, decided, and with an approval the columns are cleared.
DenyReset ==
  /\ resets > 0 /\ resets' = resets - 1
  /\ UNCHANGED <<factor, proving, issued, spent, factorOutdated>>
ApproveReset ==
  /\ resets > 0 /\ resets' = resets - 1
  /\ factor' = Cleared
  /\ proving' = Outdated(proving)
  /\ UNCHANGED <<issued, spent, factorOutdated>>

FactorNext ==
  \/ BeginSetup \/ DenyReset \/ ApproveReset
  \/ \E r \in Requests :
       \/ ReadPending(r) \/ FindNoReset(r)
       \/ \E goal \in Purposes : AcceptTotp(r, goal) \/ \E code \in Codes : AcceptRecovery(r, goal, code)
       \/ WriteSpent(r) \/ WriteConfirmed(r) \/ WriteRegenerated(r) \/ WriteDisabled(r) \/ InsertReset(r)

FactorSpec == FactorInit /\ [][FactorNext]_factorVars

----------------------------------------------------------------------------

\* The columns, the requests and the histories hold values of their types.
FactorTypeOK ==
  /\ factor \in Factors /\ resets \in Nat /\ proving \in [Requests -> Provings]
  /\ issued \in 0 .. MaxIssues /\ spent \in SUBSET ((0 .. MaxIssues) \X Codes)
  /\ factorOutdated \in BOOLEAN

\* The factor is whole: unless a list was written from a row that had changed since it
\* was read, a user without a factor has no recovery codes, and the codes in the list
\* are of the last issue and none of them was accepted before.
FactorIsWhole ==
  ~factorOutdated =>
    /\ factor.left # {} => factor.enabled /\ factor.issue = issued
    /\ \A code \in factor.left : <<factor.issue, code>> \notin spent

============================================================================
