---------------------------- MODULE EmailPolicy ----------------------------
(***************************************************************************)
(* Who may be written to: the tables EmailSuppression (one row per         *)
(* address) and NotificationPreference (one row per user), for one address *)
(* and the user it belongs to.  enqueue reads both, in two statements, and *)
(* settles the status of a new mail; the requests that change them are     *)
(* made of several statements too, and none runs in a transaction.  What   *)
(* becomes of a mail afterwards is in EmailDelivery: the workers do not    *)
(* look at the two tables again.                                           *)
(***************************************************************************)
EXTENDS Naturals

CONSTANTS
  Callers,     \* requests that can be in progress at once
  MaxRequests  \* bound: requests ever made

ASSUME PolicyAssumption == MaxRequests \in Nat

VARIABLES
  reason,           \* EmailSuppression.reason of the address
  prefs,            \* NotificationPreference of its user
  request, pc,      \* what each caller asked for, and the statement it is at
  reasonRead,       \* what enqueue has read,
  prefsRead,        \*   and updatePreferences
  inserted,         \* the mail inserted last
  made,             \* requests made
  optedOut,         \* history: an unsubscribe holds that nobody has begun to undo,
  owed              \*   and what it owed the recipient when each request began

tables  == <<reason, prefs>>
calls   == <<request, pc, reasonRead, prefsRead>>
history == <<optedOut, owed>>
vars    == <<tables, calls, inserted, made, history>>

Reasons == {"NONE", "UNSUBSCRIBED", "BOUNCE", "COMPLAINT"}
\* settings.events has one switch for each optional category: one stands for all.
Prefs == [emailEnabled : BOOLEAN, digestDaily : BOOLEAN, event : BOOLEAN]
Fields == {"emailEnabled", "digestDaily", "event"}
Statuses == {"QUEUED", "DIGEST_PENDING", "SUPPRESSED"}
Requests ==
  [op : {"enqueue"}, critical : BOOLEAN, user : BOOLEAN]
  \cup [op : {"update"}, field : Fields, to : BOOLEAN]
  \cup [op : {"unsubscribe", "resubscribe"}]
NoRequest == [op |-> "none"]
NoMail == [status |-> "none"]

Init ==
  /\ reason = "NONE"
  /\ prefs = [emailEnabled |-> TRUE, digestDaily |-> FALSE, event |-> TRUE]
  /\ request = [c \in Callers |-> NoRequest] /\ pc = [c \in Callers |-> 0]
  /\ reasonRead = [c \in Callers |-> "NONE"] /\ prefsRead = [c \in Callers |-> prefs]
  /\ inserted = NoMail /\ made = 0
  /\ optedOut = FALSE /\ owed = [c \in Callers |-> FALSE]

\* An unsubscribe that will not be undone by a resubscribe in progress.
Unopposed(r) == r.op = "unsubscribe" /\ \A d \in Callers : request[d].op # "resubscribe"

\* Caller c asks for r: its first statement comes next.
Begin(c, r) ==
  /\ request[c] = NoRequest /\ made < MaxRequests /\ made' = made + 1
  /\ request' = [request EXCEPT ![c] = r] /\ pc' = [pc EXCEPT ![c] = 1]
  /\ optedOut' = (optedOut /\ r.op # "resubscribe")
  /\ owed' = [d \in Callers |-> r.op # "resubscribe" /\ IF d = c THEN optedOut \/ Unopposed(r) ELSE owed[d]]
  /\ UNCHANGED <<tables, reasonRead, prefsRead, inserted>>

\* The n-th statement of request op, and the one after it.
At(c, op, n) == request[c].op = op /\ pc[c] = n
Proceed(c) == pc' = [pc EXCEPT ![c] = @ + 1] /\ UNCHANGED <<request, made, owed>>
Finish(c) == request' = [request EXCEPT ![c] = NoRequest] /\ pc' = [pc EXCEPT ![c] = 0] /\ UNCHANGED <<made, owed>>

----------------------------------------------------------------------------
(* enqueue: the suppression, the preferences of the user if there is one,   *)
(* and the row.                                                             *)

ReadSuppression(c) ==
  /\ At(c, "enqueue", 1) /\ Proceed(c)
  /\ reasonRead' = [reasonRead EXCEPT ![c] = reason]
  /\ UNCHANGED <<tables, prefsRead, inserted, optedOut>>

ReadPreferences(c) ==
  /\ \/ At(c, "enqueue", 2)
     \/ At(c, "update", 1)
  /\ Proceed(c)
  /\ prefsRead' = [prefsRead EXCEPT ![c] = prefs]
  /\ UNCHANGED <<tables, reasonRead, inserted, optedOut>>

Blocked_Wrong(m, why) == why = "UNSUBSCRIBED" /\ ~m.critical
Blocked(m, why) == IF m.critical THEN why \in {"BOUNCE", "COMPLAINT"} ELSE why # "NONE"

OptionalDisabled(m, p) == ~m.critical /\ m.user /\ ~(p.emailEnabled /\ p.event)

StatusOf(m, why, p) ==
  IF Blocked(m, why) \/ OptionalDisabled(m, p) THEN "SUPPRESSED"
  ELSE IF ~m.critical /\ m.user /\ p.digestDaily THEN "DIGEST_PENDING" ELSE "QUEUED"

InsertMail(c) ==
  /\ At(c, "enqueue", 3) /\ Finish(c)
  /\ inserted' = [status |-> StatusOf(request[c], reasonRead[c], prefsRead[c]),
                  critical |-> request[c].critical, owed |-> owed[c]]
  /\ UNCHANGED <<tables, reasonRead, prefsRead, optedOut>>

----------------------------------------------------------------------------
(* The recipient's requests.                                                *)

\* updatePreferences writes the whole row, as it was read but for the field.
WritePreferences(c) ==
  /\ At(c, "update", 2) /\ Finish(c)
  /\ prefs' = [prefsRead[c] EXCEPT ![request[c].field] = request[c].to]
  /\ UNCHANGED <<reason, reasonRead, prefsRead, inserted, optedOut>>

\* The row of the address is created, or its reason replaced.
UnsubscribeAddress_Wrong(c) ==
  /\ At(c, "unsubscribe", 1) /\ Proceed(c)
  /\ UNCHANGED <<tables, reasonRead, prefsRead, inserted, optedOut>>

UnsubscribeAddress(c) ==
  /\ At(c, "unsubscribe", 1) /\ Proceed(c)
  /\ reason' = "UNSUBSCRIBED"
  /\ UNCHANGED <<prefs, reasonRead, prefsRead, inserted, optedOut>>

UnsubscribeUser(c) ==
  /\ At(c, "unsubscribe", 2) /\ Finish(c)
  /\ prefs' = [prefs EXCEPT !.emailEnabled = FALSE]
  /\ optedOut' = (optedOut \/ owed[c])
  /\ UNCHANGED <<reason, reasonRead, prefsRead, inserted>>

ResubscribeUser(c) ==
  /\ At(c, "resubscribe", 1) /\ Proceed(c)
  /\ prefs' = [prefs EXCEPT !.emailEnabled = TRUE]
  /\ UNCHANGED <<reason, reasonRead, prefsRead, inserted, optedOut>>

ResubscribeAddress(c) ==
  /\ At(c, "resubscribe", 2) /\ Finish(c)
  /\ reason' = IF reason = "UNSUBSCRIBED" THEN "NONE" ELSE reason
  /\ UNCHANGED <<prefs, reasonRead, prefsRead, inserted, optedOut>>

\* recordProviderEvent; its effect on the rows is in EmailDelivery.
ProviderReports ==
  /\ \E why \in {"BOUNCE", "COMPLAINT"} : reason' = why
  /\ UNCHANGED <<prefs, calls, inserted, made, optedOut, owed>>

Step(c) ==
  \/ ReadSuppression(c) \/ ReadPreferences(c) \/ InsertMail(c) \/ WritePreferences(c)
  \/ UnsubscribeAddress(c) \/ UnsubscribeUser(c) \/ ResubscribeUser(c) \/ ResubscribeAddress(c)

Next ==
  \/ \E c \in Callers : Step(c) \/ \E r \in Requests : Begin(c, r)
  \/ ProviderReports

Spec == Init /\ [][Next]_vars

----------------------------------------------------------------------------

\* The two tables and the requests hold values of their columns.
TypeOK ==
  /\ reason \in Reasons /\ prefs \in Prefs
  /\ request \in [Callers -> Requests \cup {NoRequest}] /\ pc \in [Callers -> 0 .. 3]
  /\ reasonRead \in [Callers -> Reasons] /\ prefsRead \in [Callers -> Prefs]
  /\ inserted = NoMail \/ inserted.status \in Statuses
  /\ owed \in [Callers -> BOOLEAN]
  /\ made \in 0 .. MaxRequests /\ optedOut \in BOOLEAN

\* No optional mail goes to a recipient who had unsubscribed before it was
\* enqueued, and not begun to resubscribe: not through preferences that a
\* concurrent updatePreferences wrote back as it had read them, and not
\* through a provider's event that replaced the reason.
OptOutHonoured ==
  inserted # NoMail /\ ~inserted.critical /\ inserted.owed =>
    inserted.status = "SUPPRESSED"

============================================================================
