--------------------------- MODULE ManagedDevices ---------------------------
(***************************************************************************)
(* Devices under management (CmdbService, AssetRepository,                 *)
(* AssetLifecycleService, EndpointOperationsService): they are enrolled    *)
(* with a token, retired, restored, and deleted for good once they have    *)
(* been retired long enough; a patch job queues a command for the device   *)
(* and then has a row of its own.                                          *)
(*                                                                         *)
(* One token and, as a bound, one patch job per device.  Other commands and *)
(* the answers to all, tenant, credentials and inventory of a device and   *)
(* the notes that runDeviceAction keeps are left out; a check-in writes    *)
(* nothing that is kept here.                                              *)
(***************************************************************************)
EXTENDS ReadThenWrite, Naturals

CONSTANTS
  Devices, NoDevice,   \* rows of Asset
  MaxHalts             \* bound: requests that stop between two statements

ASSUME DevicesAssumption == NoDevice \notin Devices /\ MaxHalts \in Nat

VARIABLES
  device,        \* each row; "retired" becomes "due" with its retention
  token,         \* the row of MdmEnrollmentToken
  patching,      \* devices that have a row of MdmCommand from a patch job
  patchJobs,     \* devices that have a row of PatchJob
  serving,       \* the requests in progress
  enrolled,      \* history: devices created with the token
  shared,        \* history: the token was read while it was being used
  halts,         \* history: requests that stopped between two statements
  early          \* history: devices deleted before they were due, and on what reading

deviceVars ==
  <<device, token, patching, patchJobs, serving, enrolled, shared, halts, early>>
recordVars == <<patching, patchJobs>>
tokenVars == <<token, enrolled, shared>>

DeviceStates == {"absent", "active", "retired", "due", "purged"}
Existing == {"active", "retired", "due"}
NotServing == [at |-> "idle", device |-> NoDevice, fresh |-> TRUE]
Serves(step, d) == [at |-> step, device |-> d, fresh |-> TRUE]

DevicesInit ==
  /\ device = [d \in Devices |-> "absent"]
  /\ token = "open" /\ enrolled = {} /\ shared = FALSE
  /\ patching = {} /\ patchJobs = {}
  /\ serving = [r \in Requests |-> NotServing]
  /\ halts = 0 /\ early = {}

Begins(r, step, d) ==
  /\ serving[r].at = "idle"
  /\ serving' = [serving EXCEPT ![r] = Serves(step, d)]
Continues(r, from, step, d) ==
  /\ serving[r].at = from
  /\ serving' = [serving EXCEPT ![r] = IF step = "idle" THEN NotServing ELSE Serves(step, d)]

\* The row of d is written: whoever has read it has read something else.
Rewrites(r, d, value) ==
  /\ device' = [device EXCEPT ![d] = value]
  /\ serving' = [s \in Requests |->
       IF s = r THEN NotServing
       ELSE [serving[s] EXCEPT !.fresh = @ /\ serving[s].device # d]]

----------------------------------------------------------------------------
\* Enrolment: the token is found unused, the device inserted, the token marked.

TokenExpires ==
  /\ token = "open" /\ token' = "expired"
  /\ UNCHANGED <<device, recordVars, serving, enrolled, shared, halts, early>>

Enrolling(r) == serving[r].at \in {"enrol", "mark"}

TokenUsable_Wrong == token # "expired"
TokenUsable == token = "open"

FindToken(r) ==
  /\ TokenUsable /\ Begins(r, "enrol", NoDevice)
  /\ shared' = (shared \/ \E s \in Requests : Enrolling(s))
  /\ UNCHANGED <<device, recordVars, token, enrolled, halts, early>>

InsertEnrolled(r, d) ==
  /\ device[d] = "absent" /\ Continues(r, "enrol", "mark", d)
  /\ device' = [device EXCEPT ![d] = "active"]
  /\ enrolled' = enrolled \cup {d}
  /\ UNCHANGED <<recordVars, token, shared, halts, early>>

MarkToken(r) ==
  /\ Continues(r, "mark", "idle", NoDevice)
  /\ token' = "used"
  /\ UNCHANGED <<device, recordVars, enrolled, shared, halts, early>>

----------------------------------------------------------------------------
\* The life of a device.

CreateDevice(d) ==
  /\ device[d] = "absent" /\ device' = [device EXCEPT ![d] = "active"]
  /\ UNCHANGED <<recordVars, tokenVars, serving, halts, early>>

RetentionPasses(d) ==
  /\ device[d] = "retired" /\ device' = [device EXCEPT ![d] = "due"]
  /\ UNCHANGED <<recordVars, tokenVars, serving, halts, early>>

FindsDevice(r, d, states, step) ==
  /\ device[d] \in states /\ Begins(r, step, d)
  /\ UNCHANGED <<device, recordVars, tokenVars, halts, early>>

FindToRetire(r, d) == FindsDevice(r, d, {"active"}, "retire")
FindToRestore(r, d) == FindsDevice(r, d, {"retired", "due"}, "restore")
FindToPurge(r, d) == FindsDevice(r, d, {"due"}, "purge")

\* UPDATE by id and company, which a deleted row escapes.
WriteRetired(r) ==
  LET d == serving[r].device IN
  /\ serving[r].at = "retire"
  /\ Rewrites(r, d, IF device[d] \in Existing THEN "retired" ELSE device[d])
  /\ UNCHANGED <<recordVars, tokenVars, halts, early>>

WriteRestored(r) ==
  LET d == serving[r].device IN
  /\ serving[r].at = "restore"
  /\ Rewrites(r, d, IF device[d] \in Existing THEN "active" ELSE device[d])
  /\ UNCHANGED <<recordVars, tokenVars, halts, early>>

Readings == [was : {"active", "retired"}, fresh : BOOLEAN]

\* DELETE ... AND deletedAt IS NOT NULL
Purgeable_Wrong(d) == device[d] \in Existing
Purgeable(d) == device[d] \in {"retired", "due"}

DeleteDevice(r) ==
  LET d == serving[r].device IN
  /\ serving[r].at = "purge"
  /\ Rewrites(r, d, IF Purgeable(d) THEN "purged" ELSE device[d])
  /\ early' = early \cup {x \in Readings : /\ Purgeable(d) /\ x.was = device[d]
                                           /\ x.fresh = serving[r].fresh}
  /\ UNCHANGED <<recordVars, tokenVars, halts>>

\* The nightly cron, one DELETE of its own; it spares devices that a ticket names.
PurgeExpired(due) ==
  /\ due # {} /\ \A d \in due : device[d] = "due"
  /\ device' = [d \in Devices |-> IF d \in due THEN "purged" ELSE device[d]]
  /\ UNCHANGED <<recordVars, tokenVars, serving, halts, early>>

----------------------------------------------------------------------------
\* Patch jobs: the device, the command of runDeviceAction, the job.

FindToPatch(r, d) == d \notin patching /\ FindsDevice(r, d, {"active"}, "patch")

QueuePatch(r) ==
  /\ Continues(r, "patch", "job", serving[r].device)
  /\ patching' = patching \cup {serving[r].device}
  /\ UNCHANGED <<device, patchJobs, tokenVars, halts, early>>

InsertJob(r) ==
  /\ Continues(r, "job", "idle", NoDevice)
  /\ patchJobs' = patchJobs \cup {serving[r].device}
  /\ UNCHANGED <<device, patching, tokenVars, halts, early>>

\* A statement fails, or the process stops, before the statement that is next.
Halt(r) ==
  /\ serving[r].at # "idle" /\ halts < MaxHalts
  /\ halts' = halts + 1
  /\ serving' = [serving EXCEPT ![r] = NotServing]
  /\ UNCHANGED <<device, recordVars, tokenVars, early>>

DevicesNext ==
  \/ TokenExpires
  \/ \E due \in SUBSET Devices : PurgeExpired(due)
  \/ \E d \in Devices : CreateDevice(d) \/ RetentionPasses(d)
  \/ \E r \in Requests :
       \/ FindToken(r) \/ MarkToken(r) \/ WriteRetired(r) \/ WriteRestored(r) \/ DeleteDevice(r)
       \/ QueuePatch(r) \/ InsertJob(r) \/ Halt(r)
       \/ \E d \in Devices :
            \/ InsertEnrolled(r, d) \/ FindToRetire(r, d) \/ FindToRestore(r, d) \/ FindToPurge(r, d)
            \/ FindToPatch(r, d)

DevicesSpec == DevicesInit /\ [][DevicesNext]_deviceVars

----------------------------------------------------------------------------

\* The rows, the requests and the histories hold values of their types.
DevicesTypeOK ==
  /\ device \in [Devices -> DeviceStates] /\ token \in {"open", "expired", "used"}
  /\ patching \in SUBSET Devices /\ patchJobs \in SUBSET Devices /\ enrolled \in SUBSET Devices
  /\ serving \in [Requests -> [at : {"idle", "enrol", "mark", "retire", "restore", "purge",
                                     "patch", "job"},
                               device : Devices \cup {NoDevice}, fresh : BOOLEAN]]
  /\ shared \in BOOLEAN /\ halts \in 0 .. MaxHalts
  /\ early \in SUBSET Readings

\* Devices are accounted for: an active device is never deleted, and a retired one
\* only after its retention, unless it was restored and retired again since the purge
\* looked; a token enrols one device, unless two enrolments overlap or one stops
\* half-way; a patch job has a command, and a command for a patch has its job, unless
\* the request is still on its way or stopped in between.
DevicesAccounted ==
  /\ \A x \in early : x.was = "retired" /\ ~x.fresh
  /\ ~shared /\ halts = 0 => \A d, e \in enrolled : d = e
  /\ patchJobs \subseteq patching
  /\ halts = 0 => \A d \in patching \ patchJobs :
       \E r \in Requests : serving[r].at = "job" /\ serving[r].device = d

============================================================================
