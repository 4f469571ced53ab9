---------------------------- MODULE RequestGuards ----------------------------
(***************************************************************************)
(* One request on its way through the guards: JwtStrategy.validate, then   *)
(* TenantGuard, and for a business endpoint BusinessOnlyGuard,             *)
(* FeatureAccessGuard and PermissionsGuard, for an administrator's one     *)
(* RolesGuard, PermissionsGuard and StepUpGuard.  Each reads the rows it   *)
(* needs when its turn comes, while administrators change them.            *)
(*                                                                         *)
(* What a guard asks of a row is a fact, a pair: whose, and which.  The    *)
(* endpoint needs one permission, not among a tenant administrator's       *)
(* defaults.  Public endpoints, service accounts, the scopes that handlers *)
(* apply themselves and the record of permission usage are left out.       *)
(***************************************************************************)
EXTENDS Naturals, FiniteSets

CONSTANT MaxChanges   \* bound: facts and roles that change

ASSUME GuardAssumption == MaxChanges \in Nat

VARIABLES
  held,      \* the facts that hold
  role,      \* role of the user who signed in, and of the one impersonated
  incoming,  \* the request
  seen,      \* history: facts that held at some moment since it came in
  steady,    \* history: nothing changed since it came in
  changes    \* history: number of changes

guardVars == <<held, role, incoming, seen, steady, changes>>

Users == {"actor", "target"}
\* PUBLIC stands for userType PUBLIC, TECHNICIAN for every other business role.
Roles == {"SUPER_ADMIN", "GLOBAL_TECH", "TENANT_ADMIN", "TECHNICIAN", "PUBLIC"}
AdminRoles == {"SUPER_ADMIN", "TENANT_ADMIN"}
RowFacts ==
  ({"actor"} \X {"session", "account", "impersonation", "verified"})
  \cup (Users \X {"company", "permission", "grant", "unblocked"})
  \cup ((Users \cup {"context"}) \X {"feature", "plan"}) \cup {<<"context", "active">>}
Facts == RowFacts \cup (Users \X Roles)
FactsNow == held \cup {<<u, role[u]>> : u \in Users}

Headers == {"impersonation", "context", "otherCompany"}
Endpoints == {"business", "admin"}
GuardSteps ==
  {"idle", "session", "account", "impersonation", "tenant", "businessOnly", "feature", "plan",
   "roles", "permissions", "grants", "policies", "stepUp", "admitted", "refused"}
IncomingRows ==
  [at : GuardSteps, endpoint : Endpoints, headers : SUBSET Headers, user : Users, role : Roles,
   company : Users \cup {"none", "context"}, unread : BOOLEAN]
NoRequest ==
  [at |-> "idle", endpoint |-> "business", headers |-> {}, user |-> "actor", role |-> "PUBLIC",
   company |-> "none", unread |-> FALSE]

\* At first all is in order, and nobody needs a temporary grant.
GuardInit ==
  /\ held = RowFacts \ (Users \X {"grant"}) /\ role \in [Users -> Roles]
  /\ incoming = NoRequest /\ seen = {} /\ steady = TRUE /\ changes = 0

Decided == incoming.at \in {"admitted", "refused"}

\* Sessions end, accounts, companies, plans, roles and policies are changed.
Change(heldNext, roleNext) ==
  /\ changes < MaxChanges /\ ~Decided
  /\ held' = heldNext /\ role' = roleNext /\ changes' = changes + 1
  /\ seen' = IF incoming.at = "idle" THEN {} ELSE seen \cup heldNext \cup {<<u, roleNext[u]>> : u \in Users}
  /\ steady' = (incoming.at = "idle")
  /\ UNCHANGED incoming

ChangeFact(f) == Change(IF f \in held THEN held \ {f} ELSE held \cup {f}, role)
ChangeRole(u, next) == next # role[u] /\ Change(held, [role EXCEPT ![u] = next])

RequestComes(endpoint, headers) ==
  /\ incoming.at = "idle"
  /\ incoming' = [NoRequest EXCEPT !.at = "session", !.endpoint = endpoint, !.headers = headers]
  /\ seen' = FactsNow
  /\ UNCHANGED <<held, role, steady, changes>>

Reaches(next) == incoming' = next /\ UNCHANGED <<held, role, seen, steady, changes>>
Passes(condition, step) == Reaches([incoming EXCEPT !.at = IF condition THEN step ELSE "refused"])

CompanyOf(u) == IF <<u, "company">> \in held THEN u ELSE "none"

----------------------------------------------------------------------------
(* JwtStrategy.validate.                                                    *)

FindSession == incoming.at = "session" /\ Passes(<<"actor", "session">> \in held, "account")

FindUser ==
  /\ incoming.at = "account"
  /\ IF <<"actor", "account">> \in held
     THEN Reaches([incoming EXCEPT !.at = "impersonation", !.user = "actor", !.role = role["actor"],
                                   !.company = CompanyOf("actor")])
     ELSE Passes(FALSE, "refused")

----------------------------------------------------------------------------
(* TenantGuard.                                                             *)

\* Without a role that may impersonate, the header is ignored.
Impersonates == "impersonation" \in incoming.headers /\ incoming.role \in AdminRoles

FindImpersonation ==
  /\ incoming.at = "impersonation"
  /\ IF ~Impersonates THEN Passes(TRUE, "tenant")
     ELSE IF <<"actor", "impersonation">> \in held
     THEN Reaches([incoming EXCEPT !.at = "tenant", !.user = "target", !.role = role["target"],
                                   !.company = CompanyOf("target")])
     ELSE Passes(FALSE, "refused")

AfterTenant == IF incoming.endpoint = "business" THEN "businessOnly" ELSE "roles"

TenantAllows == incoming.company # "none" /\ "otherCompany" \notin incoming.headers

CheckTenant ==
  /\ incoming.at = "tenant"
  /\ \/ /\ incoming.role = "SUPER_ADMIN" /\ "context" \in incoming.headers
        /\ IF <<"context", "active">> \in held
           THEN Reaches([incoming EXCEPT !.at = AfterTenant, !.company = "context"])
           ELSE Passes(FALSE, "refused")
     \/ incoming.role = "SUPER_ADMIN" /\ "context" \notin incoming.headers /\ Passes(TRUE, AfterTenant)
     \/ incoming.role \in {"GLOBAL_TECH", "PUBLIC"} /\ Passes(TRUE, AfterTenant)
     \/ incoming.role \in {"TENANT_ADMIN", "TECHNICIAN"} /\ Passes(TenantAllows, AfterTenant)

----------------------------------------------------------------------------
(* BusinessOnlyGuard, FeatureAccessGuard, RolesGuard.                       *)

CheckBusiness == incoming.at = "businessOnly" /\ Passes(incoming.role # "PUBLIC", "feature")

\* The overrides of the company and of the user, then the plan and its status.
FindOverrides ==
  /\ incoming.at = "feature"
  /\ IF incoming.company = "none" THEN Passes(TRUE, "permissions")
     ELSE Passes(<<incoming.company, "feature">> \in held, "plan")

FindCompanyPlan == incoming.at = "plan" /\ Passes(<<incoming.company, "plan">> \in held, "permissions")

CheckRoles == incoming.at = "roles" /\ Passes(incoming.role \in AdminRoles, "permissions")

----------------------------------------------------------------------------
(* PermissionsGuard.                                                        *)

AfterPermissions == IF incoming.endpoint = "business" THEN "admitted" ELSE "stepUp"

Permitted_Wrong == <<"actor", "permission">> \in held
Permitted == <<incoming.user, "permission">> \in held

FindRolePermissions ==
  /\ incoming.at = "permissions"
  /\ IF incoming.role = "SUPER_ADMIN" THEN Passes(TRUE, AfterPermissions)
     ELSE Reaches([incoming EXCEPT !.at = IF Permitted THEN "policies" ELSE "grants"])

FindGrants == incoming.at = "grants" /\ Passes(<<incoming.user, "grant">> \in held, "policies")

\* A best-effort SELECT fails, and counts for no permissions.
PermissionsUnread ==
  \/ /\ incoming.at = "permissions" /\ incoming.role # "SUPER_ADMIN"
     /\ Reaches([incoming EXCEPT !.at = "grants", !.unread = TRUE])
  \/ /\ incoming.at = "grants"
     /\ Reaches([incoming EXCEPT !.at = "refused", !.unread = TRUE])

CheckPolicies ==
  /\ incoming.at = "policies"
  /\ Passes(<<incoming.user, "unblocked">> \in held, AfterPermissions)

\* The SELECT of the policies fails: the guard goes on as if there were none, and the
\* request is not held back by a policy that is in force.
PoliciesUnread ==
  /\ incoming.at = "policies"
  /\ Reaches([incoming EXCEPT !.at = AfterPermissions, !.unread = TRUE])

----------------------------------------------------------------------------
(* StepUpGuard: an impersonated user has no session of its own.  "verified" *)
(* is a session not revoked, whose second factor is recent.                 *)

CheckStepUp ==
  /\ incoming.at = "stepUp"
  /\ Passes(incoming.user = "actor" /\ <<"actor", "verified">> \in held, "admitted")

\* Any other SELECT that fails ends the request.
SelectFails ==
  /\ incoming.at \in
       {"session", "account", "impersonation", "tenant", "feature", "plan", "permissions", "stepUp"}
  /\ Reaches([incoming EXCEPT !.at = "refused", !.unread = TRUE])

GuardNext ==
  \/ \E f \in RowFacts : ChangeFact(f)
  \/ \E u \in Users, next \in Roles : ChangeRole(u, next)
  \/ \E endpoint \in Endpoints, headers \in SUBSET Headers : RequestComes(endpoint, headers)
  \/ FindSession \/ FindUser \/ FindImpersonation \/ CheckTenant \/ CheckBusiness
  \/ FindOverrides \/ FindCompanyPlan \/ CheckRoles
  \/ FindRolePermissions \/ FindGrants \/ PermissionsUnread \/ CheckPolicies \/ PoliciesUnread
  \/ CheckStepUp \/ SelectFails

GuardSpec == GuardInit /\ [][GuardNext]_guardVars

----------------------------------------------------------------------------
(* What a handler relies on, whatever guards there are: facts is what held, *)
(* who and company whom and where the request acts for.                     *)

Authentic(facts, who) ==
  /\ {<<"actor", "session">>, <<"actor", "account">>} \subseteq facts
  /\ who = "target" => <<"actor", "impersonation">> \in facts /\ \E admin \in AdminRoles : <<"actor", admin>> \in facts

InsideTenant(facts, who, company) ==
  \/ company = "context" /\ {<<who, "SUPER_ADMIN">>, <<"context", "active">>} \subseteq facts
  \/ company # "context" /\ \E global \in {"SUPER_ADMIN", "GLOBAL_TECH", "PUBLIC"} : <<who, global>> \in facts
  \/ company = who /\ <<who, "company">> \in facts /\ "otherCompany" \notin incoming.headers

Allowed(facts, who, company) ==
  /\ \/ <<who, "SUPER_ADMIN">> \in facts
     \/ /\ <<who, "permission">> \in facts \/ <<who, "grant">> \in facts
        /\ incoming.unread \/ <<who, "unblocked">> \in facts
  /\ incoming.endpoint = "business" =>
       /\ company = "none" \/ {<<company, "feature">>, <<company, "plan">>} \subseteq facts
       /\ \E r \in Roles \ {"PUBLIC"} : <<who, r>> \in facts
  /\ incoming.endpoint = "admin" =>
       /\ who = "actor" /\ <<"actor", "verified">> \in facts
       /\ \E admin \in AdminRoles : <<who, admin>> \in facts

Entitled(facts, who, company) ==
  Authentic(facts, who) /\ InsideTenant(facts, who, company) /\ Allowed(facts, who, company)

\* Whom and where a request acts for while nothing changes.
Who == IF "impersonation" \in incoming.headers /\ role["actor"] \in AdminRoles THEN "target" ELSE "actor"
Where ==
  IF role[Who] = "SUPER_ADMIN" /\ "context" \in incoming.headers THEN "context" ELSE CompanyOf(Who)

\* Facts, roles, the request and histories hold values of their types.
GuardTypeOK ==
  /\ held \in SUBSET RowFacts /\ role \in [Users -> Roles] /\ incoming \in IncomingRows
  /\ seen \in SUBSET Facts /\ steady \in BOOLEAN /\ changes \in 0 .. MaxChanges

\* A request that passes the guards had every fact its handler relies on at some
\* moment since it came in, about the user and the company it acts for, so that what
\* was taken away before that is of no use to it; but no policy need have let it
\* through when a SELECT failed, for PermissionsGuard applies no policies when it
\* cannot read them (fail-open).  And a request that is refused while nothing changed
\* and every SELECT was answered did lack a fact.
AdmittedWhenEntitled ==
  /\ incoming.at = "admitted" => Entitled(seen, incoming.user, incoming.company)
  /\ incoming.at = "refused" /\ ~incoming.unread /\ steady => ~Entitled(seen, Who, Where)

============================================================================
