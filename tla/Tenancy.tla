------------------------------- MODULE Tenancy -------------------------------
(***************************************************************************)
(* Tenants, their owners and their tokens: POST /v1/signup                 *)
(* (apps/api/src/routes/signup.ts), the enabling of a module by an admin   *)
(* (routes/modules.ts) with the plan's entitlement (platform.ts,           *)
(* packages/platform), over the tables of tenant.ts and auth.ts.           *)
(*                                                                         *)
(* Every statement is a step of its own: neither route uses a transaction. *)
(* A tenant stands for the row of its id; ids, write keys and tokens are   *)
(* drawn at random and never meet.                                         *)
(***************************************************************************)
CONSTANTS
  Tenants,      \* tenant ids
  Founded,      \* the tenants there from the start: id to their row
  Overlapping,  \* tenants whose admins enable modules at the same time
  Handlers,     \* request handlers
  None          \* no row, no tenant, no module, no account

Modules == {"consent", "email", "social-intel", "automation"}
Plans == {"free", "starter", "growth", "agency"}

EntitledModules(plan) ==
  CASE plan = "free"    -> {"consent"}
    [] plan = "starter" -> {"consent", "email"}
    [] plan = "growth"  -> {"consent", "email", "social-intel"}
    [] plan = "agency"  -> Modules

Rows == [modules : SUBSET Modules, plan : Plans, status : {"active", "suspended"}]

\* What every account starts with, whatever its plan.
Onboarded == {"consent"}

ASSUME TenancyAssumption ==
  /\ Overlapping \subseteq Tenants
  /\ None \notin Tenants \cup Rows \cup Modules
  /\ DOMAIN Founded \subseteq Tenants
  /\ Founded \in [DOMAIN Founded -> Rows]
  /\ \A t \in DOMAIN Founded : Founded[t].modules = Onboarded

VARIABLES
  tenants,  \* table: a row or None
  owners,   \* table users: the tenants whose owner has a row
  tokens,   \* table api_tokens: the tenants whose owner has a token
  known,    \* the tenants whose owner was given the token
  job,      \* per handler: the statement it awaits and what it has read
  granted   \* history, per tenant: the modules an enabling was answered 200 for

vars == <<tenants, owners, tokens, known, job, granted>>
tables == <<tenants, owners, tokens>>

\* `account` is the row an enabling holds the entitlement against, and `list` the
\* modules it read for the update.
Idle == [at |-> "idle", tenant |-> None, module |-> None, account |-> None, list |-> {}]

Jobs ==
  [at : {"idle", "tenant", "owner", "token", "created",
         "account", "accountOwner", "modules", "update", "audit"},
   tenant : Tenants \cup {None}, module : Modules \cup {None},
   account : Rows \cup {None}, list : SUBSET Modules]

\* The type invariant.
TypeOK ==
  /\ tenants \in [Tenants -> Rows \cup {None}]
  /\ owners \subseteq Tenants /\ tokens \subseteq Tenants /\ known \subseteq Tenants
  /\ job \in [Handlers -> Jobs]
  /\ \A h \in Handlers : job[h].at = "idle" <=> job[h].tenant = None
  /\ granted \in [Tenants -> SUBSET Modules]

Init ==
  /\ tenants = [t \in Tenants |-> IF t \in DOMAIN Founded THEN Founded[t] ELSE None]
  /\ owners = DOMAIN Founded
  /\ tokens = DOMAIN Founded
  /\ known = DOMAIN Founded
  /\ job = [h \in Handlers |-> Idle]
  /\ granted = [t \in Tenants |-> {}]

Working(t) == {h \in Handlers : job[h].tenant = t}

Await(h, at) == job' = [job EXCEPT ![h].at = at]
End(h) == job' = [job EXCEPT ![h] = Idle]

-----------------------------------------------------------------------------
(* POST /v1/signup.                                                        *)

\* The body is parsed, an unused id drawn.
Signup(h, t) ==
  /\ job[h] = Idle
  /\ tenants[t] = None /\ Working(t) = {}
  /\ job' = [job EXCEPT ![h] = [Idle EXCEPT !.at = "tenant", !.tenant = t]]
  /\ UNCHANGED <<tables, known, granted>>

InsertTenant(h) ==
  /\ job[h].at = "tenant"
  /\ tenants' = [tenants EXCEPT ![job[h].tenant] =
       [modules |-> Onboarded, plan |-> "free", status |-> "active"]]
  /\ Await(h, "owner")
  /\ UNCHANGED <<owners, tokens, known, granted>>

InsertOwner(h) ==
  /\ job[h].at = "owner"
  /\ owners' = owners \cup {job[h].tenant}
  /\ Await(h, "token")
  /\ UNCHANGED <<tenants, tokens, known, granted>>

\* Mutant: a refused insert is swallowed.
IssueTokenSwallowed(h) ==
  /\ job[h].at = "token"
  /\ tokens' \in {tokens, tokens \cup {job[h].tenant}}
  /\ Await(h, "created")
  /\ UNCHANGED <<tenants, owners, known, granted>>

IssueToken(h) ==
  /\ job[h].at = "token"
  /\ tokens' = tokens \cup {job[h].tenant}
  /\ Await(h, "created")
  /\ UNCHANGED <<tenants, owners, known, granted>>

\* 201 with the raw token, the only time it is told.
Created(h) ==
  /\ job[h].at = "created"
  /\ known' = known \cup {job[h].tenant}
  /\ End(h)
  /\ UNCHANGED <<tables, granted>>

-----------------------------------------------------------------------------
(* POST /v1/tenants/:tenantId/modules/:moduleKey.                          *)

\* The key is in the catalog and the bearer token resolves to the owner of this
\* very tenant; any other token is answered 401 or 403 and changes nothing.
Enable(h, t, m) ==
  /\ job[h] = Idle
  /\ t \in known \cap tokens
  /\ t \in Overlapping \/ Working(t) = {}
  /\ job' = [job EXCEPT ![h] = [Idle EXCEPT !.at = "account", !.tenant = t, !.module = m]]
  /\ UNCHANGED <<tables, known, granted>>

\* enforceEntitlement: 402 or 403 for this account, or on to the list of modules.
Entitled(account, m) == account.status = "active" /\ m \in EntitledModules(account.plan)

Decide(h, account) ==
  IF Entitled(account, job[h].module)
  THEN job' = [job EXCEPT ![h].at = "modules", ![h].account = account]
  ELSE End(h)

\* Without an account the row alone counts as an active tenant of the plan agency.
\* It is read a third time, here in the step that found no account:
\* ToldTokensWork says that no request gets here.
Fallback(h) ==
  LET row == tenants[job[h].tenant] IN
  IF row = None THEN End(h)
  ELSE Decide(h, [row EXCEPT !.plan = "agency", !.status = "active"])

\* Mutant: the row is looked for among the active tenants.
AccountActiveOnly(h) ==
  LET row == tenants[job[h].tenant] IN
  /\ job[h].at = "account"
  /\ IF row # None /\ row.status = "active"
     THEN job' = [job EXCEPT ![h].at = "accountOwner", ![h].account = row]
     ELSE Fallback(h)
  /\ UNCHANGED <<tables, known, granted>>

\* getTenantAccount reads the tenant's row ...
Account(h) ==
  LET row == tenants[job[h].tenant] IN
  /\ job[h].at = "account"
  /\ IF row # None
     THEN job' = [job EXCEPT ![h].at = "accountOwner", ![h].account = row]
     ELSE Fallback(h)
  /\ UNCHANGED <<tables, known, granted>>

\* ... and then its owner's, without whom there is no account.
AccountOwner(h) ==
  /\ job[h].at = "accountOwner"
  /\ IF job[h].tenant \in owners THEN Decide(h, job[h].account) ELSE Fallback(h)
  /\ UNCHANGED <<tables, known, granted>>

\* enableTenantModule reads the list ...
ReadModules(h) ==
  LET row == tenants[job[h].tenant] IN
  /\ job[h].at = "modules"
  /\ IF row = None THEN End(h)
     ELSE job' = [job EXCEPT ![h].at = "update", ![h].list = row.modules]
  /\ UNCHANGED <<tables, known, granted>>

\* Mutant: the new module replaces the list.
UpdateReplaces(h) ==
  /\ job[h].at = "update"
  /\ tenants' = [tenants EXCEPT ![job[h].tenant].modules = {job[h].module}]
  /\ Await(h, "audit")
  /\ UNCHANGED <<owners, tokens, known, granted>>

\* ... and writes it back whole.
Update(h) ==
  /\ job[h].at = "update"
  /\ tenants' = [tenants EXCEPT ![job[h].tenant].modules = job[h].list \cup {job[h].module}]
  /\ Await(h, "audit")
  /\ UNCHANGED <<owners, tokens, known, granted>>

\* The audit entry is appended or its failure swallowed: 200.
Enabled(h) ==
  /\ job[h].at = "audit"
  /\ granted' = [granted EXCEPT ![job[h].tenant] = @ \cup {job[h].module}]
  /\ End(h)
  /\ UNCHANGED <<tables, known>>

-----------------------------------------------------------------------------
\* The statement awaited is refused, or the process dies: what was inserted stays,
\* and the answer, a raw token included, reaches nobody.
Fail(h) ==
  /\ job[h].at # "idle"
  /\ End(h)
  /\ UNCHANGED <<tables, known, granted>>

Next ==
  \E h \in Handlers :
    \/ \E t \in Tenants : Signup(h, t)
    \/ InsertTenant(h) \/ InsertOwner(h) \/ IssueToken(h) \/ Created(h)
    \/ \E t \in Tenants, m \in Modules : Enable(h, t, m)
    \/ Account(h) \/ AccountOwner(h) \/ ReadModules(h) \/ Update(h) \/ Enabled(h)
    \/ Fail(h)

Spec == Init /\ [][Next]_vars

-----------------------------------------------------------------------------
Rowed(t) == tenants[t] # None

\* "Billing entitlement enforcement is meaningful from day one": a tenant only ever
\* has the modules of its own plan besides those it was onboarded with, and a
\* suspended one no others; the generous account assumed for a tenant without
\* an owner decides nothing.
OnlyEntitled ==
  \A t \in Tenants : Rowed(t) =>
    tenants[t].modules \subseteq
      Onboarded \cup {m \in Modules : Entitled(tenants[t], m)}

\* An owner who was told a token can use it: the token, the owner and the tenant
\* are there, whatever signups failed half-way before or besides.
ToldTokensWork == \A t \in known : t \in tokens /\ t \in owners /\ Rowed(t)

\* An enabling that was answered 200 lasts, for tenants whose admins wait for
\* their answers: no signup, failed request or enabling of another module
\* undoes it.
GrantedStays ==
  \A t \in Tenants \ Overlapping :
    granted[t] # {} => Rowed(t) /\ granted[t] \subseteq tenants[t].modules

=============================================================================
