-------------------------------- MODULE Backends --------------------------------
(***************************************************************************)
(* The stores of the API come in pairs (server.ts, createDefault...Store):  *)
(* without DATABASE_URL they are maps in memory, as in the tests, with it   *)
(* tables of Postgres.  Both are driven here by the same calls, one at a    *)
(* time, with the ids the API makes: fresh ones, and one tenant per id.     *)
(*                                                                          *)
(* A partial function stands for a map and for a table with its primary     *)
(* key; the profiles in memory are a sequence, as a Map keeps the order of  *)
(* insertion.  A throw of the store and a refused statement are "throws".   *)
(***************************************************************************)
EXTENDS Integers, Sequences, FiniteSets, SequencesExt, FiniteSetsExt, Functions

CONSTANTS
  Holders,    \* ids of tenants
  WriteKeys,  \* write keys
  Tokens,     \* raw API tokens
  People,     \* ids of profiles
  Cookies,    \* anonymous ids
  Logins,     \* user ids
  Spellings,  \* of each spelling of an e-mail address, its normal form
  MaxCalls,   \* bound: calls of a behaviour
  Demo        \* the tenant of every store in memory

ASSUME DemoAssumption == Demo \notin Holders \cup WriteKeys

VARIABLES
  memory,    \* the stores in memory
  database,  \* the tables
  month,     \* the billing period of the clock
  told,      \* what either answered the last call
  calls      \* how many there were

storeVars == <<memory, database, month, told, calls>>

Void == <<>>
NoLogin == "null"

-----------------------------------------------------------------------------
\* reset: memory starts with the demo tenant, the tables start empty.
buildTenantAccount(k) == [writeKey |-> k, modules |-> {"consent"}, plan |-> "free"]
DemoAccount == [writeKey |-> Demo, modules |-> {"email", "consent"}, plan |-> "agency"]
Empty == [tenants |-> Void, tokens |-> Void, profiles |-> Void, suppressed |-> Void, usage |-> Void]
BackendsInit ==
  /\ memory = [Empty EXCEPT !.tenants = [t \in {Demo} |-> DemoAccount]]
  /\ database = Empty /\ month = 1 /\ calls = 0 /\ told = [memory |-> "ok", database |-> "ok"]

\* One call: what it makes of either side, and what either answers.
Call(m, d, memoryTells, databaseTells) ==
  /\ calls < MaxCalls /\ calls' = calls + 1 /\ memory' = m /\ database' = d
  /\ told' = [memory |-> memoryTells, database |-> databaseTells] /\ UNCHANGED month

\* A map or table with the value of one key set; is a write key in use?
Put(f, key, value) == [x \in {key} \cup DOMAIN f |-> IF x = key THEN value ELSE f[x]]
KeyTaken(tenants, k) == \E t \in DOMAIN tenants : tenants[t].writeKey = k

CreateTenantAccount(t, k) ==
  LET taken(side) == t \in DOMAIN side.tenants \/ KeyTaken(side.tenants, k)
      after(side) == IF taken(side) THEN side ELSE [side EXCEPT !.tenants = Put(@, t, buildTenantAccount(k))]
      tells(side) == IF taken(side) THEN "throws" ELSE "ok"
  IN Call(after(memory), after(database), tells(memory), tells(database))

\* Memory changes the tenant in place, the database writes the list it has read.
EnableTenantModule(t, module) ==
  LET after(side) ==
        IF t \in DOMAIN side.tenants THEN [side EXCEPT !.tenants[t].modules = @ \cup {module}] ELSE side
      tells(side) == IF t \in DOMAIN side.tenants THEN "ok" ELSE "undefined"
  IN Call(after(memory), after(database), tells(memory), tells(database))

\* issue, for the owner of a tenant it has just been told of.
Issue(token, t, role) ==
  /\ t \in DOMAIN memory.tenants /\ token \notin DOMAIN memory.tokens
  /\ LET principal == [tenant |-> t, role |-> role]
         refused == t \notin DOMAIN database.tenants \/ token \in DOMAIN database.tokens
     IN Call([memory EXCEPT !.tokens = Put(@, token, principal)],
             IF refused THEN database ELSE [database EXCEPT !.tokens = Put(@, token, principal)],
             "ok", IF refused THEN "throws" ELSE "ok")

\* Mutant: the upsert forgets the user id.
UpsertWithoutLogin(rows, row) ==
  IF row.id \notin DOMAIN rows THEN Put(rows, row.id, row)
  ELSE [rows EXCEPT ![row.id].cookie = row.cookie]

\* save: in memory the row replaces the one of its tenant and id, or goes to the
\* end; the upsert keeps the tenant and the creation date of the row it meets.
SaveInMemory(rows, row) ==
  LET same == {k \in DOMAIN rows : rows[k].id = row.id /\ rows[k].tenant = row.tenant} IN
  IF same = {} THEN Append(rows, row) ELSE [rows EXCEPT ![CHOOSE k \in same : TRUE] = row]
Upsert(rows, row) ==
  IF row.id \notin DOMAIN rows THEN Put(rows, row.id, row)
  ELSE [rows EXCEPT ![row.id].cookie = row.cookie, ![row.id].login = row.login]

toRow(t, id, cookie, login) == [id |-> id, tenant |-> t, cookie |-> cookie, login |-> login, createdAt |-> calls]
InsertProfile(t, id, cookie, login) ==
  /\ t \in DOMAIN database.tenants /\ id \notin DOMAIN database.profiles
  /\ LET row == toRow(t, id, cookie, login) IN
     Call([memory EXCEPT !.profiles = SaveInMemory(@, row)],
          [database EXCEPT !.profiles = Upsert(@, row)], "ok", "ok")

\* A caller saves again what it has read, now with a user id.
SaveProfile(k, login) ==
  LET row == [memory.profiles[k] EXCEPT !.login = login] IN
  Call([memory EXCEPT !.profiles = SaveInMemory(@, row)],
       [database EXCEPT !.profiles = Upsert(@, row)], "ok", "ok")

\* SuppressionStore.add: by the normal form of the address.
AddSuppression(spelling, reason) ==
  LET after(side) == [side EXCEPT !.suppressed = Put(@, Spellings[spelling], reason)]
  IN Call(after(memory), after(database), "ok", "ok")

\* UsageMeter.record: a delta below one counts for nothing, and makes no row.
RecordUsage(t, n) ==
  LET key == <<t, month>>
      count(side) == IF key \in DOMAIN side.usage THEN side.usage[key] ELSE 0
      after(side, delta) == [side EXCEPT !.usage = Put(@, key, count(side) + delta)]
  IN /\ t \in DOMAIN database.tenants
     /\ Call(after(memory, Max({n, 0})), IF n <= 0 THEN database ELSE after(database, n), "ok", "ok")

NextMonth == month = 1 /\ month' = 2 /\ UNCHANGED <<memory, database, told, calls>>

BackendsNext ==
  \/ \E t \in Holders, k \in WriteKeys : CreateTenantAccount(t, k)
  \/ \E t \in Holders : EnableTenantModule(t, "email")
  \/ \E token \in Tokens, t \in Holders, role \in {"owner", "viewer"} : Issue(token, t, role)
  \/ \E t \in Holders, id \in People, c \in Cookies, l \in Logins \cup {NoLogin} : InsertProfile(t, id, c, l)
  \/ \E k \in DOMAIN memory.profiles, l \in Logins : SaveProfile(k, l)
  \/ \E s \in DOMAIN Spellings, reason \in {"unsubscribe", "soft-bounce"} : AddSuppression(s, reason)
  \/ \E t \in Holders, n \in {-1, 0, 2} : RecordUsage(t, n)
  \/ NextMonth
BackendsSpec == BackendsInit /\ [][BackendsNext]_storeVars

-----------------------------------------------------------------------------
\* The lookups.  In memory the first profile that matches is found, and any of
\* them by a query without an order.
At(f, key) == IF key \in DOMAIN f THEN {f[key]} ELSE {}
resolveTenant(side, k) == {side.tenants[t] : t \in {u \in DOMAIN side.tenants : side.tenants[u].writeKey = k}}
currentUsage(side, t) == IF <<t, month>> \in DOMAIN side.usage THEN side.usage[<<t, month>>] ELSE 0
shouldSuppress(side, spelling) == At(side.suppressed, Spellings[spelling]) \cap {"hard-bounce", "complaint", "unsubscribe"} # {}
listByTenant(t) ==
  {memory.profiles[k] : k \in {j \in DOMAIN memory.profiles : memory.profiles[j].tenant = t}}
rowsOf(t) == {database.profiles[id] : id \in {i \in DOMAIN database.profiles : database.profiles[i].tenant = t}}
findFirst(t, field, value) ==
  LET mine == {k \in DOMAIN memory.profiles :
                 memory.profiles[k].tenant = t /\ memory.profiles[k][field] = value}
  IN IF mine = {} THEN {} ELSE {memory.profiles[Min(mine)]}

\* After the same calls the stores of the tests and those of production answer the
\* same, call and lookup: the demo tenant apart, which only memory has, and where
\* several profiles match a lookup, when memory finds one of those the query may.
BackendsAgree ==
  /\ told.memory = told.database
  /\ DOMAIN memory.tenants = DOMAIN database.tenants \cup {Demo}
  /\ \A t \in Holders :
       /\ At(memory.tenants, t) = At(database.tenants, t)
       /\ listByTenant(t) = rowsOf(t)
       /\ currentUsage(memory, t) = currentUsage(database, t)
       /\ \A l \in Logins, c \in Cookies :
            LET byLogin == findFirst(t, "login", l)
                byCookie == findFirst(t, "cookie", c)
                rowsByLogin == {r \in rowsOf(t) : r.login = l}
                rowsByCookie == {r \in rowsOf(t) : r.cookie = c}
            IN /\ byLogin \subseteq rowsByLogin /\ (byLogin = {} <=> rowsByLogin = {})
               /\ byCookie \subseteq rowsByCookie /\ (byCookie = {} <=> rowsByCookie = {})
  /\ \A k \in WriteKeys : resolveTenant(memory, k) = resolveTenant(database, k)
  /\ \A token \in Tokens : At(memory.tokens, token) = At(database.tokens, token)
  /\ \A s \in DOMAIN Spellings : shouldSuppress(memory, s) = shouldSuppress(database, s)
=============================================================================
