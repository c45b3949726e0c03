---------------------------- MODULE Accounts_proofs ----------------------------
(***************************************************************************)
(* Tenants and their mail, for any number of each.                         *)
(*                                                                         *)
(* - entitlements, told tokens and granted modules hold, whatever handlers *)
(*   overlap and whatever statement fails;                                 *)
(* - an opt-out stops the mails of every campaign of the tenant, every     *)
(*   mail is charged once, and overlapping campaigns overshoot the plan's  *)
(*   limit by a bounded number of mails.                                   *)
(***************************************************************************)
EXTENDS Tenancy, EmailCampaign, FiniteSetTheorems, TLAPS

-----------------------------------------------------------------------------
(* Tenants.                                                                *)


\* A token has its owner's row behind it, and an owner its tenant's: the foreign
\* keys, which the order of the inserts keeps.
References ==
  /\ known \subseteq tokens
  /\ tokens \subseteq owners
  /\ \A t \in owners : Rowed(t)

\* A signup has its new id to itself until the row is there, and then finds what it
\* has inserted.
SignupOK(h) ==
  LET t == job[h].tenant IN
  /\ job[h].at = "tenant" =>
       /\ ~Rowed(t)
       /\ \A g \in Handlers : job[g].tenant = t => g = h
  /\ job[h].at = "owner" => Rowed(t)
  /\ job[h].at = "token" => t \in owners
  /\ job[h].at = "created" => t \in tokens

Enablings == {"account", "accountOwner", "modules", "update", "audit"}
Allowed(row) == Onboarded \cup {m \in Modules : Entitled(row, m)}

\* An enabling is of a tenant that is there, goes by the plan and status of the row
\* as it is now, and past the entitlement its module is one of the plan's.
EnablingOK(h) ==
  LET row == tenants[job[h].tenant] IN
  /\ job[h].at \in Enablings =>
       job[h].tenant \in owners /\ job[h].module \in Modules
  /\ job[h].at = "accountOwner" =>
       job[h].account # None /\ job[h].account.plan = row.plan /\ job[h].account.status = row.status
  /\ job[h].at \in {"modules", "update", "audit"} => Entitled(row, job[h].module)
  /\ job[h].at = "update" => job[h].list \subseteq Allowed(row)

\* A tenant whose admins wait is worked on by one handler, whose list is the row's.
AloneOK(h) ==
  LET t == job[h].tenant IN
  t \in Tenants \ Overlapping =>
    /\ \A g \in Handlers : job[g].tenant = t => g = h
    /\ job[h].at = "update" => job[h].list = tenants[t].modules
    /\ job[h].at = "audit" => job[h].module \in tenants[t].modules

TenancyInv ==
  /\ TypeOK
  /\ References
  /\ \A h \in Handlers : SignupOK(h) /\ EnablingOK(h) /\ AloneOK(h)
  /\ OnlyEntitled
  /\ GrantedStays

-----------------------------------------------------------------------------
\* Founders have their rows, their tokens and nothing under way.
LEMMA TenancyStart == Init => TenancyInv
  <1> SUFFICES ASSUME Init PROVE TenancyInv
    OBVIOUS
  <1> USE TenancyAssumption DEF Init
  <1>1. Idle \in Jobs
    BY DEF Idle, Jobs
  <1>2. \A t \in Tenants : tenants[t] \in Rows \cup {None}
    OBVIOUS
  <1>3. TypeOK
    BY <1>1, <1>2, DOMAIN Founded \subseteq Tenants DEF TypeOK, Idle
  <1>4. References
    BY DEF References, Rowed
  <1>5. \A h \in Handlers : SignupOK(h) /\ EnablingOK(h) /\ AloneOK(h)
    BY DEF SignupOK, EnablingOK, AloneOK, Idle, Enablings
  <1>6. OnlyEntitled
    BY DEF OnlyEntitled, Rowed, Onboarded
  <1>7. GrantedStays
    BY DEF GrantedStays
  <1> QED
    BY <1>3, <1>4, <1>5, <1>6, <1>7 DEF TenancyInv

-----------------------------------------------------------------------------
\* A handler that goes on with its own tenant, or ends, and at most inserts an owner
\* or a token, disturbs nothing but what is said of its own job.
LEMMA OwnJob ==
  ASSUME TenancyInv, NEW h \in Handlers, NEW j \in Jobs,
         job' = [job EXCEPT ![h] = j], UNCHANGED <<tenants, granted>>,
         owners \subseteq owners', tokens \subseteq tokens', References',
         owners' \subseteq Tenants, tokens' \subseteq Tenants, known' \subseteq Tenants,
         j.at = "idle" <=> j.tenant = None,
         j.tenant \in {None, job[h].tenant}, j.at # "tenant",
         SignupOK(h)', EnablingOK(h)', AloneOK(h)'
  PROVE  TenancyInv'
  <1> USE DEF TenancyInv
  <1>1. TypeOK'
    BY DEF TypeOK
  <1>2. OnlyEntitled' /\ GrantedStays'
    BY DEF OnlyEntitled, GrantedStays, Rowed
  <1>3. ASSUME NEW g \in Handlers \ {h}
        PROVE  SignupOK(g)' /\ EnablingOK(g)' /\ AloneOK(g)'
    <2>1. job'[g] = job[g] /\ job'[h] = j
      BY DEF TypeOK
    <2>2. \A f \in Handlers : job'[f].tenant = job[f].tenant \/ job'[f].tenant = None
      BY <2>1 DEF TypeOK
    <2>3. job[g].tenant = None => job[g].at = "idle"
      BY DEF TypeOK
    <2>4. SignupOK(g)'
      BY <2>1, <2>2, <2>3 DEF SignupOK, Rowed
    <2>5. EnablingOK(g)'
      BY <2>1 DEF EnablingOK, Allowed
    <2>6. AloneOK(g)'
      BY <2>1, <2>2, TenancyAssumption DEF AloneOK
    <2> QED
      BY <2>4, <2>5, <2>6
  <1> QED
    BY <1>1, <1>2, <1>3

\* So answers, refusals and failures keep the invariant.
LEMMA EndKeeps ==
  ASSUME TenancyInv, NEW h \in Handlers, End(h), UNCHANGED <<tables, known, granted>>
  PROVE  TenancyInv'
  <1>1. Idle \in Jobs
    BY DEF Idle, Jobs
  <1>2. job' = [job EXCEPT ![h] = Idle]
    BY DEF End
  <1>3. job'[h] = Idle
    BY <1>2 DEF TenancyInv, TypeOK
  <1>4. SignupOK(h)' /\ EnablingOK(h)' /\ AloneOK(h)'
    BY <1>3, TenancyAssumption DEF SignupOK, EnablingOK, AloneOK, Idle, Enablings
  <1>5. References' /\ owners \subseteq Tenants /\ tokens \subseteq Tenants /\ known \subseteq Tenants
    BY DEF TenancyInv, TypeOK, References, Rowed, tables
  <1> QED
    BY <1>1, <1>2, <1>4, <1>5, OwnJob DEF Idle, tables

\* The entitlement is decided by an account that has the plan and status of the row.
LEMMA DecideKeeps ==
  ASSUME TenancyInv, NEW h \in Handlers, job[h].at = "accountOwner",
         Decide(h, job[h].account), UNCHANGED <<tables, known, granted>>
  PROVE  TenancyInv'
  <1>1. CASE ~Entitled(job[h].account, job[h].module)
    BY <1>1, EndKeeps DEF Decide
  <1>2. CASE Entitled(job[h].account, job[h].module)
    <2> DEFINE j == [job[h] EXCEPT !.at = "modules"]
    <2>1. job[h] \in Jobs
      BY DEF TenancyInv, TypeOK
    <2>2. j \in Jobs /\ j.at = "modules" /\ j.tenant = job[h].tenant /\ j.module = job[h].module
      BY <2>1 DEF Jobs
    <2>3. job' = [job EXCEPT ![h] = j]
      BY <1>2, <2>1 DEF Decide, Jobs, TenancyInv, TypeOK
    <2>4. job'[h] = j
      BY <2>3 DEF TenancyInv, TypeOK
    <2>5. j.tenant # None
      BY <2>2 DEF TenancyInv, TypeOK
    <2>6. SignupOK(h)' /\ EnablingOK(h)'
      BY <1>2, <2>2, <2>4 DEF TenancyInv, SignupOK, EnablingOK, Enablings, Entitled, tables
    <2>7. AloneOK(h)'
      <3>1. \A g \in Handlers : job'[g].tenant = job[g].tenant
        BY <2>2, <2>3 DEF TenancyInv, TypeOK
      <3> QED
        BY <3>1, <2>2, <2>4 DEF TenancyInv, AloneOK
    <2>8. References' /\ owners \subseteq Tenants /\ tokens \subseteq Tenants /\ known \subseteq Tenants
      BY DEF TenancyInv, TypeOK, References, Rowed, tables
    <2> HIDE DEF j
    <2> QED
      BY <2>2, <2>3, <2>5, <2>6, <2>7, <2>8, OwnJob DEF tables
  <1> QED
    BY <1>1, <1>2

-----------------------------------------------------------------------------
\* A signup takes an id nobody works on.
LEMMA SignupKeeps ==
  ASSUME TenancyInv, NEW h \in Handlers, NEW t \in Tenants, Signup(h, t)
  PROVE  TenancyInv'
  <1> DEFINE j == [Idle EXCEPT !.at = "tenant", !.tenant = t]
  <1>1. j \in Jobs /\ j.at = "tenant" /\ j.tenant = t
    BY DEF Jobs, Idle
  <1>2. /\ job' = [job EXCEPT ![h] = j] /\ UNCHANGED <<tenants, owners, tokens, known, granted>>
        /\ ~Rowed(t) /\ \A g \in Handlers : job[g].tenant # t
    BY DEF Signup, tables, Rowed, Working
  <1> HIDE DEF j
  <1>3. job'[h] = j /\ \A g \in Handlers \ {h} : job'[g] = job[g]
    BY <1>2 DEF TenancyInv, TypeOK
  <1>4. TypeOK'
    BY <1>1, <1>2, TenancyAssumption DEF TenancyInv, TypeOK
  <1>5. References' /\ OnlyEntitled' /\ GrantedStays'
    BY <1>2 DEF TenancyInv, References, OnlyEntitled, GrantedStays, Rowed
  <1>6. SignupOK(h)' /\ EnablingOK(h)' /\ AloneOK(h)'
    BY <1>1, <1>2, <1>3 DEF SignupOK, EnablingOK, AloneOK, Enablings, Rowed
  <1>7. ASSUME NEW g \in Handlers \ {h}
        PROVE  SignupOK(g)' /\ EnablingOK(g)' /\ AloneOK(g)'
    <2>1. SignupOK(g) /\ EnablingOK(g) /\ AloneOK(g) /\ job[g].tenant # t
      BY <1>2 DEF TenancyInv
    <2>2. SignupOK(g)' /\ EnablingOK(g)'
      BY <1>1, <1>2, <1>3, <2>1 DEF SignupOK, EnablingOK, Allowed, Rowed
    <2>3. AloneOK(g)'
      BY <1>1, <1>2, <1>3, <2>1 DEF AloneOK
    <2> QED
      BY <2>2, <2>3
  <1> QED
    BY <1>4, <1>5, <1>6, <1>7 DEF TenancyInv

\* The row is new: nobody else works on it, and nothing was granted without it.
LEMMA InsertTenantKeeps ==
  ASSUME TenancyInv, NEW h \in Handlers, InsertTenant(h)
  PROVE  TenancyInv'
  <1> DEFINE t == job[h].tenant
             row == [modules |-> Onboarded, plan |-> "free", status |-> "active"]
  <1>1. /\ job[h].at = "tenant" /\ t \in Tenants /\ ~Rowed(t)
        /\ \A g \in Handlers \ {h} : job[g].tenant # t
    BY DEF TenancyInv, TypeOK, Jobs, InsertTenant, SignupOK
  <1>2. row \in Rows /\ row # None /\ row.modules = Onboarded
    BY TenancyAssumption DEF Rows, Onboarded, Modules, Plans
  <1>3. /\ tenants' = [tenants EXCEPT ![t] = row] /\ UNCHANGED <<owners, tokens, known, granted>>
        /\ job' = [job EXCEPT ![h].at = "owner"]
    BY DEF InsertTenant, Await
  <1>4. /\ tenants'[t] = row /\ \A u \in Tenants \ {t} : tenants'[u] = tenants[u]
        /\ job'[h].at = "owner" /\ job'[h].tenant = t
        /\ \A g \in Handlers \ {h} : job'[g] = job[g]
    BY <1>1, <1>3 DEF TenancyInv, TypeOK, Jobs
  <1> HIDE DEF t, row
  <1>5. TypeOK'
    <2>1. tenants' \in [Tenants -> Rows \cup {None}]
      BY <1>1, <1>2, <1>3 DEF TenancyInv, TypeOK
    <2>2. job' \in [Handlers -> Jobs]
      BY <1>3 DEF TenancyInv, TypeOK, Jobs
    <2> QED
      BY <1>1, <1>3, <1>4, <2>1, <2>2, TenancyAssumption DEF TenancyInv, TypeOK
  <1>6. References'
    BY <1>2, <1>3, <1>4 DEF TenancyInv, TypeOK, References, Rowed
  <1>7. OnlyEntitled'
    BY <1>2, <1>4 DEF TenancyInv, OnlyEntitled, Rowed
  <1>8. GrantedStays'
    BY <1>1, <1>2, <1>3, <1>4 DEF TenancyInv, GrantedStays, Rowed
  <1>9. SignupOK(h)' /\ EnablingOK(h)' /\ AloneOK(h)'
    BY <1>1, <1>2, <1>4 DEF SignupOK, EnablingOK, AloneOK, Enablings, Rowed
  <1>10. ASSUME NEW g \in Handlers \ {h}
         PROVE  SignupOK(g)' /\ EnablingOK(g)' /\ AloneOK(g)'
    <2>1. job[g].tenant \in Tenants \ {t} \/ (job[g].tenant = None /\ job[g].at = "idle")
      BY <1>1 DEF TenancyInv, TypeOK, Jobs
    <2>2. SignupOK(g) /\ EnablingOK(g) /\ AloneOK(g)
      BY DEF TenancyInv
    <2>3. SignupOK(g)'
      BY <1>1, <1>3, <1>4, <2>1, <2>2 DEF SignupOK, Rowed
    <2>4. EnablingOK(g)'
      BY <1>3, <1>4, <2>1, <2>2 DEF EnablingOK, Allowed, Enablings
    <2>5. AloneOK(g)'
      BY <1>1, <1>3, <1>4, <2>1, <2>2, TenancyAssumption DEF AloneOK
    <2> QED
      BY <2>3, <2>4, <2>5
  <1> QED
    BY <1>5, <1>6, <1>7, <1>8, <1>9, <1>10 DEF TenancyInv

\* The owner is inserted after the tenant, ...
LEMMA InsertOwnerKeeps ==
  ASSUME TenancyInv, NEW h \in Handlers, InsertOwner(h)
  PROVE  TenancyInv'
  <1> DEFINE j == [job[h] EXCEPT !.at = "token"]
  <1>1. j \in Jobs /\ j.at = "token" /\ j.tenant = job[h].tenant
    BY DEF TenancyInv, TypeOK, Jobs
  <1>2. job' = [job EXCEPT ![h] = j] /\ job[h].at = "owner"
    BY DEF InsertOwner, Await, TenancyInv, TypeOK, Jobs
  <1>3. job'[h] = j /\ job[h].tenant \in Tenants /\ Rowed(job[h].tenant)
    BY <1>1, <1>2 DEF TenancyInv, TypeOK, Jobs, SignupOK
  <1> HIDE DEF j
  <1>4. /\ UNCHANGED <<tenants, granted>> /\ owners \subseteq owners' /\ tokens \subseteq tokens'
        /\ References'
        /\ owners' \subseteq Tenants /\ tokens' \subseteq Tenants /\ known' \subseteq Tenants
    BY <1>3 DEF InsertOwner, TenancyInv, TypeOK, References, Rowed
  <1>5. SignupOK(h)' /\ EnablingOK(h)'
    BY <1>1, <1>3 DEF SignupOK, EnablingOK, Enablings, InsertOwner
  <1>6. AloneOK(h)'
    <2>1. \A g \in Handlers : job'[g].tenant = job[g].tenant
      BY <1>1, <1>2 DEF TenancyInv, TypeOK
    <2> QED
      BY <2>1, <1>1, <1>3 DEF TenancyInv, AloneOK
  <1> QED
    BY <1>1, <1>2, <1>3, <1>4, <1>5, <1>6, OwnJob, TenancyAssumption

\* ... the token after the owner, ...
LEMMA IssueTokenKeeps ==
  ASSUME TenancyInv, NEW h \in Handlers, IssueToken(h)
  PROVE  TenancyInv'
  <1> DEFINE j == [job[h] EXCEPT !.at = "created"]
  <1>1. j \in Jobs /\ j.at = "created" /\ j.tenant = job[h].tenant
    BY DEF TenancyInv, TypeOK, Jobs
  <1>2. job' = [job EXCEPT ![h] = j] /\ job[h].at = "token"
    BY DEF IssueToken, Await, TenancyInv, TypeOK, Jobs
  <1>3. job'[h] = j /\ job[h].tenant \in Tenants /\ job[h].tenant \in owners
    BY <1>1, <1>2 DEF TenancyInv, TypeOK, Jobs, SignupOK
  <1> HIDE DEF j
  <1>4. /\ UNCHANGED <<tenants, granted>> /\ owners \subseteq owners' /\ tokens \subseteq tokens'
        /\ References'
        /\ owners' \subseteq Tenants /\ tokens' \subseteq Tenants /\ known' \subseteq Tenants
    BY <1>3 DEF IssueToken, TenancyInv, TypeOK, References, Rowed
  <1>5. SignupOK(h)' /\ EnablingOK(h)'
    BY <1>1, <1>3 DEF SignupOK, EnablingOK, Enablings, IssueToken
  <1>6. AloneOK(h)'
    <2>1. \A g \in Handlers : job'[g].tenant = job[g].tenant
      BY <1>1, <1>2 DEF TenancyInv, TypeOK
    <2> QED
      BY <2>1, <1>1, <1>3 DEF TenancyInv, AloneOK
  <1> QED
    BY <1>1, <1>2, <1>3, <1>4, <1>5, <1>6, OwnJob, TenancyAssumption

\* ... and is told when it is there.
LEMMA CreatedKeeps ==
  ASSUME TenancyInv, NEW h \in Handlers, Created(h)
  PROVE  TenancyInv'
  <1>1. Idle \in Jobs
    BY DEF Idle, Jobs
  <1>2. job' = [job EXCEPT ![h] = Idle] /\ job[h].at = "created"
    BY DEF Created, End
  <1>3. job'[h] = Idle /\ job[h].tenant \in tokens /\ job[h].tenant \in Tenants
    BY <1>2 DEF TenancyInv, TypeOK, SignupOK, Jobs
  <1>4. SignupOK(h)' /\ EnablingOK(h)' /\ AloneOK(h)'
    BY <1>3, TenancyAssumption DEF SignupOK, EnablingOK, AloneOK, Idle, Enablings
  <1>5. /\ UNCHANGED <<tenants, granted>> /\ owners \subseteq owners' /\ tokens \subseteq tokens'
        /\ References'
        /\ owners' \subseteq Tenants /\ tokens' \subseteq Tenants /\ known' \subseteq Tenants
    BY <1>3 DEF Created, tables, TenancyInv, TypeOK, References, Rowed
  <1> QED
    BY <1>1, <1>2, <1>4, <1>5, OwnJob DEF Idle

-----------------------------------------------------------------------------
\* Only an owner who was told a token enables anything.
LEMMA EnableKeeps ==
  ASSUME TenancyInv, NEW h \in Handlers, NEW t \in Tenants, NEW m \in Modules, Enable(h, t, m)
  PROVE  TenancyInv'
  <1> DEFINE j == [Idle EXCEPT !.at = "account", !.tenant = t, !.module = m]
  <1>1. j \in Jobs /\ j.at = "account" /\ j.tenant = t /\ j.module = m
    BY DEF Jobs, Idle
  <1>2. /\ job' = [job EXCEPT ![h] = j] /\ UNCHANGED <<tenants, owners, tokens, known, granted>>
        /\ t \in owners /\ Rowed(t)
        /\ t \in Overlapping \/ \A g \in Handlers : job[g].tenant # t
    BY DEF Enable, tables, Working, TenancyInv, References
  <1> HIDE DEF j
  <1>3. job'[h] = j /\ \A g \in Handlers \ {h} : job'[g] = job[g]
    BY <1>2 DEF TenancyInv, TypeOK
  <1>4. TypeOK'
    BY <1>1, <1>2, TenancyAssumption DEF TenancyInv, TypeOK
  <1>5. References' /\ OnlyEntitled' /\ GrantedStays'
    BY <1>2 DEF TenancyInv, References, OnlyEntitled, GrantedStays, Rowed
  <1>6. SignupOK(h)' /\ EnablingOK(h)' /\ AloneOK(h)'
    BY <1>1, <1>2, <1>3 DEF SignupOK, EnablingOK, AloneOK, Enablings, Rowed
  <1>7. ASSUME NEW g \in Handlers \ {h}
        PROVE  SignupOK(g)' /\ EnablingOK(g)' /\ AloneOK(g)'
    <2>1. SignupOK(g) /\ EnablingOK(g) /\ AloneOK(g)
      BY DEF TenancyInv
    <2>2. SignupOK(g)'
      BY <1>1, <1>2, <1>3, <2>1 DEF SignupOK, Rowed
    <2>3. EnablingOK(g)'
      BY <1>2, <1>3, <2>1 DEF EnablingOK, Allowed
    <2>4. AloneOK(g)'
      BY <1>1, <1>2, <1>3, <2>1 DEF AloneOK
    <2> QED
      BY <2>2, <2>3, <2>4
  <1> QED
    BY <1>4, <1>5, <1>6, <1>7 DEF TenancyInv

\* An enabling finds the row and its owner, so no account is ever assumed.
LEMMA AccountFound ==
  ASSUME TenancyInv, NEW h \in Handlers, job[h].at \in {"account", "accountOwner"}
  PROVE  /\ job[h].tenant \in owners
         /\ tenants[job[h].tenant] \in Rows /\ tenants[job[h].tenant] # None
  BY TenancyAssumption DEF TenancyInv, TypeOK, References, EnablingOK, Enablings, Rowed

\* The row is there, so it is what the entitlement will be held against.
LEMMA AccountKeeps ==
  ASSUME TenancyInv, NEW h \in Handlers, Account(h)
  PROVE  TenancyInv'
  <1> DEFINE row == tenants[job[h].tenant]
             j == [job[h] EXCEPT !.at = "accountOwner", !.account = row]
  <1>1. row \in Rows /\ row # None /\ job[h].at = "account"
    BY AccountFound, TenancyAssumption DEF Account
  <1>2. j \in Jobs /\ j.at = "accountOwner" /\ j.tenant = job[h].tenant
        /\ j.module = job[h].module /\ j.account = row
    BY <1>1 DEF TenancyInv, TypeOK, Jobs
  <1>3. job' = [job EXCEPT ![h] = j] /\ UNCHANGED <<tenants, owners, tokens, known, granted>>
    BY <1>1 DEF Account, tables, TenancyInv, TypeOK, Jobs
  <1>4. job'[h] = j /\ \A g \in Handlers : job'[g].tenant = job[g].tenant
    BY <1>2, <1>3 DEF TenancyInv, TypeOK
  <1> HIDE DEF j
  <1>5. j.tenant # None
    BY <1>1, <1>2 DEF TenancyInv, TypeOK
  <1>6. SignupOK(h)' /\ EnablingOK(h)'
    BY <1>1, <1>2, <1>3, <1>4 DEF TenancyInv, SignupOK, EnablingOK, Enablings
  <1>7. AloneOK(h)'
    BY <1>2, <1>4 DEF TenancyInv, AloneOK
  <1>8. References' /\ owners \subseteq Tenants /\ tokens \subseteq Tenants /\ known \subseteq Tenants
    BY <1>3 DEF TenancyInv, TypeOK, References, Rowed
  <1> HIDE DEF row
  <1> QED
    BY <1>2, <1>3, <1>5, <1>6, <1>7, <1>8, OwnJob

\* The owner is there too, so no account is assumed.
LEMMA AccountOwnerKeeps ==
  ASSUME TenancyInv, NEW h \in Handlers, AccountOwner(h)
  PROVE  TenancyInv'
  BY AccountFound, DecideKeeps DEF AccountOwner

\* The list is the row's, which has only what it may have.
LEMMA ReadModulesKeeps ==
  ASSUME TenancyInv, NEW h \in Handlers, ReadModules(h)
  PROVE  TenancyInv'
  <1> DEFINE row == tenants[job[h].tenant]
             j == [job[h] EXCEPT !.at = "update", !.list = row.modules]
  <1>1. CASE row = None
    BY <1>1, EndKeeps DEF ReadModules, tables
  <1>2. CASE row # None
    <2>1. job[h].at = "modules" /\ job[h].tenant \in Tenants
      BY DEF ReadModules, TenancyInv, TypeOK, Jobs
    <2>2. row \in Rows /\ row.modules \subseteq Allowed(row)
      BY <1>2, <2>1 DEF TenancyInv, TypeOK, OnlyEntitled, Rowed, Allowed
    <2>3. j \in Jobs /\ j.at = "update" /\ j.tenant = job[h].tenant
          /\ j.module = job[h].module /\ j.list = row.modules
      BY <2>1, <2>2 DEF TenancyInv, TypeOK, Jobs, Rows
    <2>4. job' = [job EXCEPT ![h] = j] /\ UNCHANGED <<tenants, owners, tokens, known, granted>>
      BY <1>2 DEF ReadModules, tables, TenancyInv, TypeOK, Jobs
    <2>5. job'[h] = j /\ \A g \in Handlers : job'[g].tenant = job[g].tenant
      BY <2>3, <2>4 DEF TenancyInv, TypeOK
    <2> HIDE DEF j
    <2>6. j.tenant # None
      BY <2>1, <2>3 DEF TenancyInv, TypeOK
    <2>7. SignupOK(h)' /\ EnablingOK(h)'
      BY <2>1, <2>2, <2>3, <2>4, <2>5 DEF TenancyInv, SignupOK, EnablingOK, Enablings, Allowed
    <2>8. AloneOK(h)'
      BY <2>3, <2>4, <2>5 DEF TenancyInv, AloneOK
    <2>9. References' /\ owners \subseteq Tenants /\ tokens \subseteq Tenants /\ known \subseteq Tenants
      BY <2>4 DEF TenancyInv, TypeOK, References, Rowed
    <2> HIDE DEF row
    <2> QED
      BY <2>3, <2>4, <2>6, <2>7, <2>8, <2>9, OwnJob
  <1> QED
    BY <1>1, <1>2

\* What is written back is the list read before and a module of the plan. The row's
\* plan and status stay, so whoever works on the tenant besides is as entitled as
\* before; and for a tenant worked on by one handler the list is still the row's.
LEMMA UpdateKeeps ==
  ASSUME TenancyInv, NEW h \in Handlers, Update(h)
  PROVE  TenancyInv'
  <1> DEFINE t == job[h].tenant
             list == job[h].list \cup {job[h].module}
             row == [tenants[t] EXCEPT !.modules = list]
  <1>1. /\ job[h].at = "update" /\ t \in owners /\ job[h].module \in Modules
        /\ Entitled(tenants[t], job[h].module)
        /\ job[h].list \subseteq Allowed(tenants[t])
    BY DEF Update, TenancyInv, EnablingOK, Enablings
  <1>2. t \in Tenants /\ tenants[t] \in Rows
    BY <1>1 DEF TenancyInv, TypeOK, References, Rowed
  <1>3. list \subseteq Modules /\ list \subseteq Allowed(tenants[t])
    BY <1>1 DEF Allowed, TenancyInv, TypeOK, Jobs
  <1>4. row \in Rows /\ row # None /\ row.modules = list
        /\ row.plan = tenants[t].plan /\ row.status = tenants[t].status
    BY <1>2, <1>3, TenancyAssumption DEF Rows
  <1>5. /\ tenants' = [tenants EXCEPT ![t] = row] /\ UNCHANGED <<owners, tokens, known, granted>>
        /\ job' = [job EXCEPT ![h].at = "audit"]
    BY DEF Update, Await
  <1>6. /\ tenants'[t] = row /\ \A u \in Tenants \ {t} : tenants'[u] = tenants[u]
        /\ job'[h].at = "audit" /\ job'[h].tenant = t /\ job'[h].module = job[h].module
        /\ \A g \in Handlers \ {h} : job'[g] = job[g]
        /\ \A g \in Handlers : job'[g].tenant = job[g].tenant
    BY <1>2, <1>5 DEF TenancyInv, TypeOK, Jobs
  <1>7. \A m : Entitled(row, m) <=> Entitled(tenants[t], m)
    BY <1>4 DEF Entitled
  <1>8. t \in Tenants \ Overlapping =>
          /\ job[h].list = tenants[t].modules
          /\ \A g \in Handlers \ {h} : job[g].tenant # t
    BY <1>1 DEF TenancyInv, AloneOK
  <1>9. Allowed(row) = Allowed(tenants[t])
    BY <1>7 DEF Allowed
  <1>10. job[h].module \in list /\ job[h].list \subseteq list
    OBVIOUS
  <1> HIDE DEF t, row, list
  <1>11. TypeOK'
    <2>1. tenants' \in [Tenants -> Rows \cup {None}]
      BY <1>2, <1>4, <1>5 DEF TenancyInv, TypeOK
    <2>2. job' \in [Handlers -> Jobs]
      BY <1>5 DEF TenancyInv, TypeOK, Jobs
    <2> QED
      BY <1>2, <1>5, <1>6, <2>1, <2>2, TenancyAssumption DEF TenancyInv, TypeOK
  <1>12. References'
    BY <1>4, <1>5, <1>6 DEF TenancyInv, TypeOK, References, Rowed
  <1>13. OnlyEntitled'
    BY <1>3, <1>4, <1>6, <1>7, <1>9 DEF TenancyInv, OnlyEntitled, Rowed, Allowed
  <1>14. GrantedStays'
    BY <1>4, <1>5, <1>6, <1>8, <1>10 DEF TenancyInv, GrantedStays, Rowed
  <1>15. SignupOK(h)' /\ EnablingOK(h)' /\ AloneOK(h)'
    <2>1. SignupOK(h)'
      BY <1>6 DEF SignupOK
    <2>2. EnablingOK(h)'
      BY <1>1, <1>5, <1>6, <1>7 DEF EnablingOK, Enablings
    <2>3. AloneOK(h)'
      BY <1>4, <1>6, <1>8, <1>10 DEF AloneOK
    <2> QED
      BY <2>1, <2>2, <2>3
  <1>16. ASSUME NEW g \in Handlers \ {h}
         PROVE  SignupOK(g)' /\ EnablingOK(g)' /\ AloneOK(g)'
    <2>1. job[g].tenant \in Tenants \/ (job[g].tenant = None /\ job[g].at = "idle")
      BY DEF TenancyInv, TypeOK, Jobs
    <2>2. SignupOK(g) /\ EnablingOK(g) /\ AloneOK(g)
      BY DEF TenancyInv
    <2>3. SignupOK(g)'
      <3>1. job[g].at = "tenant" => job[g].tenant # t
        BY <1>6, <2>2 DEF SignupOK
      <3> QED
        BY <1>4, <1>5, <1>6, <2>1, <2>2, <3>1 DEF SignupOK, Rowed
    <2>4. EnablingOK(g)'
      <3>1. CASE job[g].tenant = t
        BY <1>4, <1>5, <1>6, <1>7, <1>9, <2>2, <3>1 DEF EnablingOK
      <3>2. CASE job[g].tenant # t /\ job[g].tenant \in Tenants
        BY <1>5, <1>6, <2>2, <3>2 DEF EnablingOK, Allowed
      <3>3. CASE job[g].at = "idle"
        BY <1>6, <3>3 DEF EnablingOK, Enablings
      <3> QED
        BY <2>1, <3>1, <3>2, <3>3
    <2>5. AloneOK(g)'
      BY <1>6, <1>8, <2>1, <2>2, TenancyAssumption DEF AloneOK
    <2> QED
      BY <2>3, <2>4, <2>5
  <1> QED
    BY <1>11, <1>12, <1>13, <1>14, <1>15, <1>16 DEF TenancyInv

\* The module answered 200 for is in the row of a tenant worked on by one handler.
LEMMA EnabledKeeps ==
  ASSUME TenancyInv, NEW h \in Handlers, Enabled(h)
  PROVE  TenancyInv'
  <1> DEFINE t == job[h].tenant
  <1>1. /\ job[h].at = "audit" /\ t \in Tenants /\ Rowed(t) /\ job[h].module \in Modules
        /\ t \notin Overlapping => job[h].module \in tenants[t].modules
    BY DEF Enabled, TenancyInv, TypeOK, References, EnablingOK, Enablings, AloneOK
  <1>2. End(h) /\ UNCHANGED <<tenants, owners, tokens, known>>
        /\ granted' = [granted EXCEPT ![t] = granted[t] \cup {job[h].module}]
    BY DEF Enabled, tables
  <1>3. GrantedStays' /\ granted' \in [Tenants -> SUBSET Modules]
    BY <1>1, <1>2 DEF TenancyInv, TypeOK, GrantedStays, Rowed
  <1>4. TypeOK'
    <2>1. Idle \in Jobs
      BY DEF Idle, Jobs
    <2> QED
      BY <1>2, <1>3, <2>1 DEF TenancyInv, TypeOK, End, Idle
  <1>5. References' /\ OnlyEntitled'
    BY <1>2 DEF TenancyInv, References, OnlyEntitled, Rowed
  <1>6. job'[h] = Idle /\ \A g \in Handlers \ {h} : job'[g] = job[g]
    BY <1>2 DEF TenancyInv, TypeOK, End
  <1>7. ASSUME NEW g \in Handlers
        PROVE  SignupOK(g)' /\ EnablingOK(g)' /\ AloneOK(g)'
    <2>1. CASE g = h
      BY <1>6, <2>1, TenancyAssumption DEF SignupOK, EnablingOK, AloneOK, Idle, Enablings
    <2>2. CASE g # h
      <3>1. SignupOK(g) /\ EnablingOK(g) /\ AloneOK(g) /\ (job[g].tenant = None => job[g].at = "idle")
        BY DEF TenancyInv, TypeOK
      <3>2. SignupOK(g)' /\ EnablingOK(g)'
        BY <1>2, <1>6, <2>2, <3>1 DEF SignupOK, EnablingOK, Allowed, Rowed, Idle
      <3>3. AloneOK(g)'
        BY <1>2, <1>6, <2>2, <3>1, TenancyAssumption DEF AloneOK, Idle
      <3> QED
        BY <3>2, <3>3
    <2> QED
      BY <2>1, <2>2
  <1> QED
    BY <1>3, <1>4, <1>5, <1>7 DEF TenancyInv

-----------------------------------------------------------------------------
LEMMA TenancyGoesOn == TenancyInv /\ [Next]_vars => TenancyInv'
  <1> SUFFICES ASSUME TenancyInv, [Next]_vars PROVE TenancyInv'
    OBVIOUS
  <1>1. ASSUME NEW h \in Handlers, Fail(h) PROVE TenancyInv'
    BY <1>1, EndKeeps DEF Fail
  <1>2. CASE UNCHANGED vars
    BY <1>2 DEF vars, TenancyInv, TypeOK, References, SignupOK, EnablingOK, AloneOK, Allowed,
                OnlyEntitled, GrantedStays, Rowed
  <1> QED
    BY <1>1, <1>2, SignupKeeps, InsertTenantKeeps, InsertOwnerKeeps, IssueTokenKeeps,
       CreatedKeeps, EnableKeeps, AccountKeeps, AccountOwnerKeeps, ReadModulesKeeps,
       UpdateKeeps, EnabledKeeps DEF Next

\* The inductive invariant holds throughout.
LEMMA Invariance == Spec => []TenancyInv
  BY TenancyStart, TenancyGoesOn, PTL DEF Spec

\* Every reachable state is of the declared types.
THEOREM TenancyTypeCorrect == Spec => []TypeOK
  <1>1. TenancyInv => TypeOK
    BY DEF TenancyInv
  <1> QED
    BY <1>1, Invariance, PTL

\* No interleaving or failure lets a tenant have a module its plan does not sell,
\* or a suspended tenant a new one (routes/modules.ts, platform.ts).
THEOREM EntitlementHolds == Spec => []OnlyEntitled
  <1>1. TenancyInv => OnlyEntitled
    BY DEF TenancyInv
  <1> QED
    BY <1>1, Invariance, PTL

\* A token is only told when it, its owner and its tenant are stored (routes/signup.ts).
THEOREM TokensWork == Spec => []ToldTokensWork
  <1>1. TenancyInv => ToldTokensWork
    BY DEF TenancyInv, References, ToldTokensWork
  <1> QED
    BY <1>1, Invariance, PTL

\* With one enabling at a time a module answered 200 for is never lost
\* (enableTenantModule writes the whole list back).
THEOREM GrantsLast == Spec => []GrantedStays
  <1>1. TenancyInv => GrantedStays
    BY DEF TenancyInv
  <1> QED
    BY <1>1, Invariance, PTL

-----------------------------------------------------------------------------
(* Campaigns.                                                              *)


Runs ==
  [at : {"idle", "usage", "list", "next", "send", "record"}, todo : SUBSET Recipients,
   to : Recipients \cup {NoOne}, sent : Nat]

\* What a handler's record always satisfies.
RunOK(r) ==
  /\ r \in Runs
  /\ r.at = "send" <=> r.to # NoOne
  /\ r.to \notin r.todo
  /\ r.at = "record" => r.sent > 0
  /\ r.at \in {"idle", "usage", "list"} => r.sent = 0

CampaignInv == CampaignTypeOK /\ OptOutStopsMail

LEMMA RunTyped == CampaignTypeOK => run \in [Campaigns -> Runs] /\ \A c \in Campaigns : RunOK(run[c])
BY DEF CampaignTypeOK, RunOK, Runs

LEMMA IdleOK == RunOK(NotRunning)
BY CampaignAssumption DEF RunOK, Runs, NotRunning

LEMMA InitEstablishes == CampaignInit => CampaignInv
BY CampaignAssumption DEF CampaignInit, NotRunning, CampaignInv, CampaignTypeOK, OptOutStopsMail

-----------------------------------------------------------------------------
\* One handler moves; it is sending only to somebody the gate admits, or to whom it
\* was sending before, and nobody else is taken off the way.
LEMMA HandlerStep ==
  ASSUME CampaignInv, NEW c \in Campaigns, NEW r, RunOK(r), run' = [run EXCEPT ![c] = r],
         allowed' = allowed, period' = period,
         usage' \in [0..Periods -> Nat], mailed' \in Nat, uncounted' \in Nat,
         onTheWay' = onTheWay \/ (onTheWay' = Landed(c) /\ r.to = NoOne),
         r.to = NoOne \/ allowed[r.to]
  PROVE  CampaignInv'
<1>1. run' \in [Campaigns -> Runs] /\ \A d \in Campaigns : RunOK(run'[d])
  BY RunTyped DEF CampaignInv, RunOK
<1>2. /\ onTheWay' \in [Recipients -> SUBSET Campaigns]
      /\ \A p \in Recipients : \A d \in Campaigns \ {c} :
           d \in onTheWay[p] => d \in onTheWay'[p]
  BY DEF CampaignInv, CampaignTypeOK, Landed
<1>3. CampaignTypeOK'
  BY <1>1, <1>2 DEF CampaignInv, CampaignTypeOK, RunOK, Runs
<1>4. OptOutStopsMail'
  <2> SUFFICES ASSUME NEW d \in Campaigns, NEW p \in Recipients,
                      run'[d].to = p, ~allowed[p]
               PROVE  d \in onTheWay'[p]
    BY DEF OptOutStopsMail
  <2>1. d # c
    BY CampaignAssumption DEF CampaignInv, CampaignTypeOK
  <2>2. run'[d] = run[d] BY <2>1 DEF CampaignInv, CampaignTypeOK
  <2> QED BY <2>1, <2>2, <1>2 DEF CampaignInv, OptOutStopsMail
<1> QED BY <1>3, <1>4 DEF CampaignInv

LEMMA GateStep ==
  ASSUME CampaignInv, NEW p \in Recipients, OptIn(p) \/ OptOut(p)
  PROVE  CampaignInv'
<1>1. CASE OptIn(p)
  BY <1>1 DEF OptIn, CampaignInv, CampaignTypeOK, OptOutStopsMail
<1>2. CASE OptOut(p)
  <2>1. SendingTo(p) \subseteq Campaigns BY DEF SendingTo
  <2>2. CampaignTypeOK' BY <1>2, <2>1 DEF OptOut, CampaignInv, CampaignTypeOK
  <2>3. OptOutStopsMail'
    BY <1>2 DEF OptOut, SendingTo, CampaignInv, CampaignTypeOK, OptOutStopsMail
  <2> QED BY <2>2, <2>3 DEF CampaignInv
<1> QED BY <1>1, <1>2

LEMMA RollOverStep ==
  ASSUME CampaignInv, RollOver
  PROVE  CampaignInv'
BY CampaignAssumption DEF RollOver, CampaignInv, CampaignTypeOK, OptOutStopsMail

LEMMA CampaignStep ==
  ASSUME CampaignInv, NEW c \in Campaigns,
         \/ Start(c) \/ ReadUsage(c) \/ List(c)
         \/ \E p \in Recipients : Admit(c, p) \/ Skip(c, p)
         \/ Sent(c) \/ Finish(c) \/ Record(c) \/ CampaignFails(c) \/ RecordFail(c)
  PROVE  CampaignInv'
<1> DEFINE q == run[c]
<1>q. RunOK(q) /\ q \in Runs BY RunTyped DEF CampaignInv, RunOK
<1>t. usage \in [0..Periods -> Nat] /\ mailed \in Nat /\ uncounted \in Nat /\ period \in 0..Periods
  BY DEF CampaignInv, CampaignTypeOK
<1>d. run \in [Campaigns -> Runs] BY RunTyped DEF CampaignInv
<1>1. CASE Start(c)
  <2> DEFINE r == [q EXCEPT !.at = "usage"]
  <2>1. RunOK(r) /\ r.to = NoOne BY <1>q, <1>1 DEF Start, RunOK, Runs
  <2>2. run' = [run EXCEPT ![c] = r] BY <1>1 DEF Start
  <2> HIDE DEF r
  <2> QED BY <1>1, <2>1, <2>2, <1>t, HandlerStep DEF Start
<1>2. CASE ReadUsage(c)
  <2> DEFINE r == [q EXCEPT !.at = IF usage[period] < Limit THEN "list" ELSE "idle"]
  <2>1. RunOK(r) /\ r.to = NoOne BY <1>q, <1>2 DEF ReadUsage, RunOK, Runs
  <2>2. run' = [run EXCEPT ![c] = r] BY <1>2 DEF ReadUsage
  <2> HIDE DEF r
  <2> QED BY <1>2, <2>1, <2>2, <1>t, HandlerStep DEF ReadUsage
<1>3. CASE List(c)
  <2>1. PICK selected \in SUBSET Recipients :
          run' = [run EXCEPT ![c].at = "next", ![c].todo = selected]
    BY <1>3 DEF List
  <2> DEFINE r == [[q EXCEPT !.at = "next"] EXCEPT !.todo = selected]
  <2>2. RunOK(r) /\ r.to = NoOne
    BY <1>q, <1>3, CampaignAssumption DEF List, RunOK, Runs
  <2>3. run' = [run EXCEPT ![c] = r] BY <2>1, <1>d
  <2> HIDE DEF r
  <2> QED BY <1>3, <2>2, <2>3, <1>t, HandlerStep DEF List
<1>4. ASSUME NEW p \in Recipients, Admit(c, p) PROVE CampaignInv'
  <2> DEFINE r == [[[q EXCEPT !.at = "send"] EXCEPT !.to = p] EXCEPT !.todo = @ \ {p}]
  <2>1. RunOK(r) /\ r.to = p
    BY <1>q, <1>4, CampaignAssumption DEF Admit, RunOK, Runs
  <2>2. run' = [run EXCEPT ![c] = r] BY <1>4, <1>d DEF Admit
  <2> HIDE DEF r
  <2> QED BY <1>4, <2>1, <2>2, <1>t, HandlerStep DEF Admit
<1>5. ASSUME NEW p \in Recipients, Skip(c, p) PROVE CampaignInv'
  <2> DEFINE r == [q EXCEPT !.todo = @ \ {p}]
  <2>1. RunOK(r) /\ r.to = NoOne BY <1>q, <1>5 DEF Skip, RunOK, Runs
  <2>2. run' = [run EXCEPT ![c] = r] BY <1>5 DEF Skip
  <2> HIDE DEF r
  <2> QED BY <1>5, <2>1, <2>2, <1>t, HandlerStep DEF Skip
<1>6. CASE Sent(c)
  <2> DEFINE r0 == [[q EXCEPT !.at = "next"] EXCEPT !.to = NoOne]
             r == [r0 EXCEPT !.sent = @ + 1]
  <2>1. RunOK(r) /\ r.to = NoOne
    <3>0. r0 \in Runs /\ r0.at = "next" /\ r0.to = NoOne /\ r0.todo = q.todo
      BY <1>q DEF Runs
    <3> HIDE DEF r0
    <3>1. r \in Runs BY <3>0 DEF Runs
    <3>2. r.at = "next" /\ r.to = NoOne /\ r.todo = q.todo BY <3>0 DEF Runs
    <3>3. r.to \notin r.todo BY <3>2, <1>q, CampaignAssumption DEF Runs
    <3> HIDE DEF r
    <3> QED BY <3>1, <3>2, <3>3 DEF RunOK
  <2>2. run' = [run EXCEPT ![c] = r] BY <1>6, <1>d DEF Sent
  <2>3. mailed + 1 \in Nat BY <1>t
  <2> HIDE DEF r
  <2> QED BY <1>6, <2>1, <2>2, <2>3, <1>t, HandlerStep DEF Sent
<1>7. CASE Finish(c)
  <2> DEFINE r == IF q.sent = 0 THEN NotRunning ELSE [q EXCEPT !.at = "record"]
  <2>1. RunOK(r) /\ r.to = NoOne
    BY <1>q, <1>7, IdleOK DEF Finish, RunOK, Runs, NotRunning
  <2>2. run' = [run EXCEPT ![c] = r] BY <1>7 DEF Finish
  <2> HIDE DEF r
  <2> QED BY <1>7, <2>1, <2>2, <1>t, HandlerStep DEF Finish
<1>8. CASE Record(c)
  <2>1. usage' \in [0..Periods -> Nat] BY <1>8, <1>q, <1>t DEF Record, Runs
  <2>2. NotRunning.to = NoOne BY DEF NotRunning
  <2> QED BY <1>8, <2>1, <2>2, <1>t, IdleOK, HandlerStep DEF Record
<1>9. CASE CampaignFails(c)
  <2>1. mailed' \in Nat /\ uncounted' \in Nat
    BY <1>9, <1>q, <1>t DEF CampaignFails, Runs
  <2>2. NotRunning.to = NoOne BY DEF NotRunning
  <2> QED BY <1>9, <2>1, <2>2, <1>t, IdleOK, HandlerStep DEF CampaignFails
<1>10. CASE RecordFail(c)
  <2>1. uncounted' \in Nat BY <1>10, <1>q, <1>t DEF RecordFail, Runs
  <2>2. NotRunning.to = NoOne BY DEF NotRunning
  <2> QED BY <1>10, <2>1, <2>2, <1>t, IdleOK, HandlerStep DEF RecordFail
<1> QED BY <1>1, <1>2, <1>3, <1>4, <1>5, <1>6, <1>7, <1>8, <1>9, <1>10

LEMMA StepKeeps == CampaignInv /\ [CampaignNext]_campaignVars => CampaignInv'
<1>1. CASE UNCHANGED campaignVars
  BY <1>1 DEF campaignVars, CampaignInv, CampaignTypeOK, OptOutStopsMail
<1>2. CASE CampaignNext
  BY <1>2, GateStep, RollOverStep, CampaignStep DEF CampaignNext
<1> QED BY <1>1, <1>2

\* Every handler record, counter and history keeps its type; nothing but what was
\* sent is ever recorded.
THEOREM CampaignTypeCorrect == CampaignSpec => []CampaignTypeOK
BY InitEstablishes, StepKeeps, PTL DEF CampaignSpec, CampaignInv

\* After an opt-out only the mails that were being sent at that moment arrive.
THEOREM OptOutStopsEveryCampaign == CampaignSpec => []OptOutStopsMail
BY InitEstablishes, StepKeeps, PTL DEF CampaignSpec, CampaignInv

-----------------------------------------------------------------------------
(* Sums.                                                                   *)

LEMMA ColumnSize ==
  ASSUME NEW x, NEW k \in Nat
  PROVE  IsFiniteSet({x} \X (1..k)) /\ Cardinality({x} \X (1..k)) = k
<1>1. IsFiniteSet({x}) /\ Cardinality({x}) = 1 BY FS_Singleton
<1>2. IsFiniteSet(1..k) /\ Cardinality(1..k) = k BY FS_Interval
<1>3. /\ IsFiniteSet({x} \X (1..k))
      /\ Cardinality({x} \X (1..k)) = Cardinality({x}) * Cardinality(1..k)
  BY <1>1, <1>2, FS_Product
<1> QED BY <1>1, <1>2, <1>3

\* The units of all the other places.
Rest(f, D, x) == UNION {{y} \X (1..f[y]) : y \in D \ {x}}

LEMMA UnitsFinite ==
  ASSUME NEW D, IsFiniteSet(D), NEW f \in [D -> Nat]
  PROVE  IsFiniteSet(UNION {{y} \X (1..f[y]) : y \in D})
<1> DEFINE g == [y \in D |-> {y} \X (1..f[y])]
           T == {{y} \X (1..f[y]) : y \in D}
<1>0. \A y \in D : g[y] = {y} \X (1..f[y]) OBVIOUS
<1>1. g \in Surjection(D, T)
  <2>1. \A y \in D : g[y] \in T BY <1>0
  <2>2. g \in [D -> T] BY <2>1
  <2>3. \A t \in T : \E y \in D : g[y] = t BY <1>0
  <2> HIDE DEF g, T
  <2> QED BY <2>2, <2>3 DEF Surjection
<1>2. IsFiniteSet(T) BY <1>1, FS_Surjection
<1>3. ASSUME NEW U \in T PROVE IsFiniteSet(U)
  <2>1. PICK y \in D : U = {y} \X (1..f[y]) OBVIOUS
  <2>2. f[y] \in Nat OBVIOUS
  <2> QED BY <2>1, <2>2, ColumnSize
<1> QED BY <1>2, <1>3, FS_UNION

LEMMA SumSplits ==
  ASSUME NEW D, IsFiniteSet(D), NEW f \in [D -> Nat], NEW x \in D
  PROVE  /\ Cardinality(Rest(f, D, x)) \in Nat
         /\ AddedUp(f) = Cardinality(Rest(f, D, x)) + f[x]
<1> DEFINE col == {x} \X (1..f[x])
           rest == Rest(f, D, x)
<1>1. DOMAIN f = D OBVIOUS
<1>2. Units(f) = rest \cup col BY <1>1 DEF Units, Rest
<1>3. rest \cap col = {} BY DEF Rest
<1>4. IsFiniteSet(rest)
  <2>1. IsFiniteSet(Units(f)) BY <1>1, UnitsFinite DEF Units
  <2>2. rest \in SUBSET Units(f) BY <1>2
  <2> QED BY <2>1, <2>2, FS_Subset
<1>5. IsFiniteSet(col) /\ Cardinality(col) = f[x] BY ColumnSize
<1>6. Cardinality(rest) \in Nat BY <1>4, FS_CardinalityType
<1>7. Cardinality(rest \cup col) = Cardinality(rest) + Cardinality(col) - Cardinality(rest \cap col)
  BY <1>4, <1>5, FS_Union
<1>8. Cardinality({}) = 0 BY FS_EmptySet
<1>9. AddedUp(f) = Cardinality(rest \cup col) BY <1>2 DEF AddedUp
<1>10. f[x] \in Nat OBVIOUS
<1>a. Cardinality(rest \cap col) = 0 BY <1>3, <1>8
<1> HIDE DEF rest, col
<1>11. AddedUp(f) = Cardinality(rest) + f[x]
  BY <1>5, <1>6, <1>7, <1>9, <1>10, <1>a
<1> QED BY <1>6, <1>11 DEF rest

\* Changing one value of a function changes its sum by as much.
LEMMA SumChange ==
  ASSUME NEW D, IsFiniteSet(D), NEW f \in [D -> Nat], NEW g \in [D -> Nat], NEW x \in D,
         \A y \in D \ {x} : g[y] = f[y]
  PROVE  /\ AddedUp(f) \in Nat /\ AddedUp(g) \in Nat
         /\ AddedUp(g) + f[x] = AddedUp(f) + g[x]
<1>1. Rest(g, D, x) = Rest(f, D, x) BY DEF Rest
<1>2. /\ Cardinality(Rest(f, D, x)) \in Nat
      /\ AddedUp(f) = Cardinality(Rest(f, D, x)) + f[x]
  BY SumSplits
<1>3. AddedUp(g) = Cardinality(Rest(g, D, x)) + g[x]
  BY SumSplits
<1>4. f[x] \in Nat /\ g[x] \in Nat OBVIOUS
<1> QED BY <1>1, <1>2, <1>3, <1>4

LEMMA SumOfNothing ==
  ASSUME NEW D
  PROVE  AddedUp([x \in D |-> 0]) = 0
<1> DEFINE f == [x \in D |-> 0]
<1>1. \A x \in D : {x} \X (1..f[x]) = {} OBVIOUS
<1>2. Units(f) = {} BY <1>1 DEF Units
<1> QED BY <1>2, FS_EmptySet DEF AddedUp

-----------------------------------------------------------------------------
(* What one step of a handler does to the books.                           *)

Active == {c \in Campaigns : run[c].at \in {"list", "next", "send", "record"}}

\* What a handler has sent, is sending and may still send.
Weight(r) == r.sent + Cardinality(r.todo) + (IF r.to = NoOne THEN 0 ELSE 1)

SendsAtMostAll == \A c \in Campaigns : Weight(run[c]) <= Cardinality(Recipients)

\* Handler c goes on as r and charges n mails to the month; only one that is not
\* active and finds room becomes active, and only one that ends charges.
Books(c, r, n) ==
  /\ RunOK(r) /\ n \in Nat
  /\ run' = [run EXCEPT ![c] = r]
  /\ usage' = [usage EXCEPT ![period] = @ + n] /\ period' = period
  /\ Weight(r) <= Cardinality(Recipients)
  /\ mailed' + run[c].sent + uncounted = mailed + n + r.sent + uncounted'
  /\ \/ n = 0 /\ c \in Active
     \/ n = 0 /\ r.at \in {"idle", "usage"}
     \/ n = 0 /\ c \notin Active /\ usage[period] < Limit
     \/ n = run[c].sent /\ c \in Active /\ r.at = "idle"

LEMMA SubsetSize ==
  ASSUME NEW T \in SUBSET Recipients
  PROVE  /\ IsFiniteSet(T)
         /\ Cardinality(T) \in Nat /\ Cardinality(Recipients) \in Nat
         /\ Cardinality(T) <= Cardinality(Recipients)
         /\ \A p \in T : Cardinality(T \ {p}) = Cardinality(T) - 1
<1>1. IsFiniteSet(Recipients) BY CampaignAssumption
<1>2. IsFiniteSet(T) /\ Cardinality(T) <= Cardinality(Recipients) BY <1>1, FS_Subset
<1>3. Cardinality(T) \in Nat /\ Cardinality(Recipients) \in Nat BY <1>1, <1>2, FS_CardinalityType
<1>4. \A p \in T : Cardinality(T \ {p}) = Cardinality(T) - 1 BY <1>2, FS_RemoveElement
<1> QED BY <1>2, <1>3, <1>4

LEMMA RestingWeight == Weight(NotRunning) = 0
<1>1. Cardinality({}) = 0 BY FS_EmptySet
<1>2. NotRunning.sent = 0 /\ NotRunning.todo = {} /\ NotRunning.to = NoOne BY DEF NotRunning
<1> HIDE DEF NotRunning
<1> QED BY <1>1, <1>2 DEF Weight

LEMMA CampaignBooks ==
  ASSUME CampaignInv, SendsAtMostAll, NEW c \in Campaigns,
         \/ Start(c) \/ ReadUsage(c) \/ List(c)
         \/ \E p \in Recipients : Admit(c, p) \/ Skip(c, p)
         \/ Sent(c) \/ Finish(c) \/ Record(c) \/ CampaignFails(c) \/ RecordFail(c)
  PROVE  \E r, n : Books(c, r, n)
<1> DEFINE q == run[c]
<1>q. RunOK(q) /\ q \in Runs /\ Weight(q) <= Cardinality(Recipients)
  BY RunTyped DEF CampaignInv, RunOK, SendsAtMostAll
<1>t. /\ usage \in [0..Periods -> Nat] /\ mailed \in Nat /\ uncounted \in Nat
      /\ period \in 0..Periods
  BY DEF CampaignInv, CampaignTypeOK
<1>d. run \in [Campaigns -> Runs] BY RunTyped DEF CampaignInv
<1>u. usage = [usage EXCEPT ![period] = @ + 0] BY <1>t
<1>s. /\ q.sent \in Nat /\ q.todo \in SUBSET Recipients /\ Cardinality(q.todo) \in Nat
      /\ Cardinality(Recipients) \in Nat
      /\ \A p \in q.todo : Cardinality(q.todo \ {p}) = Cardinality(q.todo) - 1
  BY <1>q, SubsetSize DEF Runs
<1>a. c \in Active <=> q.at \in {"list", "next", "send", "record"} BY DEF Active
<1>w. NotRunning.at = "idle" /\ NotRunning.sent = 0 /\ Weight(NotRunning) <= Cardinality(Recipients)
  BY <1>s, RestingWeight DEF NotRunning
<1>1. CASE Start(c)
  <2> DEFINE r == [q EXCEPT !.at = "usage"]
  <2>1. RunOK(r) /\ r.to = NoOne /\ r.at = "usage" BY <1>q, <1>1 DEF Start, RunOK, Runs
  <2>2. r.sent = q.sent /\ r.todo = q.todo /\ r.to = q.to BY <1>q DEF Runs
  <2>3. run' = [run EXCEPT ![c] = r] BY <1>1 DEF Start
  <2>4. UNCHANGED <<period, usage, mailed, uncounted>> BY <1>1 DEF Start
  <2> HIDE DEF r
  <2>5. Weight(r) <= Cardinality(Recipients) BY <2>2, <1>q DEF Weight
  <2>6. mailed' + q.sent + uncounted = mailed + 0 + r.sent + uncounted' BY <2>2, <2>4, <1>t, <1>s
  <2> QED BY <2>1, <2>3, <2>4, <2>5, <2>6, <1>u DEF Books
<1>2. CASE ReadUsage(c)
  <2> DEFINE r == [q EXCEPT !.at = IF usage[period] < Limit THEN "list" ELSE "idle"]
  <2>1. RunOK(r) /\ r.to = NoOne BY <1>q, <1>2 DEF ReadUsage, RunOK, Runs
  <2>2. /\ r.sent = q.sent /\ r.todo = q.todo /\ r.to = q.to
        /\ r.at = "idle" \/ usage[period] < Limit
        /\ c \notin Active
    BY <1>q, <1>a, <1>2 DEF Runs, ReadUsage
  <2>3. run' = [run EXCEPT ![c] = r] BY <1>2 DEF ReadUsage
  <2>4. UNCHANGED <<period, usage, mailed, uncounted>> BY <1>2 DEF ReadUsage
  <2> HIDE DEF r
  <2>5. Weight(r) <= Cardinality(Recipients) BY <2>2, <1>q DEF Weight
  <2>6. mailed' + q.sent + uncounted = mailed + 0 + r.sent + uncounted' BY <2>2, <2>4, <1>t, <1>s
  <2> QED BY <2>1, <2>2, <2>3, <2>4, <2>5, <2>6, <1>u DEF Books
<1>3. CASE List(c)
  <2>1. PICK selected \in SUBSET Recipients :
          run' = [run EXCEPT ![c].at = "next", ![c].todo = selected]
    BY <1>3 DEF List
  <2> DEFINE r == [[q EXCEPT !.at = "next"] EXCEPT !.todo = selected]
  <2>2. RunOK(r) /\ r.to = NoOne
    BY <1>q, <1>3, CampaignAssumption DEF List, RunOK, Runs
  <2>3. run' = [run EXCEPT ![c] = r] BY <2>1, <1>d
  <2>4. r.sent = 0 /\ q.sent = 0 /\ r.todo = selected /\ c \in Active
    BY <1>q, <1>a, <1>3 DEF Runs, RunOK, List
  <2>5. UNCHANGED <<period, usage, mailed, uncounted>> BY <1>3 DEF List
  <2> HIDE DEF r
  <2>6. Weight(r) <= Cardinality(Recipients) BY <2>2, <2>4, SubsetSize DEF Weight
  <2>7. mailed' + q.sent + uncounted = mailed + 0 + r.sent + uncounted' BY <2>4, <2>5, <1>t
  <2> QED BY <2>2, <2>3, <2>4, <2>5, <2>6, <2>7, <1>u DEF Books
<1>4. ASSUME NEW p \in Recipients, Admit(c, p) PROVE \E r, n : Books(c, r, n)
  <2> DEFINE r == [[[q EXCEPT !.at = "send"] EXCEPT !.to = p] EXCEPT !.todo = @ \ {p}]
  <2>1. RunOK(r) /\ r.to = p
    BY <1>q, <1>4, CampaignAssumption DEF Admit, RunOK, Runs
  <2>2. run' = [run EXCEPT ![c] = r] BY <1>4, <1>d DEF Admit
  <2>3. /\ r.sent = q.sent /\ r.todo = q.todo \ {p} /\ p \in q.todo /\ q.to = NoOne
        /\ c \in Active /\ p # NoOne
    BY <1>q, <1>a, <1>4, CampaignAssumption DEF Runs, RunOK, Admit
  <2>4. UNCHANGED <<period, usage, mailed, uncounted>> BY <1>4 DEF Admit
  <2> HIDE DEF r
  <2>a. Cardinality(r.todo) = Cardinality(q.todo) - 1 BY <2>3, <1>s
  <2>5. Weight(r) <= Cardinality(Recipients) BY <2>1, <2>3, <2>a, <1>q, <1>s DEF Weight
  <2>6. mailed' + q.sent + uncounted = mailed + 0 + r.sent + uncounted' BY <2>3, <2>4, <1>t, <1>s
  <2> QED BY <2>1, <2>2, <2>3, <2>4, <2>5, <2>6, <1>u DEF Books
<1>5. ASSUME NEW p \in Recipients, Skip(c, p) PROVE \E r, n : Books(c, r, n)
  <2> DEFINE r == [q EXCEPT !.todo = @ \ {p}]
  <2>1. RunOK(r) /\ r.to = NoOne BY <1>q, <1>5 DEF Skip, RunOK, Runs
  <2>2. run' = [run EXCEPT ![c] = r] BY <1>5 DEF Skip
  <2>3. /\ r.sent = q.sent /\ r.todo = q.todo \ {p} /\ p \in q.todo /\ q.to = NoOne
        /\ c \in Active
    BY <1>q, <1>a, <1>5 DEF Runs, RunOK, Skip
  <2>4. UNCHANGED <<period, usage, mailed, uncounted>> BY <1>5 DEF Skip
  <2> HIDE DEF r
  <2>a. Cardinality(r.todo) = Cardinality(q.todo) - 1 BY <2>3, <1>s
  <2>5. Weight(r) <= Cardinality(Recipients) BY <2>1, <2>3, <2>a, <1>q, <1>s DEF Weight
  <2>6. mailed' + q.sent + uncounted = mailed + 0 + r.sent + uncounted' BY <2>3, <2>4, <1>t, <1>s
  <2> QED BY <2>1, <2>2, <2>3, <2>4, <2>5, <2>6, <1>u DEF Books
<1>6. CASE Sent(c)
  <2> DEFINE r0 == [[q EXCEPT !.at = "next"] EXCEPT !.to = NoOne]
             r == [r0 EXCEPT !.sent = @ + 1]
  <2>0. r0 \in Runs /\ r0.at = "next" /\ r0.to = NoOne /\ r0.todo = q.todo /\ r0.sent = q.sent
    BY <1>q DEF Runs
  <2>1. run' = [run EXCEPT ![c] = r] BY <1>6, <1>d DEF Sent
  <2> HIDE DEF r0
  <2>2. r \in Runs /\ r.at = "next" /\ r.to = NoOne /\ r.todo = q.todo /\ r.sent = q.sent + 1
    BY <2>0 DEF Runs
  <2> HIDE DEF r
  <2>3. RunOK(r)
    <3>1. r.to \notin r.todo BY <2>2, <1>q, CampaignAssumption DEF Runs
    <3> QED BY <2>2, <3>1 DEF RunOK
  <2>4. q.to # NoOne /\ c \in Active BY <1>6, <1>q, <1>a DEF Sent, RunOK
  <2>5. mailed' = mailed + 1 /\ UNCHANGED <<period, usage, uncounted>> BY <1>6 DEF Sent
  <2>6. Weight(r) <= Cardinality(Recipients) BY <2>2, <2>4, <1>q, <1>s DEF Weight
  <2>7. mailed' + q.sent + uncounted = mailed + 0 + r.sent + uncounted' BY <2>2, <2>5, <1>t, <1>s
  <2> QED BY <2>1, <2>3, <2>4, <2>5, <2>6, <2>7, <1>u DEF Books
<1>7. CASE Finish(c)
  <2> DEFINE r == IF q.sent = 0 THEN NotRunning ELSE [q EXCEPT !.at = "record"]
  <2>1. RunOK(r) /\ r.to = NoOne
    BY <1>q, <1>7, IdleOK DEF Finish, RunOK, Runs, NotRunning
  <2>2. run' = [run EXCEPT ![c] = r] BY <1>7 DEF Finish
  <2>3. r.sent = q.sent /\ Weight(r) <= Cardinality(Recipients)
    <3>1. CASE q.sent = 0 BY <3>1, <1>w
    <3>2. CASE q.sent # 0
      <4>1. r.sent = q.sent /\ r.todo = q.todo /\ r.to = q.to BY <3>2, <1>q DEF Runs
      <4> HIDE DEF r
      <4> QED BY <4>1, <1>q DEF Weight
    <3> QED BY <3>1, <3>2
  <2>4. UNCHANGED <<period, usage, mailed, uncounted>> /\ c \in Active BY <1>7, <1>a DEF Finish
  <2> HIDE DEF r
  <2>5. mailed' + q.sent + uncounted = mailed + 0 + r.sent + uncounted' BY <2>3, <2>4, <1>t, <1>s
  <2> QED BY <2>1, <2>2, <2>3, <2>4, <2>5, <1>u DEF Books
<1>8. CASE Record(c)
  <2>1. /\ usage' = [usage EXCEPT ![period] = @ + q.sent] /\ run' = [run EXCEPT ![c] = NotRunning]
        /\ UNCHANGED <<period, mailed, uncounted>> /\ c \in Active
    BY <1>8, <1>a DEF Record
  <2>2. mailed' + q.sent + uncounted = mailed + q.sent + NotRunning.sent + uncounted'
    BY <2>1, <1>w, <1>t, <1>s
  <2> QED BY <2>1, <2>2, <1>s, <1>w, IdleOK DEF Books
<1>9. CASE CampaignFails(c)
  <2>1. PICK k \in {0, 1} : mailed' = mailed + k /\ uncounted' = uncounted + q.sent + k
    BY <1>9 DEF CampaignFails
  <2>a. k \in Nat OBVIOUS
  <2>2. run' = [run EXCEPT ![c] = NotRunning] /\ UNCHANGED <<period, usage>>
    BY <1>9 DEF CampaignFails
  <2>3. mailed' + q.sent + uncounted = mailed + 0 + NotRunning.sent + uncounted'
    BY <2>1, <2>a, <1>w, <1>t, <1>s
  <2>4. Books(c, NotRunning, 0) BY <2>2, <2>3, <1>w, <1>u, IdleOK DEF Books
  <2> QED BY <2>4
<1>10. CASE RecordFail(c)
  <2>1. /\ uncounted' = uncounted + q.sent /\ run' = [run EXCEPT ![c] = NotRunning]
        /\ UNCHANGED <<period, usage, mailed>>
    BY <1>10 DEF RecordFail
  <2>2. mailed' + q.sent + uncounted = mailed + 0 + NotRunning.sent + uncounted'
    BY <2>1, <1>w, <1>t, <1>s
  <2>3. Books(c, NotRunning, 0) BY <2>1, <2>2, <1>w, <1>u, IdleOK DEF Books
  <2> QED BY <2>3
<1> QED BY <1>1, <1>2, <1>3, <1>4, <1>5, <1>6, <1>7, <1>8, <1>9, <1>10

-----------------------------------------------------------------------------
(* The books of the month.                                                 *)

FutureIsFree == \A m \in 0..Periods : m > period => usage[m] = 0

NothingWithoutPlan == Limit = 0 => Active = {} /\ \A m \in 0..Periods : usage[m] = 0

\* Whoever is active was let in below the limit, and can take the month no
\* further than what all handlers together can send.
RoomIsBounded ==
  \/ Limit = 0 \/ usage[period] < Limit
  \/ usage[period] + Cardinality(Active) * Cardinality(Recipients)
       < Limit + Cardinality(Campaigns) * Cardinality(Recipients)

BooksInv ==
  /\ EveryMailChargedOnce /\ OvershootIsBounded
  /\ SendsAtMostAll /\ FutureIsFree /\ NothingWithoutPlan /\ RoomIsBounded

LEMMA TimesMonotonic ==
  ASSUME NEW a \in Nat, NEW b \in Nat, NEW k \in Nat, a <= b
  PROVE  a * k \in Nat /\ b * k \in Nat /\ a * k <= b * k
OBVIOUS

LEMMA TimesPredecessor ==
  ASSUME NEW a \in Nat \ {0}, NEW k \in Nat
  PROVE  (a - 1) * k + k = a * k
OBVIOUS

LEMMA ActiveSize ==
  /\ IsFiniteSet(Active) /\ Cardinality(Active) \in Nat
  /\ Cardinality(Active) <= Cardinality(Campaigns) /\ Cardinality(Campaigns) \in Nat
<1>1. IsFiniteSet(Campaigns) /\ Active \in SUBSET Campaigns BY CampaignAssumption DEF Active
<1> QED BY <1>1, FS_Subset, FS_CardinalityType

LEMMA BooksInit == CampaignInit => BooksInv
<1> SUFFICES ASSUME CampaignInit PROVE BooksInv
  OBVIOUS
<1>1. EveryMailChargedOnce
  <2>1. /\ usage = [m \in 0..Periods |-> 0]
        /\ [c \in Campaigns |-> run[c].sent] = [c \in Campaigns |-> 0]
        /\ mailed = 0 /\ uncounted = 0
    BY DEF CampaignInit, NotRunning
  <2>2. AddedUp([m \in 0..Periods |-> 0]) = 0 /\ AddedUp([c \in Campaigns |-> 0]) = 0
    BY SumOfNothing
  <2> QED BY <2>1, <2>2 DEF EveryMailChargedOnce
<1>2. SendsAtMostAll
  BY RestingWeight, FS_CardinalityType, CampaignAssumption DEF SendsAtMostAll, CampaignInit
<1>3. FutureIsFree /\ OvershootIsBounded
  BY CampaignAssumption DEF FutureIsFree, OvershootIsBounded, CampaignInit
<1>4. NothingWithoutPlan BY DEF NothingWithoutPlan, Active, CampaignInit, NotRunning
<1>5. RoomIsBounded BY CampaignAssumption DEF RoomIsBounded, CampaignInit
<1> QED BY <1>1, <1>2, <1>3, <1>4, <1>5 DEF BooksInv

\* What changes neither handlers nor counters keeps the books.
LEMMA BooksUntouched ==
  ASSUME BooksInv, UNCHANGED <<period, usage, run, mailed, uncounted>>
  PROVE  BooksInv'
BY DEF BooksInv, EveryMailChargedOnce, OvershootIsBounded, SendsAtMostAll, FutureIsFree,
  NothingWithoutPlan, RoomIsBounded, Active, Weight, AddedUp, Units

LEMMA BooksRollOver ==
  ASSUME CampaignInv, BooksInv, RollOver
  PROVE  BooksInv'
<1>1. /\ period' = period + 1 /\ UNCHANGED <<usage, run, mailed, uncounted>>
      /\ period \in 0..Periods /\ period' \in 0..Periods
  BY CampaignAssumption DEF RollOver, CampaignInv, CampaignTypeOK
<1>2. usage'[period'] = 0 BY <1>1 DEF BooksInv, FutureIsFree
<1>3. EveryMailChargedOnce' BY <1>1 DEF BooksInv, EveryMailChargedOnce, AddedUp, Units
<1>4. OvershootIsBounded' /\ SendsAtMostAll' /\ NothingWithoutPlan'
  BY <1>1 DEF BooksInv, OvershootIsBounded, SendsAtMostAll, NothingWithoutPlan, Active, Weight
<1>5. FutureIsFree' BY <1>1, CampaignAssumption DEF BooksInv, FutureIsFree
<1>6. RoomIsBounded' BY <1>2, CampaignAssumption DEF RoomIsBounded
<1> QED BY <1>3, <1>4, <1>5, <1>6 DEF BooksInv

LEMMA BooksStep ==
  ASSUME CampaignInv, CampaignInv', BooksInv, NEW c \in Campaigns, NEW r, NEW n, Books(c, r, n)
  PROVE  BooksInv'
<1> DEFINE q == run[c]
           size == Cardinality(Recipients)
           all == Cardinality(Campaigns)
           a == Cardinality(Active)
           u == usage[period]
<1>t. /\ usage \in [0..Periods -> Nat] /\ mailed \in Nat /\ uncounted \in Nat
      /\ period \in 0..Periods /\ u \in Nat /\ run \in [Campaigns -> Runs]
      /\ q.sent \in Nat /\ q.sent <= size /\ size \in Nat /\ Limit \in Nat
      /\ mailed' \in Nat /\ uncounted' \in Nat
  <2>1. run \in [Campaigns -> Runs] BY RunTyped DEF CampaignInv
  <2>2. q \in Runs BY <2>1
  <2>3. Cardinality(q.todo) \in Nat /\ size \in Nat BY <2>2, SubsetSize DEF Runs
  <2>4. Weight(q) <= size BY DEF BooksInv, SendsAtMostAll
  <2>5. q.sent \in Nat BY <2>2 DEF Runs
  <2>6. q.sent <= size BY <2>3, <2>4, <2>5 DEF Weight
  <2>7. /\ usage \in [0..Periods -> Nat] /\ mailed \in Nat /\ uncounted \in Nat
        /\ period \in 0..Periods /\ mailed' \in Nat /\ uncounted' \in Nat
    BY DEF CampaignInv, CampaignTypeOK
  <2> QED BY <2>1, <2>3, <2>5, <2>6, <2>7, CampaignAssumption
<1>r. RunOK(r) /\ n \in Nat /\ r.sent \in Nat
  BY DEF Books, RunOK, Runs
<1>b. /\ run' = [run EXCEPT ![c] = r]
      /\ usage' = [usage EXCEPT ![period] = @ + n] /\ period' = period
      /\ Weight(r) <= Cardinality(Recipients)
      /\ mailed' + run[c].sent + uncounted = mailed + n + r.sent + uncounted'
  BY DEF Books
<1>u. /\ usage'[period'] = u + n
      /\ \A m \in 0..Periods : m # period => usage'[m] = usage[m]
  BY <1>t, <1>b
<1>c. /\ IsFiniteSet(Active) /\ a \in Nat /\ all \in Nat /\ a <= all
      /\ Cardinality(Active \ {c}) = IF c \in Active THEN a - 1 ELSE a
  BY ActiveSize, FS_RemoveElement
<1>a. /\ r.at \in {"idle", "usage"} => Active' = Active \ {c}
      /\ c \in Active => Active' = Active \/ Active' = Active \ {c}
  BY <1>t, <1>b DEF Active
<1>1. EveryMailChargedOnce'
  <2> DEFINE f == [d \in Campaigns |-> run[d].sent]
             h == [d \in Campaigns |-> run'[d].sent]
  <2>1. /\ f \in [Campaigns -> Nat] /\ h \in [Campaigns -> Nat]
        /\ \A d \in Campaigns \ {c} : h[d] = f[d]
        /\ f[c] = q.sent /\ h[c] = r.sent
    BY <1>t, <1>b, <1>r DEF Runs
  <2>2. usage' \in [0..Periods -> Nat] BY DEF CampaignInv, CampaignTypeOK
  <2> HIDE DEF f, h
  <2>3. AddedUp(f) \in Nat /\ AddedUp(h) \in Nat /\ AddedUp(h) + q.sent = AddedUp(f) + r.sent
    BY <2>1, CampaignAssumption, SumChange
  <2>4. IsFiniteSet(0..Periods) BY CampaignAssumption, FS_Interval
  <2>5. /\ AddedUp(usage) \in Nat /\ AddedUp(usage') \in Nat
        /\ AddedUp(usage') + usage[period] = AddedUp(usage) + usage'[period]
    <3> DEFINE D == 0..Periods
    <3>1. /\ usage \in [D -> Nat] /\ usage' \in [D -> Nat] /\ period \in D /\ IsFiniteSet(D)
          /\ \A m \in D \ {period} : usage'[m] = usage[m]
      BY <1>t, <1>u, <2>2, <2>4
    <3> HIDE DEF D
    <3> QED BY <3>1, SumChange
  <2>6. mailed = AddedUp(usage) + AddedUp(f) + uncounted BY DEF BooksInv, EveryMailChargedOnce, f
  <2>7. usage'[period] = usage[period] + n /\ usage[period] \in Nat BY <1>t, <1>b, <1>u
  <2>8. /\ mailed' + q.sent + uncounted = mailed + n + r.sent + uncounted'
        /\ q.sent \in Nat /\ mailed \in Nat /\ mailed' \in Nat /\ uncounted \in Nat
        /\ uncounted' \in Nat
    BY <1>t, <1>b
  <2> HIDE DEF q, u
  <2>9. mailed' = AddedUp(usage') + AddedUp(h) + uncounted'
    <3>1. AddedUp(usage') = AddedUp(usage) + n BY <2>5, <2>7, <1>r
    <3>2. mailed' + q.sent = AddedUp(usage) + AddedUp(f) + n + r.sent + uncounted'
      BY <2>3, <2>5, <2>6, <2>8, <1>r
    <3>3. mailed' + q.sent = AddedUp(usage') + AddedUp(h) + q.sent + uncounted'
      BY <2>3, <2>5, <2>8, <1>r, <3>1, <3>2
    <3> QED BY <2>3, <2>5, <2>8, <3>3
  <2> QED BY <2>9 DEF EveryMailChargedOnce, h, AddedUp, Units
<1>2. SendsAtMostAll' BY <1>t, <1>b DEF BooksInv, SendsAtMostAll
<1>3. FutureIsFree' BY <1>t, <1>b, <1>u DEF BooksInv, FutureIsFree
<1>4. NothingWithoutPlan'
  <2> SUFFICES ASSUME Limit = 0
               PROVE  Active' = {} /\ \A m \in 0..Periods : usage'[m] = 0
    BY DEF NothingWithoutPlan
  <2>1. Active = {} /\ \A m \in 0..Periods : usage[m] = 0
    BY DEF BooksInv, NothingWithoutPlan
  <2>2. n = 0 /\ r.at \in {"idle", "usage"} BY <2>1, <1>t DEF Books
  <2>3. \A m \in 0..Periods : usage'[m] = 0 BY <2>1, <2>2, <1>b, <1>u, <1>t
  <2> QED BY <2>1, <2>2, <2>3, <1>a
<1>5. RoomIsBounded'
  <2> SUFFICES ASSUME Limit # 0, ~ (u + n < Limit)
               PROVE  u + n + Cardinality(Active') * size < Limit + all * size
    BY <1>u, <1>b DEF RoomIsBounded
  <2>1. a * size \in Nat /\ all * size \in Nat /\ a * size <= all * size
    BY <1>c, <1>t, TimesMonotonic
  <2>2. CASE n = 0
    <3>1. u + a * size < Limit + all * size
      BY <2>1, <2>2, <1>t DEF BooksInv, RoomIsBounded
    <3>2. Active' = Active \/ Active' = Active \ {c} BY <2>2, <1>a, <1>t DEF Books
    <3>3. Cardinality(Active') \in Nat /\ Cardinality(Active') <= a
      <4>1. Active' \in SUBSET Active BY <3>2
      <4>2. IsFiniteSet(Active') /\ Cardinality(Active') <= a BY <4>1, <1>c, FS_Subset
      <4> QED BY <4>2, FS_CardinalityType
    <3>4. Cardinality(Active') * size \in Nat /\ Cardinality(Active') * size <= a * size
      BY <3>3, <1>c, <1>t, TimesMonotonic
    <3> HIDE DEF a, all, size, u
    <3> QED BY <3>1, <3>4, <2>1, <2>2, <1>t
  <2>3. CASE n # 0
    <3>1. n = q.sent /\ c \in Active /\ Active' = Active \ {c} BY <2>3, <1>a DEF Books
    <3>2. Cardinality(Active') = a - 1 BY <3>1, <1>c
    <3>3. a # 0 BY <3>1, <1>c, FS_EmptySet
    <3>4. (a - 1) * size + size = a * size
      BY <3>3, <1>c, <1>t, TimesPredecessor
    <3>5. u < Limit \/ u + a * size < Limit + all * size
      BY DEF BooksInv, RoomIsBounded
    <3>6. (a - 1) * size \in Nat BY <3>3, <1>c, <1>t, TimesMonotonic
    <3> HIDE DEF a, all, size, u, q
    <3>7. u + n + (a - 1) * size < Limit + all * size
      BY <3>1, <3>4, <3>5, <3>6, <2>1, <1>t
    <3> QED BY <3>2, <3>7
  <2> QED BY <2>2, <2>3
<1>6. OvershootIsBounded'
  <2> SUFFICES ASSUME NEW m \in 0..Periods, usage'[m] > 0
               PROVE  usage'[m] < Limit + all * size
    BY DEF OvershootIsBounded
  <2>1. CASE m # period BY <2>1, <1>u DEF BooksInv, OvershootIsBounded
  <2>2. CASE m = period
    <3>1. Limit # 0 BY <1>4, <1>t DEF NothingWithoutPlan
    <3>2. Cardinality(Active)' * size \in Nat /\ all * size \in Nat
      <4>1. Active' \in SUBSET Campaigns BY <1>t, <1>b DEF Active
      <4>2. IsFiniteSet(Active') BY <4>1, CampaignAssumption, FS_Subset
      <4>3. Cardinality(Active') \in Nat BY <4>2, FS_CardinalityType
      <4> QED BY <4>3, <1>c, <1>t, TimesMonotonic
    <3>3. usage'[m] \in Nat BY DEF CampaignInv, CampaignTypeOK
    <3>4. \/ usage'[period] < Limit
          \/ usage'[period] + Cardinality(Active)' * size < Limit + all * size
      BY <3>1, <1>5, <1>b DEF RoomIsBounded
    <3> HIDE DEF all, size
    <3> QED BY <2>2, <3>2, <3>3, <3>4, <1>t
  <2> QED BY <2>1, <2>2
<1> QED BY <1>1, <1>2, <1>3, <1>4, <1>5, <1>6 DEF BooksInv

LEMMA BooksKept == CampaignInv /\ BooksInv /\ CampaignInv' /\ [CampaignNext]_campaignVars => BooksInv'
<1> SUFFICES ASSUME CampaignInv, BooksInv, CampaignInv', [CampaignNext]_campaignVars PROVE BooksInv'
  OBVIOUS
<1>1. CASE UNCHANGED campaignVars BY <1>1, BooksUntouched DEF campaignVars
<1>2. ASSUME NEW p \in Recipients, OptIn(p) \/ OptOut(p) PROVE BooksInv'
  BY <1>2, BooksUntouched DEF OptIn, OptOut
<1>3. CASE RollOver BY <1>3, BooksRollOver
<1>4. ASSUME NEW c \in Campaigns,
             \/ Start(c) \/ ReadUsage(c) \/ List(c)
             \/ \E p \in Recipients : Admit(c, p) \/ Skip(c, p)
             \/ Sent(c) \/ Finish(c) \/ Record(c) \/ CampaignFails(c) \/ RecordFail(c)
      PROVE  BooksInv'
  <2>1. SendsAtMostAll BY DEF BooksInv
  <2>2. PICK r, n : Books(c, r, n) BY <1>4, <2>1, CampaignBooks
  <2> QED BY <2>2, BooksStep
<1> QED BY <1>1, <1>2, <1>3, <1>4 DEF CampaignNext

\* Whatever fails or overlaps, every mail is in exactly one place of the books: a
\* counter, a campaign that runs, or one that ended unrecorded.
THEOREM MailsAreChargedOnce == CampaignSpec => []EveryMailChargedOnce
<1>1. CampaignInit => CampaignInv /\ BooksInv BY InitEstablishes, BooksInit
<1>2. (CampaignInv /\ BooksInv) /\ [CampaignNext]_campaignVars => (CampaignInv /\ BooksInv)'
  BY StepKeeps, BooksKept
<1>3. BooksInv => EveryMailChargedOnce BY DEF BooksInv
<1> QED BY <1>1, <1>2, <1>3, PTL DEF CampaignSpec

\* The plan's limit is checked before a campaign and charged after it; overlapping
\* campaigns overshoot it by less than what they can send together.
THEOREM OvershootBound == CampaignSpec => []OvershootIsBounded
<1>1. CampaignInit => CampaignInv /\ BooksInv BY InitEstablishes, BooksInit
<1>2. (CampaignInv /\ BooksInv) /\ [CampaignNext]_campaignVars => (CampaignInv /\ BooksInv)'
  BY StepKeeps, BooksKept
<1>3. BooksInv => OvershootIsBounded BY DEF BooksInv
<1> QED BY <1>1, <1>2, <1>3, PTL DEF CampaignSpec
=============================================================================
