-------------------------------- MODULE Routes ---------------------------------
(***************************************************************************)
(* Who may ask what: the answers of the routes of apps/api/src/routes.     *)
(* Each handler is its chain of early returns, in the order of the code;   *)
(* what it does once admitted is in the module of its component.           *)
(*                                                                         *)
(* A caller stands for the principal its bearer token resolves to, or the  *)
(* tenant of its write key.  `world` is whatever else decides the answer.  *)
(***************************************************************************)
EXTENDS Naturals, Sequences, FiniteSets, FiniteSetsExt

CONSTANTS
  RouteTenants,  \* tenant ids
  Nobody         \* the tenant of a caller without a token or key

ASSUME RoutesAssumption == Nobody \notin RouteTenants

VARIABLES world, asked, answered

routeVars == <<world, asked, answered>>

\* known: the tenant of the path has a row; enabled: its module is on; account: what
\* its plan allows; body: the request parses; provided: the collector, form, provider
\* or profile asked for is there; stored: the stores and adapters answer.
Worlds == [known : BOOLEAN, enabled : BOOLEAN, account : {"good", "spent", "suspended"},
           body : BOOLEAN, provided : BOOLEAN, stored : BOOLEAN]

ROLE_RANK == [owner |-> 3, admin |-> 2, analyst |-> 1, viewer |-> 0]
roleSatisfies(role, min) == ROLE_RANK[role] >= ROLE_RANK[min]
\* authenticate: a principal per token, nobody without one.
Principals == [tenant : RouteTenants, role : DOMAIN ROLE_RANK]
Stranger == [tenant |-> Nobody, role |-> "viewer"]

\* The first guard that fails answers; else the handler does.
Reply(guards, done) ==
  LET failing == {k \in DOMAIN guards : guards[k][1]}
  IN IF failing = {} THEN done ELSE guards[Min(failing)][2]

Authenticated(q) == <<<<q.caller = Stranger, 401>>>>
OwnTenant(q) == <<<<q.caller.tenant # q.tenant, 403>>>>
Known(q, w) == <<<<~w.known, 404>>>>
Parsed(w) == <<<<~w.body, 400>>>>
Paid(w) == <<<<w.account = "suspended", 403>>, <<w.account = "spent", 402>>>>

\* Mutant: the tenant is looked up before the role.
AdmittedLookup(q, w, min) ==
  Authenticated(q) \o Known(q, w) \o OwnTenant(q) \o <<<<~roleSatisfies(q.caller.role, min), 403>>>>
\* The preamble every route of a tenant repeats.
Admitted(q, w, min) ==
  Authenticated(q) \o OwnTenant(q) \o <<<<~roleSatisfies(q.caller.role, min), 403>>>> \o Known(q, w)

-----------------------------------------------------------------------------
\* Read with the role of an analyst.
registerAttribution(q, w) == Reply(Admitted(q, w, "analyst") \o Parsed(w), 200)
registerAbTesting(q, w) == Reply(Admitted(q, w, "analyst") \o Parsed(w), 200)
registerAnalytics(q, w) ==
  Reply(Admitted(q, w, "analyst") \o Parsed(w) \o <<<<~w.stored, 500>>>>, 200)
registerAudiences(q, w) ==
  Reply(Admitted(q, w, "analyst") \o Parsed(w) \o <<<<~w.stored, 500>>>>, 200)
registerFunnels(q, w) ==
  Reply(Admitted(q, w, "analyst") \o Parsed(w) \o <<<<~w.stored, 502>>>>, 200)
registerCohorts(q, w) ==
  Reply(Admitted(q, w, "analyst") \o Parsed(w) \o <<<<~w.stored, 502>>>>, 200)
registerLeadScoring(q, w) ==
  Reply(Admitted(q, w, "analyst") \o Parsed(w) \o <<<<~w.stored, 502>>>>, 200)
registerDataQuality(q, w) ==
  Reply(Admitted(q, w, "analyst") \o Parsed(w) \o <<<<~w.stored, 502>>, <<~w.provided, 404>>>>, 200)
registerIntel(q, w) ==
  Reply(Admitted(q, w, "analyst") \o <<<<~w.enabled, 403>>>> \o Parsed(w)
          \o <<<<~w.provided, 503>>, <<~w.stored, 502>>>>, 200)

\* Run with the role of an admin.
registerDeliverability(q, w) ==
  Reply(Admitted(q, w, "admin") \o Parsed(w) \o <<<<~w.stored, 502>>>>, 200)
registerAuditLog(q, w) ==
  Reply(Admitted(q, w, "admin") \o Parsed(w) \o <<<<~w.stored, 502>>>>, 200)
registerEnrichment(q, w) ==
  Reply(Admitted(q, w, "admin") \o Parsed(w) \o <<<<~w.stored, 502>>>>, 200)
registerDestinations(q, w) ==
  Reply(Admitted(q, w, "admin") \o Parsed(w) \o <<<<~w.stored, 500>>>>, 200)
registerWarehouseSync(q, w) ==
  Reply(Admitted(q, w, "admin") \o Parsed(w) \o <<<<~w.stored, 500>>>>, 200)
registerNotifications(q, w) == Reply(Admitted(q, w, "admin") \o Parsed(w), 200)
registerJourneys(q, w) == Reply(Admitted(q, w, "admin") \o Parsed(w), 200)
registerAutomations(q, w) ==
  Reply(Admitted(q, w, "admin") \o <<<<~w.enabled, 403>>>> \o Parsed(w)
          \o <<<<~w.stored, 500>>>>, 200)
registerDataExport(q, w) ==
  Reply(Admitted(q, w, "admin") \o Parsed(w) \o <<<<~w.stored, 502>>>>, 200)
\* A campaign parses its body before it looks for the account, and is charged to it.
registerEmail(q, w) ==
  Reply(Authenticated(q) \o OwnTenant(q) \o <<<<~roleSatisfies(q.caller.role, "admin"), 403>>>>
          \o Parsed(w) \o Known(q, w) \o Paid(w) \o <<<<~w.stored, 500>>>>, 200)
\* The catalogue of modules is public: an unknown one is told to everybody.
registerModules(q, w) ==
  Reply(<<<<~w.provided, 400>>>> \o Admitted(q, w, "admin") \o Paid(w) \o <<<<~w.stored, 500>>>>, 200)

\* Any member may read the tenant's data, whether or not its row is there.
registerData(q, w) == Reply(Authenticated(q) \o OwnTenant(q) \o <<<<~w.stored, 500>>>>, 200)

-----------------------------------------------------------------------------
\* With a write key, which names the tenant: body first, then the key; `enabled` is
\* whether the values fit the form.
registerForms(q, w) ==
  Reply(Parsed(w) \o <<<<q.caller.tenant # q.tenant \/ ~w.known, 401>>, <<~w.provided, 404>>,
          <<~w.enabled, 400>>, <<~w.stored, 500>>>>, 200)
\* The consent route takes the tenant from the key alone.
registerConsent(q, w) ==
  Reply(Parsed(w) \o <<<<q.caller = Stranger \/ ~w.known, 401>>, <<~w.stored, 500>>>>, 200)
registerIngest(q, w) ==
  Reply(Parsed(w) \o <<<<q.caller = Stranger \/ ~w.known, 401>>, <<~w.stored, 500>>>>, 200)

\* A provider signs with the tenant's secret: `caller` is the tenant it signed for.  The
\* signature is only looked at once the secret and a body were found.
registerWebhooksInbound(q, w) ==
  Reply(Known(q, w) \o <<<<~w.provided, 404>>>> \o Parsed(w)
          \o <<<<q.caller.tenant # q.tenant, 401>>, <<~w.stored, 502>>>>, 200)

Analysts == {"attribution", "experiments", "analytics", "audiences", "funnels", "cohorts",
             "lead-scoring", "data-quality", "intel"}
Admins == {"deliverability", "audit-log", "enrichment", "destinations", "warehouse-sync",
           "notifications", "journeys", "automations", "data-export", "email", "modules"}
Keyed == {"forms", "consent", "ingest", "webhooks"}
RouteNames == Analysts \cup Admins \cup Keyed \cup {"data"}

\* buildServer: what answers under which path.
Handle(q, w) ==
  CASE q.route = "attribution" -> registerAttribution(q, w)
    [] q.route = "experiments" -> registerAbTesting(q, w)
    [] q.route = "analytics" -> registerAnalytics(q, w)
    [] q.route = "audiences" -> registerAudiences(q, w)
    [] q.route = "funnels" -> registerFunnels(q, w)
    [] q.route = "cohorts" -> registerCohorts(q, w)
    [] q.route = "lead-scoring" -> registerLeadScoring(q, w)
    [] q.route = "data-quality" -> registerDataQuality(q, w)
    [] q.route = "intel" -> registerIntel(q, w)
    [] q.route = "deliverability" -> registerDeliverability(q, w)
    [] q.route = "audit-log" -> registerAuditLog(q, w)
    [] q.route = "enrichment" -> registerEnrichment(q, w)
    [] q.route = "destinations" -> registerDestinations(q, w)
    [] q.route = "warehouse-sync" -> registerWarehouseSync(q, w)
    [] q.route = "notifications" -> registerNotifications(q, w)
    [] q.route = "journeys" -> registerJourneys(q, w)
    [] q.route = "automations" -> registerAutomations(q, w)
    [] q.route = "data-export" -> registerDataExport(q, w)
    [] q.route = "email" -> registerEmail(q, w)
    [] q.route = "modules" -> registerModules(q, w)
    [] q.route = "data" -> registerData(q, w)
    [] q.route = "forms" -> registerForms(q, w)
    [] q.route = "consent" -> registerConsent(q, w)
    [] q.route = "ingest" -> registerIngest(q, w)
    [] q.route = "webhooks" -> registerWebhooksInbound(q, w)

RoutesInit ==
  /\ world \in Worlds
  /\ asked = [route |-> "data", caller |-> Stranger, tenant |-> CHOOSE t \in RouteTenants : TRUE]
  /\ answered = 0
Ask(route, caller, tenant) ==
  /\ answered = 0
  /\ asked' = [route |-> route, caller |-> caller, tenant |-> tenant]
  /\ answered' = Handle(asked', world)
  /\ UNCHANGED world
RoutesNext ==
  \E route \in RouteNames, caller \in Principals \cup {Stranger}, t \in RouteTenants :
    Ask(route, caller, t)
RoutesSpec == RoutesInit /\ [][RoutesNext]_routeVars

-----------------------------------------------------------------------------
MinRole == IF asked.route \in Analysts THEN "analyst" ELSE IF asked.route \in Admins THEN "admin" ELSE "viewer"
\* Of a write key's own tenant consent and events are always told.
MayAsk ==
  IF asked.route \in {"consent", "ingest"} THEN asked.caller # Stranger
  ELSE asked.caller.tenant = asked.tenant /\ roleSatisfies(asked.caller.role, MinRole)

\* What a route lets anybody find out before it asks who is there.
Public(route) ==
  CASE route = "modules" -> {"provided"}
    [] route \in {"forms", "consent", "ingest"} -> {"body"}
    [] route = "webhooks" -> {"known", "provided", "body"}
    [] OTHER -> {}

\* Whoever may not ask is always refused, and learns no more than what the route lets
\* anybody find out: on the routes of a tenant nothing at all of it (the same refusal
\* had it no row, another plan, other modules or data; a module that is unknown is told
\* first); on those of a write key whether the body parses; of an inbound webhook that
\* is not signed whether the tenant and its provider are there and the body is not empty
\* (webhooks-inbound.ts:18-24 looks these up before the signature).  And whoever may ask
\* is refused only for what it asked or what the tenant lacks, and a write key or a
\* signature is served only for a tenant that is there.
OutsidersLearnOnlyWhatIsPublic ==
  answered # 0 =>
    IF ~MayAsk
    THEN /\ answered \in {400, 401, 403} \/ (answered = 404 /\ asked.route = "webhooks")
         /\ \A w \in Worlds :
              (\A fact \in Public(asked.route) : w[fact] = world[fact]) => Handle(asked, w) = answered
    ELSE /\ answered = 401 => asked.route \in Keyed /\ ~world.known
         /\ answered = 200 => world.known \/ asked.route \notin Keyed
         /\ world = [world EXCEPT !.known = TRUE, !.enabled = TRUE, !.account = "good", !.body = TRUE,
                                  !.provided = TRUE, !.stored = TRUE] => answered = 200
=============================================================================
