----------------------------- MODULE MCServices ------------------------------
(* Small instances, for the model checker, of the API's other services and of *)
(* the consent SDK.  One of them runs in a behaviour; the others keep still.  *)
EXTENDS EmailCampaign, Tenancy, ConsentSdk, Journeys, ConsentLedger, RateLimiter, AuditTrail,
        Scheduler, EventQueries, ProfileTools, Figures, Backends,
        Routes, TLC

CONSTANTS acme, zenith, novel, stepA, stepB, stepX

VARIABLE part

-----------------------------------------------------------------------------
\* A tenant of a middling plan and a suspended one of the best.
Row(p, s) == [modules |-> Onboarded, plan |-> p, status |-> s]
MCFounded == acme :> Row("growth", "active") @@ zenith :> Row("agency", "suspended")
Sym == Permutations(Handlers) \cup Permutations(Writers)

\* Journeys of one to three steps, the longer ones of waits and exits.
JStep(k, type, holds, next, otherwise, e) ==
  [key |-> k, type |-> type, holds |-> holds, next |-> next, otherwise |-> otherwise, known |-> e]
MCSteps == UNION {
  {JStep(k, "enter", g, n, Nowhere, FALSE) : g \in BOOLEAN, n \in {Nowhere, stepB}} \cup
  {JStep(k, "wait", TRUE, n, Nowhere, FALSE) : n \in {Nowhere, stepA, stepB, stepX}} \cup
  {JStep(k, "branch", g, stepB, n, FALSE) : g \in BOOLEAN, n \in {Nowhere, stepA}} \cup
  {JStep(k, "action", TRUE, n, Nowhere, e) : n \in {Nowhere, stepA}, e \in BOOLEAN} \cup
  {JStep(k, "exit", TRUE, Nowhere, Nowhere, FALSE)} : k \in {stepA, stepB}}
MCJourneys ==
  [1..1 -> MCSteps] \cup [1..2 -> MCSteps] \cup [1..3 -> {s \in MCSteps : s.type \in {"wait", "exit"}}]

\* Two consent records of one text, their border elsewhere, and one of another state.
Content(state, ts, source) == [state |-> state, subject |-> <<"s">>, ts |-> ts, source |-> source]
MCContents ==
  {Content("granted", <<"t">>, <<"b", "b">>), Content("granted", <<"t", "b">>, <<"b">>),
   Content("denied", <<"t">>, <<"b", "b">>)}

\* Expressions with a list, a range, a step, a step of zero and both day fields.
CronPart(star, from, to, step) == [star |-> star, from |-> from, to |-> to, step |-> step]
Every == CronPart(TRUE, 0, 0, 1)
MCExprs ==
  {<<m, h, d, mo, w>> :
     m \in {<<Every>>, <<CronPart(TRUE, 0, 0, 2)>>, <<CronPart(FALSE, 0, 1, 1), CronPart(FALSE, 2, 2, 1)>>,
            <<CronPart(FALSE, 2, 3, 1)>>, <<CronPart(TRUE, 0, 0, 0)>>},
     h \in {<<Every>>, <<CronPart(FALSE, 1, 1, 1)>>},
     d \in {<<Every>>, <<CronPart(FALSE, 2, 3, 2)>>},
     mo \in {<<Every>>, <<CronPart(FALSE, 2, 2, 1)>>},
     w \in {<<Every>>, <<CronPart(FALSE, 0, 0, 1)>>}}

MCWorth == [n \in Names |-> IF n = "a" THEN 50 ELSE 3]

\* Profiles known by one work mail in two spellings, by user id, by a mail the account
\* graph knows no host of, and by a broken one, with blanks and odd domains.
Draft(email, userId, phone, ip, company, domain, industry, revenue) ==
  [email |-> email, userId |-> userId, anonymousId |-> "anon", phone |-> phone, ip |-> ip,
   company |-> company, domain |-> domain, industry |-> industry, employees |-> Missing,
   revenue |-> revenue, topics |-> {}, score |-> 0, lastActive |-> Never, createdAt |-> 0]
MCDrafts ==
  {Draft("ann@acme.com", Missing, "4155550101", Missing, Missing, Missing, Missing, Missing),
   Draft("Ann@ACME.com ", Missing, Missing, Missing, "beta", "www.www.beta.com", Missing, Missing),
   Draft("bob@gmail.com", "u1", Missing, Missing, "acme", "acme.com", "SaaS", Missing),
   Draft("jo@acme.c", Missing, Missing, " 10.0.0.1", Missing, "https://acme.com/x", "software", Missing),
   Draft("broken", Missing, "12", Missing, " ", "intranet", Missing, "<1m")}
MCTrimmed ==
  "Ann@ACME.com " :> "Ann@ACME.com" @@ " 10.0.0.1" :> "10.0.0.1" @@ " " :> Missing @@ "Acme " :> "Acme"
MCTidied ==
  "Ann@ACME.com " :> "ann@acme.com" @@ "ACME.com " :> "acme.com" @@ "SaaS" :> "saas" @@ " " :> Missing
MCBared ==
  "https://acme.com/x" :> "acme.com" @@ "www.www.beta.com" :> "www.beta.com" @@
  "www.beta.com" :> "beta.com" @@ "www.www.com" :> "www.com" @@ "www.com" :> "com"
MCHostOf ==
  "ann@acme.com" :> "acme.com" @@ "Ann@ACME.com " :> "ACME.com " @@
  "bob@gmail.com" :> "gmail.com" @@ "jo@acme.c" :> "acme.c"
MCAddresses == {"ann@acme.com", "bob@gmail.com", "jo@acme.c"}
MCHostNames == {"acme.com", "gmail.com", "beta.com", "www.beta.com", "www.www.beta.com", "www.com", "www.www.com"}
FoundFirm(company, domain, industry, employees, revenue) ==
  [company |-> company, domain |-> domain, industry |-> industry, employees |-> employees, revenue |-> revenue]
MCFound ==
  {FoundFirm("Acme ", "www.www.com", "tech", "0-10", "<1m"),
   FoundFirm(Missing, "https://acme.com/x", "health", "12", Missing)}
MCTopics == {{"support", "pricing"}}

\* Rows of every provider, with aliases that meet, deals won and lost, and amounts of
\* whole cents and of parts of one.
MCRawRows ==
  {[provider |-> "ga4", source |-> "fb", medium |-> "social-network", conversions |-> 1],
   [provider |-> "ga4", source |-> "google.com", medium |-> "sem", conversions |-> 2],
   [provider |-> "google_ads", network |-> "SEARCH", micros |-> 34000, cost |-> 90000, conversions |-> 1],
   [provider |-> "google_ads", network |-> "VIDEO", micros |-> 0, cost |-> 20000, conversions |-> 0],
   [provider |-> "google_ads", network |-> "DISCOVERY", micros |-> 15000, cost |-> 0, conversions |-> 1],
   [provider |-> "meta", cost |-> 40000, conversions |-> 1],
   [provider |-> "stripe", source |-> "adwords", medium |-> "ppc", amount |-> 5],
   [provider |-> "shopify", source |-> "fb", medium |-> "paid-social", amount |-> 26000, orders |-> 1],
   [provider |-> "shopify", source |-> "mailchimp", medium |-> Null, amount |-> 20000, orders |-> 2],
   [provider |-> "hubspot", source |-> "bing", medium |-> "organic", amount |-> 65000, stage |-> "won"],
   [provider |-> "hubspot", source |-> "direct", medium |-> Null, amount |-> 60000, stage |-> "lost"]}
MCTouches == [channel : {"ads", "mail"}, ts : 0..2]
MCExposed == [variant : {"a", "b"}, converted : BOOLEAN]

\* Items with and without a source, two of them halves of a keyword's phrase.
Item(url, platform, text, likes) == [url |-> url, platform |-> platform, text |-> text, likes |-> likes]
MCItems ==
  {Item(TRUE, "youtube", <<"how">>, 3), Item(TRUE, "x", <<"much", "help">>, -1),
   Item(TRUE, "other", <<"price", "recommend", "price">>, 4), Item(TRUE, "youtube", <<"love">>, 0),
   Item(FALSE, "youtube", <<"buy">>, 0), Item(TRUE, "youtube", <<"better", "than", "how", "much">>, 0)}
MCComments == {<<"love", "love", "price">>, <<"broken", "how">>, <<"price", "tv", "recommend">>}
MCResults ==
  {[video |-> TRUE, title |-> <<"price", "price", "buy">>], [video |-> FALSE, title |-> <<"help">>],
   [video |-> TRUE, title |-> <<"how", "buy">>]}

MCSpellings == [s \in {"Ann", "ann"} |-> "ann"]

-----------------------------------------------------------------------------
MCInit ==
  /\ part \in {"email", "tenancy", "sdk", "journey", "ledger", "bucket", "window", "audit", "cron",
               "events", "profiles", "reports", "intel", "stores", "routes"}
  /\ CampaignInit /\ Init /\ ConsentSdkInit /\ JourneyInit /\ LedgerInit /\ LimiterInit
  /\ AuditInit /\ CronInit /\ LogInit /\ ToolsInit /\ ReportInit /\ IntelInit /\ RoutesInit /\ BackendsInit
  /\ part = "sdk" \/ (storage = "works" /\ ~signal)
  /\ part = "routes" \/ world = CHOOSE w \in Worlds : TRUE

\* The variables of the four groups of parts.
accounts == <<campaignVars, vars, storeVars>>
consents == <<consentSdkVars, ledgerVars, entries>>
engines == <<journeyVars, limiterVars, cronVars, routeVars>>
queries == <<log, toolVars, reportVars, intelVars>>

Accounts ==
  /\ \/ part = "email" /\ CampaignNext /\ UNCHANGED <<vars, storeVars>>
     \/ part = "tenancy" /\ Next /\ UNCHANGED <<campaignVars, storeVars>>
     \/ part = "stores" /\ BackendsNext /\ UNCHANGED <<campaignVars, vars>>
  /\ UNCHANGED <<consents, engines, queries>>
Consents ==
  /\ \/ part = "sdk" /\ ConsentSdkNext /\ UNCHANGED <<ledgerVars, entries>>
     \/ part = "ledger" /\ LedgerNext /\ UNCHANGED <<consentSdkVars, entries>>
     \/ part = "audit" /\ AuditNext /\ UNCHANGED <<consentSdkVars, ledgerVars>>
  /\ UNCHANGED <<accounts, engines, queries>>
Engines ==
  /\ \/ part = "journey" /\ JourneyNext /\ UNCHANGED <<limiterVars, cronVars, routeVars>>
     \/ /\ part \in Limiters /\ LimiterNext /\ UNCHANGED <<journeyVars, cronVars, routeVars>>
        /\ \A c \in Clients : asking'[c] # NoRecord => asking'[c].limiter = part
     \/ part = "cron" /\ CronNext /\ UNCHANGED <<journeyVars, limiterVars, routeVars>>
     \/ part = "routes" /\ RoutesNext /\ UNCHANGED <<journeyVars, limiterVars, cronVars>>
  /\ UNCHANGED <<accounts, consents, queries>>
Queries ==
  /\ \/ part = "events" /\ LogNext /\ UNCHANGED <<toolVars, reportVars, intelVars>>
     \/ part = "profiles" /\ ToolsNext /\ UNCHANGED <<log, reportVars, intelVars>>
     \/ part = "reports" /\ ReportNext /\ UNCHANGED <<log, toolVars, intelVars>>
     \/ part = "intel" /\ IntelNext /\ UNCHANGED <<log, toolVars, reportVars>>
  /\ UNCHANGED <<accounts, consents, engines>>
MCNext == UNCHANGED part /\ (Accounts \/ Consents \/ Engines \/ Queries)

MCVars == <<part, accounts, consents, engines, queries>>
MCSpec == MCInit /\ [][MCNext]_MCVars
=============================================================================
