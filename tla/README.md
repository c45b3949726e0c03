# Noumen: TLA+ models, checks and proofs

Noumen is a US-only, multi-tenant customer data platform. Sites and backends send
events to an HTTP API; the API gates them on consent, stores them, folds them into
profiles, and acts on the profiles (email campaigns, scenarios, syncs to other
services, erasure of a data subject, analyses). This directory models the parts of
it whose correctness depends on the order in which things happen, and the analyses
whose answers depend on the order of their input; it checks them with TLC on small
instances and proves the most important properties with TLAPS for all instances.

Contents: [the system](#the-system), [what is hard](#what-is-hard),
[the modules](#the-modules), [the runs](#the-runs), [bounds](#bounds),
[fairness](#fairness), [refinements](#refinements), [proofs](#proofs),
[findings](#findings), [what is not modelled](#what-is-not-modelled), [plan](#plan).

## The system

| Part | State | Operations | Talks to |
|---|---|---|---|
| Consent gate, `apps/api/src/consent.ts`, `consent-store.ts`, `routes/consent.ts` | cache of the process (tenant and subject to four purposes); table `consent_states` | `POST /v1/consent`, `isAllowed`, hydrate on boot | CMP resolution; read by ingest, email, automations, dsar |
| CMP and consent ledger, `modules/consent/src` | none; hash chain per subject | `resolveConsent`, `allowedPurposes`; `append`, `verifyChain` | the gate; the callers keep the chain |
| Ingest, `routes/ingest.ts`, `ingest-store.ts` | table `events` | `POST /v1/track` | gate, profile service |
| Profile service, `packages/core-cdp` | table `profiles` | `applyEvent`: resolve, merge, upsert | called by ingest, forms, inbound webhooks |
| Subject rights, `routes/data-export.ts`, `packages/data-export` | none of its own | `POST .../dsar`: access, delete, correct | profiles, events, audit trail |
| Email, `routes/email.ts`, `modules/email` | none of its own | `POST .../email/campaigns` | profiles, gate, usage meter, provider |
| Usage and billing, `usage-meter.ts`, `packages/billing`, `packages/platform` | table `usage_counters`; plan tables | `record`, `current`, `enforceLimit`, `enforceEntitlement` | email, modules |
| Tenancy, `tenant.ts`, `platform.ts`, `auth.ts`, `routes/signup.ts`, `routes/modules.ts` | tables `tenants`, `users`, `api_tokens` | signup, authenticate, enable a module | every route |
| Audit trail, suppression list | tables | append, list; add, get | dsar, modules, deliverability routes |
| Outbound jobs: webhooks, destinations, warehouse sync, automation, notifications; inbound webhooks | keys delivered (destinations), in memory | deliver, sync, load, run, fan out | gate, receivers |
| Journeys, scheduler, rate limiter | counters in a store given to them | run, next run, consume and hit | their callers |
| SDKs of the server side: Node, Go, Python, Ruby, PHP, Java | buffer, flush in flight, timer, locks | track, identify, flush, close | `POST /v1/track` |
| Browser tracker, `packages/sdk`; consent SDK, `packages/consent-sdk` | queue, anonymous id; choice in `localStorage` and cookie | track, flush; choose, sync | `/v1/track`, `/v1/consent` |
| Process, `server.ts`, `observability.ts` | signal handlers, posts to the sinks | the hooks around a request, shutdown | Sentry, OTel |
| Analyses: segments, intent, audiences, funnels, cohorts, attribution, channel ROI, A/B tests, lead scoring, identity graph, data quality, retention, enrichment, social intelligence | none; enrichment writes profiles | functions over lists | the routes, the stores |
| Console, admin, CLI, docs, marketing, UI kit | rendering | | API |

How they interact: all of the API is one Node process. A handler runs in turns of
the event loop; between two `await`s nothing else runs, at each `await` anything
may. Shared state is the in-process consent cache, the keys a destination sync
remembers, and the Postgres tables. The tables are reached through a pool of
several connections and without transactions, so each statement is atomic and two
statements of different handlers may commit in either order. Without
`DATABASE_URL` the stores are maps in memory.

## What is hard

The hazards, each with its line and the properties that would catch it going
wrong, are listed in `PROJECT.json`. The main ones:

* **Two copies of consent.** The cache answers, the table survives; writes reach
  them at different moments, may be refused, may overtake each other, and a crash
  keeps one of the two. On the visitor's side it is `localStorage` and a cookie.
* **Read-modify-write across awaits.** A profile is read, merged and upserted as
  a whole row; erasure reads and upserts the same rows; modules of a tenant are
  enabled the same way, and so are the counters of the rate limiter.
* **Checks that go stale.** The gate is asked before an insert, a mail or a call
  is awaited; the usage counter is read before a whole campaign; a sync looks its
  key up before the call and remembers it after.
* **Half-done work.** Erasure and signup are several statements without a
  transaction; a campaign, a scenario or a load can die in the middle.
* **Lost answers.** A request that was taken and one that was not look the same to
  the sender, and the SDKs, webhooks and syncs try both again.
* **One buffer for many callers.** The clients share a flush between calls or
  threads, retry it, and put failed batches back into a buffer that keeps growing.
* **Rows in no order.** The stores return rows without `ORDER BY`, and what is
  reported of them must not depend on it.
* **Everything twice.** Tests run on the stores in memory, production on Postgres.

What makes each part correct, in words, is the comment above each property.

## The modules

State with concurrency, faults or both:

| Module | Models | State and actions |
|---|---|---|
| `ConsentGate` | consent gate, CMP resolution, `consent_states` | `overrides` (cache), `rows` (table), `handler` and `stmt` (where a request waits, what the database knows of its upsert). `Arrive`, `Reject`, `Apply` (cache written and upsert sent in one turn), `Commit`, `Refuse`, `ReplyOk`, `ReplyError`, `Crash`, `Boot` |
| `ProfileRegistry` | **abstract**: what `applyEvent` promises | `profiles`; one event is one step: `Create` or `Update` |
| `ProfileService` | **detailed**: the statements `applyEvent` awaits | adds `work` (event, row found, next statement per handler). `Begin`, `LookupByUser`, `LookupByAnon`, `Save`, `Fail`; the constant `Serial` says whether handlers overlap |
| `Ingest` | `POST /v1/track` | extends `ProfileService`: `allowed` (the gate), `events`, `track` (place in the batch) |
| `Erasure` | dsar of kind "delete" while `/v1/track` is served | extends `Ingest`: `erase` (per handler): three reads of the plan, the statements of its execution, the audit entry |
| `NodeClient` | `CdpServer` of the Node SDK | `buffer`, `loop` (the flush in flight), `waiting` (calls), `open` (timer), `retryLimit`; with a negative one no batch is posted and none put back (`PostNothing`), as `client.ts:76` does |
| `ServerSdks` | the Go, Python, Ruby, PHP and Java SDKs | `lang`, `unsent` (buffer), `flushMu` and `ended` (Go), and the flush of each thread. One set of actions; what a client tries again, what becomes of a batch that failed and who may call at the same time are operators of the language |
| `Tracker` | browser tracker in several tabs | queues, posts under way, the id in `localStorage`; beacons refused, posts that arrive late or never |
| `EmailCampaign` | the campaign route, `sendCampaign`, usage counters | `allowed`, `period`, `usage`, `run` |
| `Tenancy` | signup, owners' tokens, enabling of modules | `tenants`, `owners`, `tokens` (tables), `job` (per handler: the statement it awaits and what it read) |
| `Outbox` | **abstract**: what an outbound job promises | `outcome`, `accepted` per item, `lenient` (may a job count a redirect as delivered?); `Begin`, `Accept`, `Settle`, `Reply`, `Fail`, `Crash` |
| `Delivery` | **detailed**: webhooks, destination syncs, warehouse loads, scenarios, inbound events, notifications | `allowed` (gate), `delivered` (keys remembered), `work` (per handler: place, attempt, outcomes). What each kind retries and reports is its record in `Policy`; notifications fan out, the others go item by item |
| `ApiProcess` | hooks of a request, posts to Sentry and OTel, shutdown | `phase`, `status`, `sending`, `listening`, `process` |
| `ConsentSdk` | consent manager of a page, its storage, banner, preferences, GPC | `local`, `cookie`, `storage`, the pages, the posts |
| `ConsentLedger` | `append` by callers that read the latest record first, `computeRecordHash` over the fields joined without separators, `verifyChain` | `rows`, `reading`, `key`; edits behind the ledger's back and restarts without keys |
| `RateLimiter` | token bucket and window over a shared store | the two records, `asking` (calls between get and set), the clock |
| `Journeys` | `runJourney` step by step | `current`, `path`, `status` |

Operators with a reference definition, over lists that grow in any order:

| Module | Models | Compared with |
|---|---|---|
| `Scheduler` | `parseCron`, `nextRun` | the meaning of the expression, on a small calendar |
| `AuditTrail` | the filtered query of both stores | each other; timestamps as text and as instants |
| `EventQueries` | funnels, retentions, series and computed traits | each other, and the same rows in another order |
| `ProfileTools` | scores, segments, accounts, data quality, retention, next best action; enrichment as a loop of actions beside events. The three checks of a mail and a host name the packages have, each its own | definitions by what the profile is; the clock the server captured |
| `ChannelReports` | attribution models, A/B variants, channel ROI of six providers, in micros and rounded where `roi.ts` rounds | totals of the rows, up to the rounding; any order |
| `SocialIntel` | collection, intent analysis, YouTube tools | totals of the items, any order |
| `Backends` | the stores in memory and in Postgres, driven by the same calls | each other |
| `Routes` | the guards of every tenant-scoped and write-key route, in the order of the code | the answer in any other world of tenant, plan, modules and data, but for the facts the route tells anybody (`Public`) |

`Arrays` has what the sources do with arrays and no library operator does: sorting,
filtering, summing. `Figures` puts the properties of `ChannelReports` and
`SocialIntel` side by side.

| Proofs | About |
|---|---|
| `ConsentGate_proofs` | `ConsentGate` |
| `Erasure_proofs` | `ProfileRegistry`, `ProfileService`, `Ingest`, `Erasure` |
| `Clients_proofs` | `NodeClient`, `ServerSdks`, `Tracker` |
| `Accounts_proofs` | `EmailCampaign`, `Tenancy` |
| `Delivery_proofs` | `Outbox`, `Delivery`, `ApiProcess` |
| `Services_proofs` | `ConsentLedger`, `Journeys`, `ConsentSdk`, `Routes`, `Scheduler`, `Backends`, `RateLimiter`, `AuditTrail` |
| `Analyses_proofs` | `ProfileTools`, `EventQueries`, `ChannelReports`, `SocialIntel` |
| `DataLemmas` | facts about numbers, folds, sorted lists and sums that the last two share |

`MCConsentGate`,
`MCProfileService` and `MCErasure` give the inputs and symmetry of their runs.
`MCDelivery` and `MCServices` put several independent modules into one run: the
variable `part` is chosen at the start and says which of them moves, the others keep
their initial state, so that the state space is the sum of theirs and not the
product. In `MCDelivery` a kind of job is a part of its own; the Node client of
another part is closed, because its timer would never rest.

Conventions. An action is one turn of the event loop or one statement of the
database. Variables named *history* in their comments record what a property
needs to remember and influence no action. Operators that a comment calls
*Mutant* are variations of the definition below them with a plausible bug; no
action uses them, they serve to check that each property can fail.

Abstractions worth knowing:

* A profile's traits, intent topics and firmographics are all maps merged key by
  key, the incoming value winning; one map `traits` stands for them. Email is
  left out of the registry: no code fills `Profile.email` from an event.
* The events table of `Ingest` is the set of anonymous ids that have an event;
  that of `EventQueries` is the sequence of its rows.
* `Erasure` leaves out legal holds, which the route never passes, and subjects
  given by email only, which match no profile.
* In `ConsentGate` the tenant is part of the subject, and an absent banner flag is
  one that is FALSE, since the code tests `=== true`.
* In `EmailCampaign` a trigger selects any subset of the recipients, and plan
  and status of the tenant do not change, as no code changes them.
* In `Tenancy` requests that are answered 400, 401 or 403 before they read an
  account are left out: they change nothing, and are in `Routes`. A tenant has at
  most one owner and one token, as signup is the only code that inserts them.
* In the SDK modules events are numbers in the order they are tracked. A lost
  answer and a lost request are the same to the client.
* A job of `Delivery` is a list of items: for whom, whether a consent gates the
  item, and whether it calls anybody at all. An answer is one of five kinds; which
  ones are retried and what they are reported as is the `Policy` of the job's kind.
  Only a 2xx was taken by the receiver. A destination sync reports a 3xx as delivered
  (`destinations/src/index.ts:93`): this outcome has a name of its own, "redirected".
  A lost answer may or may not have been taken by the receiver.
* In `ConsentLedger` a hash is the sequence of the texts hashed up to the record:
  injective in the text, as the code assumes of SHA-256, and not in the fields, for
  the text is the JSON of the state and then subject, time and source run together
  (`ledger.ts:65-70`), each a sequence of characters here. Nobody else can sign.
* Amounts are micros, rounded to cents where `roi.ts` rounds; times are ticks,
  half-lives or days; ratios are kept as numerator and denominator, or rounded as the
  code rounds them. Floating errors far below a cent are left out, but not that the
  weight of an old touch becomes 0 (`Underflow`), which then gets no credit at all.
  Word lists and alias tables keep one member of each kind the code tells apart.
* In `ProfileTools` a text is a value, and tables say what the code makes of it: what
  is left of it trimmed, tidied (trimmed, in lower case) or bared of a scheme and a
  "www.", which host follows its "@", and which of the regular expressions of
  data-quality, identity-graph and enrichment it passes. `TextAssumption` says what
  holds of such tables: nothing is tidied twice, and a host name is tidy.
* Time in `EventQueries` is a number. The sources compare timestamps as text, which is
  the order of the instants for rows of the database, whose timestamps have
  milliseconds; rows of the memory store that leave them out are not covered.
* In `AuditTrail` the type and the id of a resource are one number. The memory's
  answer is defined by the place each entry takes: entries that compare equal keep
  their order, as the stable sort of the language keeps them.
* Sums of counters are cardinalities of sets of units in `EmailCampaign` and
  `RateLimiter`: a counter at 3 contributes three units.
* No path of `EventQueries` contains the name "identify": one funnel calls the row of
  an identify event by that name and the other by none (`RowName`), so that there
  they need not agree.
* `RateLimiter` models the package; the API itself limits with a Fastify plugin.

## The runs

| Run | Result | Question |
|---|---|---|
| `consent` | pass, 180 k states | Is the gate what the subject last chose, across crashes, refusals and restarts, for subjects that wait for their answers? For the others: is it at least one of the choices made at the same time? |
| `consent_reorder` | violated | Does consent survive restarts when one subject's requests overlap? |
| `profile` | pass, 818 k states | Do handlers that run one at a time implement the registry, with unique identities, nothing overwritten and no user relabelled by somebody else's device? |
| `profile_stitch` | violated | Does identify leave one profile for the anonymous id and the user? |
| `profile_race` | violated | Is merging safe when handlers overlap? |
| `erasure` | pass, 2.6 M states | Is an erasure complete however many attempts failed before it; what alone can bring a redacted row back; does an opt-out stop a batch being walked? |
| `erasure_both_fields` | violated | The same completeness for a subject given by two fields |
| `delivery` | pass, 64 k states | Whatever sends: do the six kinds of jobs implement `Outbox`, end, and heed an opt-out; how often can overlapping syncs report one delivery; do the SDKs of all languages keep every event and its place; do the tabs of a browser send an event once; does the Node client deliver in the end; does a stop lose an error report, or a hanging sink an answer? |
| `node_client_close` | violated | Does every `close()` send what was tracked before it? |
| `ruby_client` | violated | Does the Ruby client keep every event it has not delivered? |
| `services` | pass, 528 k states, between three and four minutes | Campaigns: does an opt-out stop mail, is every mail charged once, by how much is the limit overshot? Tenants: does entitlement hold, does every told token work, does a module answered 200 for last? Does a choice in the browser outlive its page; which chains verify; what do overlapping calls get past a limiter; do journeys repeat steps; are runs exactly the due minutes; do analyses agree with each other, with any order of their rows and with the clock; do the stores of the tests answer as those of production; does an outsider learn of a tenant more than its route tells anybody? |
| `consent_sdk` | violated | Is a choice in the banner recorded by the API? |

Each property of a passing run has a mutant in `PROJECT.json`: a variation of a
modelled definition under which TLC finds the property violated.

## Bounds

* `consent`: two subjects, one of which overlaps its requests, two handlers,
  three bodies (accept, refuse, GPC against the banner). Reordering needs two
  statements; a third handler adds no new kind of order, since the last two
  commits decide the row. Crashes and requests are unbounded.
* `profile`: two ids, anonymous ids, users, keys and values, two handlers. With
  unique identities a table has at most as many profiles as anonymous ids, so
  that ids never run out. `profile_race` needs one id less of each.
* `erasure`: a visitor with two devices who identifies on both, one track
  handler, one eraser, batches of one and two. Two ids suffice for one visitor;
  the user of a redacted row is the tombstone, which is also a legal id of an
  event and is therefore in `Anons` and `Users`.
* `delivery`, jobs: two receivers and up to three items (`MaxJobItems`) with every
  mixture of gated, ungated and silent ones that its kind knows, one extra attempt
  (`ExtraAttempts`), since one shows both ends of a retry. Two syncs share an item;
  the other kinds share nothing but the gate, and run alone.
* `delivery`, Node client: a limit of one retry, and one of -1; `MaxEvents` 6 with `FlushAt` 2 and `MaxBatch` 3 lets the
  buffer exceed a batch while another is in flight. `MaxEvents` ends a behaviour's
  supply of events, never the client's work, so liveness is not affected.
* `delivery`, other clients: five events (`SdkMaxEvents`), threshold and batch of
  two, `maxRetries` 1 and -1, two threads of the Go client; two tabs with four
  events (`MaxSeen`) and two ids (`MaxIds`), later ones sharing the last number.
* `delivery`, process: two requests, both sinks, every signal.
* `services`: two campaigns, two recipients, limit 2, two months, four mails
  (`MaxMails`, twice the limit); a founder of a middling plan, a suspended one of
  the best plan and an id for a signup, of which the last two let enablings overlap,
  with two handlers; two pages of the consent SDK loaded any number of times, one
  made-up subject (`MaxVisits`) and two choices (`MaxChanges`); two ledger writers, three rows (`MaxLines`), one
  change of keys (`MaxKeys`) and one edit (`MaxEdits`); two callers of a limiter
  whose limit they can exceed (`MaxAdmitted`, `MaxTime`); all journeys of one and
  two steps, of three if they wait or exit, cut after three; a calendar of 3 minutes,
  2 hours, 3 days, 2 months and 4 weekdays, in which every field of an expression can
  exclude a candidate, searched over 40 minutes (`Horizon`) for three runs; three
  events, rows or items (`MaxLog`, `MaxRows`, `MaxItems`), enough for a tie between
  two and an order of three; two profiles; four calls of the stores (`MaxCalls`),
  enough to save, change and look up twice; two tenants and every world of
  `Routes`, which has no further bound.

Deadlock is checked except in `delivery`, `services`, `ruby_client` and
`consent_sdk`: there a process exits, a journey or a batch run ends, and the bounded
supplies of events, choices and rows run out.

## Fairness

Three modules state fairness; the others state safety only, for nothing else in
the API goes on by itself.

* `NodeClient`: `Tick`, `Wake` and `Settle` are a timer that fires and promises that
  settle; the event loop guarantees both. A post is answered or fails, since the
  runtime times a `fetch` out; nothing is assumed about which. `DeliveredInTheEnd`
  has the premise `ServiceRecovers`, strong fairness of a post that succeeds, and
  promises nothing once the timer is cleared, or to a client whose limit of retries is
  negative. Two assumptions about the host:
  `flushIntervalMs` is set, and it survives the unhandled rejection of the timer's
  `void this.flush()`.
* `Delivery`: weak fairness of each handler's next step: backoff timers fire, and a
  receiver answers or the request times out. Nothing is assumed about the answer,
  so `EveryJobEnds` needs the limit on attempts.
* `ApiProcess`: a handler that runs ends, a post to a sink settles because
  `postJson` aborts it after 1.5 s, and `close()` comes to an end. No request and no
  signal has to come.

## Refinements

* `ProfileService` implements `ProfileRegistry` when handlers run one at a time:
  `Save` is the indivisible event, all other statements stutter. When they overlap
  it does not (`profile_race`).
* `Delivery` implements `Outbox`: each item of a job gets one final outcome; what is
  reported "delivered" was taken by the receiver with a 2xx, what is reported "skipped",
  "duplicate" or "dropped" never reached it, and a "failed" item may have. Only a
  destination sync is lenient: it may report as delivered what was "redirected", which
  nobody took. A webhook answered 3xx has failed (mutant `WebhookLenient`). A retry
  after a lost answer is a second `Accept` of an open item. A job that throws, as a
  scenario does when an adapter rejects, is `Fail`, after which what it had done is
  known to nobody; a restart is `Crash`.

## Proofs

All proofs are checked by TLAPS without omissions, for every value of the
constants that satisfies the named assumptions of the modules: the sentinels differ
from real values, limits are natural numbers, the inputs are of the shape the
handlers accept, sets that are counted are finite. Some theorems say more of the
constants, and say it as a hypothesis:

* `Serial` (of `ProfileService`): calls of `applyEvent` come one at a time. This is the
  code without `DATABASE_URL`, whose stores answer within a turn, or a caller that
  waits. `profile_race` shows that what it is assumed for fails without it.
* `MarkerIsNobody`: no event and no subject carries the redaction marker as an id. The
  API accepts it as one; whoever sends it writes to a redacted row.
* `OneFieldSubjects`: a subject is given by a user or by an anonymous id. For both
  at once the theorem is false, which is the finding of `erasure_both_fields`.

**The gate** (`ConsentGate_proofs`): `TypeCorrect`, `RestartKeepsSerialConsent`,
`HonorsLatestChoice`, `RacesExchangeOnlyNewestChoices`.

* For a subject that waits for its answers there is at most one handler; if it is
  writing it carries the latest body; a refused statement marks the subject unsaved;
  while up the cache is the snapshot of the latest body; and the row is too unless
  the subject is unsaved or its statement has not committed. The last two are
  inductive only together with the first three, and with the fact that orphaned
  statements exist only while the process is down.
* For any subject (`RaceInv`): what a writer, the cache or a row holds is a choice of
  the newest group of requests that overlapped. A row holds something else only while a
  statement of the group is on its way, or after one was lost (`RowInGroup`); whoever
  waits for the database is of the newest group (`WritersAreRecent`).

**Profiles** (`Erasure_proofs`): `RegistryUnique` for the abstract
specification; `SerialImplementsRegistry`: with `Serial` at most one handler works,
and what its lookups found still holds when it saves, so that `Save` is `ApplyEvent`
and all other steps stutter. `SerialUnique`, `SerialMergeNeverOverwrites` and
`SerialRelabelsOwnDevice` follow: the row that an identify saves is the user's own or
the one of its device, and only of the latter does the user change.

**Ingest and erasure** (`Erasure_proofs`):

* `OptOutRespected`. The counter of late events alone is not inductive: a late event
  must also shut the gate for that anonymous id and leave no insert of it on its
  way (`LateShutsGate`).
* `RedactionLasts`. A row is redacted as a whole or not at all (`RowsRedactedWhole`),
  and no handler at work has a redacted row at hand (`WorkKnowsNoMarker`), so that
  only a row read before the redaction can undo it. Under `MarkerIsNobody`.
* `ErasureCompletes`, under all three hypotheses. Unique identities survive redaction
  (`UniqueUnlessRedacted`: redacted rows share the marker, all others are unique), so
  a lookup finds the one profile there is. While only erasures asked after the subject's first attempt run (`Calm`), what an
  erasure has read and done is still true (`Accurate`), and any event under an id the
  subject had can still be found from its profile (`Reachable`): events go before the
  row is redacted, so that an attempt that fails in between leaves the way to them. A
  batch that is being walked at the same time spoils this, and so does an erasure
  begun before the first attempt; the history `overlapped` records both.

**Clients** (`Clients_proofs`), over the specifications without fairness:

* Node: `TypeCorrect`, `NothingLost`, `FlushesDeliver`. Acknowledged, in flight and
  buffered events are a run of consecutive numbers (with those a negative limit let go,
  `Behind`), and whoever awaits a running
  flush awaits nothing beyond the events in the batch and the buffer, which is empty
  once a flush has ended well.
* The other languages: `SdksDeliverInOrder`. Confirmed, held and unsent events, read
  one after the other, rise (`SdkInv`). This needs one flush at a time: in Go by its
  lock, in the others because one thread calls.
* The browser: `TrackerRepeatsNothing`. Queues, posts under way, arrived and lost
  events are disjoint (`Apart`), and together all that was tracked (`Kept`).

**Campaigns** (`Accounts_proofs`): `CampaignTypeCorrect`, `OptOutStopsEveryCampaign`,
`MailsAreChargedOnce`, `OvershootBound`. The books of each step move units between the
month, the campaign and the uncounted ones. For the overshoot: a month that has reached its limit lets no campaign in, so
that what is charged plus what all active campaigns may still send stays below the
limit plus what all handlers together can send (`RoomIsBounded`).

**Tenants** (`Accounts_proofs`): `TenancyTypeCorrect`, `EntitlementHolds`, `TokensWork`,
`GrantsLast`. A token implies its owner's row and an owner its tenant's
(`References`), because the inserts come in that order; so a request with a told
token never gets the account assumed for a missing owner, and its entitlement is
held against a row whose plan and status still stand when the list is written back.
For a tenant whose admins wait, one handler works on it and the list it writes is
the row's.

**Jobs and the process** (`Delivery_proofs`), for any jobs, handlers and number of
attempts, without fairness:

* `JobsTyped`: the type invariant with the place of each job, which is at an item
  while a request is out, and asleep only if an attempt is left.
* `OptOutReachesJobs`: a sync between its check and its call has seen the grant, and
  `refused` is reset only when it comes to the item (`GateOK`).
* `DuplicatesAreBounded`: the reports of a key plus the syncs about to report it are
  at most the handlers, and a key that was reported is remembered.
* `JobsImplementOutbox`: items from the current one on are open, those beyond it were
  not seen by their receivers, nor was the current one before its first call, nor a
  channel that is only chosen (`OutcomeOK`, `ItemsOK`); with this each kind of step
  is a step of `Outbox` or leaves its view unchanged.
* `StopIsOrderly`: an error report under way is of a request that still waits for
  its answer, and an exit in good order waits for all of them (`StopInv`).

**Services** (`Services_proofs`):

* `LedgerVerifies`. Nobody signs with a key it does not have (`NobodyForges`), and a
  hash contains the texts it was computed of; so a row that verifies is, for the hash,
  one that was appended to the one before it, by induction on its place, and what was
  appended verifies. Rows that differ in where subject, time and source meet are the
  same for the hash (`SameForTheHash`).
* `JourneysEndAtNewSteps`. Each step of the path follows from the one before it
  (`Walked`); a step done twice leads to the same next one, so that the path goes
  round (`Round`) and never reaches a step that ends it.
* `ChoicesOutlivePages`. The cookie is the last choice; `localStorage` is too when it
  works, and is empty or the last choice when it only reads and the choice was kept
  (`LastIsStored`). Loading reads one of them and removes the sale under GPC.
* `OutsidersAreToldWhatIsPublic`. An answer is `Handle` of the question and of the world
  (`Answered`). The theorem rests on a lemma for each kind of route: the guards that
  concern the caller come before the first that looks at the tenant (`GuardFirst`), but
  for what the route lets anybody find out (`Public`): a module's key on the route that
  enables modules, the body on the routes of a write key, and on an inbound webhook
  the tenant, its secret and the body, which are looked up before the signature
  (`webhooks-inbound.ts:18-24`).
* `SearchesFindTheDueMinutes`. The runs so far are the due minutes between the start and
  the minute the search has come to, rising (`RunsSoFar`); `parseCron` accepts what
  the expression means.
* `StoresAnswerAlike`. Memory and tables have the same tokens, suppressed addresses and
  tenants but for the demo; the list of profiles in memory has each row of the table
  once; what the table does not count is zero in memory (`StoresInv`). Each call keeps
  this and answers the same in both.
* `LimitersKeepTheirBound`. The bucket and the window, as stored and as read by a call
  that has not written yet, fit what was admitted in any interval, up to what other
  writers were admitted since that read (`BucketFits`, `WindowFits`, `Missed`). When the
  call writes, these admissions are wiped out and become `lost`.
* `AuditStoresAgree`. Timestamps with milliseconds compare as text the way they do as
  instants; the places of the memory's answer are a permutation of the matching
  entries, oldest first, which the database may choose.

**Analyses** (`Analyses_proofs`). These modules compute from lists that grow in any
order, so that their invariants say little more than the types of the rows
(`ToolsInv`, `LogTypes`, `ReportTypes`, `IntelTypes`); the work is in what the
operators return, for lists of any length.

* `EnrichmentOnlyFillsGaps`, `WaitingHelpsNobody`, `ProfileViewsAgree`. The merge of
  answers keeps a field once it has a value, and the last step replaces each by its
  canonical form, which a domain may lack: it is dropped then, and filled by the next
  enrichment (`GapsFilled`). Every part of a score falls, or stays, as the clock
  goes on (`RecencyFalls`, `EngagementFalls`), rises where its weight is negative, and
  dividing with rounding is monotonic. Profiles of one deduplication mail have one
  host by `TextAssumption`, though the mail's check is not the host's.
* `ReadingsAgree`. A funnel walks a list row by row, which is a list of its marks
  (`Course`); a step is reached exactly if a rising choice of rows has the names of the
  steps (`WaysRise`), and that condition does not mention the list, so that two lists
  of the same rows, in the two orders of the two funnels, give the same depth
  (`WaysAgree`). Retention and series are cardinalities of sets of users and events,
  split by bucket (`EventsOnce`, `EverybodyOnce`, `NewcomersCounted`). Each aggregate of
  a trait is a fold over the rows that match (`Computed`), bounded by them.
* `ReportsAgree`. Credit, revenue and cost are sums over the places of a list; summing
  by channel and then over the channels is summing once (`SumOfGroups`), and reversing
  the list renames the places (`SumRenamed`). Each rounded figure is within half a cent
  of what it rounds, and so is a total within half a cent for each channel
  (`SumsNear`, `RoundedOverChannels`); whole cents are rounded to themselves
  (`WholeCents`). Weights that halve with age are ordered as the ages are
  (`PowersOfTwo`), and their sum is 0 only if all are: then no channel gets any credit.
  The intervals of buckets that belong to the arms
  follow each other (`SharesUpTo`), and each is as long as the weight.
* `IntelAgrees`. No keyword contains the line break that joins the signals, so that
  the hits of a keyword in the joint text are the sum of its hits in the signals
  (`HitsOfSignals`). Leaving out a signal without hits lowers the number of signals
  and nothing else, and the score falls with that number (`ScoreWithout`,
  `ScoreFalls`). Ranked terms are the terms sorted by frequency and alphabet, both
  the same whatever the order of the texts (`SameRanking`); no idea is given twice
  because titles, pairs and topics each are not (`IdeasAreDistinct`).
* `FiguresHold`: the last two together.

What these rest on is in `DataLemmas`. The function that a fold over a set or a list
applies exists and is unique on the places that count (`Folding`, `FoldingList`),
by induction over natural numbers, which is done with sets (`Least`, `AllNumbers`: the
set of numbers for which a statement holds is all of them). A sum over a finite
set is the same in whatever order it is taken (`SumsAgree`), so that it can be split,
grouped and renamed. A set with a strict total order has exactly one sorted list
(`SortedList`), whose k-th element is the one with k - 1 before it.

The assumptions of these modules say of what kind the inputs are, not how many:
`ToolsAssumption` (days are natural numbers, a draft has the fields of a profile and no
score yet), `QueriesAssumption` (finitely many names, windows and periods in ticks),
`ReportsAssumption` (each provider's rows have the numbers its mapping reads, touches
have a time), `IntelAssumption` (texts are sequences of words, and those that
can be terms have a place in the alphabet).

Only model-checked: liveness (`DeliveredInTheEnd`, `EveryJobEnds`,
`AcceptedIsAnswered`), which is out of this prover's reach. Every other property of a
passing run is a theorem.

## Findings

Seven statements of the repository about itself that the code does not keep; each
is a run whose counterexample shows the steps, and an entry of `PROJECT.json`:

* consent can change at a restart when a subject's requests overlap
  (`consent_reorder`);
* identify on a second device does not stitch (`profile_stitch`);
* overlapping events lose traits (`profile_race`);
* an erasure by two fields leaves events behind for good (`erasure_both_fields`);
* a `close()` in the gap between the end of a flush and its `finally` leaves an
  event unsent (`node_client_close`), a gap of a microtask or two;
* the Ruby client loses the batch whose attempts are used up (`ruby_client`);
* the consent SDK posts a body without the write key the route requires, so that
  every choice is answered 400 and swallowed (`consent_sdk`).

Seen while reading and not findings: an owner-less tenant, which a failed signup
leaves behind, would count as one of the plan "agency" (`platform.ts:13`), but
nobody is ever told a token for it (`ToldTokensWork`). `usage-meter.ts:18-20` says
the in-memory meter has no periods, while `billing/usage-meter.ts:29-30` keeps
them. The audit query in memory compares timestamps as text: a bound without
milliseconds sorts after every fraction of its second, so that the memory drops or
keeps a second the table does not (`StoresAgree` is about the bounds that have them). A destination sync counts a 3xx as
delivered and remembers its key (`destinations/src/index.ts:93`), while webhooks
report the same answer as failed (`webhooks/src/index.ts:216`). The ledger says that
tampering breaks the chain (`ledger.ts:16-17`), and does not notice characters moved
between subject, time and source, which it hashes one after the other. An inbound
webhook tells an unsigned caller whether a tenant and its provider are there
(`webhooks-inbound.ts:18-24`). A conversion long after all its touches, in half-lives,
credits no channel under time decay (`attribution/src/index.ts:62`). A firmographic
domain lifted from traits is not checked, and is dropped by the next enrichment. The "sliding" window of the limiter starts with
a call and forgets everything when it is over, so that it admits almost twice its
limit around an edge (`LimitersBound`). A stop may cut the span of an ordinary
request short, but no error report (`StopLosesNoErrorReport`). Nothing consults the
suppression list before a mail; consent rows are not part of an erasure.

## What is not modelled

Every component is listed in `PROJECT.json` with its status and the reason.

* Not at all: the access report of a data subject (a read-only assembly), the
  wording of mails and templates, the table of state postures (no code of the API
  reads it), user interfaces, the CLI.
* Partly: usage metering (no route meters seats or events), the database schema
  and the contracts (as far as the modelled statements and events need them), the
  wiring of the server, the in-process metrics of `/health`, forms (the event a form
  applies is that of `ProfileRegistry`).
* Replicas of the API, each with its own consent cache: a limitation that
  `consent.ts:21` documents; one process is modelled.
* The consent of a mail's recipient is looked up by email (`campaign.ts:118`), while
  the SDKs record it under the anonymous id; the model takes the gate's answer as
  given.
* A batch that is posted again stores its events again (`ingest.ts:43`): the code
  recognises no repetition and no document promises it.

## Plan

Done, in this order: `ConsentGate`; `ProfileRegistry` and `ProfileService`; `Ingest`
and `Erasure`; `NodeClient`; `EmailCampaign`; `Tenancy`; `Outbox` and `Delivery`; the
other SDKs, the tracker and the consent SDK; the ledger, the limiters, journeys and
the scheduler; the analyses; the stores and the routes; the process.

Proved: every safety property that a passing run checks.

Left, the most valuable first:

1. `Delivery` composed with `ConsentGate`, so that a crash can bring an older choice
   back under a running scenario.
2. `RedactionLasts` for an id that is the marker.
3. The metering of seats and events, once routes record them.
