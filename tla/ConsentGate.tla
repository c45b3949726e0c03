----------------------------- MODULE ConsentGate -----------------------------
(***************************************************************************)
(* The consent gate of the API (apps/api/src/consent.ts), the endpoint     *)
(* that writes it (apps/api/src/routes/consent.ts), the resolution of a    *)
(* banner choice (modules/consent/src/cmp.ts) and the table that makes it  *)
(* durable (apps/api/src/consent-store.ts).                                *)
(*                                                                         *)
(* A request is handled in turns of the event loop.  It waits for the      *)
(* tenant lookup, then writes the in-process cache and sends an upsert in  *)
(* one turn, then waits for the upsert and answers.  The database pool     *)
(* has several connections: statements of different requests may commit    *)
(* in any order.  A crash loses the cache and the handlers; a statement    *)
(* already sent may still commit.                                          *)
(***************************************************************************)
EXTENDS FiniteSets

CONSTANTS
  Subjects,    \* the keys `tenantId:subject` of the cache
  Requests,    \* identities of the POST /v1/consent requests in flight
  Inputs,      \* the request bodies clients post
  Overlapping, \* subjects that post again before the last answer arrived
  None         \* no snapshot

Purposes == {"analytics", "marketing_email", "sale_or_share", "messaging_tcpa"}

\* A posted body: each flag of the banner, and the GPC signal.  An absent flag
\* counts as FALSE, since the code tests `=== true`.
Bodies == [analyticsOptOut : BOOLEAN, saleOrShareOptOut : BOOLEAN,
           marketingEmailOptIn : BOOLEAN, messagingTcpaOptIn : BOOLEAN,
           gpc : BOOLEAN]

Snapshots == [Purposes -> BOOLEAN]

ASSUME InputsAssumption == Inputs \subseteq Bodies
ASSUME OverlappingAssumption == Overlapping \subseteq Subjects
ASSUME NoneAssumption == None \notin Snapshots /\ None \notin Bodies /\ None \notin Subjects

-----------------------------------------------------------------------------
(* Resolution of a choice.                                                 *)

\* Mutant: the banner alone decides.
ResolveWithoutGpc(body) ==
  [analytics       |-> ~body.analyticsOptOut,
   marketing_email |-> body.marketingEmailOptIn,
   sale_or_share   |-> ~body.saleOrShareOptOut,
   messaging_tcpa  |-> body.messagingTcpaOptIn,
   gpc             |-> body.gpc]

ResolveConsent(body) ==
  [analytics       |-> ~body.analyticsOptOut,
   marketing_email |-> body.marketingEmailOptIn,
   sale_or_share   |-> ~body.saleOrShareOptOut /\ ~body.gpc,
   messaging_tcpa  |-> body.messagingTcpaOptIn,
   gpc             |-> body.gpc]

\* What applyConsentState keeps of a resolved state: the four purposes.
Snapshot(state) == [p \in Purposes |-> state[p]]

CanSellOrShare(state) == state.sale_or_share /\ ~state.gpc

AllowedPurposes(state) ==
  {p \in Purposes : IF p = "sale_or_share" THEN CanSellOrShare(state) ELSE state[p]}

DefaultAllow == [p \in Purposes |-> p = "analytics"]

-----------------------------------------------------------------------------
VARIABLES
  up,         \* is the API process running?
  overrides,  \* the cache of the process: a snapshot per subject, or None
  rows,       \* the table consent_states
  handler,    \* per request: where its handler waits, and what it was given
  stmt,       \* per request: its upsert, as the database sees it
  latest,     \* history: the body applied last for the subject, or None
  unsaved,    \* history: subjects whose durable row may be behind, because the
              \* outcome of an upsert was lost
  recent      \* history: the bodies applied for the subject since its handlers
              \* last were all done, the newest group only

vars == <<up, overrides, rows, handler, stmt, latest, unsaved, recent>>

Idle == [at |-> "idle", subject |-> None, body |-> None]

Handlers ==
  {Idle} \cup [at : {"tenant", "put", "orphan"}, subject : Subjects, body : Inputs]

\* The type invariant; a handler that does not wait for the database has no
\* statement there.
TypeOK ==
  /\ up \in BOOLEAN
  /\ overrides \in [Subjects -> Snapshots \cup {None}]
  /\ rows \in [Subjects -> Snapshots \cup {None}]
  /\ handler \in [Requests -> Handlers]
  /\ stmt \in [Requests -> {"none", "sent", "committed", "refused"}]
  /\ \A r \in Requests : stmt[r] = "none" <=> handler[r].at \in {"idle", "tenant"}
  /\ latest \in [Subjects -> Inputs \cup {None}]
  /\ unsaved \subseteq Subjects
  /\ recent \in [Subjects -> SUBSET Inputs]

Init ==
  /\ up = TRUE
  /\ overrides = [s \in Subjects |-> None]
  /\ rows = [s \in Subjects |-> None]
  /\ handler = [r \in Requests |-> Idle]
  /\ stmt = [r \in Requests |-> "none"]
  /\ latest = [s \in Subjects |-> None]
  /\ unsaved = {}
  /\ recent = [s \in Subjects |-> {}]

\* The synchronous read every other route makes.
IsAllowed(s, p) == IF overrides[s] = None THEN DefaultAllow[p] ELSE overrides[s][p]

Open(s) == {r \in Requests : handler[r].subject = s}
Writing(s) == {r \in Open(s) : handler[r].at \in {"put", "orphan"}}

\* The body is parsed and the tenant looked up.
Arrive(r, s, b) ==
  /\ up
  /\ handler[r] = Idle
  /\ s \in Overlapping \/ Open(s) = {}
  /\ handler' = [handler EXCEPT ![r] = [at |-> "tenant", subject |-> s, body |-> b]]
  /\ UNCHANGED <<up, overrides, rows, stmt, latest, unsaved, recent>>

\* No tenant owns the write key: 401, nothing written.
Reject(r) ==
  /\ handler[r].at = "tenant"
  /\ handler' = [handler EXCEPT ![r] = Idle]
  /\ UNCHANGED <<up, overrides, rows, stmt, latest, unsaved, recent>>

\* applyConsentState up to its await: the cache is written, the upsert sent.
Apply(r) ==
  LET s == handler[r].subject
      b == handler[r].body
  IN
  /\ handler[r].at = "tenant"
  /\ overrides' = [overrides EXCEPT ![s] = Snapshot(ResolveConsent(b))]
  /\ handler' = [handler EXCEPT ![r].at = "put"]
  /\ stmt' = [stmt EXCEPT ![r] = "sent"]
  /\ latest' = [latest EXCEPT ![s] = b]
  /\ unsaved' = unsaved \ {s}
  /\ recent' = [recent EXCEPT ![s] = IF Writing(s) = {} THEN {b} ELSE @ \cup {b}]
  /\ UNCHANGED <<up, rows>>

\* The database commits the upsert; nobody may be left to hear of it.
Commit(r) ==
  /\ stmt[r] = "sent"
  /\ rows' = [rows EXCEPT ![handler[r].subject] = Snapshot(ResolveConsent(handler[r].body))]
  /\ IF handler[r].at = "orphan"
     THEN handler' = [handler EXCEPT ![r] = Idle] /\ stmt' = [stmt EXCEPT ![r] = "none"]
     ELSE handler' = handler /\ stmt' = [stmt EXCEPT ![r] = "committed"]
  /\ UNCHANGED <<up, overrides, latest, unsaved, recent>>

\* The promise of the upsert rejects.  A statement that failed changed nothing;
\* one whose connection broke may have committed.
Refuse(r) ==
  /\ stmt[r] = "sent"
  /\ \/ rows' = rows
     \/ rows' = [rows EXCEPT ![handler[r].subject] = Snapshot(ResolveConsent(handler[r].body))]
  /\ IF handler[r].at = "orphan"
     THEN handler' = [handler EXCEPT ![r] = Idle] /\ stmt' = [stmt EXCEPT ![r] = "none"]
     ELSE handler' = handler /\ stmt' = [stmt EXCEPT ![r] = "refused"]
  /\ unsaved' = unsaved \cup {handler[r].subject}
  /\ UNCHANGED <<up, overrides, latest, recent>>

\* Mutant: the upsert is not awaited.
ReplyWithoutAwait(r) ==
  /\ handler[r].at = "put"
  /\ stmt[r] \in {"sent", "committed"}
  /\ handler' = [handler EXCEPT ![r] = Idle]
  /\ UNCHANGED <<up, overrides, rows, stmt, latest, unsaved, recent>>

\* reply.send({ ok: true, state }).
ReplyOk(r) ==
  /\ handler[r].at = "put"
  /\ stmt[r] = "committed"
  /\ handler' = [handler EXCEPT ![r] = Idle]
  /\ stmt' = [stmt EXCEPT ![r] = "none"]
  /\ UNCHANGED <<up, overrides, rows, latest, unsaved, recent>>

\* The rejected promise reaches the error handler: 500, the cache stays.
ReplyError(r) ==
  /\ handler[r].at = "put"
  /\ stmt[r] = "refused"
  /\ handler' = [handler EXCEPT ![r] = Idle]
  /\ stmt' = [stmt EXCEPT ![r] = "none"]
  /\ UNCHANGED <<up, overrides, rows, latest, unsaved, recent>>

Crash ==
  /\ up
  /\ up' = FALSE
  /\ overrides' = [s \in Subjects |-> None]
  /\ handler' = [r \in Requests |->
                   IF stmt[r] = "sent" THEN [handler[r] EXCEPT !.at = "orphan"] ELSE Idle]
  /\ stmt' = [r \in Requests |-> IF stmt[r] = "sent" THEN "sent" ELSE "none"]
  /\ UNCHANGED <<rows, latest, unsaved, recent>>

\* Mutant: the process listens without hydrating.
BootWithoutHydrate ==
  /\ ~up
  /\ \A r \in Requests : stmt[r] = "none"
  /\ up' = TRUE
  /\ UNCHANGED <<overrides, rows, handler, stmt, latest, unsaved, recent>>

\* hydrateConsent, before the routes listen.  The statements of the previous
\* process are over by the time the new one reads the table.
Boot ==
  /\ ~up
  /\ \A r \in Requests : stmt[r] = "none"
  /\ up' = TRUE
  /\ overrides' = rows
  /\ UNCHANGED <<rows, handler, stmt, latest, unsaved, recent>>

Next ==
  \/ \E r \in Requests, s \in Subjects, b \in Inputs : Arrive(r, s, b)
  \/ \E r \in Requests :
       \/ Reject(r) \/ Apply(r) \/ Commit(r) \/ Refuse(r)
       \/ ReplyOk(r) \/ ReplyError(r)
  \/ Crash
  \/ Boot

Spec == Init /\ [][Next]_vars

-----------------------------------------------------------------------------
(* Properties.                                                             *)

Unwritten(s) == latest[s] = None

\* A subject is settled when its newest choice has been answered 200: the
\* process is up, no request for it waits, and no upsert of it was lost.
Settled(s) == up /\ Open(s) = {} /\ s \notin unsaved

SurvivesRestart(s) == Settled(s) => overrides[s] = rows[s]

\* The gate enforces what is durable: for a settled subject the cache and the
\* row agree, so a restart changes nothing ("so consent survives restarts").
ConsentSurvivesRestart == \A s \in Subjects : SurvivesRestart(s)

\* The same for the subjects that wait for each answer, whatever crashed or
\* failed before, and whatever the requests of other subjects do.
SerialConsentSurvivesRestart == \A s \in Subjects \ Overlapping : SurvivesRestart(s)

\* The gate answers for a settled subject that waits for each answer, before and
\* after any number of restarts, exactly the purposes the CMP grants to the last
\* body applied for it: a choice is neither dropped nor replaced by an older
\* one, and the GPC signal, which the snapshot leaves out, still forbids sale.
GateHonorsLatestChoice ==
  \A s \in Subjects \ Overlapping :
    (Settled(s) /\ ~Unwritten(s)) =>
      {p \in Purposes : IsAllowed(s, p)} = AllowedPurposes(ResolveConsent(latest[s]))

\* Overlapping requests can only exchange choices made at the same time: once a
\* subject is settled, what the gate and the table hold is one of the newest
\* group of overlapping choices, never one answered before they began.  Without a
\* choice nothing but analytics is ever allowed: neither a crash nor a refused
\* request invents a consent.
RaceStaysWithinGroup ==
  \A s \in Subjects :
    /\ (Settled(s) /\ ~Unwritten(s)) =>
         {overrides[s], rows[s]} \subseteq {Snapshot(ResolveConsent(b)) : b \in recent[s]}
    /\ Unwritten(s) =>
         /\ rows[s] = None
         /\ \A p \in Purposes : IsAllowed(s, p) => p = "analytics"
=============================================================================
