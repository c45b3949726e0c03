------------------------------- MODULE Delivery -------------------------------
(***************************************************************************)
(* The jobs that carry a tenant's data to the outside: webhooks            *)
(* (packages/webhooks), destination syncs (packages/destinations),         *)
(* warehouse loads (packages/warehouse-sync), automation scenarios         *)
(* (modules/automation), notifications (packages/notifications), and the   *)
(* events of an inbound webhook (apps/api/src/routes/webhooks-inbound.ts), *)
(* with the consent gate changing under them and the process crashing.     *)
(*                                                                         *)
(* A job has a list of items: a receiver, whether the item needs consent,  *)
(* and whether it calls anybody at all (a "wait" step and a channel        *)
(* without a sender do not).  Bodies, signatures and delays are left out.  *)
(***************************************************************************)
EXTENDS Naturals, Sequences, FiniteSets

CONSTANTS
  Handlers,    \* requests handled at the same time
  Receivers,   \* profiles, recipients, channels: whom an item is for
  Jobs,        \* the requests: kind and items
  MaxJobItems, \* bound: items of a job
  ExtraAttempts   \* attempts after the first

\* Two destinations stand for all, one that needs consent and one that does not,
\* so that an item is also the key of its delivery.
Items == [to : Receivers, gated : BOOLEAN, calls : BOOLEAN]

\* Mutant: a webhook takes every status below 400 for a success, as syncs do.
WebhookLenient ==
  [retried |-> {"error", "lost"},
   outcome |-> [ok |-> "delivered", moved |-> "delivered", refused |-> "failed",
                error |-> "failed", lost |-> "failed"]]

\* How a kind of job treats the answers it can get ("ok" is 2xx, "moved" 3xx,
\* "refused" 4xx, "error" 5xx, "lost" a rejected promise): which are retried,
\* and the outcome once they are not; "abort" fails the whole job.  A sync reports
\* a 3xx as "delivered" with its status: "redirected" here, for nobody took the item.
Webhook ==
  [retried |-> {"error", "lost"},
   outcome |-> [ok |-> "delivered", moved |-> "failed", refused |-> "failed",
                error |-> "failed", lost |-> "failed"]]
Destination ==
  [retried |-> {"error", "lost"},
   outcome |-> [ok |-> "delivered", moved |-> "redirected", refused |-> "failed",
                error |-> "failed", lost |-> "failed"]]
Warehouse ==
  [retried |-> {"lost"},
   outcome |-> [ok |-> "delivered", refused |-> "failed", lost |-> "abort"]]
Scenario == [retried |-> {}, outcome |-> [ok |-> "delivered", lost |-> "abort"]]
Inbound == [retried |-> {}, outcome |-> [ok |-> "delivered", lost |-> "abort"]]
Notification == [retried |-> {}, outcome |-> [ok |-> "delivered", lost |-> "failed"]]

Policy ==
  [webhook |-> Webhook, destination |-> Destination, warehouse |-> Warehouse,
   scenario |-> Scenario, inbound |-> Inbound, notification |-> Notification]
Kinds == DOMAIN Policy

\* The receiver has the item after a 2xx, and may have it when no answer comes; one
\* that points elsewhere has not taken it.
Accepting == {"ok"}
Possible(answer) == IF answer \in Accepting THEN {1} ELSE IF answer = "lost" THEN {0, 1} ELSE {0}
\* The outcomes a sync reports as delivered.
Hailed == {"delivered", "redirected"}

ASSUME DeliveryAssumption ==
  /\ ExtraAttempts \in Nat /\ MaxJobItems \in Nat
  /\ IsFiniteSet(Handlers)
  /\ \A j \in Jobs : j.kind \in Kinds /\ j.items \in Seq(Items) /\ Len(j.items) \in 1..MaxJobItems

VARIABLES
  allowed,    \* the gate: who has granted the purpose the jobs ask for
  delivered,  \* deliveredKeys: the items destination syncs delivered
  work,       \* per handler: the job and how far it is
  refused,    \* history, per handler: was the consent of its current item missing when
              \* the job came to it, and ever since
  reported    \* history, per item: syncs that reported it delivered since boot

deliveryVars == <<allowed, delivered, work, refused, reported>>

NoJob == [kind |-> "none", items |-> <<>>, at |-> "idle", place |-> 0, attempt |-> 0,
          outcome |-> <<>>, got |-> <<>>]
JobOf(j) ==
  [kind |-> j.kind, items |-> j.items, at |-> "next", place |-> 1, attempt |-> 0,
   outcome |-> [i \in 1..Len(j.items) |-> "open"], got |-> [i \in 1..Len(j.items) |-> 0]]

Outcomes == {"open", "chosen", "delivered", "redirected", "failed", "skipped", "duplicate", "dropped"}

DeliveryInit ==
  /\ allowed = {}
  /\ delivered = {}
  /\ work = [h \in Handlers |-> NoJob]
  /\ refused = [h \in Handlers |-> FALSE]
  /\ reported = [k \in Items |-> 0]

Item(h) == work[h].items[work[h].place]
AtItem(h) == work[h].place \in 1..Len(work[h].items)
More(h) == work[h].at = "next" /\ work[h].place <= Len(work[h].items)

Missing(items, place) ==
  place <= Len(items) /\ items[place].gated /\ items[place].to \notin allowed

\* The current item gets its outcome and the job comes to the next one.
Settled(job, outcome, got) ==
  [kind |-> job.kind, items |-> job.items, at |-> "next", place |-> job.place + 1, attempt |-> 0,
   outcome |-> [job.outcome EXCEPT ![job.place] = outcome],
   got |-> [job.got EXCEPT ![job.place] = @ + got]]
SettleAs(h, outcome, got) ==
  /\ work' = [work EXCEPT ![h] = Settled(@, outcome, got)]
  /\ refused' = [refused EXCEPT ![h] = Missing(work[h].items, work[h].place + 1)]

\* Mutant: the gate is asked about the first item only.
PermitsAsFirst(h) == Item(h).gated => work[h].items[1].to \in allowed

Permits(h) == Item(h).gated => Item(h).to \in allowed

GoTo(h, at) == work' = [work EXCEPT ![h].at = at] /\ UNCHANGED refused

\* A request whose job passed the checks of its route.
Start(h, j) ==
  /\ work[h] = NoJob
  /\ work' = [work EXCEPT ![h] = JobOf(j)]
  /\ refused' = [refused EXCEPT ![h] = Missing(j.items, 1)]
  /\ UNCHANGED <<allowed, delivered, reported>>

\* A destination sync looks the key up and asks the gate; the request to the
\* receiver goes out in a later turn.
TakeProfile(h) ==
  /\ work[h].kind = "destination" /\ More(h)
  /\ \/ Item(h) \in delivered /\ SettleAs(h, "duplicate", 0)
     \/ Item(h) \notin delivered /\ ~Permits(h) /\ SettleAs(h, "skipped", 0)
     \/ Item(h) \notin delivered /\ Permits(h) /\ GoTo(h, "checked")
  /\ UNCHANGED <<allowed, delivered, reported>>

SendProfile(h) ==
  /\ work[h].at = "checked"
  /\ GoTo(h, "call")
  /\ UNCHANGED <<allowed, delivered, reported>>

\* A scenario asks the gate and calls the messenger in the same turn.
TakeStep(h) ==
  /\ work[h].kind = "scenario" /\ More(h)
  /\ IF Item(h).calls /\ Permits(h) THEN GoTo(h, "call") ELSE SettleAs(h, "skipped", 0)
  /\ UNCHANGED <<allowed, delivered, reported>>

\* Webhooks, warehouse batches and inbound events ask nobody.
TakeUnchecked(h) ==
  /\ work[h].kind \in {"webhook", "warehouse", "inbound"} /\ More(h)
  /\ GoTo(h, "call")
  /\ UNCHANGED <<allowed, delivered, reported>>

\* selectChannels: one channel after the other, before any is sent to.
SelectChannel(h) ==
  /\ work[h].kind = "notification" /\ More(h)
  /\ SettleAs(h, IF Permits(h) THEN "chosen" ELSE "dropped", 0)
  /\ UNCHANGED <<allowed, delivered, reported>>

Selected(h) ==
  /\ work[h].kind = "notification" /\ work[h].at = "next"
  /\ work[h].place > Len(work[h].items)

\* dispatch: all selected channels at once; one without a sender is skipped.
FanOut(h) ==
  /\ Selected(h)
  /\ GoTo(h, "fanout")
  /\ UNCHANGED <<allowed, delivered, reported>>

ChannelSkipped(h, i) ==
  /\ work[h].at = "fanout" /\ work[h].outcome[i] = "chosen" /\ ~work[h].items[i].calls
  /\ work' = [work EXCEPT ![h].outcome[i] = "skipped"]
  /\ UNCHANGED <<allowed, delivered, refused, reported>>
ChannelAnswered(h, i, answer, got) ==
  /\ work[h].at = "fanout" /\ work[h].outcome[i] = "chosen" /\ work[h].items[i].calls
  /\ work' = [work EXCEPT ![h].outcome[i] = Notification.outcome[answer], ![h].got[i] = got]
  /\ UNCHANGED <<allowed, delivered, refused, reported>>

\* An answer that is retried while attempts are left.  A warehouse batch is
\* loaded again in the same turn, the others after a delay.
Again(h, answer, got) ==
  /\ work[h].at = "call"
  /\ answer \in Policy[work[h].kind].retried /\ work[h].attempt < ExtraAttempts
  /\ work' = [work EXCEPT ![h].got[work[h].place] = @ + got,
                ![h].at = IF work[h].kind = "warehouse" THEN "call" ELSE "sleep",
                ![h].attempt = IF work[h].kind = "warehouse" THEN @ + 1 ELSE @]
  /\ UNCHANGED <<allowed, delivered, refused, reported>>

\* Mutant: the attempts are not counted.
WakeUpUncounted(h) ==
  /\ work[h].at = "sleep"
  /\ work' = [work EXCEPT ![h].at = "call"]
  /\ UNCHANGED <<allowed, delivered, refused, reported>>

WakeUp(h) ==
  /\ work[h].at = "sleep"
  /\ work' = [work EXCEPT ![h].at = "call", ![h].attempt = @ + 1]
  /\ UNCHANGED <<allowed, delivered, refused, reported>>

\* One that is not.
Final(h, answer) ==
  /\ work[h].at = "call"
  /\ answer \in Policy[work[h].kind].retried => work[h].attempt >= ExtraAttempts

\* Mutant: a key is not remembered.
AnsweredForgotten(h, answer, got) ==
  LET outcome == Policy[work[h].kind].outcome[answer] IN
  /\ Final(h, answer)
  /\ outcome # "abort"
  /\ SettleAs(h, outcome, got)
  /\ reported' = IF work[h].kind = "destination" /\ outcome \in Hailed
                 THEN [reported EXCEPT ![Item(h)] = @ + 1] ELSE reported
  /\ UNCHANGED <<allowed, delivered>>

Answered(h, answer, got) ==
  LET outcome == Policy[work[h].kind].outcome[answer] IN
  /\ Final(h, answer)
  /\ outcome # "abort"
  /\ SettleAs(h, outcome, got)
  /\ IF work[h].kind = "destination" /\ outcome \in Hailed
     THEN /\ delivered' = delivered \cup {Item(h)}
          /\ reported' = [reported EXCEPT ![Item(h)] = @ + 1]
     ELSE UNCHANGED <<delivered, reported>>
  /\ UNCHANGED allowed

\* The exception leaves the loop: the request is answered with an error, and what
\* was done for the items before is told to nobody.
Abort(h, answer) ==
  /\ Final(h, answer)
  /\ Policy[work[h].kind].outcome[answer] = "abort"
  /\ work' = [work EXCEPT ![h] = NoJob]
  /\ UNCHANGED <<allowed, delivered, refused, reported>>

Reply(h) ==
  /\ work[h].at = IF work[h].kind = "notification" THEN "fanout" ELSE "next"
  /\ work[h].place > Len(work[h].items)
  /\ \A i \in DOMAIN work[h].outcome : work[h].outcome[i] \notin {"open", "chosen"}
  /\ work' = [work EXCEPT ![h] = NoJob]
  /\ UNCHANGED <<allowed, delivered, refused, reported>>

\* POST /v1/consent.
Allow(r) ==
  /\ allowed' = allowed \cup {r}
  /\ refused' = [h \in Handlers |-> refused[h] /\ ~(AtItem(h) /\ Item(h).to = r)]
  /\ UNCHANGED <<delivered, work, reported>>
Refuse(r) == allowed' = allowed \ {r} /\ UNCHANGED <<delivered, work, refused, reported>>

\* The gate is hydrated from its table at boot; the keys and the jobs are lost.
Restart ==
  /\ delivered' = {}
  /\ work' = [h \in Handlers |-> NoJob]
  /\ refused' = [h \in Handlers |-> FALSE]
  /\ reported' = [k \in Items |-> 0]
  /\ UNCHANGED allowed

Progress(h) ==
  \/ TakeProfile(h) \/ SendProfile(h) \/ TakeStep(h) \/ TakeUnchecked(h)
  \/ SelectChannel(h) \/ FanOut(h) \/ WakeUp(h) \/ Reply(h)
  \/ work[h].at = "call" /\ \E answer \in DOMAIN Policy[work[h].kind].outcome :
       \/ \E got \in Possible(answer) : Again(h, answer, got) \/ Answered(h, answer, got)
       \/ Abort(h, answer)
  \/ \E i \in DOMAIN work[h].outcome, answer \in DOMAIN Notification.outcome :
       \E got \in Possible(answer) : ChannelAnswered(h, i, answer, got)
  \/ \E i \in DOMAIN work[h].outcome : ChannelSkipped(h, i)

DeliveryNext ==
  \/ \E h \in Handlers : (\E j \in Jobs : Start(h, j)) \/ Progress(h)
  \/ \E r \in Receivers : Allow(r) \/ Refuse(r)
  \/ Restart

\* Timers fire, and every request to a receiver is answered or times out.
DeliveryFairness == \A h \in Handlers : WF_deliveryVars(Progress(h))

DeliverySafeSpec == DeliveryInit /\ [][DeliveryNext]_deliveryVars
DeliverySpec == DeliverySafeSpec /\ DeliveryFairness

-----------------------------------------------------------------------------
\* The type invariant of the jobs.
JobStates ==
  [kind : Kinds, items : Seq(Items), at : {"next", "checked", "call", "sleep", "fanout"},
   place : Nat \ {0}, attempt : 0..ExtraAttempts, outcome : Seq(Outcomes), got : Seq(Nat)]
DeliveryTypeOK ==
  /\ allowed \subseteq Receivers /\ delivered \subseteq Items
  /\ refused \in [Handlers -> BOOLEAN]
  /\ reported \in [Items -> Nat]
  /\ work \in [Handlers -> JobStates \cup {NoJob}]
  /\ \A h \in Handlers : work[h] # NoJob =>
       /\ Len(work[h].outcome) = Len(work[h].items) /\ Len(work[h].got) = Len(work[h].items)
       /\ Len(work[h].items) \in 1..MaxJobItems /\ work[h].place <= Len(work[h].items) + 1

\* Each job keeps what Outbox promises: one final outcome per item, "delivered"
\* only for what the receiver took, "skipped" only for what it never saw.  A sync
\* alone is lenient: what it reports as delivered may have been redirected (3xx)
\* and taken by nobody; a webhook that is redirected has failed.
OutcomeOf(h) == [i \in DOMAIN work[h].outcome |->
  IF work[h].outcome[i] = "chosen" THEN "open" ELSE work[h].outcome[i]]
Out == INSTANCE Outbox WITH
  MaxItems <- MaxJobItems,
  outcome <- [h \in Handlers |-> OutcomeOf(h)],
  accepted <- [h \in Handlers |-> work[h].got],
  lenient <- [h \in Handlers |-> work[h].kind = "destination"]
ImplementsOutbox == Out!Spec

\* A receiver whose consent is missing is first called only if it was granted
\* when the job came to it; a scenario does not even do that.
Calls(h) == work[h].at # "call" /\ work'[h].at = "call" /\ work[h].attempt = work'[h].attempt
OptOutStopsCalls ==
  [][\A h \in Handlers : Calls(h) /\ Item(h).gated =>
       CASE work[h].kind = "destination" -> ~refused[h]
         [] work[h].kind = "scenario" -> Item(h).to \in allowed
         [] OTHER -> TRUE]_deliveryVars

\* A key is reported as delivered once, unless syncs overlap: each handler adds at
\* most one delivery to it until the next restart, however often syncs are asked for.
DuplicatesNeedOverlap == \A k \in Items : reported[k] <= Cardinality(Handlers)

\* Every job is answered or fails, whatever its receivers answer.
EveryJobEnds == \A h \in Handlers : work[h] # NoJob ~> work[h] = NoJob
=============================================================================
