----------------------------- MODULE EmailCampaign -----------------------------
(***************************************************************************)
(* POST /v1/tenants/:id/email/campaigns (apps/api/src/routes/email.ts) and *)
(* sendCampaign (modules/email/src/campaign.ts) for one tenant, over its   *)
(* usage counters (apps/api/src/usage-meter.ts), while recipients change   *)
(* their consent and other campaigns of the tenant run.                    *)
(*                                                                         *)
(* No code changes a tenant's plan or status while the API runs, so the    *)
(* limit is a constant, and a suspended tenant one whose limit is zero.    *)
(***************************************************************************)
EXTENDS Naturals, FiniteSets

CONSTANTS
  Campaigns,   \* handlers of campaign requests
  Recipients,  \* profiles with an email
  Limit,       \* emailsPerMonth of the tenant's plan
  Periods,     \* bound: 0..Periods are the billing months of a behaviour
  MaxMails,    \* bound: no campaign starts once so many mails were sent
  NoOne        \* no recipient is being sent to

ASSUME CampaignAssumption ==
  /\ Limit \in Nat /\ Periods \in Nat /\ MaxMails \in Nat
  /\ IsFiniteSet(Campaigns) /\ IsFiniteSet(Recipients)
  /\ NoOne \notin Recipients

VARIABLES
  allowed,    \* the gate: purpose marketing_email, per recipient
  period,     \* the billing month
  usage,      \* the counter emailsPerMonth of each month
  run,        \* per handler: what it awaits, who is left, who is being sent to
              \* and how many mails it has sent
  mailed,     \* history: mails the provider accepted
  uncounted,  \* history: those of campaigns that ended without being recorded
  onTheWay    \* history, per recipient: the campaigns that were sending to it
              \* when it opted out

campaignVars == <<allowed, period, usage, run, mailed, uncounted, onTheWay>>

NotRunning == [at |-> "idle", todo |-> {}, to |-> NoOne, sent |-> 0]

\* The type invariant.
CampaignTypeOK ==
  /\ allowed \in [Recipients -> BOOLEAN]
  /\ period \in 0..Periods
  /\ usage \in [0..Periods -> Nat]
  /\ run \in [Campaigns ->
       [at : {"idle", "usage", "list", "next", "send", "record"}, todo : SUBSET Recipients,
        to : Recipients \cup {NoOne}, sent : Nat]]
  /\ \A c \in Campaigns :
       /\ run[c].at = "send" <=> run[c].to # NoOne
       /\ run[c].to \notin run[c].todo
       /\ run[c].at = "record" => run[c].sent > 0
       /\ run[c].at \in {"idle", "usage", "list"} => run[c].sent = 0
  /\ mailed \in Nat /\ uncounted \in Nat
  /\ onTheWay \in [Recipients -> SUBSET Campaigns]

\* marketing_email is an opt-in.
CampaignInit ==
  /\ allowed = [p \in Recipients |-> FALSE]
  /\ period = 0
  /\ usage = [m \in 0..Periods |-> 0]
  /\ run = [c \in Campaigns |-> NotRunning]
  /\ mailed = 0
  /\ uncounted = 0
  /\ onTheWay = [p \in Recipients |-> {}]

SendingTo(p) == {c \in Campaigns : run[c].to = p}

\* POST /v1/consent changes the gate.
OptIn(p) ==
  /\ allowed' = [allowed EXCEPT ![p] = TRUE]
  /\ UNCHANGED <<period, usage, run, mailed, uncounted, onTheWay>>

OptOut(p) ==
  /\ allowed[p]
  /\ allowed' = [allowed EXCEPT ![p] = FALSE]
  /\ onTheWay' = [onTheWay EXCEPT ![p] = SendingTo(p)]
  /\ UNCHANGED <<period, usage, run, mailed, uncounted>>

\* A new month: a new counter.
RollOver ==
  /\ period < Periods
  /\ period' = period + 1
  /\ UNCHANGED <<allowed, usage, run, mailed, uncounted, onTheWay>>

\* Authenticated as an admin of the tenant, parsed, the account found.
Start(c) ==
  /\ run[c].at = "idle" /\ mailed < MaxMails
  /\ run' = [run EXCEPT ![c].at = "usage"]
  /\ UNCHANGED <<allowed, period, usage, mailed, uncounted, onTheWay>>

\* Mutant: the counter is read and forgotten.
ReadUsageOnly(c) ==
  /\ run[c].at = "usage"
  /\ run' = [run EXCEPT ![c].at = "list"]
  /\ UNCHANGED <<allowed, period, usage, mailed, uncounted, onTheWay>>

\* The counter of the month is read and held against the limit, once: 402, or on.
ReadUsage(c) ==
  /\ run[c].at = "usage"
  /\ run' = [run EXCEPT ![c].at = IF usage[period] < Limit THEN "list" ELSE "idle"]
  /\ UNCHANGED <<allowed, period, usage, mailed, uncounted, onTheWay>>

\* The profiles are listed; the trigger selects some.
List(c) ==
  /\ run[c].at = "list"
  /\ \E selected \in SUBSET Recipients :
       run' = [run EXCEPT ![c].at = "next", ![c].todo = selected]
  /\ UNCHANGED <<allowed, period, usage, mailed, uncounted, onTheWay>>

\* Mutant: consent is not asked for.
AdmitAnyone(c, p) ==
  /\ run[c].at = "next" /\ p \in run[c].todo
  /\ run' = [run EXCEPT ![c].at = "send", ![c].to = p, ![c].todo = @ \ {p}]
  /\ UNCHANGED <<allowed, period, usage, mailed, uncounted, onTheWay>>

\* The gate admits the next recipient: the mail is generated and sent off.
Admit(c, p) ==
  /\ run[c].at = "next" /\ p \in run[c].todo
  /\ allowed[p]
  /\ run' = [run EXCEPT ![c].at = "send", ![c].to = p, ![c].todo = @ \ {p}]
  /\ UNCHANGED <<allowed, period, usage, mailed, uncounted, onTheWay>>

\* The gate refuses it: skippedNoConsent.
Skip(c, p) ==
  /\ run[c].at = "next" /\ p \in run[c].todo
  /\ ~allowed[p]
  /\ run' = [run EXCEPT ![c].todo = @ \ {p}]
  /\ UNCHANGED <<allowed, period, usage, mailed, uncounted, onTheWay>>

Landed(c) == [p \in Recipients |-> onTheWay[p] \ (IF p = run[c].to THEN {c} ELSE {})]

\* The provider accepts the mail.
Sent(c) ==
  /\ run[c].at = "send"
  /\ mailed' = mailed + 1
  /\ run' = [run EXCEPT ![c].at = "next", ![c].to = NoOne, ![c].sent = @ + 1]
  /\ onTheWay' = Landed(c)
  /\ UNCHANGED <<allowed, period, usage, uncounted>>

\* Mutant: every recipient selected is charged for.
FinishChargingAll(c) ==
  /\ run[c].at = "next" /\ run[c].todo = {}
  /\ run' = [run EXCEPT ![c].at = "record", ![c].sent = Cardinality(Recipients)]
  /\ UNCHANGED <<allowed, period, usage, mailed, uncounted, onTheWay>>

\* Nobody is left: the number sent is recorded, if it is not zero.
Finish(c) ==
  /\ run[c].at = "next" /\ run[c].todo = {}
  /\ run' = IF run[c].sent = 0 THEN [run EXCEPT ![c] = NotRunning]
            ELSE [run EXCEPT ![c].at = "record"]
  /\ UNCHANGED <<allowed, period, usage, mailed, uncounted, onTheWay>>

\* One upsert adds the number to the counter of the month it is by now.
Record(c) ==
  /\ run[c].at = "record"
  /\ usage' = [usage EXCEPT ![period] = @ + run[c].sent]
  /\ run' = [run EXCEPT ![c] = NotRunning]
  /\ UNCHANGED <<allowed, period, mailed, uncounted, onTheWay>>

\* The provider throws or the process dies: 500 or no answer at all, and nothing is
\* recorded.  A mail may have been accepted although its answer was lost.
CampaignFails(c) ==
  /\ run[c].at \notin {"idle", "record"}
  /\ \E accepted \in IF run[c].at = "send" THEN {0, 1} ELSE {0} :
       /\ mailed' = mailed + accepted
       /\ uncounted' = uncounted + run[c].sent + accepted
  /\ run' = [run EXCEPT ![c] = NotRunning]
  /\ onTheWay' = Landed(c)
  /\ UNCHANGED <<allowed, period, usage>>

\* The upsert is refused: what was sent is never charged.  (If only its answer is
\* lost it is charged: that is Record.)
RecordFail(c) ==
  /\ run[c].at = "record"
  /\ uncounted' = uncounted + run[c].sent
  /\ run' = [run EXCEPT ![c] = NotRunning]
  /\ UNCHANGED <<allowed, period, usage, mailed, onTheWay>>

CampaignNext ==
  \/ \E p \in Recipients : OptIn(p) \/ OptOut(p)
  \/ RollOver
  \/ \E c \in Campaigns :
       \/ Start(c) \/ ReadUsage(c) \/ List(c)
       \/ \E p \in Recipients : Admit(c, p) \/ Skip(c, p)
       \/ Sent(c) \/ Finish(c) \/ Record(c)
       \/ CampaignFails(c) \/ RecordFail(c)

CampaignSpec == CampaignInit /\ [][CampaignNext]_campaignVars

-----------------------------------------------------------------------------
\* "Must return true only for subjects that have opted in": a mail to somebody who
\* has opted out is one that was being sent at that very moment, whoever else's
\* turn it was, in however many campaigns.
OptOutStopsMail ==
  \A c \in Campaigns, p \in Recipients :
    (run[c].to = p /\ ~allowed[p]) => c \in onTheWay[p]

\* What a function to numbers adds up to: the size of as many units.
Units(f) == UNION {{x} \X (1..f[x]) : x \in DOMAIN f}
AddedUp(f) == Cardinality(Units(f))

\* Every mail is charged once: it is in a counter, in a campaign that still runs,
\* or in one that failed.
EveryMailChargedOnce ==
  mailed = AddedUp(usage) + AddedUp([c \in Campaigns |-> run[c].sent]) + uncounted

\* A month that is charged at all ends above its limit by less than what all
\* handlers together can send: once it is reached no campaign begins, and those
\* that run end.
OvershootIsBounded ==
  \A m \in 0..Periods :
    usage[m] > 0 => usage[m] < Limit + Cardinality(Campaigns) * Cardinality(Recipients)
=============================================================================
