---------------------------- MODULE Delivery_proofs ----------------------------
(***************************************************************************)
(* The jobs that carry data to the outside, for any number of handlers,    *)
(* jobs, items and attempts: what an opt-out stops, how often a sync can   *)
(* report one delivery, and that the jobs implement Outbox.  And of the    *)
(* process they run in, for any number of requests and whatever sinks its  *)
(* environment names: what a stop in good order leaves undone.             *)
(***************************************************************************)
EXTENDS Delivery, ApiProcess, FiniteSetTheorems, TLAPS

\* A request of the job is out, or is about to go.
OnTheWay == {"checked", "call", "sleep"}

\* Where a job can be: at an item while a request of it is out, and asleep only
\* before an attempt that is left.
PlaceOK ==
  \A h \in Handlers :
    /\ work[h].at \in OnTheWay => AtItem(h)
    /\ work[h].at = "checked" => work[h].kind = "destination"
    /\ work[h].at = "sleep" => work[h].attempt < ExtraAttempts

LEMMA PolicyFacts ==
  \A kind \in Kinds :
    /\ DOMAIN Policy[kind].outcome \subseteq {"ok", "moved", "refused", "error", "lost"}
    /\ \A answer \in DOMAIN Policy[kind].outcome : Policy[kind].outcome[answer] \in Outcomes \cup {"abort"}
    /\ Policy["notification"] = Notification
BY DEF Kinds, Policy, Webhook, Destination, Warehouse, Scenario, Inbound, Notification, Outcomes

LEMMA ChannelFacts ==
  \A answer \in DOMAIN Notification.outcome : Notification.outcome[answer] \in {"delivered", "failed"}
BY DEF Notification

LEMMA TypeInit == DeliveryInit => DeliveryTypeOK
BY DEF DeliveryInit, DeliveryTypeOK, NoJob

\* A job that starts, and one whose current item gets its outcome, are states of jobs.
LEMMA StartTyped ==
  ASSUME NEW j \in Jobs
  PROVE  JobOf(j) \in JobStates /\ JobOf(j) # NoJob
         /\ Len(JobOf(j).outcome) = Len(j.items) /\ Len(JobOf(j).got) = Len(j.items)
<1>1. j.kind \in Kinds /\ j.items \in Seq(Items) /\ Len(j.items) \in 1..MaxJobItems
  BY DeliveryAssumption
<1>2. Len(j.items) \in Nat /\ ExtraAttempts \in Nat BY <1>1, DeliveryAssumption
<1>3. [i \in 1..Len(j.items) |-> "open"] \in Seq(Outcomes) /\ [i \in 1..Len(j.items) |-> 0] \in Seq(Nat)
  BY <1>2 DEF Outcomes
<1>4. Len([i \in 1..Len(j.items) |-> "open"]) = Len(j.items) /\ Len([i \in 1..Len(j.items) |-> 0]) = Len(j.items)
  BY <1>2
<1> QED BY <1>1, <1>2, <1>3, <1>4 DEF JobOf, JobStates, NoJob

\* What one handler's new record must satisfy.
JobOK(w) ==
  w # NoJob =>
    /\ w \in JobStates
    /\ Len(w.outcome) = Len(w.items) /\ Len(w.got) = Len(w.items)
    /\ Len(w.items) \in 1..MaxJobItems /\ w.place <= Len(w.items) + 1

LEMMA JobTyped ==
  ASSUME DeliveryTypeOK, NEW h \in Handlers
  PROVE  /\ JobOK(work[h])
         /\ work[h] # NoJob <=> work[h].at # "idle"
         /\ work[h] # NoJob <=> work[h].kind \in Kinds
BY DEF DeliveryTypeOK, JobOK, JobStates, NoJob, Kinds, Policy

LEMMA WorkStep ==
  ASSUME DeliveryTypeOK, NEW h \in Handlers, NEW w, JobOK(w), work' = [work EXCEPT ![h] = w],
         allowed' = allowed, delivered' \subseteq Items, refused' \in [Handlers -> BOOLEAN],
         reported' \in [Items -> Nat],
         PlaceOK, w.at \in OnTheWay => w.place \in 1..Len(w.items),
         w.at = "checked" => w.kind = "destination",
         w.at = "sleep" => w.attempt < ExtraAttempts
  PROVE  DeliveryTypeOK' /\ PlaceOK'
<1>1. work' \in [Handlers -> JobStates \cup {NoJob}]
  BY DEF DeliveryTypeOK, JobOK
<1>2. \A g \in Handlers : JobOK(work'[g])
  BY JobTyped DEF DeliveryTypeOK
<1>3. DeliveryTypeOK'
  BY <1>1, <1>2 DEF DeliveryTypeOK, JobOK
<1>4. \A g \in Handlers : g # h => work'[g] = work[g]
  BY DEF DeliveryTypeOK
<1>5. work'[h] = w
  BY DEF DeliveryTypeOK
<1> QED BY <1>3, <1>4, <1>5 DEF PlaceOK, AtItem

LEMMA SettledShape ==
  ASSUME DeliveryTypeOK, NEW h \in Handlers, work[h] # NoJob, AtItem(h),
         NEW outcome \in Outcomes, NEW got \in Nat, SettleAs(h, outcome, got)
  PROVE  /\ work' = [work EXCEPT ![h] = Settled(work[h], outcome, got)]
         /\ JobOK(Settled(work[h], outcome, got))
         /\ refused' \in [Handlers -> BOOLEAN]
<1>1. /\ work[h] \in JobStates /\ Len(work[h].items) \in 1..MaxJobItems
      /\ Len(work[h].outcome) = Len(work[h].items) /\ Len(work[h].got) = Len(work[h].items)
      /\ work[h].place \in 1..Len(work[h].items)
  BY JobTyped DEF JobOK, AtItem
<1>2. /\ work[h].kind \in Kinds /\ work[h].items \in Seq(Items) /\ work[h].outcome \in Seq(Outcomes)
      /\ work[h].got \in Seq(Nat) /\ ExtraAttempts \in Nat /\ MaxJobItems \in Nat
  BY <1>1, DeliveryAssumption DEF JobStates
<1> DEFINE o == [work[h].outcome EXCEPT ![work[h].place] = outcome]
           g == [work[h].got EXCEPT ![work[h].place] = @ + got]
           n == work[h].place + 1
<1>3. o \in Seq(Outcomes) /\ Len(o) = Len(work[h].items)
  BY <1>1, <1>2
<1>4. g \in Seq(Nat) /\ Len(g) = Len(work[h].items)
  BY <1>1, <1>2
<1>5. n \in Nat \ {0} /\ n <= Len(work[h].items) + 1
  BY <1>1, <1>2
<1>6. Settled(work[h], outcome, got) =
        [kind |-> work[h].kind, items |-> work[h].items, at |-> "next", place |-> n, attempt |-> 0,
         outcome |-> o, got |-> g]
  BY DEF Settled
<1> HIDE DEF o, g, n
<1>7. Settled(work[h], outcome, got) \in JobStates
  BY <1>2, <1>3, <1>4, <1>5, <1>6 DEF JobStates
<1>8. JobOK(Settled(work[h], outcome, got))
  BY <1>1, <1>3, <1>4, <1>5, <1>6, <1>7 DEF JobOK
<1>9. refused' \in [Handlers -> BOOLEAN]
  BY DEF SettleAs, DeliveryTypeOK, Missing
<1>10. work' = [work EXCEPT ![h] = Settled(work[h], outcome, got)]
  BY DEF SettleAs
<1> QED BY <1>8, <1>9, <1>10

\* The steps that change the state, the attempt, or one channel of a job.
LEMMA MovedShape ==
  ASSUME DeliveryTypeOK, NEW h \in Handlers, work[h] # NoJob,
         NEW at \in {"next", "checked", "call", "sleep", "fanout"}, NEW attempt \in 0..ExtraAttempts,
         NEW i \in 1..Len(work[h].items), NEW outcome \in Outcomes, NEW got \in Nat
  PROVE  /\ JobOK([work[h] EXCEPT !.at = at, !.attempt = attempt])
         /\ JobOK([work[h] EXCEPT !.at = at])
         /\ JobOK([work[h] EXCEPT !.got[i] = got, !.at = at, !.attempt = attempt])
         /\ JobOK([work[h] EXCEPT !.outcome[i] = outcome, !.got[i] = got])
         /\ JobOK([work[h] EXCEPT !.outcome[i] = outcome])
<1>1. /\ work[h] \in JobStates /\ Len(work[h].items) \in 1..MaxJobItems
      /\ Len(work[h].outcome) = Len(work[h].items) /\ Len(work[h].got) = Len(work[h].items)
      /\ work[h].place <= Len(work[h].items) + 1
  BY JobTyped DEF JobOK
<1> DEFINE o == [work[h].outcome EXCEPT ![i] = outcome]
           g == [work[h].got EXCEPT ![i] = got]
<1>0. work[h].outcome \in Seq(Outcomes) /\ work[h].got \in Seq(Nat)
  BY <1>1 DEF JobStates
<1>2. o \in Seq(Outcomes) /\ Len(o) = Len(work[h].items)
  BY <1>0, <1>1
<1>3. g \in Seq(Nat) /\ Len(g) = Len(work[h].items)
  BY <1>0, <1>1
<1>4. /\ [work[h] EXCEPT !.at = at, !.attempt = attempt] \in JobStates
      /\ [work[h] EXCEPT !.at = at] \in JobStates
  BY <1>1 DEF JobStates
<1> HIDE DEF o, g
<1>5. /\ [work[h] EXCEPT !.got = g, !.at = at, !.attempt = attempt] \in JobStates
      /\ [work[h] EXCEPT !.outcome = o, !.got = g] \in JobStates
      /\ [work[h] EXCEPT !.outcome = o] \in JobStates
  BY <1>1, <1>2, <1>3 DEF JobStates
<1>6. /\ JobOK([work[h] EXCEPT !.at = at, !.attempt = attempt])
      /\ JobOK([work[h] EXCEPT !.at = at])
  BY <1>1, <1>4 DEF JobOK, JobStates
<1>7. /\ JobOK([work[h] EXCEPT !.got = g, !.at = at, !.attempt = attempt])
      /\ JobOK([work[h] EXCEPT !.outcome = o, !.got = g])
      /\ JobOK([work[h] EXCEPT !.outcome = o])
  BY <1>1, <1>2, <1>3, <1>5 DEF JobOK, JobStates
<1> QED BY <1>6, <1>7 DEF o, g

\* The places of the items of a job are those of its outcomes.
LEMMA Places ==
  ASSUME DeliveryTypeOK, NEW h \in Handlers, work[h] # NoJob
  PROVE  /\ DOMAIN work[h].outcome = 1..Len(work[h].items)
         /\ More(h) => AtItem(h)
         /\ work[h].place \in Nat \ {0} /\ work[h].attempt \in 0..ExtraAttempts
         /\ work[h].kind \in Kinds
<1>1. work[h] \in JobStates /\ Len(work[h].outcome) = Len(work[h].items)
  BY JobTyped DEF JobOK
<1>2. work[h].outcome \in Seq(Outcomes) /\ work[h].items \in Seq(Items)
      /\ work[h].place \in Nat \ {0} /\ work[h].attempt \in 0..ExtraAttempts /\ work[h].kind \in Kinds
  BY <1>1 DEF JobStates
<1>3. DOMAIN work[h].outcome = 1..Len(work[h].items)
  BY <1>1, <1>2
<1> QED BY <1>2, <1>3 DEF More, AtItem

\* The current item of a job gets its outcome.
LEMMA SettleStep ==
  ASSUME DeliveryTypeOK, PlaceOK, NEW h \in Handlers, work[h] # NoJob, AtItem(h),
         NEW outcome \in Outcomes, NEW got \in Nat, SettleAs(h, outcome, got),
         allowed' = allowed, delivered' \subseteq Items, reported' \in [Items -> Nat]
  PROVE  DeliveryTypeOK' /\ PlaceOK'
<1>1. /\ work' = [work EXCEPT ![h] = Settled(work[h], outcome, got)]
      /\ JobOK(Settled(work[h], outcome, got))
      /\ refused' \in [Handlers -> BOOLEAN]
  BY SettledShape
<1>2. Settled(work[h], outcome, got).at = "next"
  BY DEF Settled
<1> QED BY <1>1, <1>2, WorkStep DEF OnTheWay

\* The job changes the state it is in.
LEMMA GoToStep ==
  ASSUME DeliveryTypeOK, PlaceOK, NEW h \in Handlers, work[h] # NoJob,
         NEW at \in {"checked", "call", "fanout"}, GoTo(h, at),
         at \in OnTheWay => AtItem(h), at = "checked" => work[h].kind = "destination",
         UNCHANGED <<allowed, delivered, reported>>
  PROVE  DeliveryTypeOK' /\ PlaceOK'
<1> DEFINE w == [work[h] EXCEPT !.at = at]
<1>1. work' = [work EXCEPT ![h] = w] /\ refused' = refused
  BY DEF GoTo
<1>2. JobOK(w)
  <2>1. work[h].attempt \in 0..ExtraAttempts /\ 1 \in 1..Len(work[h].items)
    BY Places, JobTyped, DeliveryAssumption DEF JobOK
  <2> QED BY <2>1, MovedShape DEF Outcomes
<1>3. w.place = work[h].place /\ w.items = work[h].items /\ w.kind = work[h].kind /\ w.at = at
  BY JobTyped DEF JobOK, JobStates
<1> HIDE DEF w
<1>4. /\ allowed' = allowed /\ delivered' \subseteq Items /\ refused' \in [Handlers -> BOOLEAN]
      /\ reported' \in [Items -> Nat]
  BY <1>1 DEF DeliveryTypeOK
<1> QED BY <1>1, <1>2, <1>3, <1>4, WorkStep DEF AtItem

LEMMA AttemptStep ==
  ASSUME DeliveryTypeOK, PlaceOK, NEW h \in Handlers,
         \/ WakeUp(h)
         \/ \E answer \in DOMAIN Policy[work[h].kind].outcome : \E got \in Possible(answer) : Again(h, answer, got)
  PROVE  DeliveryTypeOK' /\ PlaceOK'
<1>1. work[h].at \in {"sleep", "call"} /\ work[h] # NoJob
  BY JobTyped DEF WakeUp, Again
<1>2. /\ work[h] \in JobStates /\ work[h].got \in Seq(Nat) /\ ExtraAttempts \in Nat
      /\ work[h].attempt \in 0..ExtraAttempts /\ work[h].place \in 1..Len(work[h].items)
      /\ Len(work[h].got) = Len(work[h].items)
  BY <1>1, JobTyped, DeliveryAssumption DEF JobOK, JobStates, PlaceOK, OnTheWay, AtItem
<1> DEFINE old == work[h].got[work[h].place]
<1>3. old \in Nat /\ old + 0 = old
  BY <1>2
<1>4. CASE WakeUp(h)
  <2> DEFINE w == [work[h] EXCEPT !.at = "call", !.attempt = work[h].attempt + 1]
  <2>1. work' = [work EXCEPT ![h] = w]
    BY <1>4 DEF WakeUp
  <2>2. work[h].attempt + 1 \in 0..ExtraAttempts
    BY <1>2, <1>4 DEF PlaceOK, WakeUp
  <2>3. JobOK(w)
    BY <1>1, <1>2, <2>2, MovedShape DEF Outcomes
  <2>4. w.at = "call" /\ w.place = work[h].place /\ w.items = work[h].items
    BY <1>2 DEF JobStates
  <2> HIDE DEF w
  <2> QED BY <1>2, <1>4, <2>1, <2>3, <2>4, WorkStep DEF WakeUp, DeliveryTypeOK
<1>5. ASSUME NEW answer \in DOMAIN Policy[work[h].kind].outcome, NEW got \in Possible(answer),
             Again(h, answer, got)
      PROVE  DeliveryTypeOK' /\ PlaceOK'
  <2> DEFINE at == IF work[h].kind = "warehouse" THEN "call" ELSE "sleep"
             attempt == IF work[h].kind = "warehouse" THEN work[h].attempt + 1 ELSE work[h].attempt
             sum == old + got
             w == [work[h] EXCEPT !.got[work[h].place] = sum, !.at = at, !.attempt = attempt]
  <2>1. work' = [work EXCEPT ![h] = w]
    BY <1>1, <1>2, <1>5 DEF Again, DeliveryTypeOK, JobStates
  <2>2. got \in Nat
    BY DEF Possible
  <2>3. sum \in Nat
    BY <1>3, <2>2
  <2>6. work[h].attempt < ExtraAttempts
    BY <1>5 DEF Again
  <2>7. at \in {"call", "sleep"} /\ attempt \in 0..ExtraAttempts /\ (at = "sleep" => attempt < ExtraAttempts)
    BY <1>2, <2>6
  <2> HIDE DEF sum, at, attempt, old
  <2>4. JobOK(w)
    BY <1>1, <1>2, <2>3, <2>7, MovedShape DEF Outcomes
  <2>5. w.at = at /\ w.attempt = attempt /\ w.place = work[h].place /\ w.items = work[h].items
    BY <1>2 DEF JobStates
  <2> HIDE DEF w
  <2> QED BY <1>2, <1>5, <2>1, <2>7, <2>4, <2>5, WorkStep DEF Again, DeliveryTypeOK
<1> QED BY <1>4, <1>5

LEMMA ChannelStep ==
  ASSUME DeliveryTypeOK, PlaceOK, NEW h \in Handlers, NEW i \in DOMAIN work[h].outcome,
         \/ ChannelSkipped(h, i)
         \/ \E answer \in DOMAIN Notification.outcome : \E got \in Possible(answer) :
              ChannelAnswered(h, i, answer, got)
  PROVE  DeliveryTypeOK' /\ PlaceOK'
<1>1. work[h].at = "fanout" /\ work[h] # NoJob
  BY JobTyped DEF ChannelSkipped, ChannelAnswered
<1>2. i \in 1..Len(work[h].items) /\ work[h] \in JobStates /\ ExtraAttempts \in Nat
  BY <1>1, Places, JobTyped, DeliveryAssumption DEF JobOK
<1>3. CASE ChannelSkipped(h, i)
  <2> DEFINE w == [work[h] EXCEPT !.outcome[i] = "skipped"]
  <2>1. work' = [work EXCEPT ![h] = w] BY <1>3 DEF ChannelSkipped
  <2>2. JobOK(w)
    <3>1. "skipped" \in Outcomes /\ 0 \in 0..ExtraAttempts BY <1>2 DEF Outcomes
    <3> QED BY <1>1, <1>2, <3>1, MovedShape
  <2>3. w.at = "fanout" BY <1>1, <1>2 DEF JobStates
  <2> HIDE DEF w
  <2> QED BY <1>3, <2>1, <2>2, <2>3, WorkStep DEF ChannelSkipped, DeliveryTypeOK, OnTheWay
<1>4. ASSUME NEW answer \in DOMAIN Notification.outcome, NEW got \in Possible(answer),
             ChannelAnswered(h, i, answer, got)
      PROVE  DeliveryTypeOK' /\ PlaceOK'
  <2> DEFINE outcome == Notification.outcome[answer]
             w == [work[h] EXCEPT !.outcome[i] = outcome, !.got[i] = got]
  <2>1. work' = [work EXCEPT ![h] = w]
    BY <1>1, <1>2, <1>4 DEF ChannelAnswered, DeliveryTypeOK, JobStates
  <2>2. outcome \in Outcomes /\ got \in Nat /\ 0 \in 0..ExtraAttempts
    BY <1>2, ChannelFacts DEF Outcomes, Possible
  <2> HIDE DEF outcome
  <2>3. JobOK(w)
    BY <1>1, <1>2, <2>2, MovedShape
  <2>4. w.at = "fanout" BY <1>1, <1>2 DEF JobStates
  <2> HIDE DEF w
  <2> QED BY <1>4, <2>1, <2>3, <2>4, WorkStep DEF ChannelAnswered, DeliveryTypeOK, OnTheWay
<1> QED BY <1>3, <1>4

LEMMA EmptyStep ==
  ASSUME DeliveryTypeOK, PlaceOK, NEW h \in Handlers, work' = [work EXCEPT ![h] = NoJob],
         allowed' = allowed, delivered' = delivered, refused' = refused, reported' = reported
  PROVE  DeliveryTypeOK' /\ PlaceOK'
<1>1. JobOK(NoJob) /\ NoJob.at = "idle" BY DEF JobOK, NoJob
<1> QED BY <1>1, WorkStep DEF DeliveryTypeOK, OnTheWay

LEMMA StartStep ==
  ASSUME DeliveryTypeOK, PlaceOK, NEW h \in Handlers, NEW j \in Jobs, Start(h, j)
  PROVE  DeliveryTypeOK' /\ PlaceOK'
<1>1. /\ work' = [work EXCEPT ![h] = JobOf(j)]
      /\ refused' = [refused EXCEPT ![h] = Missing(j.items, 1)]
      /\ UNCHANGED <<allowed, delivered, reported>>
  BY DEF Start
<1>2. JobOf(j).at = "next" /\ JobOf(j).items = j.items /\ JobOf(j).place = 1
  BY DEF JobOf
<1>3. Len(j.items) \in 1..MaxJobItems /\ MaxJobItems \in Nat
  BY DeliveryAssumption
<1>4. JobOK(JobOf(j))
  BY <1>2, <1>3, StartTyped DEF JobOK
<1>5. refused' \in [Handlers -> BOOLEAN]
  BY <1>1 DEF Missing, DeliveryTypeOK
<1> QED BY <1>1, <1>2, <1>4, <1>5, WorkStep DEF DeliveryTypeOK, OnTheWay

LEMMA TakeStepTyped ==
  ASSUME DeliveryTypeOK, PlaceOK, NEW h \in Handlers,
         TakeProfile(h) \/ SendProfile(h) \/ TakeStep(h) \/ TakeUnchecked(h) \/ SelectChannel(h) \/ FanOut(h)
  PROVE  DeliveryTypeOK' /\ PlaceOK'
<1>1. work[h] # NoJob
  BY JobTyped DEF TakeProfile, SendProfile, TakeStep, TakeUnchecked, SelectChannel, FanOut, Selected, More
<1>2. More(h) => AtItem(h)
  BY <1>1, Places
<1>3. delivered \subseteq Items /\ reported \in [Items -> Nat]
  BY DEF DeliveryTypeOK
<1>4. {"duplicate", "skipped", "chosen", "dropped"} \subseteq Outcomes /\ 0 \in Nat
  BY DEF Outcomes
<1>5. CASE TakeProfile(h)
  <2>1. AtItem(h) /\ work[h].kind = "destination" /\ UNCHANGED <<allowed, delivered, reported>>
    BY <1>2, <1>5 DEF TakeProfile
  <2>2. CASE SettleAs(h, "duplicate", 0)
    BY <1>1, <1>3, <1>4, <2>1, <2>2, SettleStep
  <2>3. CASE SettleAs(h, "skipped", 0)
    BY <1>1, <1>3, <1>4, <2>1, <2>3, SettleStep
  <2>4. CASE GoTo(h, "checked")
    BY <1>1, <2>1, <2>4, GoToStep
  <2> QED BY <1>5, <2>2, <2>3, <2>4 DEF TakeProfile
<1>6. CASE SendProfile(h)
  <2>1. AtItem(h) BY <1>6 DEF SendProfile, PlaceOK, OnTheWay
  <2> QED BY <1>1, <1>6, <2>1, GoToStep DEF SendProfile
<1>7. CASE TakeStep(h)
  <2>1. AtItem(h) /\ UNCHANGED <<allowed, delivered, reported>>
    BY <1>2, <1>7 DEF TakeStep
  <2>2. CASE GoTo(h, "call")
    BY <1>1, <2>1, <2>2, GoToStep
  <2>3. CASE SettleAs(h, "skipped", 0)
    BY <1>1, <1>3, <1>4, <2>1, <2>3, SettleStep
  <2> QED BY <1>7, <2>2, <2>3 DEF TakeStep
<1>8. CASE TakeUnchecked(h)
  BY <1>1, <1>2, <1>8, GoToStep DEF TakeUnchecked
<1>9. CASE SelectChannel(h)
  <2>1. AtItem(h) /\ UNCHANGED <<allowed, delivered, reported>>
    BY <1>2, <1>9 DEF SelectChannel
  <2>2. SettleAs(h, "chosen", 0) \/ SettleAs(h, "dropped", 0)
    BY <1>9 DEF SelectChannel
  <2> QED BY <1>1, <1>3, <1>4, <2>1, <2>2, SettleStep
<1>10. CASE FanOut(h)
  BY <1>1, <1>10, GoToStep DEF FanOut, OnTheWay
<1> QED BY <1>5, <1>6, <1>7, <1>8, <1>9, <1>10

LEMMA AnswerStep ==
  ASSUME DeliveryTypeOK, PlaceOK, NEW h \in Handlers,
         NEW answer \in DOMAIN Policy[work[h].kind].outcome,
         \/ \E got \in Possible(answer) : Answered(h, answer, got)
         \/ Abort(h, answer)
  PROVE  DeliveryTypeOK' /\ PlaceOK'
<1>1. work[h].at = "call" /\ work[h] # NoJob /\ AtItem(h)
  BY JobTyped DEF Answered, Abort, Final, PlaceOK, OnTheWay
<1>2. CASE Abort(h, answer)
  BY <1>2, EmptyStep DEF Abort
<1>3. ASSUME NEW got \in Possible(answer), Answered(h, answer, got)
      PROVE  DeliveryTypeOK' /\ PlaceOK'
  <2> DEFINE outcome == Policy[work[h].kind].outcome[answer]
  <2>1. outcome # "abort" /\ SettleAs(h, outcome, got) /\ allowed' = allowed
    BY <1>3 DEF Answered
  <2>2. outcome \in Outcomes
    BY <1>1, <2>1, Places, PolicyFacts
  <2>3. got \in Nat
    BY DEF Possible
  <2>4. Item(h) \in Items
    <3>1. work[h].items \in Seq(Items) BY <1>1, JobTyped DEF JobOK, JobStates
    <3> QED BY <1>1, <3>1 DEF Item, AtItem
  <2>5. delivered' \subseteq Items /\ reported' \in [Items -> Nat]
    BY <1>3, <2>4 DEF Answered, DeliveryTypeOK
  <2> HIDE DEF outcome
  <2> QED BY <1>1, <2>1, <2>2, <2>3, <2>5, SettleStep
<1> QED BY <1>2, <1>3

LEMMA TypeStep ==
  ASSUME DeliveryTypeOK, PlaceOK, [DeliveryNext]_deliveryVars
  PROVE  DeliveryTypeOK' /\ PlaceOK'
<1>1. CASE UNCHANGED deliveryVars
  BY <1>1 DEF deliveryVars, DeliveryTypeOK, PlaceOK, AtItem
<1>2. ASSUME NEW h \in Handlers, NEW j \in Jobs, Start(h, j) PROVE DeliveryTypeOK' /\ PlaceOK'
  BY <1>2, StartStep
<1>3. ASSUME NEW h \in Handlers, Progress(h) PROVE DeliveryTypeOK' /\ PlaceOK'
  <2>1. CASE TakeProfile(h) \/ SendProfile(h) \/ TakeStep(h) \/ TakeUnchecked(h) \/ SelectChannel(h) \/ FanOut(h)
    BY <2>1, TakeStepTyped
  <2>2. CASE WakeUp(h)
    BY <2>2, AttemptStep
  <2>3. CASE Reply(h)
    BY <2>3, EmptyStep DEF Reply
  <2>4. ASSUME NEW answer \in DOMAIN Policy[work[h].kind].outcome,
               \/ \E got \in Possible(answer) : Again(h, answer, got) \/ Answered(h, answer, got)
               \/ Abort(h, answer)
        PROVE  DeliveryTypeOK' /\ PlaceOK'
    BY <2>4, AttemptStep, AnswerStep
  <2>5. ASSUME NEW i \in DOMAIN work[h].outcome,
               \/ \E answer \in DOMAIN Notification.outcome :
                    \E got \in Possible(answer) : ChannelAnswered(h, i, answer, got)
               \/ ChannelSkipped(h, i)
        PROVE  DeliveryTypeOK' /\ PlaceOK'
    BY <2>5, ChannelStep
  <2> QED BY <1>3, <2>1, <2>2, <2>3, <2>4, <2>5 DEF Progress
<1>4. ASSUME NEW r \in Receivers, Allow(r) \/ Refuse(r) PROVE DeliveryTypeOK' /\ PlaceOK'
  <2>1. work' = work /\ delivered' = delivered /\ reported' = reported
    BY <1>4 DEF Allow, Refuse
  <2>2. allowed' \subseteq Receivers /\ refused' \in [Handlers -> BOOLEAN]
    BY <1>4 DEF Allow, Refuse, DeliveryTypeOK
  <2> QED BY <2>1, <2>2 DEF DeliveryTypeOK, PlaceOK, AtItem
<1>5. CASE Restart
  BY <1>5 DEF Restart, DeliveryTypeOK, PlaceOK, OnTheWay, NoJob
<1> QED BY <1>1, <1>2, <1>3, <1>4, <1>5 DEF DeliveryNext

\* The state of the jobs is what the types of the code say, however many there are.
THEOREM JobsTyped == DeliverySafeSpec => [](DeliveryTypeOK /\ PlaceOK)
<1>1. DeliveryInit => DeliveryTypeOK /\ PlaceOK
  BY TypeInit DEF DeliveryInit, PlaceOK, OnTheWay, NoJob
<1>2. DeliveryTypeOK /\ PlaceOK /\ [DeliveryNext]_deliveryVars => (DeliveryTypeOK /\ PlaceOK)'
  BY TypeStep
<1> QED BY <1>1, <1>2, PTL DEF DeliverySafeSpec

-----------------------------------------------------------------------------
\* What a step does to one job: nothing, or it starts, ends or keeps its kind and
\* its items.
Moves(h) ==
  /\ UNCHANGED <<allowed, refused>>
  /\ \A g \in Handlers : g # h => work'[g] = work[g]
  /\ work'[h].kind = work[h].kind /\ work'[h].items = work[h].items
  /\ work'[h].place = work[h].place
Settles(h) ==
  /\ UNCHANGED allowed
  /\ \A g \in Handlers : g # h => work'[g] = work[g] /\ refused'[g] = refused[g]
  /\ work'[h].at = "next" /\ work'[h].items = work[h].items
  /\ work'[h].place = work[h].place + 1
  /\ refused'[h] = Missing(work[h].items, work[h].place + 1)
Ends(h) ==
  /\ UNCHANGED <<allowed, refused>>
  /\ \A g \in Handlers : g # h => work'[g] = work[g]
  /\ work'[h] = NoJob

LEMMA SettleAsSettles ==
  ASSUME DeliveryTypeOK, NEW h \in Handlers, NEW outcome, NEW got, SettleAs(h, outcome, got), UNCHANGED allowed
  PROVE  Settles(h)
BY DEF Settles, SettleAs, Settled, DeliveryTypeOK

LEMMA GoToMoves ==
  ASSUME DeliveryTypeOK, NEW h \in Handlers, work[h] # NoJob, NEW at, GoTo(h, at), UNCHANGED allowed
  PROVE  Moves(h) /\ work'[h].at = at /\ work'[h].attempt = work[h].attempt
<1>1. work[h] \in JobStates BY JobTyped DEF JobOK
<1> QED BY <1>1 DEF Moves, GoTo, DeliveryTypeOK, JobStates

\* A step of a job, told apart by what the gate and the receiver see of it.
Asks(h) ==
  /\ work[h].kind = "destination" /\ More(h)
  /\ Item(h) \notin delivered /\ Permits(h) /\ Moves(h) /\ work'[h].at = "checked"
Sends(h) == work[h].kind = "destination" /\ work[h].at = "checked" /\ Moves(h) /\ work'[h].at = "call"
CallsAtOnce(h) ==
  /\ work[h].kind # "destination" /\ work[h].at = "next" /\ Moves(h) /\ work'[h].at = "call"
  /\ work[h].kind = "scenario" => Permits(h)
Waits(h) == work[h].at \in OnTheWay /\ Moves(h) /\ work'[h].at \in {"call", "sleep"}
              /\ (work[h].at # "call" => work'[h].at = "call" /\ work'[h].attempt # work[h].attempt)
Channels(h) == Moves(h) /\ work'[h].at = "fanout"

LEMMA ProgressShape ==
  ASSUME DeliveryTypeOK, PlaceOK, NEW h \in Handlers, Progress(h)
  PROVE  Asks(h) \/ Sends(h) \/ CallsAtOnce(h) \/ Waits(h) \/ Channels(h) \/ Settles(h) \/ Ends(h)
<1>1. CASE TakeProfile(h)
  <2>1. work[h] # NoJob /\ UNCHANGED allowed BY <1>1, JobTyped DEF TakeProfile, More
  <2>2. CASE Item(h) \notin delivered /\ Permits(h) /\ GoTo(h, "checked")
    BY <1>1, <2>1, <2>2, GoToMoves DEF TakeProfile, Asks
  <2>3. CASE SettleAs(h, "duplicate", 0) \/ SettleAs(h, "skipped", 0)
    BY <2>1, <2>3, SettleAsSettles
  <2> QED BY <1>1, <2>2, <2>3 DEF TakeProfile
<1>2. CASE SendProfile(h)
  <2>1. work[h] # NoJob /\ work[h].kind = "destination" BY <1>2, JobTyped DEF SendProfile, PlaceOK
  <2> QED BY <1>2, <2>1, GoToMoves DEF SendProfile, Sends
<1>3. CASE TakeStep(h)
  <2>1. work[h] # NoJob /\ UNCHANGED allowed BY <1>3, JobTyped DEF TakeStep, More
  <2>2. CASE SettleAs(h, "skipped", 0) BY <2>1, <2>2, SettleAsSettles
  <2>3. CASE GoTo(h, "call") /\ Permits(h)
    BY <1>3, <2>1, <2>3, GoToMoves DEF TakeStep, CallsAtOnce, More
  <2> QED BY <1>3, <2>2, <2>3 DEF TakeStep
<1>4. CASE TakeUnchecked(h)
  <2>1. work[h] # NoJob /\ UNCHANGED allowed BY <1>4, JobTyped DEF TakeUnchecked, More
  <2> QED BY <1>4, <2>1, GoToMoves DEF TakeUnchecked, CallsAtOnce, More
<1>5. CASE SelectChannel(h)
  BY <1>5, SettleAsSettles DEF SelectChannel
<1>6. CASE FanOut(h)
  <2>1. work[h] # NoJob /\ UNCHANGED allowed BY <1>6, JobTyped DEF FanOut, Selected
  <2> QED BY <1>6, <2>1, GoToMoves DEF FanOut, Channels
<1>7. CASE WakeUp(h)
  <2>1. work[h] \in JobStates /\ work[h].attempt \in Nat
    BY <1>7, JobTyped, DeliveryAssumption DEF JobOK, JobStates, WakeUp
  <2>2. work'[h].at = "call" /\ work'[h].attempt = work[h].attempt + 1 /\ Moves(h)
    BY <1>7, <2>1 DEF WakeUp, Moves, DeliveryTypeOK, JobStates
  <2> QED BY <1>7, <2>1, <2>2 DEF Waits, WakeUp, OnTheWay
<1>8. CASE Reply(h)
  BY <1>8 DEF Reply, Ends, DeliveryTypeOK
<1>9. ASSUME NEW answer \in DOMAIN Policy[work[h].kind].outcome, NEW got \in Possible(answer), Again(h, answer, got)
      PROVE  Waits(h)
  <2>1. work[h] \in JobStates BY <1>9, JobTyped DEF JobOK, Again
  <2>2. Moves(h) /\ work'[h].at \in {"call", "sleep"}
    BY <1>9, <2>1 DEF Again, Moves, DeliveryTypeOK, JobStates
  <2> QED BY <1>9, <2>2 DEF Waits, Again, OnTheWay
<1>10. ASSUME NEW answer \in DOMAIN Policy[work[h].kind].outcome, NEW got \in Possible(answer), Answered(h, answer, got)
       PROVE  Settles(h)
  BY <1>10, SettleAsSettles DEF Answered
<1>11. ASSUME NEW answer, Abort(h, answer) PROVE Ends(h)
  BY <1>11 DEF Abort, Ends, DeliveryTypeOK
<1>12. ASSUME NEW i, NEW answer, NEW got, ChannelAnswered(h, i, answer, got) PROVE Channels(h)
  <2>1. work[h] \in JobStates BY <1>12, JobTyped DEF JobOK, ChannelAnswered
  <2> QED BY <1>12, <2>1 DEF ChannelAnswered, Channels, Moves, DeliveryTypeOK, JobStates
<1>13. ASSUME NEW i, ChannelSkipped(h, i) PROVE Channels(h)
  <2>1. work[h] \in JobStates BY <1>13, JobTyped DEF JobOK, ChannelSkipped
  <2> QED BY <1>13, <2>1 DEF ChannelSkipped, Channels, Moves, DeliveryTypeOK, JobStates
<1> QED BY <1>1, <1>2, <1>3, <1>4, <1>5, <1>6, <1>7, <1>8, <1>9, <1>10, <1>11, <1>12, <1>13 DEF Progress

\* What makes the gate hold: a handler whose current item has been refused since
\* the job came to it finds no consent, and a sync that was let through was not.
GateOK ==
  \A h \in Handlers :
    /\ refused[h] /\ AtItem(h) => Item(h).gated /\ Item(h).to \notin allowed
    /\ work[h].kind = "destination" /\ work[h].at = "checked" => ~refused[h]

LEMMA GateStep ==
  ASSUME DeliveryTypeOK, PlaceOK, GateOK, [DeliveryNext]_deliveryVars
  PROVE  GateOK'
<1>1. CASE UNCHANGED deliveryVars
  BY <1>1 DEF deliveryVars, GateOK, AtItem, Item
<1>2. ASSUME NEW h \in Handlers, NEW j \in Jobs, Start(h, j) PROVE GateOK'
  <2>1. /\ work'[h].items = j.items /\ work'[h].place = 1 /\ work'[h].at = "next"
        /\ refused'[h] = Missing(j.items, 1) /\ allowed' = allowed
        /\ \A g \in Handlers : g # h => work'[g] = work[g] /\ refused'[g] = refused[g]
    BY <1>2 DEF Start, JobOf, DeliveryTypeOK
  <2> QED BY <2>1 DEF GateOK, AtItem, Item, Missing
<1>3. ASSUME NEW h \in Handlers, Progress(h) PROVE GateOK'
  <2>1. CASE Moves(h) /\ (work'[h].at = "checked" => Asks(h))
    <3>1. ASSUME Asks(h) PROVE ~refused[h]
      <4>1. AtItem(h) BY <3>1, Places, JobTyped DEF Asks, More
      <4> QED BY <3>1, <4>1 DEF Asks, Permits, GateOK
    <3> QED BY <2>1, <3>1 DEF Moves, GateOK, AtItem, Item
  <2>2. CASE Settles(h)
    BY <2>2 DEF Settles, GateOK, AtItem, Item, Missing
  <2>3. CASE Ends(h)
    BY <2>3 DEF Ends, GateOK, AtItem, Item, NoJob
  <2> QED BY <1>3, <2>1, <2>2, <2>3, ProgressShape DEF Asks, Sends, CallsAtOnce, Waits, Channels
<1>4. ASSUME NEW r \in Receivers, Allow(r) PROVE GateOK'
  BY <1>4 DEF Allow, GateOK, AtItem, Item
<1>5. ASSUME NEW r \in Receivers, Refuse(r) PROVE GateOK'
  BY <1>5 DEF Refuse, GateOK, AtItem, Item
<1>6. CASE Restart
  BY <1>6 DEF Restart, GateOK, AtItem, Item, NoJob
<1> QED BY <1>1, <1>2, <1>3, <1>4, <1>5, <1>6 DEF DeliveryNext

\* A receiver whose consent is missing is first called only if it was granted when
\* the job came to it; a scenario does not even do that.
LEMMA GateHolds ==
  ASSUME DeliveryTypeOK, PlaceOK, GateOK, [DeliveryNext]_deliveryVars,
         NEW h \in Handlers, Calls(h), Item(h).gated
  PROVE  CASE work[h].kind = "destination" -> ~refused[h]
           [] work[h].kind = "scenario" -> Item(h).to \in allowed
           [] OTHER -> TRUE
<1>1. Progress(h)
  <2>1. ASSUME NEW g \in Handlers, Progress(g) PROVE g = h
    BY <2>1, ProgressShape DEF Asks, Sends, CallsAtOnce, Waits, Channels, Moves, Settles, Ends, Calls
  <2>2. ASSUME NEW g \in Handlers, NEW j \in Jobs, Start(g, j) PROVE FALSE
    <3>1. work'[h].at = "next" \/ work'[h] = work[h] BY <2>2 DEF Start, JobOf, DeliveryTypeOK
    <3> QED BY <3>1 DEF Calls
  <2>3. ~Restart BY DEF Restart, Calls, NoJob
  <2>4. ~UNCHANGED work BY DEF Calls
  <2> QED BY <2>1, <2>2, <2>3, <2>4 DEF DeliveryNext, deliveryVars, Allow, Refuse
<1>2. Sends(h) \/ CallsAtOnce(h)
  BY <1>1, ProgressShape DEF Asks, Waits, Channels, Settles, Ends, Calls, NoJob
<1>3. CASE Sends(h)
  BY <1>3 DEF Sends, GateOK
<1>4. CASE CallsAtOnce(h)
  BY <1>4 DEF CallsAtOnce, Permits
<1> QED BY <1>2, <1>3, <1>4

\* OptOutStopsCalls: no receiver is first called without the consent its item
\* needs, whatever happens to the gate while the jobs run.
THEOREM OptOutReachesJobs == DeliverySafeSpec => OptOutStopsCalls
<1>1. DeliveryInit => GateOK
  BY DEF DeliveryInit, GateOK, AtItem, NoJob
<1>2. DeliveryTypeOK /\ PlaceOK /\ GateOK /\ [DeliveryNext]_deliveryVars => GateOK'
  BY GateStep
<1>3. DeliveryTypeOK /\ PlaceOK /\ GateOK /\ [DeliveryNext]_deliveryVars =>
        [\A h \in Handlers : Calls(h) /\ Item(h).gated =>
           CASE work[h].kind = "destination" -> ~refused[h]
             [] work[h].kind = "scenario" -> Item(h).to \in allowed
             [] OTHER -> TRUE]_deliveryVars
  BY GateHolds
<1> QED BY <1>1, <1>2, <1>3, JobsTyped, PTL DEF DeliverySafeSpec, OptOutStopsCalls

-----------------------------------------------------------------------------
\* The syncs that have been let through for an item and not been answered: each
\* of them may still report it.
InFlight(k) ==
  {h \in Handlers : work[h].kind = "destination" /\ work[h].at \in OnTheWay /\ Item(h) = k}

OverlapOK ==
  \A k \in Items :
    /\ reported[k] > 0 => k \in delivered
    /\ reported[k] + Cardinality(InFlight(k)) <= Cardinality(Handlers)

LEMMA FewInFlight ==
  ASSUME NEW k
  PROVE  /\ IsFiniteSet(InFlight(k)) /\ Cardinality(InFlight(k)) \in Nat
         /\ Cardinality(Handlers) \in Nat /\ Cardinality(InFlight(k)) <= Cardinality(Handlers)
<1>1. IsFiniteSet(Handlers) /\ InFlight(k) \subseteq Handlers BY DeliveryAssumption DEF InFlight
<1> QED BY <1>1, FS_Subset, FS_CardinalityType

LEMMA FewInFlightNext ==
  ASSUME NEW k
  PROVE  /\ IsFiniteSet(InFlight(k)') /\ Cardinality(InFlight(k)') \in Nat
         /\ Cardinality(InFlight(k)') <= Cardinality(Handlers)
<1>1. IsFiniteSet(Handlers) /\ InFlight(k)' \subseteq Handlers BY DeliveryAssumption DEF InFlight
<1> QED BY <1>1, FS_Subset, FS_CardinalityType

LEMMA OverlapKept ==
  ASSUME DeliveryTypeOK, OverlapOK, reported' = reported, delivered' = delivered,
         \A k \in Items : InFlight(k)' \subseteq InFlight(k)
  PROVE  OverlapOK'
<1>1. ASSUME NEW k \in Items
      PROVE  reported[k] + Cardinality(InFlight(k)') <= Cardinality(Handlers)
  <2>1. Cardinality(InFlight(k)') <= Cardinality(InFlight(k))
    BY FewInFlight, FS_Subset
  <2>2. reported[k] \in Nat /\ reported[k] + Cardinality(InFlight(k)) <= Cardinality(Handlers)
    BY DEF DeliveryTypeOK, OverlapOK
  <2> QED BY <2>1, <2>2, FewInFlight, FewInFlightNext
<1> QED BY <1>1 DEF OverlapOK

\* Only an answer to a sync reports, and only the item it was for.
Reports(h) ==
  /\ work[h].kind = "destination" /\ work[h].at = "call" /\ Settles(h)
  /\ delivered' = delivered \cup {Item(h)}
  /\ reported' = [reported EXCEPT ![Item(h)] = @ + 1]

LEMMA ProgressReports ==
  ASSUME DeliveryTypeOK, PlaceOK, NEW h \in Handlers, Progress(h)
  PROVE  UNCHANGED <<delivered, reported>> \/ Reports(h)
<1>1. ASSUME NEW answer \in DOMAIN Policy[work[h].kind].outcome, NEW got \in Possible(answer), Answered(h, answer, got)
      PROVE  UNCHANGED <<delivered, reported>> \/ Reports(h)
  <2>1. Settles(h)
    BY <1>1, SettleAsSettles DEF Answered
  <2> QED BY <1>1, <2>1 DEF Answered, Reports, Final
<1>2. CASE \/ TakeProfile(h) \/ SendProfile(h) \/ TakeStep(h) \/ TakeUnchecked(h)
           \/ SelectChannel(h) \/ FanOut(h) \/ WakeUp(h) \/ Reply(h)
  BY <1>2 DEF TakeProfile, SendProfile, TakeStep, TakeUnchecked, SelectChannel, FanOut, WakeUp, Reply
<1>3. ASSUME NEW answer, NEW got, Again(h, answer, got) \/ Abort(h, answer)
      PROVE  UNCHANGED <<delivered, reported>>
  BY <1>3 DEF Again, Abort
<1>4. ASSUME NEW i, NEW answer, NEW got, ChannelAnswered(h, i, answer, got) \/ ChannelSkipped(h, i)
      PROVE  UNCHANGED <<delivered, reported>>
  BY <1>4 DEF ChannelAnswered, ChannelSkipped
<1>5. CASE work[h].at = "call" /\ \E answer \in DOMAIN Policy[work[h].kind].outcome :
             \/ \E got \in Possible(answer) : Again(h, answer, got) \/ Answered(h, answer, got)
             \/ Abort(h, answer)
  BY <1>1, <1>3, <1>5
<1>6. CASE \E i \in DOMAIN work[h].outcome : ChannelSkipped(h, i)
  BY <1>4, <1>6
<1>7. CASE \E i \in DOMAIN work[h].outcome, answer \in DOMAIN Notification.outcome :
             \E got \in Possible(answer) : ChannelAnswered(h, i, answer, got)
  BY <1>4, <1>7
<1> QED BY <1>2, <1>5, <1>6, <1>7 DEF Progress

LEMMA OverlapStep ==
  ASSUME DeliveryTypeOK, PlaceOK, OverlapOK, [DeliveryNext]_deliveryVars
  PROVE  OverlapOK'
<1>1. CASE UNCHANGED deliveryVars
  <2>1. \A k \in Items : InFlight(k)' \subseteq InFlight(k)
    BY <1>1 DEF deliveryVars, InFlight, Item
  <2> QED BY <1>1, <2>1, OverlapKept DEF deliveryVars
<1>2. ASSUME NEW h \in Handlers, NEW j \in Jobs, Start(h, j) PROVE OverlapOK'
  <2>1. /\ \A g \in Handlers : g # h => work'[g] = work[g]
        /\ work'[h].at = "next" /\ UNCHANGED <<delivered, reported>>
    BY <1>2 DEF Start, JobOf, DeliveryTypeOK
  <2>2. \A k \in Items : InFlight(k)' \subseteq InFlight(k)
    BY <2>1 DEF InFlight, Item, OnTheWay
  <2> QED BY <2>1, <2>2, OverlapKept
<1>3. ASSUME NEW h \in Handlers, Progress(h) PROVE OverlapOK'
  <2>1. CASE Asks(h)
    <3>1. UNCHANGED <<delivered, reported>>
      BY <1>3, <2>1, ProgressReports DEF Asks, Reports, More
    <3>2. ASSUME NEW k \in Items PROVE reported[k] + Cardinality(InFlight(k)') <= Cardinality(Handlers)
      <4>1. CASE k = Item(h)
        <5>1. reported[k] = 0
          BY <2>1, <4>1 DEF Asks, OverlapOK, DeliveryTypeOK
        <5> QED BY <5>1, FewInFlightNext
      <4>2. CASE k # Item(h)
        <5>1. InFlight(k)' \subseteq InFlight(k)
          BY <2>1, <4>2 DEF Asks, Moves, InFlight, Item
        <5>2. Cardinality(InFlight(k)') <= Cardinality(InFlight(k))
          BY <5>1, FewInFlight, FS_Subset
        <5>3. reported[k] \in Nat /\ reported[k] + Cardinality(InFlight(k)) <= Cardinality(Handlers)
          BY DEF DeliveryTypeOK, OverlapOK
        <5> QED BY <5>2, <5>3, FewInFlight, FewInFlightNext
      <4> QED BY <4>1, <4>2
    <3> QED BY <3>1, <3>2 DEF OverlapOK
  <2>2. CASE Reports(h)
    <3> DEFINE d == Item(h)
    <3>1. ASSUME NEW k \in Items PROVE InFlight(k)' \subseteq InFlight(k) \ {h}
      BY <2>2 DEF Reports, Settles, InFlight, Item, OnTheWay
    <3>2. ASSUME NEW k \in Items
          PROVE  /\ reported'[k] > 0 => k \in delivered'
                 /\ reported'[k] + Cardinality(InFlight(k)') <= Cardinality(Handlers)
      <4>1. reported[k] \in Nat /\ reported[k] + Cardinality(InFlight(k)) <= Cardinality(Handlers)
            /\ (reported[k] > 0 => k \in delivered)
        BY DEF DeliveryTypeOK, OverlapOK
      <4>2. CASE k = d
        <5>1. h \in InFlight(k)
          BY <2>2, <4>2 DEF Reports, InFlight, OnTheWay
        <5>2. Cardinality(InFlight(k) \ {h}) = Cardinality(InFlight(k)) - 1 /\ IsFiniteSet(InFlight(k) \ {h})
          BY <5>1, FewInFlight, FS_RemoveElement
        <5>3. Cardinality(InFlight(k)') <= Cardinality(InFlight(k)) - 1
          BY <3>1, <5>2, FS_Subset
        <5>4. reported'[k] = reported[k] + 1 /\ k \in delivered'
          BY <2>2, <4>2 DEF Reports, DeliveryTypeOK
        <5> QED BY <4>1, <5>3, <5>4, FewInFlight, FewInFlightNext
      <4>3. CASE k # d
        <5>1. Cardinality(InFlight(k)') <= Cardinality(InFlight(k))
          BY <3>1, FewInFlight, FS_Subset
        <5>2. reported'[k] = reported[k] /\ delivered \subseteq delivered'
          BY <2>2, <4>3 DEF Reports, DeliveryTypeOK
        <5> QED BY <4>1, <5>1, <5>2, FewInFlight, FewInFlightNext
      <4> QED BY <4>2, <4>3
    <3> QED BY <3>2 DEF OverlapOK
  <2>3. CASE UNCHANGED <<delivered, reported>> /\ ~Asks(h)
    <3>1. \A k \in Items : InFlight(k)' \subseteq InFlight(k)
      <4>1. CASE Sends(h) \/ Waits(h)
        BY <4>1 DEF Sends, Waits, Moves, InFlight, Item, OnTheWay
      <4>2. CASE CallsAtOnce(h) \/ Channels(h)
        BY <4>2 DEF CallsAtOnce, Channels, Moves, InFlight, Item, OnTheWay
      <4>3. CASE Settles(h) \/ Ends(h)
        BY <4>3 DEF Settles, Ends, NoJob, InFlight, Item, OnTheWay
      <4> QED BY <1>3, <2>3, <4>1, <4>2, <4>3, ProgressShape
    <3> QED BY <2>3, <3>1, OverlapKept
  <2> QED BY <1>3, <2>1, <2>2, <2>3, ProgressReports
<1>4. ASSUME NEW r \in Receivers, Allow(r) \/ Refuse(r) PROVE OverlapOK'
  <2>1. UNCHANGED <<work, delivered, reported>> BY <1>4 DEF Allow, Refuse
  <2>2. \A k \in Items : InFlight(k)' \subseteq InFlight(k) BY <2>1 DEF InFlight, Item
  <2> QED BY <2>1, <2>2, OverlapKept
<1>5. CASE Restart
  <2>1. \A k \in Items : reported'[k] = 0 /\ Cardinality(InFlight(k)') \in Nat
                           /\ Cardinality(InFlight(k)') <= Cardinality(Handlers)
    BY <1>5, FewInFlightNext DEF Restart
  <2> QED BY <2>1, FewInFlight DEF OverlapOK
<1> QED BY <1>1, <1>2, <1>3, <1>4, <1>5 DEF DeliveryNext

\* DuplicatesNeedOverlap: between two restarts no item is reported as delivered
\* more often than there are handlers, however often its sync is asked for.
THEOREM DuplicatesAreBounded == DeliverySafeSpec => []DuplicatesNeedOverlap
<1>1. DeliveryInit => OverlapOK
  <2>1. ASSUME DeliveryInit, NEW k \in Items PROVE reported[k] = 0
    BY <2>1 DEF DeliveryInit
  <2> QED BY <2>1, FewInFlight DEF OverlapOK
<1>2. DeliveryTypeOK /\ PlaceOK /\ OverlapOK /\ [DeliveryNext]_deliveryVars => OverlapOK'
  BY OverlapStep
<1>3. DeliveryTypeOK /\ OverlapOK => DuplicatesNeedOverlap
  <2>1. ASSUME DeliveryTypeOK, OverlapOK, NEW k \in Items PROVE reported[k] <= Cardinality(Handlers)
    BY <2>1, FewInFlight DEF OverlapOK, DeliveryTypeOK
  <2> QED BY <2>1 DEF DuplicatesNeedOverlap
<1> QED BY <1>1, <1>2, <1>3, JobsTyped, PTL DEF DeliverySafeSpec

-----------------------------------------------------------------------------
\* The variables of Outbox, as functions of the jobs.
View(o) == [i \in DOMAIN o |-> IF o[i] = "chosen" THEN "open" ELSE o[i]]
OutOutcome == [h \in Handlers |-> OutcomeOf(h)]
OutAccepted == [h \in Handlers |-> work[h].got]
OutLenient == [h \in Handlers |-> work[h].kind = "destination"]

\* Items behind the current one are open and unseen by their receivers, those
\* before it are not open, and a channel that is only chosen was not sent to.
ItemsOK(w) ==
  \A i \in DOMAIN w.outcome :
    /\ w.outcome[i] = "open" <=> i >= w.place
    /\ i > w.place \/ (i = w.place /\ w.at \in {"next", "checked"}) => w.got[i] = 0
    /\ w.outcome[i] = "chosen" => w.got[i] = 0
OutcomeOK == \A h \in Handlers : ItemsOK(work[h])

\* A step keeps them, and is a step of Outbox or none.
Refines ==
  /\ OutcomeOK'
  /\ Out!Next \/ (OutOutcome' = OutOutcome /\ OutAccepted' = OutAccepted /\ OutLenient' = OutLenient)

LEMMA ViewChanged ==
  ASSUME DeliveryTypeOK, NEW h \in Handlers, NEW w, work' = [work EXCEPT ![h] = w]
  PROVE  /\ OutOutcome' = [OutOutcome EXCEPT ![h] = View(w.outcome)]
         /\ OutAccepted' = [OutAccepted EXCEPT ![h] = w.got]
BY DEF DeliveryTypeOK, OutOutcome, OutAccepted, OutcomeOf, View

\* Only a job that begins or ends changes whether it is lenient.
LEMMA LenientChanged ==
  ASSUME DeliveryTypeOK, NEW h \in Handlers, NEW w, work' = [work EXCEPT ![h] = w]
  PROVE  /\ OutLenient' = [OutLenient EXCEPT ![h] = (w.kind = "destination")]
         /\ w.kind = work[h].kind => OutLenient' = OutLenient
BY DEF DeliveryTypeOK, OutLenient

LEMMA ViewEmpty == View(NoJob.outcome) = <<>> /\ NoJob.got = <<>>
BY DEF View, NoJob

LEMMA OutBegins ==
  ASSUME NEW h \in Handlers, NEW n \in 1..MaxJobItems, OutOutcome[h] = <<>>,
         OutOutcome' = [OutOutcome EXCEPT ![h] = [i \in 1..n |-> "open"]],
         OutAccepted' = [OutAccepted EXCEPT ![h] = [i \in 1..n |-> 0]],
         NEW kind \in BOOLEAN, OutLenient' = [OutLenient EXCEPT ![h] = kind]
  PROVE  Out!Next
BY DEF OutOutcome, OutAccepted, OutLenient, Out!Next, Out!Begin, Out!NoItems

LEMMA OutEnds ==
  ASSUME NEW h \in Handlers,
         \/ \A i \in DOMAIN OutOutcome[h] : OutOutcome[h][i] # "open"
         \/ \E i \in DOMAIN OutOutcome[h] : OutOutcome[h][i] = "open",
         OutOutcome' = [OutOutcome EXCEPT ![h] = <<>>],
         OutAccepted' = [OutAccepted EXCEPT ![h] = <<>>],
         OutLenient' = [OutLenient EXCEPT ![h] = FALSE]
  PROVE  Out!Next
<1>1. Out!Reply(h) \/ Out!Fail(h)
  BY DEF OutOutcome, OutAccepted, OutLenient, Out!Reply, Out!Fail, Out!NoItems
<1> QED BY <1>1 DEF Out!Next

LEMMA OutAccepts ==
  ASSUME NEW h \in Handlers, NEW i \in DOMAIN OutOutcome[h], OutOutcome[h][i] = "open",
         OutOutcome' = OutOutcome, OutAccepted' = [OutAccepted EXCEPT ![h][i] = @ + 1],
         OutLenient' = OutLenient
  PROVE  Out!Next
<1>1. Out!Accept(h)
  BY DEF OutOutcome, OutAccepted, OutLenient, Out!Accept
<1> QED BY <1>1 DEF Out!Next

LEMMA OutSettles ==
  ASSUME NEW h \in Handlers, NEW i \in DOMAIN OutOutcome[h], OutOutcome[h][i] = "open",
         NEW more \in 0..1, NEW o \in Outcomes \ {"open", "chosen"},
         o = "delivered" => OutAccepted[h][i] + more > 0,
         o = "redirected" => OutLenient[h], OutLenient' = OutLenient,
         o \in {"skipped", "duplicate", "dropped"} => OutAccepted[h][i] + more = 0,
         OutOutcome' = [OutOutcome EXCEPT ![h][i] = o],
         OutAccepted' = [OutAccepted EXCEPT ![h][i] = @ + more]
  PROVE  Out!Next
<1> SUFFICES Out!Settle(h)
  BY DEF Out!Next
<1>1. (\E j \in DOMAIN OutOutcome[h], n \in 0..1 :
         /\ OutOutcome[h][j] = "open"
         /\ \/ /\ OutAccepted[h][j] + n > 0
               /\ OutOutcome' = [OutOutcome EXCEPT ![h][j] = "delivered"]
            \/ OutLenient[h] /\ OutOutcome' = [OutOutcome EXCEPT ![h][j] = "redirected"]
            \/ OutOutcome' = [OutOutcome EXCEPT ![h][j] = "failed"]
            \/ /\ OutAccepted[h][j] + n = 0
               /\ \E x \in Out!NotSent : OutOutcome' = [OutOutcome EXCEPT ![h][j] = x]
         /\ OutAccepted' = [OutAccepted EXCEPT ![h][j] = @ + n]
         /\ OutLenient' = OutLenient) => Out!Settle(h)
  BY DEF OutOutcome, OutAccepted, OutLenient, Out!Settle
<1>2. CASE o = "delivered"
  <2>1. OutAccepted[h][i] + more > 0 /\ OutOutcome' = [OutOutcome EXCEPT ![h][i] = "delivered"]
    BY <1>2
  <2> QED BY <1>1, <2>1
<1>3. CASE o = "failed"
  BY <1>1, <1>3
<1>4. CASE o \in Out!NotSent
  BY <1>1, <1>4 DEF Out!NotSent
<1>5. CASE o = "redirected"
  <2>1. OutLenient[h] /\ OutOutcome' = [OutOutcome EXCEPT ![h][i] = "redirected"]
    BY <1>5
  <2> QED BY <1>1, <2>1
<1> QED BY <1>1, <1>2, <1>3, <1>4, <1>5 DEF Outcomes, Out!NotSent

LEMMA OutcomeKept ==
  ASSUME DeliveryTypeOK, OutcomeOK, NEW h \in Handlers, NEW w, work' = [work EXCEPT ![h] = w], ItemsOK(w)
  PROVE  OutcomeOK'
<1>1. ASSUME NEW g \in Handlers PROVE ItemsOK(work'[g])
  <2>1. work'[g] = IF g = h THEN w ELSE work[g] BY DEF DeliveryTypeOK
  <2> QED BY <2>1 DEF OutcomeOK
<1> QED BY <1>1 DEF OutcomeOK, ItemsOK

\* A job, its lists and the place it is at.
LEMMA JobShape ==
  ASSUME DeliveryTypeOK, OutcomeOK, NEW h \in Handlers, work[h] # NoJob
  PROVE  /\ work[h] \in JobStates /\ ItemsOK(work[h])
         /\ work[h].outcome \in [1..Len(work[h].items) -> Outcomes]
         /\ work[h].got \in [1..Len(work[h].items) -> Nat]
         /\ OutOutcome[h] = View(work[h].outcome) /\ OutAccepted[h] = work[h].got
<1>1. /\ work[h] \in JobStates
      /\ Len(work[h].outcome) = Len(work[h].items) /\ Len(work[h].got) = Len(work[h].items)
  BY JobTyped DEF JobOK
<1>2. work[h].outcome \in Seq(Outcomes) /\ work[h].got \in Seq(Nat)
  BY <1>1 DEF JobStates
<1> QED BY <1>1, <1>2 DEF OutcomeOK, OutOutcome, OutAccepted, OutcomeOf, View

\* The job moves on, its lists as they were.
LEMMA MoveRefines ==
  ASSUME DeliveryTypeOK, OutcomeOK, NEW h \in Handlers, work[h] # NoJob, NEW w,
         work' = [work EXCEPT ![h] = w], w.outcome = work[h].outcome, w.got = work[h].got,
         w.place = work[h].place, w.at \in {"next", "checked"} => work[h].at = "next",
         w.kind = work[h].kind
  PROVE  Refines
<1>1. ItemsOK(w)
  BY JobShape DEF ItemsOK
<1>2. OutOutcome' = [OutOutcome EXCEPT ![h] = OutOutcome[h]] /\ OutAccepted' = [OutAccepted EXCEPT ![h] = OutAccepted[h]]
  <2>1. /\ OutOutcome' = [OutOutcome EXCEPT ![h] = View(w.outcome)]
        /\ OutAccepted' = [OutAccepted EXCEPT ![h] = w.got]
    BY ViewChanged
  <2>2. OutOutcome[h] = View(work[h].outcome) /\ OutAccepted[h] = work[h].got
    BY JobShape
  <2>3. View(w.outcome) = View(work[h].outcome) /\ w.got = work[h].got
    OBVIOUS
  <2> QED BY <2>1, <2>2, <2>3
<1>3. OutOutcome' = OutOutcome /\ OutAccepted' = OutAccepted /\ OutLenient' = OutLenient
  BY <1>2, LenientChanged DEF OutOutcome, OutAccepted
<1> QED BY <1>1, <1>3, OutcomeKept DEF Refines

LEMMA SettleRefines ==
  ASSUME DeliveryTypeOK, OutcomeOK, NEW h \in Handlers, work[h] # NoJob, AtItem(h),
         NEW o \in Outcomes \ {"open"}, NEW got \in 0..1, SettleAs(h, o, got),
         o = "delivered" => got = 1, o = "redirected" => work[h].kind = "destination",
         o \in {"chosen", "skipped", "duplicate", "dropped"} => got = 0 /\ work[h].at \in {"next", "checked"}
  PROVE  Refines
<1> DEFINE w == Settled(work[h], o, got)
           p == work[h].place
           out == work[h].outcome
<1>1. /\ ItemsOK(work[h]) /\ p \in 1..Len(work[h].items)
      /\ out \in [1..Len(work[h].items) -> Outcomes] /\ work[h].got \in [1..Len(work[h].items) -> Nat]
      /\ OutOutcome[h] = View(out) /\ OutAccepted[h] = work[h].got
  BY JobShape DEF AtItem
<1>2. /\ w.outcome = [out EXCEPT ![p] = o] /\ w.got = [work[h].got EXCEPT ![p] = @ + got]
      /\ w.place = p + 1 /\ w.at = "next" /\ w.kind = work[h].kind /\ work' = [work EXCEPT ![h] = w]
  BY DEF Settled, SettleAs
<1>3. out[p] = "open" /\ (work[h].at \in {"next", "checked"} => work[h].got[p] = 0)
  BY <1>1 DEF ItemsOK
<1> HIDE DEF w, p, out
<1>4. ItemsOK(w)
  <2> SUFFICES ASSUME NEW i \in 1..Len(work[h].items)
               PROVE  /\ w.outcome[i] = "open" <=> i >= p + 1
                      /\ i > p + 1 \/ i = p + 1 => w.got[i] = 0
                      /\ w.outcome[i] = "chosen" => w.got[i] = 0
    BY <1>1, <1>2 DEF ItemsOK
  <2>1. /\ out[i] = "open" <=> i >= p
        /\ i > p => work[h].got[i] = 0
        /\ out[i] = "chosen" => work[h].got[i] = 0
    BY <1>1 DEF ItemsOK, out, p
  <2>2. p \in Nat /\ i \in Nat BY <1>1
  <2>3. CASE i = p
    <3>1. w.outcome[i] = o /\ w.got[i] = work[h].got[p] + got BY <1>1, <1>2, <2>3
    <3> QED BY <1>3, <2>2, <2>3, <3>1
  <2>4. CASE i # p
    <3>1. w.outcome[i] = out[i] /\ w.got[i] = work[h].got[i] BY <1>1, <1>2, <2>4
    <3> QED BY <2>1, <2>2, <2>4, <3>1
  <2> QED BY <2>3, <2>4
<1>5. View(w.outcome) = [View(out) EXCEPT ![p] = IF o = "chosen" THEN "open" ELSE o] /\ View(out)[p] = "open"
      /\ p \in DOMAIN View(out)
  BY <1>1, <1>2, <1>3 DEF View
<1>6. /\ OutOutcome' = [OutOutcome EXCEPT ![h] = View(w.outcome)]
      /\ OutAccepted' = [OutAccepted EXCEPT ![h] = w.got]
  BY <1>2, ViewChanged
<1>10. OutLenient' = OutLenient /\ (o = "redirected" => OutLenient[h])
  BY <1>2, LenientChanged DEF OutLenient
<1>7. CASE o = "chosen"
  <2>1. View(w.outcome) = View(out) /\ w.got = work[h].got
    BY <1>1, <1>2, <1>5, <1>7 DEF View
  <2>2. OutOutcome' = OutOutcome /\ OutAccepted' = OutAccepted
    BY <1>1, <1>6, <2>1 DEF OutOutcome, OutAccepted
  <2> QED BY <1>2, <1>4, <1>10, <2>2, OutcomeKept DEF Refines
<1>8. CASE o # "chosen"
  <2>1. OutOutcome' = [OutOutcome EXCEPT ![h][p] = o]
    BY <1>1, <1>5, <1>6, <1>8
  <2>2. OutAccepted' = [OutAccepted EXCEPT ![h][p] = @ + got]
    BY <1>1, <1>2, <1>6
  <2>3. OutAccepted[h][p] \in Nat BY <1>1
  <2>4. /\ o = "delivered" => OutAccepted[h][p] + got > 0
        /\ o \in {"skipped", "duplicate", "dropped"} => OutAccepted[h][p] + got = 0
    BY <1>1, <1>3, <2>3
  <2>5. p \in DOMAIN OutOutcome[h] /\ OutOutcome[h][p] = "open" /\ o \in Outcomes \ {"open", "chosen"}
    BY <1>1, <1>5, <1>8
  <2>6. Out!Next
    BY <1>10, <2>1, <2>2, <2>4, <2>5, OutSettles
  <2> QED BY <1>2, <1>4, <2>6, OutcomeKept DEF Refines
<1> QED BY <1>7, <1>8

LEMMA AnswerFacts ==
  /\ \A kind \in Kinds : \A answer \in DOMAIN Policy[kind].outcome :
       /\ Policy[kind].outcome[answer] \in {"delivered", "redirected", "failed", "abort"}
       /\ Policy[kind].outcome[answer] = "delivered" => answer \in Accepting
       /\ Policy[kind].outcome[answer] = "redirected" => kind = "destination"
  /\ \A answer : Possible(answer) \subseteq 0..1
  /\ \A answer \in Accepting : Possible(answer) = {1}
<1>1. \A kind \in Kinds : \A answer \in DOMAIN Policy[kind].outcome :
       /\ Policy[kind].outcome[answer] \in {"delivered", "redirected", "failed", "abort"}
       /\ Policy[kind].outcome[answer] = "delivered" => answer \in Accepting
       /\ Policy[kind].outcome[answer] = "redirected" => kind = "destination"
  BY DEF Kinds, Policy, Webhook, Destination, Warehouse, Scenario, Inbound, Notification, Accepting
<1>2. /\ \A answer : Possible(answer) \subseteq 0..1
      /\ \A answer \in Accepting : Possible(answer) = {1}
  BY DEF Possible
<1> QED BY <1>1, <1>2

LEMMA TakeRefines ==
  ASSUME DeliveryTypeOK, PlaceOK, OutcomeOK, NEW h \in Handlers,
         \/ TakeProfile(h) \/ SendProfile(h) \/ TakeStep(h) \/ TakeUnchecked(h)
         \/ SelectChannel(h) \/ FanOut(h) \/ WakeUp(h)
  PROVE  Refines
<1>1. work[h] # NoJob
  BY JobTyped DEF TakeProfile, SendProfile, TakeStep, TakeUnchecked, SelectChannel, FanOut, Selected, More, WakeUp
<1>2. work[h] \in JobStates /\ (More(h) => AtItem(h) /\ work[h].at = "next")
  BY <1>1, Places, JobTyped DEF JobOK, More
<1>3. ASSUME NEW at \in {"checked", "call", "fanout"}, GoTo(h, at), at = "checked" => work[h].at = "next"
      PROVE  Refines
  <2> DEFINE w == [work[h] EXCEPT !.at = at]
  <2>1. work' = [work EXCEPT ![h] = w] BY <1>3 DEF GoTo
  <2>2. /\ w.outcome = work[h].outcome /\ w.got = work[h].got /\ w.place = work[h].place /\ w.at = at
        /\ w.kind = work[h].kind
    BY <1>2 DEF JobStates
  <2> HIDE DEF w
  <2> QED BY <1>1, <1>3, <2>1, <2>2, MoveRefines
<1>4. ASSUME More(h), NEW o \in {"chosen", "skipped", "duplicate", "dropped"}, SettleAs(h, o, 0)
      PROVE  Refines
  <2>1. o \in Outcomes \ {"open"} /\ o \notin {"delivered", "redirected"} /\ 0 \in 0..1 BY <1>4 DEF Outcomes
  <2> QED BY <1>1, <1>2, <1>4, <2>1, SettleRefines
<1>5. CASE TakeProfile(h) BY <1>2, <1>3, <1>4, <1>5 DEF TakeProfile
<1>6. CASE SendProfile(h) BY <1>3, <1>6 DEF SendProfile
<1>7. CASE TakeStep(h) BY <1>3, <1>4, <1>7 DEF TakeStep
<1>8. CASE TakeUnchecked(h) BY <1>3, <1>8 DEF TakeUnchecked
<1>9. CASE SelectChannel(h) BY <1>4, <1>9 DEF SelectChannel
<1>10. CASE FanOut(h) BY <1>3, <1>10 DEF FanOut
<1>11. CASE WakeUp(h)
  <2> DEFINE w == [work[h] EXCEPT !.at = "call", !.attempt = work[h].attempt + 1]
  <2>1. work' = [work EXCEPT ![h] = w] BY <1>11 DEF WakeUp
  <2>2. /\ w.outcome = work[h].outcome /\ w.got = work[h].got /\ w.place = work[h].place /\ w.at = "call"
        /\ w.kind = work[h].kind
    BY <1>2 DEF JobStates
  <2> HIDE DEF w
  <2> QED BY <1>1, <2>1, <2>2, MoveRefines
<1> QED BY <1>5, <1>6, <1>7, <1>8, <1>9, <1>10, <1>11

LEMMA AnswerRefines ==
  ASSUME DeliveryTypeOK, PlaceOK, OutcomeOK, NEW h \in Handlers,
         NEW answer \in DOMAIN Policy[work[h].kind].outcome, NEW got \in Possible(answer),
         Answered(h, answer, got)
  PROVE  Refines
<1> DEFINE o == Policy[work[h].kind].outcome[answer]
<1>1. work[h].at = "call" /\ work[h] # NoJob /\ AtItem(h) /\ o # "abort" /\ SettleAs(h, o, got)
  BY JobTyped DEF Answered, Final, PlaceOK, OnTheWay
<1>2. work[h].kind \in Kinds
  BY <1>1, Places
<1>3. /\ o \in {"delivered", "redirected", "failed"} /\ got \in 0..1 /\ (o = "delivered" => got = 1)
      /\ o = "redirected" => work[h].kind = "destination"
  BY <1>1, <1>2, AnswerFacts
<1> HIDE DEF o
<1>4. o \in Outcomes \ {"open"} /\ o \notin {"chosen", "skipped", "duplicate", "dropped"}
  BY <1>3 DEF Outcomes
<1> QED BY <1>1, <1>3, <1>4, SettleRefines

LEMMA AgainRefines ==
  ASSUME DeliveryTypeOK, PlaceOK, OutcomeOK, NEW h \in Handlers,
         NEW answer, NEW got \in Possible(answer), Again(h, answer, got)
  PROVE  Refines
<1> DEFINE p == work[h].place
           sum == work[h].got[p] + got
           at == IF work[h].kind = "warehouse" THEN "call" ELSE "sleep"
           attempt == IF work[h].kind = "warehouse" THEN work[h].attempt + 1 ELSE work[h].attempt
           w == [work[h] EXCEPT !.got[p] = sum, !.at = at, !.attempt = attempt]
<1>1. work[h].at = "call" /\ work[h] # NoJob /\ AtItem(h)
  BY JobTyped DEF Again, PlaceOK, OnTheWay
<1>2. /\ work[h] \in JobStates /\ ItemsOK(work[h]) /\ p \in 1..Len(work[h].items)
      /\ work[h].outcome \in [1..Len(work[h].items) -> Outcomes] /\ work[h].got \in [1..Len(work[h].items) -> Nat]
      /\ OutOutcome[h] = View(work[h].outcome) /\ OutAccepted[h] = work[h].got
  BY <1>1, JobShape DEF AtItem
<1>3. got \in 0..1
  BY AnswerFacts
<1>4. work' = [work EXCEPT ![h] = w]
  BY <1>1, <1>2 DEF Again, DeliveryTypeOK, JobStates
<1>5. /\ w.outcome = work[h].outcome /\ w.got = [work[h].got EXCEPT ![p] = sum] /\ w.place = p
      /\ w.at \in {"call", "sleep"} /\ w.kind = work[h].kind
  BY <1>2 DEF JobStates
<1>6. work[h].outcome[p] = "open"
  BY <1>2 DEF ItemsOK
<1> HIDE DEF w, at, attempt
<1>7. ItemsOK(w)
  BY <1>2, <1>5, <1>6 DEF ItemsOK
<1>8. CASE got = 0
  <2>1. w.got = work[h].got BY <1>2, <1>5, <1>8
  <2> QED BY <1>1, <1>4, <1>5, <2>1, MoveRefines
<1>9. CASE got = 1
  <2>1. /\ OutOutcome' = [OutOutcome EXCEPT ![h] = View(w.outcome)]
        /\ OutAccepted' = [OutAccepted EXCEPT ![h] = w.got]
    BY <1>4, ViewChanged
  <2>2. View(w.outcome) = OutOutcome[h] BY <1>2, <1>5
  <2>3. OutOutcome' = OutOutcome BY <2>1, <2>2 DEF OutOutcome
  <2>4. OutAccepted' = [OutAccepted EXCEPT ![h][p] = @ + 1]
    BY <1>2, <1>5, <1>9, <2>1
  <2>5. p \in DOMAIN OutOutcome[h] /\ OutOutcome[h][p] = "open"
    BY <1>2, <1>6 DEF View
  <2>6. Out!Next BY <1>4, <1>5, <2>3, <2>4, <2>5, OutAccepts, LenientChanged
  <2> QED BY <1>4, <1>7, <2>6, OutcomeKept DEF Refines
<1> QED BY <1>3, <1>8, <1>9

\* A channel of a notification gets its outcome.
LEMMA ChannelRefines ==
  ASSUME DeliveryTypeOK, OutcomeOK, NEW h \in Handlers, NEW i \in DOMAIN work[h].outcome,
         work[h].at = "fanout", work[h].outcome[i] = "chosen",
         NEW w, work' = [work EXCEPT ![h] = w], w.place = work[h].place, w.at = "fanout",
         w.outcome = [work[h].outcome EXCEPT ![i] = w.outcome[i]],
         w.got = [work[h].got EXCEPT ![i] = w.got[i]],
         w.outcome[i] \in {"skipped", "delivered", "failed"}, w.got[i] \in 0..1,
         w.outcome[i] = "delivered" => w.got[i] = 1, w.outcome[i] = "skipped" => w.got[i] = 0,
         w.kind = work[h].kind
  PROVE  Refines
<1> DEFINE o == w.outcome[i]
           got == w.got[i]
<1>0. /\ o \in {"skipped", "delivered", "failed"} /\ got \in 0..1
      /\ o = "delivered" => got = 1
      /\ o = "skipped" => got = 0
      /\ w.outcome = [work[h].outcome EXCEPT ![i] = o] /\ w.got = [work[h].got EXCEPT ![i] = got]
  OBVIOUS
<1> HIDE DEF o, got
<1>1. work[h] # NoJob BY DEF NoJob
<1>2. /\ ItemsOK(work[h]) /\ i \in 1..Len(work[h].items)
      /\ work[h].outcome \in [1..Len(work[h].items) -> Outcomes] /\ work[h].got \in [1..Len(work[h].items) -> Nat]
      /\ OutOutcome[h] = View(work[h].outcome) /\ OutAccepted[h] = work[h].got
  BY <1>1, JobShape
<1>3. work[h].got[i] = 0 BY <1>2 DEF ItemsOK
<1>4. work[h].place \in Nat /\ ~(i >= work[h].place)
  BY <1>1, <1>2, Places DEF ItemsOK
<1>5. ItemsOK(w)
  BY <1>0, <1>2, <1>4 DEF ItemsOK
<1>6. /\ OutOutcome' = [OutOutcome EXCEPT ![h] = View(w.outcome)]
      /\ OutAccepted' = [OutAccepted EXCEPT ![h] = w.got]
  BY ViewChanged
<1>7. View(w.outcome) = [View(work[h].outcome) EXCEPT ![i] = o] /\ View(work[h].outcome)[i] = "open"
      /\ i \in DOMAIN View(work[h].outcome)
  BY <1>0, <1>2 DEF View
<1>8. OutOutcome' = [OutOutcome EXCEPT ![h][i] = o] BY <1>2, <1>6, <1>7
<1>9. OutAccepted[h][i] = 0 /\ OutAccepted' = [OutAccepted EXCEPT ![h][i] = @ + got]
  <2>1. OutAccepted[h][i] = 0 /\ OutAccepted[h][i] + got = got BY <1>0, <1>2, <1>3
  <2>2. OutAccepted' = [OutAccepted EXCEPT ![h][i] = got] BY <1>0, <1>2, <1>6
  <2> QED BY <2>1, <2>2
<1>10. o \in Outcomes \ {"open", "chosen"} /\ i \in DOMAIN OutOutcome[h] /\ OutOutcome[h][i] = "open"
  BY <1>0, <1>2, <1>7 DEF Outcomes
<1>11. Out!Next
  <2>1. /\ o = "delivered" => OutAccepted[h][i] + got > 0
        /\ o \in {"skipped", "duplicate", "dropped"} => OutAccepted[h][i] + got = 0
    BY <1>0, <1>9
  <2>2. OutLenient' = OutLenient /\ o # "redirected"
    BY <1>0, LenientChanged
  <2> QED BY <1>0, <1>8, <1>9, <1>10, <2>1, <2>2, OutSettles
<1> QED BY <1>5, <1>11, OutcomeKept DEF Refines

\* A job begins, and a job ends with an answer or without.
LEMMA StartRefines ==
  ASSUME DeliveryTypeOK, OutcomeOK, NEW h \in Handlers, NEW j \in Jobs, Start(h, j)
  PROVE  Refines
<1> DEFINE n == Len(j.items)
<1>1. n \in 1..MaxJobItems /\ n \in Nat /\ MaxJobItems \in Nat
  BY DeliveryAssumption
<1>2. work' = [work EXCEPT ![h] = JobOf(j)] /\ work[h] = NoJob
  BY DEF Start
<1> HIDE DEF n
<1>3. /\ JobOf(j).outcome = [i \in 1..n |-> "open"] /\ JobOf(j).got = [i \in 1..n |-> 0] /\ JobOf(j).place = 1
  BY DEF JobOf, n
<1>4. DOMAIN JobOf(j).outcome = 1..n /\ View(JobOf(j).outcome) = [i \in 1..n |-> "open"]
  BY <1>1, <1>3 DEF View
<1>5. ItemsOK(JobOf(j))
  BY <1>1, <1>3, <1>4 DEF ItemsOK
<1>6. OutOutcome[h] = <<>>
  BY <1>2, ViewEmpty DEF OutOutcome, OutcomeOf, View
<1>7. /\ OutOutcome' = [OutOutcome EXCEPT ![h] = [i \in 1..n |-> "open"]]
      /\ OutAccepted' = [OutAccepted EXCEPT ![h] = [i \in 1..n |-> 0]]
  <2>1. /\ OutOutcome' = [OutOutcome EXCEPT ![h] = View(JobOf(j).outcome)]
        /\ OutAccepted' = [OutAccepted EXCEPT ![h] = JobOf(j).got]
    BY <1>2, ViewChanged
  <2> QED BY <1>3, <1>4, <2>1
<1>9. OutLenient' = [OutLenient EXCEPT ![h] = (JobOf(j).kind = "destination")]
  BY <1>2, LenientChanged
<1>8. Out!Next BY <1>1, <1>6, <1>7, <1>9, OutBegins
<1> QED BY <1>2, <1>5, <1>8, OutcomeKept DEF Refines

LEMMA EndRefines ==
  ASSUME DeliveryTypeOK, OutcomeOK, NEW h \in Handlers, work' = [work EXCEPT ![h] = NoJob],
         work[h] # NoJob,
         \/ \A i \in DOMAIN work[h].outcome : work[h].outcome[i] \notin {"open", "chosen"}
         \/ \E i \in DOMAIN work[h].outcome : work[h].outcome[i] = "open"
  PROVE  Refines
<1>1. ItemsOK(NoJob)
  BY DEF ItemsOK, NoJob
<1>2. OutOutcome[h] = View(work[h].outcome)
  BY JobShape
<1>3. \/ \A i \in DOMAIN OutOutcome[h] : OutOutcome[h][i] # "open"
      \/ \E i \in DOMAIN OutOutcome[h] : OutOutcome[h][i] = "open"
  BY <1>2 DEF View
<1>4. OutOutcome' = [OutOutcome EXCEPT ![h] = <<>>] /\ OutAccepted' = [OutAccepted EXCEPT ![h] = <<>>]
  <2>1. /\ OutOutcome' = [OutOutcome EXCEPT ![h] = View(NoJob.outcome)]
        /\ OutAccepted' = [OutAccepted EXCEPT ![h] = NoJob.got]
    BY ViewChanged
  <2> QED BY <2>1, ViewEmpty
<1>6. OutLenient' = [OutLenient EXCEPT ![h] = FALSE]
  <2>1. work' = [work EXCEPT ![h] = NoJob] => OutLenient' = [OutLenient EXCEPT ![h] = (NoJob.kind = "destination")]
    BY LenientChanged
  <2>2. (NoJob.kind = "destination") = FALSE
    BY DEF NoJob
  <2> QED BY <2>1, <2>2
<1>5. Out!Next BY <1>3, <1>4, <1>6, OutEnds
<1> QED BY <1>1, <1>5, OutcomeKept DEF Refines

LEMMA ProgressRefines ==
  ASSUME DeliveryTypeOK, PlaceOK, OutcomeOK, NEW h \in Handlers, Progress(h)
  PROVE  Refines
<1>1. CASE \/ TakeProfile(h) \/ SendProfile(h) \/ TakeStep(h) \/ TakeUnchecked(h)
           \/ SelectChannel(h) \/ FanOut(h) \/ WakeUp(h)
  BY <1>1, TakeRefines
<1>2. CASE Reply(h)
  <2>1. work[h] # NoJob BY <1>2, JobTyped DEF Reply
  <2> QED BY <1>2, <2>1, EndRefines DEF Reply
<1>3. ASSUME NEW answer \in DOMAIN Policy[work[h].kind].outcome, NEW got \in Possible(answer),
             Again(h, answer, got) \/ Answered(h, answer, got)
      PROVE  Refines
  BY <1>3, AgainRefines, AnswerRefines
<1>4. ASSUME NEW answer, Abort(h, answer) PROVE Refines
  <2>1. work[h] # NoJob /\ AtItem(h)
    BY <1>4, JobTyped DEF Abort, Final, PlaceOK, OnTheWay
  <2>2. /\ DOMAIN work[h].outcome = 1..Len(work[h].items) /\ work[h].place \in 1..Len(work[h].items)
        /\ ItemsOK(work[h])
    BY <2>1, Places DEF AtItem, OutcomeOK
  <2>3. work[h].outcome[work[h].place] = "open" BY <2>2 DEF ItemsOK
  <2> QED BY <1>4, <2>1, <2>2, <2>3, EndRefines DEF Abort
<1>5. ASSUME NEW i \in DOMAIN work[h].outcome, ChannelSkipped(h, i) PROVE Refines
  <2> DEFINE w == [work[h] EXCEPT !.outcome[i] = "skipped"]
  <2>1. work[h].at = "fanout" /\ work[h].outcome[i] = "chosen" /\ work' = [work EXCEPT ![h] = w]
    BY <1>5 DEF ChannelSkipped
  <2>2. work[h] \in JobStates /\ work[h].got[i] = 0 /\ work[h].got \in [1..Len(work[h].items) -> Nat]
        /\ DOMAIN work[h].outcome = 1..Len(work[h].items)
    <3>1. work[h] # NoJob BY <2>1, JobTyped
    <3> QED BY <2>1, <3>1, JobShape, Places DEF ItemsOK
  <2>3. /\ w.outcome = [work[h].outcome EXCEPT ![i] = "skipped"] /\ w.got = [work[h].got EXCEPT ![i] = 0]
        /\ w.place = work[h].place /\ w.at = "fanout" /\ w.kind = work[h].kind
    BY <2>1, <2>2 DEF JobStates
  <2> HIDE DEF w
  <2>4. w.outcome[i] = "skipped" /\ w.got[i] = 0
    BY <2>2, <2>3
  <2>5. /\ w.outcome = [work[h].outcome EXCEPT ![i] = w.outcome[i]]
        /\ w.got = [work[h].got EXCEPT ![i] = w.got[i]]
        /\ w.outcome[i] \in {"skipped", "delivered", "failed"} /\ w.got[i] \in 0..1
        /\ w.outcome[i] # "delivered"
    BY <2>3, <2>4
  <2> QED BY <2>1, <2>3, <2>4, <2>5, ChannelRefines
<1>6. ASSUME NEW i \in DOMAIN work[h].outcome, NEW answer \in DOMAIN Notification.outcome,
             NEW got \in Possible(answer), ChannelAnswered(h, i, answer, got)
      PROVE  Refines
  <2> DEFINE o == Notification.outcome[answer]
             w == [work[h] EXCEPT !.outcome[i] = o, !.got[i] = got]
  <2>1. work[h].at = "fanout" /\ work[h].outcome[i] = "chosen" /\ work[h] \in JobStates
    BY <1>6, JobTyped DEF ChannelAnswered, JobOK
  <2>2. work' = [work EXCEPT ![h] = w]
    BY <1>6, <2>1 DEF ChannelAnswered, DeliveryTypeOK, JobStates
  <2>3. o \in {"delivered", "failed"} /\ got \in 0..1 /\ (o = "delivered" => got = 1)
    <3>1. o = "delivered" => answer = "ok" BY DEF Notification
    <3>2. got \in 0..1 /\ (answer = "ok" => got = 1) BY DEF Possible, Accepting
    <3>3. o \in {"delivered", "failed"} BY ChannelFacts
    <3> QED BY <3>1, <3>2, <3>3
  <2> HIDE DEF o
  <2>4. /\ w.outcome = [work[h].outcome EXCEPT ![i] = o] /\ w.got = [work[h].got EXCEPT ![i] = got]
        /\ w.place = work[h].place /\ w.at = "fanout" /\ w.kind = work[h].kind
    BY <2>1 DEF JobStates
  <2> HIDE DEF w
  <2>5. w.outcome[i] = o /\ w.got[i] = got
    <3>1. work[h].got \in [1..Len(work[h].items) -> Nat] /\ DOMAIN work[h].outcome = 1..Len(work[h].items)
      <4>1. work[h] # NoJob BY <2>1, JobTyped
      <4> QED BY <4>1, JobShape, Places
    <3> QED BY <2>4, <3>1
  <2>6. /\ w.outcome[i] \in {"skipped", "delivered", "failed"} /\ w.got[i] \in 0..1
        /\ w.outcome[i] = "delivered" => w.got[i] = 1
        /\ w.outcome[i] = "skipped" => w.got[i] = 0
    BY <2>3, <2>5
  <2>7. /\ w.outcome = [work[h].outcome EXCEPT ![i] = w.outcome[i]]
        /\ w.got = [work[h].got EXCEPT ![i] = w.got[i]]
    BY <2>4, <2>5
  <2> QED BY <2>1, <2>2, <2>4, <2>6, <2>7, ChannelRefines
<1> QED BY <1>1, <1>2, <1>3, <1>4, <1>5, <1>6 DEF Progress

LEMMA RefinementStep ==
  ASSUME DeliveryTypeOK, PlaceOK, OutcomeOK, [DeliveryNext]_deliveryVars
  PROVE  Refines
<1>1. CASE UNCHANGED work
  BY <1>1 DEF Refines, OutcomeOK, ItemsOK, OutOutcome, OutAccepted, OutLenient, OutcomeOf
<1>2. CASE Restart
  <2>1. ItemsOK(NoJob) BY DEF ItemsOK, NoJob
  <2>2. /\ OutOutcome' = [h \in Handlers |-> <<>>] /\ OutAccepted' = [h \in Handlers |-> <<>>]
        /\ OutLenient' = [h \in Handlers |-> FALSE]
    <3>1. \A h \in Handlers : work'[h] = NoJob /\ work'[h].kind # "destination" BY <1>2 DEF Restart, NoJob
    <3>2. OutLenient' = [h \in Handlers |-> FALSE] BY <3>1 DEF OutLenient
    <3>3. /\ OutOutcome' = [h \in Handlers |-> <<>>] /\ OutAccepted' = [h \in Handlers |-> <<>>]
      BY <3>1, ViewEmpty DEF OutOutcome, OutAccepted, OutcomeOf, View
    <3> QED BY <3>2, <3>3
  <2>3. Out!Crash
    BY <2>2 DEF Out!Crash, OutOutcome, OutAccepted, OutLenient, Out!NoItems
  <2>4. OutcomeOK' BY <1>2, <2>1 DEF Restart, OutcomeOK, ItemsOK
  <2> QED BY <2>3, <2>4 DEF Refines, Out!Next
<1> QED BY <1>1, <1>2, StartRefines, ProgressRefines DEF DeliveryNext, deliveryVars, Allow, Refuse

\* ImplementsOutbox: whatever the answers of the receivers, the jobs keep what
\* Outbox promises: one final outcome per item, "delivered" only for what was
\* accepted, "redirected" only from a sync, "not sent" only for what was not.
THEOREM JobsImplementOutbox == DeliverySafeSpec => ImplementsOutbox
<1>1. DeliveryInit => OutcomeOK /\ Out!Init
  <2>1. ASSUME DeliveryInit PROVE OutcomeOK
    BY <2>1 DEF DeliveryInit, OutcomeOK, ItemsOK, NoJob
  <2>2. ASSUME DeliveryInit PROVE Out!Init
    <3>1. \A h \in Handlers : OutcomeOf(h) = <<>> /\ work[h].got = <<>>
      BY <2>2, ViewEmpty DEF DeliveryInit, OutcomeOf, View
    <3>2. \A h \in Handlers : (work[h].kind = "destination") = FALSE
      BY <2>2 DEF DeliveryInit, NoJob
    <3> QED BY <3>1, <3>2 DEF Out!Init, Out!NoItems
  <2> QED BY <2>1, <2>2
<1>2. DeliveryTypeOK /\ PlaceOK /\ OutcomeOK /\ [DeliveryNext]_deliveryVars => OutcomeOK'
  BY RefinementStep DEF Refines
<1>3. DeliveryTypeOK /\ PlaceOK /\ OutcomeOK /\ [DeliveryNext]_deliveryVars =>
        [Out!Next]_<<[h \in Handlers |-> OutcomeOf(h)], [h \in Handlers |-> work[h].got],
                     [h \in Handlers |-> work[h].kind = "destination"]>>
  BY RefinementStep DEF Refines, OutOutcome, OutAccepted, OutLenient
<1> QED BY <1>1, <1>2, <1>3, JobsTyped, PTL DEF DeliverySafeSpec, ImplementsOutbox, Out!Spec

-----------------------------------------------------------------------------
(* The process.                                                            *)

ProcessTypeOK ==
  /\ phase \in [Requests -> {"none", "handling", "failing", "answered"}]
  /\ process \in {"up", "closing", "exit0", "exit1", "killed"}

\* An error report under way is of a request that still waits for its answer.
ReportsOK ==
  \A p \in sending :
    /\ p[2] \in {"error", "request"}
    /\ p[2] = "error" => p[1] \in Requests /\ phase[p[1]] = "failing"

\* A process that exited in good order left nobody without an answer.
ExitOK == process = "exit0" => \A r \in Requests : phase[r] \in {"none", "answered"}

StopInv == ProcessTypeOK /\ ReportsOK /\ ExitOK

\* What the hooks send: the errors of the failure of a request, and no error with
\* its answer.
LEMMA CaptureFacts ==
  ASSUME NEW r, NEW code
  PROVE  /\ \A p \in captureError(r) : p[1] = r /\ p[2] = "error"
         /\ \A p \in captureRequest(r, code) : p[2] = "request"
<1>1. captureError(r) \subseteq {<<r, "error", "sentry", TRUE>>, <<r, "error", "otel", TRUE>>}
  BY DEF captureError, sendSentryError, sendOtelSpan
<1>2. \A p \in captureRequest(r, code) : p[2] = "request"
  <2> DEFINE failed == code >= 500
             post == <<r, "request", "otel", failed>>
  <2>1. captureRequest(r, code) = {post} \/ captureRequest(r, code) = {}
    BY Zenon DEF captureRequest, sendOtelSpan
  <2> HIDE DEF failed
  <2>2. post[2] = "request"
    OBVIOUS
  <2> HIDE DEF post
  <2> QED BY <2>1, <2>2
<1>3. ASSUME NEW p \in captureError(r) PROVE p[1] = r /\ p[2] = "error"
  <2> DEFINE failed == TRUE
             one == <<r, "error", "sentry", failed>>
             other == <<r, "error", "otel", failed>>
  <2>1. p = one \/ p = other
    BY <1>1, <1>3, Zenon
  <2> HIDE DEF failed
  <2>2. one[1] = r /\ one[2] = "error" /\ other[1] = r /\ other[2] = "error"
    OBVIOUS
  <2> HIDE DEF one, other
  <2> QED BY <2>1, <2>2
<1> QED BY <1>2, <1>3

LEMMA HookStep ==
  ASSUME StopInv, NEW r \in Requests, onRequest(r) \/ onResponse(r) \/ onError(r) \/ AnswerFailure(r)
  PROVE  StopInv'
<1>1. CASE onRequest(r)
  BY <1>1 DEF StopInv, ProcessTypeOK, ReportsOK, ExitOK, onRequest
<1>2. CASE onError(r)
  <2>1. ProcessTypeOK' /\ ExitOK'
    BY <1>2 DEF StopInv, ProcessTypeOK, ExitOK, onError, Running
  <2>2. ReportsOK'
    BY <1>2, CaptureFacts DEF StopInv, ProcessTypeOK, ReportsOK, onError
  <2> QED BY <2>1, <2>2 DEF StopInv
<1>3. ASSUME NEW code, Answer(r, code), UNCHANGED process, Running, \A p \in sending : p[2] = "error" => p[1] # r
      PROVE  StopInv'
  <2>1. ProcessTypeOK' /\ ExitOK'
    BY <1>3 DEF StopInv, ProcessTypeOK, ExitOK, Answer, Running
  <2>2. ASSUME NEW p \in sending'
        PROVE  p[2] \in {"error", "request"} /\ (p[2] = "error" => p[1] \in Requests /\ phase'[p[1]] = "failing")
    <3>1. CASE p \in sending
      BY <1>3, <3>1 DEF StopInv, ProcessTypeOK, ReportsOK, Answer
    <3>2. CASE p \in captureRequest(r, code)
      BY <3>2, CaptureFacts
    <3> QED BY <1>3, <3>1, <3>2 DEF Answer
  <2> QED BY <2>1, <2>2 DEF StopInv, ReportsOK
<1>4. CASE onResponse(r)
  <2>1. \A p \in sending : p[2] = "error" => p[1] # r
    BY <1>4 DEF StopInv, ReportsOK, onResponse
  <2> QED BY <1>3, <1>4, <2>1 DEF onResponse
<1>5. CASE AnswerFailure(r)
  <2>1. \A p \in sending : p[2] = "error" => p[1] # r
    BY <1>5 DEF AnswerFailure, errorsOf
  <2> QED BY <1>3, <1>5, <2>1 DEF AnswerFailure
<1> QED BY <1>1, <1>2, <1>4, <1>5

LEMMA ProcessStep == StopInv /\ [ProcessNext]_processVars => StopInv'
<1> SUFFICES ASSUME StopInv, [ProcessNext]_processVars PROVE StopInv'
  OBVIOUS
<1>1. CASE UNCHANGED processVars
  BY <1>1 DEF processVars, StopInv, ProcessTypeOK, ReportsOK, ExitOK
<1>2. ASSUME NEW p \in sending, postJson(p) PROVE StopInv'
  BY <1>2 DEF postJson, Running, StopInv, ProcessTypeOK, ReportsOK, ExitOK
<1>3. ASSUME NEW s \in Signals, signal(s) PROVE StopInv'
  BY <1>3 DEF signal, Running, StopInv, ProcessTypeOK, ReportsOK, ExitOK
<1>4. CASE shutdown
  BY <1>4 DEF shutdown, StopInv, ProcessTypeOK, ReportsOK, ExitOK
<1> QED BY <1>1, <1>2, <1>3, <1>4, HookStep DEF ProcessNext

\* StopLosesNoErrorReport: at exit 0 every accepted request has its answer, and no
\* report of an error is still under way, however many sinks there are.
THEOREM StopIsOrderly == ProcessSpec => []StopLosesNoErrorReport
<1>1. ProcessInit => StopInv
  BY DEF ProcessInit, StopInv, ProcessTypeOK, ReportsOK, ExitOK
<1>2. StopInv /\ [ProcessNext]_processVars => StopInv'
  BY ProcessStep
<1>3. StopInv => StopLosesNoErrorReport
  <2> SUFFICES ASSUME StopInv, process = "exit0", NEW p \in sending PROVE p[2] = "request"
    BY DEF StopInv, ExitOK, StopLosesNoErrorReport
  <2> QED BY DEF StopInv, ReportsOK, ExitOK
<1> QED BY <1>1, <1>2, <1>3, PTL DEF ProcessSpec
=============================================================================
