----------------------------- MODULE EventQueries ------------------------------
(***************************************************************************)
(* The stored events and the questions asked of them: two funnels          *)
(* (packages/analytics and packages/funnels), two retentions               *)
(* (packages/analytics and packages/cohorts), the daily series and the     *)
(* computed traits, each over whatever rows the store returns.             *)
(*                                                                         *)
(* Events arrive in any order, whatever time they carry, and the table is  *)
(* read without ORDER BY: its order is the order of `log`.  Time is a      *)
(* natural number of ticks; a rate is kept as its numerator.  The sources  *)
(* compare timestamps as text, which orders those with milliseconds, as    *)
(* the table returns them, by time.                                        *)
(***************************************************************************)
EXTENDS Integers, Sequences, FiniteSets, SequencesExt, FiniteSetsExt, Arrays

CONSTANTS
  Users, Names,  \* anonymousIds; names of track events
  Windows,       \* windows of a funnel, in ticks
  Worth,         \* the `value` property of a track event, by its name
  MaxTs,         \* bound: the latest time an event carries
  DayTicks, WeekDays, MonthDays,  \* the calendar: ticks a day, days a week and a month
  MaxLog         \* bound: events stored

VARIABLE log  \* the events of the tenant, in the order the store returns them

NoMatch == "none"

ASSUME QueriesAssumption ==
  /\ IsFiniteSet(Names) /\ NoMatch \notin Names
  /\ Windows \subseteq Nat /\ Worth \in [Names -> Int] /\ MaxTs \in Nat
  /\ {DayTicks, WeekDays, MonthDays} \subseteq Nat \ {0}

\* toStoredIngestEvent: an identify event is stored without a name.
Stored(user, name, ts) ==
  [user |-> user, type |-> IF name = NoMatch THEN "identify" ELSE "track", name |-> name, ts |-> ts]

LogInit == log = <<>>

save(user, name, ts) ==
  /\ Len(log) < MaxLog
  /\ log' = Append(log, Stored(user, name, ts))

\* deleteByAnonymousId, in memory and in the database.
deleteByAnonymousId(user) ==
  /\ user \in {log[i].user : i \in DOMAIN log}
  /\ log' = Filter(log, LAMBDA e : e.user # user)

LogNext ==
  \/ \E user \in Users, name \in Names \cup {NoMatch}, ts \in 0..MaxTs : save(user, name, ts)
  \/ \E user \in Users : deleteByAnonymousId(user)

LogSpec == LogInit /\ [][LogNext]_log

-----------------------------------------------------------------------------
\* The rows of a list of indexes, in the order `before`.
RowsBy(S, before(_, _)) ==
  LET order == Sorted(S, before) IN [k \in DOMAIN order |-> log[order[k]]]
Of(user) == {i \in DOMAIN log : log[i].user = user}
Seen == {log[i].user : i \in DOMAIN log}

\* sortedEvents, byTs and groupBySubject: by time, ties as the store returned them.
Earlier(i, j) == log[i].ts < log[j].ts \/ (log[i].ts = log[j].ts /\ i < j)
groupByUser(user) == RowsBy(Of(user), Earlier)

\* toFunnelRow names an event without a name by its type; toIngestEvent does not.
eventName(e) == e.name
RowName(e) == IF e.name = NoMatch THEN e.type ELSE e.name

\* groupRows and compareRows: ties by name (`rank`), then as returned.
groupRows(user, rank) ==
  RowsBy(Of(user), LAMBDA i, j :
    \/ log[i].ts < log[j].ts
    \/ log[i].ts = log[j].ts /\ rank[RowName(log[i])] < rank[RowName(log[j])]
    \/ log[i].ts = log[j].ts /\ rank[RowName(log[i])] = rank[RowName(log[j])] /\ i < j)

-----------------------------------------------------------------------------
\* Mutant: the rows as they came, unsorted.
completedDepthUnsorted(user, steps) ==
  FoldLeft(LAMBDA d, e : IF d < Len(steps) /\ eventName(e) = steps[d + 1] THEN d + 1 ELSE d,
           0, RowsBy(Of(user), <))

\* completedDepth: how many steps the user took, one after the other.
completedDepth(user, steps) ==
  FoldLeft(LAMBDA d, e : IF d < Len(steps) /\ eventName(e) = steps[d + 1] THEN d + 1 ELSE d,
           0, groupByUser(user))

\* funnel and conversionRate: users per step, and those lost on the way to it.
funnel(steps) ==
  [k \in DOMAIN steps |->
    LET count(n) == Cardinality({u \in Seen : completedDepth(u, steps) >= n}) IN
    [count |-> count(k), dropoff |-> IF k = 1 THEN 0 ELSE count(k - 1) - count(k)]]
conversionRate(from, to) == LET f == funnel(<<from, to>>) IN <<f[2].count, f[1].count>>

\* subjectProgress: a row later than the window, counted from the first match, is
\* passed over.  A negative window is none.
subjectProgress(user, steps, window, rank) ==
  FoldLeft(LAMBDA p, e :
      IF p.reached = Len(steps) \/ RowName(e) # steps[p.reached + 1] THEN p
      ELSE IF p.reached > 0 /\ window >= 0 /\ e.ts - p.first > window THEN p
      ELSE [reached |-> p.reached + 1, first |-> IF p.reached = 0 THEN e.ts ELSE p.first,
            last |-> e.ts],
    [reached |-> 0, first |-> 0, last |-> 0], groupRows(user, rank))

\* duration and median of the users who took every step (equal ones as first seen).
medianTimeToConvert(progress, steps) ==
  LET done == {u \in Seen : progress[u].reached = Len(steps)}
      spent(u) == progress[u].last - progress[u].first
      sorted == Sorted(done, LAMBDA u, v :
                  \/ spent(u) < spent(v)
                  \/ spent(u) = spent(v) /\ Min(Of(u)) < Min(Of(v)))
      mid == Len(sorted) \div 2
  IN IF done = {} THEN <<>>
     ELSE IF Len(sorted) % 2 = 1 THEN <<spent(sorted[mid + 1]), 1>>
     ELSE <<spent(sorted[mid]) + spent(sorted[mid + 1]), 2>>

\* analyzeFunnel and dropoff; conversions are reached over a base.
analyzeFunnel(steps, window, rank) ==
  LET progress == [u \in Seen |-> subjectProgress(u, steps, window, rank)]
      reached == [k \in DOMAIN steps |-> Cardinality({u \in Seen : progress[u].reached >= k})]
  IN [subjects |-> Cardinality(Seen), reached |-> reached,
      lost |-> [k \in 2..Len(steps) |-> reached[k - 1] - reached[k]],
      median |-> medianTimeToConvert(progress, steps)]

-----------------------------------------------------------------------------
day(ts) == ts \div DayTicks

\* retention: who of the users first seen on a day came back on each day since.
CohortUsers(cohortDay) == {u \in Seen : day(groupByUser(u)[1].ts) = cohortDay}
ActiveOn(user, d) == \E i \in Of(user) : day(log[i].ts) = d
retention(cohortDay, windowDays, now) ==
  LET window == Max({0, Min({windowDays, now - cohortDay})}) IN
  [k \in 0..window |-> Cardinality({u \in CohortUsers(cohortDay) : ActiveOn(u, cohortDay + k)})]

\* cohortKey, and periodOffset: a week key is no date, so Date.parse answers NaN and no
\* offset equals it.
cohortKey(ts, granularity) ==
  CASE granularity = "day" -> day(ts)
    [] granularity = "week" -> day(ts) \div WeekDays
    [] granularity = "month" -> day(ts) \div MonthDays
NaN == -1
periodOffset(baseKey, key, granularity) ==
  IF granularity = "week" \/ key < baseKey THEN NaN ELSE key - baseKey

\* The cohort of a subject is the period of its first event.
cohortOf(user, granularity) == cohortKey(groupByUser(user)[1].ts, granularity)

\* buildRetention and activeRate, by cohort and offset.
buildRetention(granularity, periods) ==
  LET keys == {cohortOf(u, granularity) : u \in Seen}
      members(key) == {u \in Seen : cohortOf(u, granularity) = key}
      active(u, key, offset) ==
        \E i \in Of(u) : periodOffset(key, cohortKey(log[i].ts, granularity), granularity) = offset
  IN [key \in keys |->
       [size |-> Cardinality(members(key)),
        retention |-> [k \in 0..(periods - 1) |->
                        Cardinality({u \in members(key) : active(u, key, k)})]]]

\* stepRate, over everyone active in the period, its newcomers or not.
stepRate(key, step, granularity) ==
  LET subjects == {u \in Seen : \E i \in Of(u) : cohortKey(log[i].ts, granularity) = key}
  IN <<Cardinality({u \in subjects : \E i \in Of(u) : log[i].name = step}),
       Cardinality(subjects)>>
funnelByCohort(steps, granularity, periods) ==
  [key \in DOMAIN buildRetention(granularity, periods) |->
    [k \in DOMAIN steps |-> stepRate(key, steps[k], granularity)]]

\* timeSeries and fillBucket: events or users of each day from `from` to `to`.
timeSeries(metric, from, to) ==
  [d \in from..to |->
    LET on == {i \in DOMAIN log : day(log[i].ts) = d} IN
    Cardinality(IF metric = "users" THEN {log[i].user : i \in on} ELSE on)]

-----------------------------------------------------------------------------
\* filterEvents, numbers and sum of the computed traits of one user.
filterEvents(user, name) ==
  Filter(groupByUser(user), LAMBDA e : name = NoMatch \/ e.name = name)
numbers(events) ==
  LET tracks == Filter(events, LAMBDA e : e.type = "track") IN
  [k \in DOMAIN tracks |-> Worth[tracks[k].name]]
SumOf(values) == FoldLeft(LAMBDA a, b : a + b, 0, values)
daysSince(ts, now) == Max({0, (now - ts) \div DayTicks})

compute(op, user, name, now) ==
  LET matching == filterEvents(user, name)
      values == numbers(matching)
  IN CASE op = "count" -> Len(matching)
       [] op = "sum" -> SumOf(values)
       [] op = "min" -> IF values = <<>> THEN NoMatch ELSE Min(ToSet(values))
       [] op = "max" -> IF values = <<>> THEN NoMatch ELSE Max(ToSet(values))
       [] op = "first" -> IF matching = <<>> THEN NoMatch ELSE Head(matching).ts
       [] op = "last" -> IF matching = <<>> THEN NoMatch ELSE Last(matching).ts
       [] op = "recency" -> IF matching = <<>> THEN NoMatch ELSE daysSince(Last(matching).ts, now)

\* rfm: recency, frequency and money, each worth up to 100, and their rounded mean.
rfm(user, purchase, now) ==
  LET frequency == compute("count", user, purchase, now)
      monetary == compute("sum", user, purchase, now)
      recency == IF frequency = 0 THEN 365 ELSE compute("recency", user, purchase, now)
      total == Max({0, Min({100, 100 - recency})}) + Min({frequency * 20, 100}) + Min({monetary, 100})
  IN [recency |-> recency, frequency |-> frequency, monetary |-> monetary,
      score |-> Max({0, Min({100, (2 * total + 3) \div 6})})]

-----------------------------------------------------------------------------
Ranks == LET order == SetToSeq(Names \cup {"identify"}) IN [x \in ToSet(order) |->
           CHOOSE k \in DOMAIN order : order[k] = x]
Paths == [1..3 -> Names \ {"identify"}]  \* see RowName
NoWindow == -1
LastDay == day(MaxTs)

\* A way through the first n steps along the events of a user, in time.
Way(user, steps, n, inOrder(_, _)) ==
  {f \in [1..n -> Of(user)] :
    /\ \A k \in 1..n : log[f[k]].name = steps[k]
    /\ \A k \in 2..n : f[k - 1] # f[k] /\ inOrder(log[f[k - 1]].ts, log[f[k]].ts)
    /\ n = 3 => f[1] # f[3]}

SameCounts(steps) ==
  LET f == funnel(steps)
      g == analyzeFunnel(steps, NoWindow, Ranks)
  IN
  /\ \A k \in DOMAIN steps : f[k].count = g.reached[k]
  /\ \A k \in 2..Len(steps) : f[k].dropoff = g.lost[k] /\ g.lost[k] >= 0
  /\ conversionRate(steps[1], steps[2]) = <<g.reached[2], g.reached[1]>>

\* Both funnels count a user for a step only if the user took all steps up to it in
\* this order, and whenever the user took them at times of their own: in whatever
\* order the events came in, and although the two break ties differently.  A window
\* only ever removes users, and those it leaves took every step within it, as the
\* median says.  At distinct times the two funnels are the same.
FunnelsAgree ==
  /\ (\A i, j \in DOMAIN log : i # j => log[i].ts # log[j].ts) =>
       \A steps \in Paths : SameCounts(steps)
  /\ \A window \in Windows, steps \in Paths :
       LET median == analyzeFunnel(steps, window, Ranks).median IN
       median # <<>> => 0 <= median[1] /\ median[1] <= window * median[2]
  /\ \A steps \in Paths, user \in Seen :
       LET depth == completedDepth(user, steps)
           progress(window) == subjectProgress(user, steps, window, Ranks)
       IN
       /\ \A n \in DOMAIN steps :
            /\ depth >= n \/ progress(NoWindow).reached >= n => Way(user, steps, n, <=) # {}
            /\ Way(user, steps, n, <) # {} => depth >= n /\ progress(NoWindow).reached >= n
       /\ \A window \in Windows :
            LET p == progress(window) IN
            /\ p.reached <= progress(NoWindow).reached
            /\ p.reached > 0 => \E f \in Way(user, steps, p.reached, <=) :
                 log[f[p.reached]].ts - log[f[1]].ts <= window

\* Every user is in exactly one cohort of days and of months, all of it active in its
\* first period; the two retentions agree on days; and the daily series count
\* every event once and every newcomer on the first day.
RetentionsAgree ==
  LET byDay == buildRetention("day", LastDay + 1)
      series == timeSeries("events", 0, LastDay)
  IN
  /\ \A g \in {"day", "month"} :
       LET cohorts == buildRetention(g, 2) IN
       /\ SumOf([k \in 1..(LastDay + 1) |->
                   IF k - 1 \in DOMAIN cohorts THEN cohorts[k - 1].size ELSE 0]) = Cardinality(Seen)
       /\ \A key \in DOMAIN cohorts : cohorts[key].retention[0] = cohorts[key].size
  /\ \A d \in 0..LastDay :
       LET days == retention(d, LastDay, LastDay) IN
       \A k \in DOMAIN days :
         days[k] = IF d \in DOMAIN byDay THEN byDay[d].retention[k] ELSE 0
  /\ SumOf([k \in 1..(LastDay + 1) |-> series[k - 1]]) = Len(log)
  /\ \A d \in DOMAIN byDay : timeSeries("users", 0, LastDay)[d] >= byDay[d].size
  /\ \A d \in DOMAIN byDay, x \in Names :
       funnelByCohort(<<x>>, "day", 1)[d][1][2] = timeSeries("users", 0, LastDay)[d]

\* The traits of a user agree with the funnels and with each other, in whatever order
\* the events came: an event counts for a step exactly if it counts for the trait,
\* the first is no later than the last, whose age is the recency; and the score
\* stays between 0 and 100 and is not raised by waiting.
TraitsAgree ==
  \A user \in Seen, name \in Names :
    LET trait(op) == compute(op, user, name, MaxTs)
        mine == {i \in Of(user) : log[i].name = name}
    IN
    /\ (completedDepth(user, <<name>>) = 1) <=> trait("count") > 0
    /\ trait("sum") = trait("count") * Worth[name]
    /\ mine # {} =>
         /\ \A i \in mine : trait("first") <= log[i].ts /\ log[i].ts <= trait("last")
         /\ trait("recency") = (MaxTs - trait("last")) \div DayTicks
    /\ \A now \in 0..(MaxTs + DayTicks) :
         \A today \in {rfm(user, name, now)}, later \in {rfm(user, name, now + DayTicks)} :
           today.score \in 0..100 /\ later.score <= today.score

\* What is computed of the users' histories is consistent: the retentions with the
\* series and the newcomers, and the traits with the funnels, as above.
HistoriesAgree == RetentionsAgree /\ TraitsAgree

\* Once an event is stored, the five readings of the log agree with each other and with
\* the log, as above: the two funnels, the two retentions and the traits
\* (packages/analytics, packages/funnels, packages/cohorts, packages/computed-traits).
QueriesAgree == log # <<>> => FunnelsAgree /\ HistoriesAgree
=============================================================================
