---------------------------- MODULE ChannelReports -----------------------------
(***************************************************************************)
(* What a marketing team is told of its channels: the credit of each touch *)
(* (packages/attribution), the variants of an experiment                   *)
(* (packages/ab-testing) and the return of each channel, from the raw rows *)
(* of the ad platforms and shops (packages/channel-roi).                   *)
(*                                                                         *)
(* Amounts are micros, millionths of a unit, and what is reported of them  *)
(* is in cents, ratios in hundredths.  Times are half-lives, and a rate is *)
(* a numerator over a denominator.  Sums are exact: the floating error of  *)
(* the code, far below a cent, is left out.  Aliases and sources have one  *)
(* representative of each kind the code tells apart.                       *)
(***************************************************************************)
EXTENDS Integers, Sequences, FiniteSets, SequencesExt, FiniteSetsExt, Arrays

CONSTANTS
  RawRows,   \* rows the providers may report
  Touches,   \* touchpoints: channel and time
  Exposed,   \* exposures: variant and whether it converted
  MaxRows,   \* bound: rows, touches and exposures of a report
  MaxTouchTs, \* bound: the last time of a touch or a conversion
  Underflow  \* half-lives whose weight is still more than 0 as a floating number

VARIABLES raw, touches, exposures  \* the three lists, in the order given

reportVars == <<raw, touches, exposures>>

Null == "null"
Cent == 10000
RoundedDiv(a, b) == (2 * a + b) \div (2 * b)
round(amount) == RoundedDiv(amount, Cent)

-----------------------------------------------------------------------------
\* channels.ts: aliases of sources and mediums, resolved once or again.
resolveSource(s) ==
  CASE s = "fb" -> "facebook" [] s \in {"adwords", "google.com"} -> "google"
    [] s = "t.co" -> "twitter" [] OTHER -> s
resolveMedium(m) ==
  CASE m \in {"ppc", "sem"} -> "cpc" [] m = "paid-social" -> "paid_social"
    [] m = "social-network" -> "social" [] m = "newsletter" -> "email"
    [] m \in {"banner", "cpm"} -> "display" [] m = "partner" -> "affiliate" [] OTHER -> m
SEARCH_ENGINES == {"google", "bing"}
SOCIAL_SOURCES == {"facebook", "twitter"}
EMAIL_SOURCES == {"mailchimp"}
PAID_MEDIUM == {"cpc", "ppc", "cpm", "cpv", "paid", "paid_social", "display"}
NONE_MEDIUM == {Null, "(none)"}

\* classifyChannel: the first case that fits.
classifyChannel(source, medium) ==
  LET s == resolveSource(source)
      m == resolveMedium(medium)
      paid == m \in PAID_MEDIUM
  IN IF m = "affiliate" THEN "affiliate"
     ELSE IF m = "email" \/ s \in EMAIL_SOURCES THEN "email"
     ELSE IF m = "display" THEN "display"
     ELSE IF m \in {"video", "cpv"} THEN "video"
     ELSE IF m = "paid_social" \/ (paid /\ s \in SOCIAL_SOURCES) THEN "paid_social"
     ELSE IF paid /\ (s \in SEARCH_ENGINES \/ m \in {"cpc", "ppc"}) THEN "paid_search"
     ELSE IF s \in SEARCH_ENGINES /\ m \in NONE_MEDIUM \cup {"organic"} THEN "organic_search"
     ELSE IF s \in SOCIAL_SOURCES /\ m \in NONE_MEDIUM \cup {"organic", "social"} THEN "organic_social"
     ELSE IF m = "referral" THEN "referral"
     ELSE IF s \in {Null, "direct"} /\ m \in NONE_MEDIUM THEN "direct" ELSE "other"
channelKey(s, m) == classifyChannel(resolveSource(s), resolveMedium(m))

-----------------------------------------------------------------------------
\* mapping.ts: a platform's row is spend or traffic, a shop's is revenue.
Spend(channel, spend, conversions) ==
  [is |-> "metric", channel |-> channel, spend |-> spend, conversions |-> conversions]
Sale(channel, amount, isNew) ==
  [is |-> "revenue", channel |-> channel, amount |-> amount, isNew |-> isNew]
mapGa4Row(r) == <<Spend(channelKey(r.source, r.medium), 0, r.conversions)>>
mapGoogleAdsRow(r) ==  \* micros, or else the plain cost
  <<Spend(CASE r.network \in {"DISPLAY", "DISCOVERY"} -> "display" [] r.network = "VIDEO" -> "video"
            [] r.network = "DEMAND_GEN" -> "paid_social" [] OTHER -> "paid_search",
          IF r.micros > 0 THEN r.micros ELSE r.cost, r.conversions)>>
mapMetaRow(r) == <<Spend("paid_social", r.cost, r.conversions)>>
mapStripeCharge(r) ==  \* an amount in cents
  <<Sale(classifyChannel(r.source, r.medium), Cent * r.amount, FALSE)>>
mapShopifyOrder(r) == <<Sale(classifyChannel(r.source, r.medium), r.amount, r.orders <= 1)>>
mapHubspotDeal(r) ==
  IF r.stage = "won" THEN <<Sale(classifyChannel(r.source, r.medium), r.amount, TRUE)>> ELSE <<>>
Mapped(r) ==
  CASE r.provider = "ga4" -> mapGa4Row(r) [] r.provider = "google_ads" -> mapGoogleAdsRow(r)
    [] r.provider = "meta" -> mapMetaRow(r) [] r.provider = "stripe" -> mapStripeCharge(r)
    [] r.provider = "shopify" -> mapShopifyOrder(r) [] r.provider = "hubspot" -> mapHubspotDeal(r)

\* Amounts and counts are numbers, touches lie within the horizon, and an exposure is
\* of one of two variants.
ASSUME ReportsAssumption ==
  /\ \A r \in RawRows :
       \/ r.provider = "ga4" /\ r.conversions \in Nat
       \/ r.provider = "google_ads" /\ {r.micros, r.cost, r.conversions} \subseteq Nat
       \/ r.provider = "meta" /\ {r.cost, r.conversions} \subseteq Nat
       \/ r.provider \in {"stripe", "shopify", "hubspot"} /\ r.amount \in Int
  /\ MaxTouchTs \in Nat /\ Underflow \in Nat /\ \A t \in Touches : t.ts \in 0..MaxTouchTs
  /\ \A e \in Exposed : e.variant \in {"a", "b"} /\ e.converted \in BOOLEAN

\* flatMap: the facts of all rows.
Facts == FoldLeft(LAMBDA facts, r : facts \o Mapped(r), <<>>, raw)

\* roi.ts: ratios are 0 where they have no base, and so are costs per head.
roas(revenue, spend) == IF spend > 0 THEN RoundedDiv(100 * revenue, spend) ELSE 0
cac(spend, heads) == IF heads > 0 THEN RoundedDiv(spend, Cent * heads) ELSE 0
acc(facts, channel) ==
  LET metrics == {k \in DOMAIN facts : facts[k].is = "metric" /\ facts[k].channel = channel}
      sales == {k \in DOMAIN facts : facts[k].is = "revenue" /\ facts[k].channel = channel}
  IN [spend |-> TotalOf([k \in metrics |-> facts[k].spend]),
      conversions |-> TotalOf([k \in metrics |-> facts[k].conversions]),
      revenue |-> TotalOf([k \in sales |-> facts[k].amount]),
      newCustomers |-> TotalOf([k \in sales |-> IF facts[k].isNew THEN 1 ELSE 0])]

\* The figures of one channel: each amount is rounded by itself, and ratios are of what
\* was not.  The breakeven return is `breakeven` per cent.
channelRoi(a, breakeven) ==
  [spend |-> round(a.spend), revenue |-> round(a.revenue), profit |-> round(a.revenue - a.spend),
   conversions |-> a.conversions, newCustomers |-> a.newCustomers,
   roas |-> roas(a.revenue, a.spend), cpa |-> cac(a.spend, a.conversions),
   cac |-> cac(a.spend, a.newCustomers),
   profitable |-> IF a.spend > 0 THEN 100 * a.revenue >= breakeven * a.spend ELSE a.revenue > 0]

\* summarizeChannelRoi: all channels, the totals of their figures, and the best and
\* the worst of those that spent.
totals(channels) ==
  LET sum(field) == TotalOf([c \in DOMAIN channels |-> channels[c][field]]) IN
  [spend |-> sum("spend"), revenue |-> sum("revenue"), profit |-> sum("profit"),
   conversions |-> sum("conversions"), newCustomers |-> sum("newCustomers"),
   roas |-> roas(sum("revenue"), sum("spend")),
   blendedCac |-> cac(Cent * sum("spend"), sum("newCustomers"))]
byRoas(channels) ==
  LET spenders == {c \in DOMAIN channels : channels[c].spend > 0} IN
  [best |-> {c \in spenders : \A d \in spenders : channels[c].roas >= channels[d].roas},
   worst |-> {c \in spenders : \A d \in spenders : channels[c].roas <= channels[d].roas}]
summarizeChannelRoi(facts, breakeven) ==
  [c \in {facts[k].channel : k \in DOMAIN facts} |-> channelRoi(acc(facts, c), breakeven)]

-----------------------------------------------------------------------------
\* attribution: a weight for each touch, in the order they were given.
positionWeights(n) ==
  [k \in 1..n |-> IF n < 3 THEN 1 ELSE IF k \in {1, n} THEN 2 * (n - 2) ELSE 1]
\* Halved with every half-life, until nothing is left of a floating number.
decay(age) == IF age > Underflow THEN 0 ELSE 2 ^ (Underflow - age)
timeDecayWeights(s, conversionTs) == [k \in DOMAIN s |-> decay(Max({0, conversionTs - s[k].ts}))]
weightsFor(s, model, conversionTs) ==
  CASE model = "first" -> [k \in DOMAIN s |-> IF k = 1 THEN 1 ELSE 0]
    [] model = "last" -> [k \in DOMAIN s |-> IF k = Len(s) THEN 1 ELSE 0]
    [] model = "position" -> positionWeights(Len(s))
    [] model = "time_decay" -> timeDecayWeights(s, conversionTs)
    [] model = "linear" -> [k \in DOMAIN s |-> 1]

\* normalizeByChannel: the share of each channel, over the sum of all weights, and no
\* share of none.
normalizeByChannel(s, weights) ==
  IF TotalOf(weights) <= 0 THEN <<>>
  ELSE [c \in {s[k].channel : k \in DOMAIN s} |->
         <<SumOver({k \in DOMAIN s : s[k].channel = c}, weights), TotalOf(weights)>>]
attribute(s, model, conversionTs) ==
  IF s = <<>> THEN <<>> ELSE normalizeByChannel(s, weightsFor(s, model, conversionTs))

-----------------------------------------------------------------------------
\* ab-testing: a bucket out of `buckets` falls into a share of the positive weights.
assign(weights, bucket, buckets) ==
  LET positive == {k \in DOMAIN weights : weights[k] > 0}
      upTo(k) == TotalOf([j \in 1..k |-> Max({weights[j], 0})])
  IN Min({k \in positive : bucket * upTo(Len(weights)) < upTo(k) * buckets})
analyze(variant) ==
  LET mine == {k \in DOMAIN exposures : exposures[k].variant = variant} IN
  [n |-> Cardinality(mine), conversions |-> Cardinality({k \in mine : exposures[k].converted})]

\* compare: the square of the z score, as a fraction; 0 without a standard error.
compare(a, b) ==
  LET base == a.n * b.n * (a.conversions + b.conversions) * (a.n + b.n - a.conversions - b.conversions)
      diff == b.conversions * a.n - a.conversions * b.n
  IN IF base = 0 THEN <<0, 1>> ELSE <<diff * diff * (a.n + b.n), base>>
significant(a, b) == compare(a, b)[1] * 10000 > 38416 * compare(a, b)[2]

-----------------------------------------------------------------------------
ReportInit == raw = <<>> /\ touches = <<>> /\ exposures = <<>>
AddRow ==
  /\ touches = <<>> /\ exposures = <<>> /\ Len(raw) < MaxRows
  /\ \E r \in RawRows : raw' = Append(raw, r)
  /\ UNCHANGED <<touches, exposures>>
AddTouch ==
  /\ raw = <<>> /\ exposures = <<>> /\ Len(touches) < MaxRows
  /\ \E t \in Touches : touches' = Append(touches, t)
  /\ UNCHANGED <<raw, exposures>>
AddExposure ==
  /\ raw = <<>> /\ touches = <<>> /\ Len(exposures) < MaxRows
  /\ \E e \in Exposed : exposures' = Append(exposures, e)
  /\ UNCHANGED <<raw, touches>>
ReportNext == AddRow \/ AddTouch \/ AddExposure
ReportSpec == ReportInit /\ [][ReportNext]_reportVars

-----------------------------------------------------------------------------
Models == {"first", "last", "linear", "time_decay", "position"}
Credited(s, model, ts) ==
  LET credit == attribute(s, model, ts) IN TotalOf([c \in DOMAIN credit |-> credit[c][1]])

\* Of a journey, every model gives away exactly one conversion, but for the decaying
\* credit of touches that are all too old to weigh anything: it gives none.  With the
\* conversion's own time, the order of the list is nothing to the linear and the
\* decaying credit, and a channel touched later never weighs less.
CreditAddsUp ==
  \A ts \in 0..MaxTouchTs : \A model \in Models :
    touches /= <<>> =>
      /\ \A c \in DOMAIN attribute(touches, model, ts) : Credited(touches, model, ts) = attribute(touches, model, ts)[c][2]
      /\ DOMAIN attribute(touches, model, ts) = {} <=>
           model = "time_decay" /\ \A k \in DOMAIN touches : ts - touches[k].ts > Underflow
      /\ model \in {"linear", "time_decay"} => attribute(Reverse(touches), model, ts) = attribute(touches, model, ts)
      /\ \A j, k \in DOMAIN touches :
           touches[j].ts <= touches[k].ts =>
             timeDecayWeights(touches, ts)[j] <= timeDecayWeights(touches, ts)[k]

\* Whatever a row brought is in the totals: conversions and new customers to the last,
\* amounts up to half a cent for each channel, profit within a cent for each channel of
\* revenue less spend; and to the last cent if every amount was of whole cents.  An ad
\* and a sale of the same source meet in one channel.
Near(x, y, slack) == x - slack <= y /\ y <= x + slack
RoiOf(facts, channels) ==
  LET sales == {k \in DOMAIN facts : facts[k].is = "revenue"}
      metrics == {k \in DOMAIN facts : facts[k].is = "metric"}
      sold == TotalOf([k \in sales |-> facts[k].amount])
      spent == TotalOf([k \in metrics |-> facts[k].spend])
      n == Cardinality(DOMAIN channels)
      whole == totals(channels)
      extremes == byRoas(channels)
  IN /\ Near(sold, Cent * whole.revenue, n * (Cent \div 2))
     /\ Near(spent, Cent * whole.spend, n * (Cent \div 2))
     /\ Near(whole.revenue - whole.spend, whole.profit, n)
     /\ /\ \A k \in sales : facts[k].amount % Cent = 0
        /\ \A k \in metrics : facts[k].spend % Cent = 0
        => /\ Cent * whole.revenue = sold /\ Cent * whole.spend = spent
           /\ whole.profit = whole.revenue - whole.spend
     /\ whole.conversions = TotalOf([k \in metrics |-> facts[k].conversions])
     /\ whole.newCustomers = TotalOf([k \in sales |-> IF facts[k].isNew THEN 1 ELSE 0])
     /\ \A b \in extremes.best, w \in extremes.worst : channels[b].roas >= channels[w].roas
RoiAddsUp ==
  /\ \A facts \in {Facts} : RoiOf(facts, summarizeChannelRoi(facts, 100))
  /\ \A k \in DOMAIN raw :
       "medium" \in DOMAIN raw[k] =>
         channelKey(raw[k].source, raw[k].medium) = classifyChannel(raw[k].source, raw[k].medium)

\* A comparison is the same from both sides, and the assignment gives each
\* variant its share of the buckets, whatever was exposed.
ExperimentIsFair ==
  LET a == analyze("a")  b == analyze("b") IN
    /\ a.n + b.n = Len(exposures)
    /\ significant(a, b) = significant(b, a)
    /\ LET weights == <<b.n, a.n, 1>>  buckets == a.n + b.n + 1 IN
         \A k \in DOMAIN weights :
           Cardinality({bucket \in 0..(buckets - 1) : assign(weights, bucket, buckets) = k}) = weights[k]

\* The reports add up: but for what rounding to cents, or the underflow of old weights,
\* takes away, no conversion, sale or cost is lost or counted twice between the rows and
\* the figures (attribution normalizeByChannel, channel-roi summarizeChannelRoi,
\* ab-testing assign and compare).
ReportsAddUp == CreditAddsUp /\ RoiAddsUp /\ ExperimentIsFair
=============================================================================
