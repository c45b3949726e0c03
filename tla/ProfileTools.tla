----------------------------- MODULE ProfileTools ------------------------------
(***************************************************************************)
(* What is computed from the stored profiles: intent and lead scores,      *)
(* segments and audiences, accounts, data quality, the retention plan, the *)
(* next best action and the enrichment, which writes profiles back.        *)
(*                                                                         *)
(* A profile is a flat record, and a dot path is the name of a field.      *)
(* Missing is a field that is not set, and the empty text.  Time is        *)
(* counted in days.  A text is a value, and what the code reads off it is  *)
(* in tables: what trimming, lower case and the rest make of the texts     *)
(* they change, and which texts pass the code's three expressions.         *)
(***************************************************************************)
EXTENDS Integers, Sequences, FiniteSets, SequencesExt, FiniteSetsExt, Arrays

CONSTANTS
  Ids,         \* profile ids, ordered numbers
  Drafts,      \* profiles as they are first stored
  FoundData,   \* firmographics a provider may answer with
  Trimmed,     \* what is left of a text with blanks around it
  Tidied,      \* ... and of one with blanks or capitals, in lower case
  Bared,       \* ... and of a tidy one with a scheme, a "www." or a path
  HostOf,      \* what follows the "@" of a text that has one
  Addresses,   \* the texts of the form someone@host.end
  HostNames,   \* the texts of a-z, 0-9, "." and "-" that end in "." and two letters or more
  Phones,      \* the texts of ten digits, or of eleven from a 1 on
  EventTopics, \* sets of topics one event may imply
  ActiveDays,  \* bound: the days on which anything happens
  ClockDays    \* bound: the days on which a score or a plan is asked for

ProfileFields ==
  {"email", "userId", "anonymousId", "phone", "ip", "company", "domain", "industry", "employees",
   "revenue", "topics", "score", "lastActive", "createdAt"}

Missing == "none"
Changed(table, text) == IF text \in DOMAIN table THEN table[text] ELSE text
trim(text) == Changed(Trimmed, text)
tidy(text) == Changed(Tidied, text)   \* text.trim().toLowerCase()
mailHost(email) == IF email \in DOMAIN HostOf THEN HostOf[email] ELSE Missing
\* What the enrichment makes of the ranges and industries it knows.
CanonicalTexts ==
  {"software", "financial_services", "healthcare", "1-10", "11-50", "51-200", "201-1000", "1001+"}

\* Days are counted from the first; a profile is first stored without a score.
ASSUME ToolsAssumption ==
  /\ Ids \subseteq Int /\ ActiveDays \subseteq Nat /\ ClockDays \subseteq Nat
  /\ \A d \in Drafts : d = [f \in ProfileFields |-> d[f]] /\ d.score = 0

\* Nothing is trimmed nor tidied twice; a host name is tidy, and so is all of an
\* address that is, its host included.
ASSUME TextAssumption ==
  /\ Missing \notin UNION {DOMAIN Trimmed, DOMAIN Tidied, DOMAIN Bared, Addresses, HostNames}
  /\ \A t \in DOMAIN Trimmed : Trimmed[t] \notin DOMAIN Trimmed
  /\ \A t \in DOMAIN Tidied : Tidied[t] \notin DOMAIN Tidied
  /\ (HostNames \cup CanonicalTexts) \cap DOMAIN Tidied = {}
  /\ \A e \in Addresses \cup DOMAIN Tidied :
       tidy(e) \in Addresses => tidy(mailHost(e)) = mailHost(tidy(e))

VARIABLES
  profiles,  \* stored profiles, by id
  queue      \* the copies an enrichment has read and not yet written back

toolVars == <<profiles, queue>>

Never == -1
FirmoFields == <<"company", "domain", "industry", "employees", "revenue">>
\* Free mail providers as the account graph lists them, and as the enrichment does.
FREE_MAIL == {"gmail.com", "outlook.com", "hotmail.com", "yahoo.com", "icloud.com", "aol.com"}
FreeMailOfEnrichment == FREE_MAIL \cup {"proton.me"}

RoundDiv(a, b) == (2 * a + b) \div (2 * b)   \* Math.round of a fraction
Clamp100(x) == Max({0, Min({100, x})})
Count(S) == Cardinality(S)

-----------------------------------------------------------------------------
\* intent.ts: topics, and their score with the recency of the last activity.
TOPICS == {"pricing", "purchase", "comparison", "evaluation", "support", "churn"}
HIGH_INTENT == {"pricing", "purchase", "evaluation"}
Decay(active, now) == IF active = Never \/ now < active THEN 0 ELSE Max({0, 30 - (now - active)})
computeIntentScore(topics, active, now) ==
  LET known == topics \cap TOPICS IN
  IF known = {} THEN 0
  ELSE Clamp100(RoundDiv(9350 * Count(known) + 15300 * Count(known \cap HIGH_INTENT)
                           + 600 * Decay(active, now), 1200))

\* lead-scoring: fit by rules, engagement by intent and recency, and their blend.
matchesRule(p, rule) ==
  CASE rule.op = "exists" -> p[rule.field] # Missing
    [] rule.op = "eq" -> p[rule.field] = rule.value
    [] rule.op = "in" -> p[rule.field] \in rule.value
    [] rule.op = "gte" -> p[rule.field] >= rule.value
SumPoints(rules) == FoldSet(LAMBDA r, sum : sum + Max({r.points, 0}), 0, rules)
fitScore(p, rules) ==
  IF SumPoints(rules) = 0 THEN 0
  ELSE Clamp100(RoundDiv(100 * SumPoints({r \in rules : matchesRule(p, r)}), SumPoints(rules)))

ByAge(age) == CASE age <= 1 -> 100 [] age \in 2..7 -> 75 [] age \in 8..30 -> 40 [] OTHER -> 10

\* Mutant: the difference the wrong way round.
recencyScoreSwapped(p, now) ==
  IF p.lastActive = Never THEN 0 ELSE ByAge(Max({0, p.lastActive - now}))

recencyScore(p, now) ==
  IF p.lastActive = Never THEN 0 ELSE ByAge(Max({0, now - p.lastActive}))
engagementScore(p, now) == RoundDiv(7 * Clamp100(p.score) + 3 * recencyScore(p, now), 10)
grade(score) ==
  CASE score >= 80 -> "A" [] score \in 60..79 -> "B" [] score \in 40..59 -> "C" [] OTHER -> "D"
leadScore(p, model, now) ==
  LET fit == fitScore(p, model.rules)
      total == model.fit + model.engagement
      score == IF total <= 0 THEN 0
               ELSE RoundDiv(fit * model.fit + engagementScore(p, now) * model.engagement, total)
  IN [score |-> Clamp100(score), grade |-> grade(score)]

-----------------------------------------------------------------------------
\* segments.ts: every predicate of a rule holds.
matches(p, predicate) ==
  CASE predicate.kind = "exists" -> (p[predicate.path] # Missing) = predicate.exists
    [] predicate.kind = "equals" -> p[predicate.path] = predicate.value
    [] predicate.kind = "bare" -> p[predicate.path] # Missing
segmentMembers(rule) == {id \in DOMAIN profiles : \A q \in rule : matches(profiles[id], q)}

\* audiences: a sample of the first ids in order, and what two rules share.
snapshot(rule, sampleSize) ==
  LET ids == Sorted(segmentMembers(rule), <) IN
  [size |-> Len(ids), sampleIds |-> SubSeq(ids, 1, Min({sampleSize, Len(ids)}))]
overlap(a, b) ==
  LET A == segmentMembers(a)  B == segmentMembers(b) IN
  [aOnly |-> Count(A \ B), bOnly |-> Count(B \ A), both |-> Count(A \cap B)]

\* personalization: the eligible action of the highest priority, then by key.
nextBestAction(id, actions) ==
  LET eligible == {a \in actions : id \in segmentMembers(a.eligibility)}
      better(a, b) == a.priority > b.priority \/ (a.priority = b.priority /\ a.key < b.key)
  IN IF eligible = {} THEN {} ELSE {CHOOSE a \in eligible : \A b \in eligible \ {a} : better(a, b)}

\* chooseVariant: a hash falls into the weights' sum, and so into one variant.
chooseVariant(hash, weights) ==
  LET upTo(k) == FoldLeft(LAMBDA a, b : a + b, 0, SubSeq(weights, 1, k))
      bucket == hash % Max({upTo(Len(weights)), 1})
      inside == {k \in DOMAIN weights : bucket < upTo(k)}
  IN IF inside = {} THEN Len(weights) ELSE Min(inside)

-----------------------------------------------------------------------------
\* identity-graph: a text as a host name, and the host of a mail address as one.
cleanDomain(domain) == IF tidy(domain) \in HostNames THEN tidy(domain) ELSE Missing
domainOf(email) == cleanDomain(mailHost(email))

\* Mutant: the company's domain first.
accountKeyForCompany(p) ==
  LET company == cleanDomain(p.domain)
      domain == IF company # Missing THEN company ELSE domainOf(p.email)
  IN IF domain \in FREE_MAIL THEN Missing ELSE domain

\* The account of a profile is its mail's host, else its company's domain, unless that
\* is a free mail provider's.
accountKeyFor(p) ==
  LET mail == domainOf(p.email)
      domain == IF mail # Missing THEN mail ELSE cleanDomain(p.domain)
  IN IF domain \in FREE_MAIL THEN Missing ELSE domain
completeness(p) == Count({f \in {"email", "userId", "company", "domain"} : p[f] # Missing})
buildAccountGraph ==
  LET key(id) == accountKeyFor(profiles[id])
      list(k) == {id \in DOMAIN profiles : key(id) = k}
      before(a, b) ==
        LET p == profiles[a]  q == profiles[b] IN
        \/ completeness(p) > completeness(q)
        \/ completeness(p) = completeness(q) /\ p.createdAt < q.createdAt
        \/ completeness(p) = completeness(q) /\ p.createdAt = q.createdAt /\ a < b
  IN [k \in {key(id) : id \in DOMAIN profiles} \ {Missing} |->
       [members |-> list(k),
        primary |-> CHOOSE a \in list(k) : \A b \in list(k) \ {a} : before(a, b)]]
accountOf(id) == {k \in DOMAIN buildAccountGraph : id \in buildAccountGraph[k].members}

\* data-quality: errors of a profile, the key it is deduplicated by, and its score.
\* An address may be one here though its host is none to the account graph.
normalizeEmail(raw) == IF tidy(raw) \in Addresses THEN tidy(raw) ELSE Missing
validDomain(domain) == tidy(domain) \in HostNames
validateProfile(p) ==
  {c \in {"invalid_email", "invalid_domain", "missing_identifier", "invalid_phone"} :
    \/ c = "invalid_email" /\ p.email # Missing /\ normalizeEmail(p.email) = Missing
    \/ c = "invalid_domain" /\ p.domain # Missing /\ ~validDomain(p.domain)
    \/ c = "missing_identifier" /\ {p.userId, p.email, p.anonymousId} = {Missing}
    \/ c = "invalid_phone" /\ p.phone # Missing /\ p.phone \notin Phones}
dedupeKey(id) ==
  LET p == profiles[id]  email == normalizeEmail(p.email) IN
  IF p.userId # Missing THEN <<"user", p.userId>>
  ELSE IF email # Missing THEN <<"email", email>>
  ELSE IF p.anonymousId # Missing THEN <<"anonymous", p.anonymousId>>
  ELSE <<"profile", id>>
completenessScore(p) ==
  20 * Count({f \in {"userId", "email", "anonymousId", "company", "domain"} : trim(p[f]) # Missing})
scoreQuality(p) == Clamp100(completenessScore(p) - 20 * Count(validateProfile(p)))

\* data-retention, of records of a category with a day of creation.
policyOf(record, policies) == IF record.category \in DOMAIN policies THEN {policies[record.category]} ELSE {}
nextExpiry(record, policies) == {record.createdAt + q.ttlDays : q \in policyOf(record, policies)}
expired(record, policies, now) == \E at \in nextExpiry(record, policies) : at < now
evaluateRetention(records, policies, now) ==
  LET due(action) == {r \in records : ~r.legalHold /\ expired(r, policies, now)
                                       /\ policies[r.category].action = action} IN
  [heldBack |-> {r \in records : r.legalHold},
   retained |-> {r \in records : ~r.legalHold /\ ~expired(r, policies, now)},
   purge |-> due("purge"), anonymize |-> due("anonymize")]

-----------------------------------------------------------------------------
\* enrichment: raw values into canonical ones, or none.  An employee or revenue range
\* that is not known becomes the largest.  Blanks inside an industry or a range, which
\* the code joins or removes, are left out, and so is the country, which is treated as
\* the company is.
normalizeDomain(raw) ==
  LET domain == Changed(Bared, tidy(raw)) IN IF domain \in HostNames THEN domain ELSE Missing
normalizeIndustry(raw) ==
  LET value == tidy(raw) IN
  IF value \in {"saas", "software", "technology", "tech"} THEN "software"
  ELSE IF value \in {"finance", "fintech", "financial services"} THEN "financial_services"
  ELSE IF value \in {"health", "healthcare", "medical"} THEN "healthcare" ELSE value
normalizeEmployeeRange(raw) ==
  LET value == tidy(raw) IN
  CASE value \in {"1-10", "0-10"} -> "1-10" [] value \in {"11-50", "10-50"} -> "11-50"
    [] value \in {"51-200", "50-200"} -> "51-200" [] value \in {"201-1000", "200-1000"} -> "201-1000"
    [] OTHER -> "1001+"
normalizeRevenueRange(raw) ==
  LET value == tidy(raw) IN
  CASE value \in {"<1m", "under1m"} -> "<1m" [] value \in {"10m-50m", "50m"} -> "10m-50m"
    [] value \in {"1m-10m", "10m"} -> "1m-10m" [] OTHER -> "50m+"
canonical(f, raw) ==
  CASE f = "company" -> trim(raw)
    [] f = "domain" -> normalizeDomain(raw)
    [] f = "industry" -> normalizeIndustry(raw)
    [] f = "employees" -> normalizeEmployeeRange(raw)
    [] f = "revenue" -> normalizeRevenueRange(raw)
normalizeFirmographics(d) ==
  [f \in ToSet(FirmoFields) |-> IF d[f] = Missing THEN Missing ELSE canonical(f, d[f])]

\* The route's options: what is there is preferred, the revenue is sensitive.
\* Mutant: what was found is preferred.
mergePreferringFound(base, next) == [f \in DOMAIN base |-> IF next[f] # Missing THEN next[f] ELSE base[f]]
mergeFirmographics(base, next) == [f \in DOMAIN base |-> IF base[f] = Missing THEN next[f] ELSE base[f]]
stripSensitive(d) == [d EXCEPT !.revenue = Missing]

deriveDomain(p) ==
  LET company == normalizeDomain(p.domain)
      mail == normalizeDomain(mailHost(p.email))
  IN IF company # Missing THEN company ELSE IF mail \in FreeMailOfEnrichment THEN Missing ELSE mail
lookupKeys(p) ==
  UNION {{<<"domain", d>> : d \in {deriveDomain(p)} \ {Missing}},
         {<<"email", tidy(e)>> : e \in {p.email} \ {Missing}},
         {<<"ip", i>> : i \in {trim(p.ip)} \ {Missing}}}

FirmographicsOf(p) == [f \in ToSet(FirmoFields) |-> p[f]]
enrichProfile(p, found) ==
  LET merged == FoldLeft(LAMBDA acc, d : mergeFirmographics(acc, normalizeFirmographics(d)),
                         FirmographicsOf(p), found)
      rich == stripSensitive(normalizeFirmographics(merged))
  IN [f \in DOMAIN p |-> IF f \in DOMAIN rich THEN rich[f] ELSE p[f]]

-----------------------------------------------------------------------------
ToolsInit == profiles = <<>> /\ queue = <<>>

\* A profile is created ...
Store(id, draft, day) ==
  /\ id \notin DOMAIN profiles
  /\ profiles' = [i \in DOMAIN profiles \cup {id} |->
                    IF i = id THEN [draft EXCEPT !.createdAt = day, !.lastActive = day]
                    ELSE profiles[i]]
  /\ UNCHANGED queue

\* ... and active again: topics add up, and the score is that of the moment.
Active(id, topics, day) ==
  /\ id \in DOMAIN profiles /\ day > profiles[id].lastActive
  /\ LET all == profiles[id].topics \cup topics IN
     profiles' = [profiles EXCEPT ![id].topics = all, ![id].lastActive = day,
                                  ![id].score = computeIntentScore(all, day, day)]
  /\ UNCHANGED queue

\* selectProfiles: copies of the profiles named, or of all of them.
StartEnrichment(ids) ==
  /\ queue = <<>>
  /\ queue' = [k \in 1..Count(ids) |->
                 LET id == Sorted(ids, <)[k] IN [id |-> id, copy |-> profiles[id]]]
  /\ UNCHANGED profiles

\* One profile looked up and saved, as it was when it was read.
EnrichNext(found) ==
  /\ queue # <<>>
  /\ lookupKeys(Head(queue).copy) = {} => found = <<>>
  /\ profiles' = [profiles EXCEPT ![Head(queue).id] = enrichProfile(Head(queue).copy, found)]
  /\ queue' = Tail(queue)

\* A provider throws: the profiles before it stay enriched.
EnrichmentFails ==
  /\ queue # <<>> /\ lookupKeys(Head(queue).copy) # {}
  /\ queue' = <<>>
  /\ UNCHANGED profiles

ToolsNext ==
  \/ \E id \in Ids, draft \in Drafts, day \in ActiveDays : Store(id, draft, day)
  \/ \E id \in Ids, topics \in EventTopics, day \in ActiveDays : Active(id, topics, day)
  \/ \E ids \in SUBSET DOMAIN profiles : StartEnrichment(ids)
  \/ \E found \in BoundedSeq(FoundData, 2) : EnrichNext(found)
  \/ EnrichmentFails

ToolsSpec == ToolsInit /\ [][ToolsNext]_toolVars

-----------------------------------------------------------------------------
LeadModels ==
  {[rules |-> {[field |-> "company", op |-> "exists", points |-> 30],
               [field |-> "industry", op |-> "eq", value |-> "software", points |-> 20],
               [field |-> "score", op |-> "gte", value |-> 40, points |-> 50]},
    fit |-> f, engagement |-> e] : f \in {0, 3}, e \in {-1, 1}}
Policies == [category \in {"events", "leads"} |->
  IF category = "events" THEN [ttlDays |-> 3, action |-> "purge"]
  ELSE [ttlDays |-> 7, action |-> "anonymize"]]
Records ==
  [category : {"events", "leads", "orders"}, legalHold : BOOLEAN,
   createdAt : {p.createdAt : p \in Range(profiles)}]
PlanOnlyGrows == Records # {} =>
  LET plan == [t \in ClockDays |-> evaluateRetention(Records, Policies, t)] IN
  \A t \in ClockDays :
    /\ \A r \in Records : Count({part \in DOMAIN plan[t] : r \in plan[t][part]}) = 1
    /\ \A u \in ClockDays : t < u => /\ plan[t].purge \subseteq plan[u].purge
                                   /\ plan[t].anonymize \subseteq plan[u].anonymize
    /\ \A r \in plan[t].purge \cup plan[t].anonymize : ~r.legalHold /\ r.createdAt < t

\* Time alone never improves a lead nor takes a record off the retention plan: a
\* score taken at an earlier clock, such as that of the server's start, is never
\* lower than the one of now, and never higher by a model that counts engagement
\* against the lead; its grade follows it; and a record once due stays due.  Every
\* record is in one part of the plan, and what is held is never due.
WaitingNeverHelps ==
  /\ \A id \in DOMAIN profiles, model \in LeadModels :
       LET leads == {<<t, leadScore(profiles[id], model, t)>> : t \in ClockDays} IN
       \A x, y \in leads :
         /\ x[1] < y[1] => IF model.engagement >= 0 THEN y[2].score <= x[2].score
                           ELSE x[2].score <= y[2].score
         /\ x[2].score = y[2].score => x[2].grade = y[2].grade
  /\ \A id \in DOMAIN profiles : profiles[id].score \in 0..100
  /\ PlanOnlyGrows

Rules ==
  {{[path |-> "company", kind |-> "exists", exists |-> TRUE]},
   {[path |-> "industry", kind |-> "equals", value |-> "software"]},
   {[path |-> "domain", kind |-> "bare"], [path |-> "userId", kind |-> "exists", exists |-> FALSE]}}
Offers == {[key |-> k, priority |-> (k + 1) \div 2, eligibility |-> SetToSeq(Rules)[k]] : k \in 1..3}

\* The views of the profiles, if there are any, agree: the parts of two audiences add
\* up to each; an account holds whom its key names, once, led by one of the most
\* complete; an offer goes to whom it is for, none better left; profiles with one
\* deduplication key of a mail address share their account, if that address has a host
\* the account graph takes for one (else each goes by its company's domain); and a
\* profile scores its completeness just when it has no errors, or nothing to lose by
\* them.
ViewsAgree == profiles # <<>> =>
  /\ \A a, b \in Rules :
       LET parts == overlap(a, b) IN
       /\ parts.aOnly + parts.both = snapshot(a, 1).size
       /\ parts.bOnly + parts.both = snapshot(b, 1).size
       /\ ToSet(snapshot(a, 1).sampleIds) \subseteq segmentMembers(a)
  /\ \A id \in DOMAIN profiles :
       /\ accountOf(id) = {accountKeyFor(profiles[id])} \ {Missing}
       /\ \A k \in accountOf(id) :
            completeness(profiles[id]) <= completeness(profiles[buildAccountGraph[k].primary])
       /\ \A offer \in nextBestAction(id, Offers) :
            /\ id \in segmentMembers(offer.eligibility)
            /\ \A o \in Offers : id \in segmentMembers(o.eligibility) => o.priority <= offer.priority
       /\ scoreQuality(profiles[id]) = completenessScore(profiles[id])
            <=> validateProfile(profiles[id]) = {} \/ completenessScore(profiles[id]) = 0
  /\ \A a, b \in DOMAIN profiles :
       dedupeKey(a) = dedupeKey(b) /\ dedupeKey(a)[1] = "email" /\ domainOf(profiles[a].email) # Missing
         => accountOf(a) = accountOf(b)
  /\ \A hash \in 0..5 : chooseVariant(hash, <<1, 0, 2>>) \in {1, 3}

\* An enrichment only fills gaps, whatever answers come: a field that was set is
\* afterwards what its own canonical form is, none if it has none; one that was not is
\* what the first answer with a value for it says, and none without such an answer;
\* and the revenue is never there, not even one that was.  To enrich again with the
\* same answers fills what lost its value, shortens (or drops) a domain that is left
\* with a "www.", and changes nothing else.
EnrichmentFillsGaps ==
  \A k \in DOMAIN queue, found \in BoundedSeq(FoundData, 2) :
    LET copy == queue[k].copy
        rich == enrichProfile(copy, found)
        twice == enrichProfile(rich, found)
        answer(j) == normalizeFirmographics(found[j])
    IN
    /\ \A f \in ToSet(FirmoFields) \ {"revenue"} :
         LET answers == {j \in DOMAIN found : answer(j)[f] # Missing} IN
         /\ rich[f] = IF copy[f] # Missing THEN normalizeFirmographics(FirmographicsOf(copy))[f]
                      ELSE IF answers # {} THEN normalizeFirmographics(answer(Min(answers)))[f]
                      ELSE Missing
         /\ twice[f] # rich[f] => \/ copy[f] # Missing /\ rich[f] = Missing
                                  \/ f = "domain" /\ twice[f] = normalizeDomain(rich[f])
    /\ rich.revenue = Missing
    /\ \A f \in DOMAIN copy \ ToSet(FirmoFields) : rich[f] = copy[f]
=============================================================================
