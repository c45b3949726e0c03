---------------------------- MODULE Analyses_proofs ----------------------------
(***************************************************************************)
(* What is computed from the stored profiles, from the stored events, from *)
(* the channels' rows and from what was collected for audience research    *)
(* agrees with itself, whatever is stored.                                 *)
(***************************************************************************)
EXTENDS ProfileTools, EventQueries, Figures, DataLemmas

-----------------------------------------------------------------------------
(* Numbers.                                                                 *)
LEMMA Clamping ==
  ASSUME NEW x \in Int
  PROVE  Clamp100(x) = IF x < 0 THEN 0 ELSE IF x > 100 THEN 100 ELSE x
<1>1. Min({100, x}) = IF x <= 100 THEN x ELSE 100 BY MinOf, SMT
<1>2. Max({0, Min({100, x})}) = IF 0 >= Min({100, x}) THEN 0 ELSE Min({100, x}) BY <1>1, MaxOf
<1> QED BY <1>1, <1>2 DEF Clamp100

LEMMA Rounding ==
  ASSUME NEW b \in Nat \ {0}
  PROVE  /\ \A a \in Int : RoundDiv(a, b) \in Int
         /\ \A a, c \in Int : a <= c => RoundDiv(a, b) <= RoundDiv(c, b)
BY DEF RoundDiv

-----------------------------------------------------------------------------
(* The profiles.                                                            *)

\* What the analyses need of a stored profile, and of the copy of one.
ProfileOK(p) ==
  /\ p = [f \in ProfileFields |-> p[f]]
  /\ p.score \in 0..100 /\ p.lastActive \in Nat /\ p.createdAt \in Nat

QueueOK(q) == \E Jobs : q \in Seq(Jobs) /\ \A job \in Jobs : ProfileOK(job.copy)

ToolsInv ==
  /\ IsFiniteSet(DOMAIN profiles) /\ DOMAIN profiles \subseteq Ids
  /\ \A id \in DOMAIN profiles : ProfileOK(profiles[id])
  /\ QueueOK(queue)

LEMMA NoCopies == QueueOK(<<>>)
<1> DEFINE OK(Jobs) == <<>> \in Seq(Jobs) /\ \A job \in Jobs : ProfileOK(job.copy)
<1>1. OK({}) OBVIOUS
<1>2. QueueOK(<<>>) <=> \E Jobs : OK(Jobs) BY Zenon DEF QueueOK
<1> HIDE DEF OK
<1> QED BY Zenon, <1>1, <1>2

LEMMA ToolsStart == ToolsInit => ToolsInv
<1> SUFFICES ASSUME ToolsInit PROVE ToolsInv
  OBVIOUS
<1>1. DOMAIN profiles = {} /\ queue = <<>> BY DEF ToolsInit
<1>2. IsFiniteSet({}) BY FS_EmptySet
<1>3. QueueOK(queue) BY <1>1, NoCopies
<1> QED BY <1>1, <1>2, <1>3 DEF ToolsInv

LEMMA IntentScoreRange ==
  ASSUME NEW topics, NEW active \in Nat, NEW now \in Nat
  PROVE  computeIntentScore(topics, active, now) \in 0..100
<1> DEFINE known == topics \cap TOPICS
           high == known \cap HIGH_INTENT
<1>1. Count(known) \in Nat /\ Count(high) \in Nat
  <2>1. IsFiniteSet(TOPICS)
    <3> DEFINE list == <<"pricing", "purchase", "comparison", "evaluation", "support", "churn">>
    <3>1. list \in Seq(TOPICS) /\ Len(list) = 6 BY DEF TOPICS
    <3>2. \A t \in TOPICS : \E k \in 1..Len(list) : list[k] = t BY <3>1 DEF TOPICS
    <3> HIDE DEF list
    <3> QED BY <3>1, <3>2 DEF IsFiniteSet
  <2>2. IsFiniteSet(known) /\ IsFiniteSet(high)
    <3>1. known \subseteq TOPICS /\ high \subseteq TOPICS OBVIOUS
    <3> QED BY Zenon, <2>1, <3>1, FS_Subset
  <2> QED BY <2>2, FS_CardinalityType DEF Count
<1>2. Decay(active, now) \in Int
  <2>1. Max({0, 30 - (now - active)}) \in Int BY MaxOf
  <2> QED BY <2>1 DEF Decay
<1> DEFINE x == 9350 * Count(known) + 15300 * Count(high) + 600 * Decay(active, now)
<1>3. x \in Int BY <1>1, <1>2
<1>4. computeIntentScore(topics, active, now) = IF known = {} THEN 0 ELSE Clamp100(RoundDiv(x, 1200))
  BY DEF computeIntentScore
<1> HIDE DEF x, known
<1>5. RoundDiv(x, 1200) \in Int BY <1>3, Rounding
<1>6. Clamp100(RoundDiv(x, 1200)) \in 0..100 BY <1>5, Clamping
<1> QED BY <1>4, <1>6

-----------------------------------------------------------------------------
(* The enrichment.                                                          *)
LEMMA FirmoSet == ToSet(FirmoFields) = {"company", "domain", "industry", "employees", "revenue"}
<1>1. DOMAIN FirmoFields = 1..5 BY DEF FirmoFields
<1> QED BY <1>1 DEF FirmoFields, ToSet

\* The answers laid over a profile's firmographics.
Merged(p, found) ==
  FoldLeft(LAMBDA m, d : mergeFirmographics(m, normalizeFirmographics(d)),
           FirmographicsOf(p), found)

LEMMA Enriched ==
  ASSUME NEW p, NEW found
  PROVE  enrichProfile(p, found) =
           [f \in DOMAIN p |->
             IF f = "revenue" THEN Missing
             ELSE IF f \in ToSet(FirmoFields) THEN normalizeFirmographics(Merged(p, found))[f]
             ELSE p[f]]
<1> DEFINE rich == stripSensitive(normalizeFirmographics(Merged(p, found)))
           d == normalizeFirmographics(Merged(p, found))
<1>1. enrichProfile(p, found) = [f \in DOMAIN p |-> IF f \in DOMAIN rich THEN rich[f] ELSE p[f]]
  BY DEF enrichProfile, Merged
<1>2. DOMAIN d = ToSet(FirmoFields) BY DEF normalizeFirmographics
<1> HIDE DEF d
<1>3. rich = [d EXCEPT !.revenue = Missing] BY DEF stripSensitive, d
<1> HIDE DEF rich
<1>4. /\ DOMAIN rich = ToSet(FirmoFields) /\ "revenue" \in ToSet(FirmoFields)
      /\ \A f \in ToSet(FirmoFields) : rich[f] = IF f = "revenue" THEN Missing ELSE d[f]
  BY <1>2, <1>3, FirmoSet
<1> QED BY <1>1, <1>4 DEF d

\* A gap is filled only by an answer, and only if an answer has a value for it.
LEMMA MergedFields ==
  ASSUME NEW p, NEW n \in Nat, NEW found, DOMAIN found = 1..n, NEW f \in ToSet(FirmoFields)
  PROVE  /\ p[f] # Missing => Merged(p, found)[f] = p[f]
         /\ p[f] = Missing =>
              LET has(k) == normalizeFirmographics(found[k])[f] # Missing IN
              /\ (\A k \in 1..n : ~has(k)) => Merged(p, found)[f] = Missing
              /\ \A k \in 1..n : has(k) /\ (\A j \in 1..(k - 1) : ~has(j))
                   => Merged(p, found)[f] = normalizeFirmographics(found[k])[f]
<1> DEFINE F == ToSet(FirmoFields)
           base == FirmographicsOf(p)
           N == [k \in 1..n |-> normalizeFirmographics(found[k])]
           Vals == {base[g] : g \in F} \cup UNION {{N[k][g] : g \in F} : k \in 1..n}
           V == [F -> Vals]
           step == [x \in (1..n) \X V |-> mergeFirmographics(x[2], N[x[1]])]
<1>1. base \in V BY DEF FirmographicsOf
<1>2. \A k \in 1..n : N[k] \in V
  <2>1. \A k \in 1..n : N[k] = normalizeFirmographics(found[k]) OBVIOUS
  <2>2. \A k \in 1..n : N[k] = [g \in F |-> N[k][g]] BY <2>1 DEF normalizeFirmographics
  <2>3. \A k \in 1..n, g \in F : N[k][g] \in Vals OBVIOUS
  <2> HIDE DEF N, Vals
  <2> QED BY <2>2, <2>3
<1> HIDE DEF Vals
<1>3. \A x \in V, y \in V : /\ mergeFirmographics(x, y) \in V
                            /\ mergeFirmographics(x, y)[f] = IF x[f] = Missing THEN y[f] ELSE x[f]
  BY DEF mergeFirmographics
<1>4. step \in [(1..n) \X V -> V]
  <2> HIDE DEF V, N
  <2> QED BY <1>2, <1>3
<1> HIDE DEF V, N, base
<1>5. PICK h \in [SUBSET (1..n) -> V] : IsListFold(h, n, base, step)
  <2> HIDE DEF step
  <2> QED BY <1>1, <1>4, FoldingList
<1>6. h = [T \in SUBSET (1..n) |->
             IF T = {} THEN base
             ELSE mergeFirmographics(h[T \ {Max(T)}], normalizeFirmographics(found[Max(T)]))]
  <2>1. ASSUME NEW T \in SUBSET (1..n), T # {}
        PROVE  step[<<Max(T), h[T \ {Max(T)}]>>]
                 = mergeFirmographics(h[T \ {Max(T)}], normalizeFirmographics(found[Max(T)]))
    <3>1. Max(T) \in 1..n /\ h[T \ {Max(T)}] \in V BY <1>5, <2>1, GreatestOf
    <3> QED BY <3>1 DEF N
  <2> HIDE DEF step
  <2> QED BY <1>5, <2>1 DEF IsListFold
<1> HIDE DEF step
<1> DEFINE iter == CHOOSE g :
             g = [T \in SUBSET (1..n) |->
                   IF T = {} THEN base
                   ELSE mergeFirmographics(g[T \ {Max(T)}], normalizeFirmographics(found[Max(T)]))]
<1>7. iter = [T \in SUBSET (1..n) |->
               IF T = {} THEN base
               ELSE mergeFirmographics(iter[T \ {Max(T)}], normalizeFirmographics(found[Max(T)]))]
  BY <1>6
<1>8. Merged(p, found) = iter[1..n]
  BY Zenon DEF Merged, FoldLeft, MapThenFoldSet, base
<1> HIDE DEF iter
<1>9. iter[1..0] = base BY <1>7
<1>10. ASSUME NEW k \in 1..n PROVE iter[1..k] = mergeFirmographics(iter[1..(k - 1)], N[k])
  <2>1. 1..k \in SUBSET (1..n) /\ 1..k # {} OBVIOUS
  <2>2. iter[1..k] = mergeFirmographics(iter[(1..k) \ {Max(1..k)}], normalizeFirmographics(found[Max(1..k)]))
    BY <1>7, <2>1
  <2>3. Max(1..k) = k /\ (1..k) \ {Max(1..k)} = 1..(k - 1) BY Greatest
  <2>4. normalizeFirmographics(found[Max(1..k)]) = N[k] BY <2>3 DEF N
  <2> QED BY <2>2, <2>3, <2>4
<1> DEFINE Holds(k) == /\ iter[1..k] \in V
                       /\ base[f] # Missing => iter[1..k][f] = base[f]
                       /\ base[f] = Missing /\ (\A j \in 1..k : N[j][f] = Missing) => iter[1..k][f] = Missing
                       /\ \A m \in 1..k :
                            base[f] = Missing /\ N[m][f] # Missing /\ (\A j \in 1..(m - 1) : N[j][f] = Missing)
                              => iter[1..k][f] = N[m][f]
           Good == {k \in Nat : k <= n => Holds(k)}
<1>11. 0 \in Good BY <1>1, <1>9
<1>12. ASSUME NEW k \in Nat, k \in Good PROVE k + 1 \in Good
  <2> SUFFICES ASSUME k + 1 <= n PROVE Holds(k + 1)
    OBVIOUS
  <2>1. k + 1 \in 1..n /\ Holds(k) /\ (k + 1) - 1 = k BY <1>12
  <2>2. iter[1..(k + 1)] = mergeFirmographics(iter[1..k], N[k + 1]) BY <1>10, <2>1
  <2>3. N[k + 1] \in V BY <1>2, <2>1
  <2>4. /\ iter[1..(k + 1)] \in V
        /\ iter[1..(k + 1)][f] = IF iter[1..k][f] = Missing THEN N[k + 1][f] ELSE iter[1..k][f]
    BY <1>3, <2>1, <2>2, <2>3
  <2>5. /\ \A j \in 1..(k + 1) : j \in 1..k \/ j = k + 1
        /\ \A j \in 1..k : j \in 1..(k + 1)
        /\ k + 1 \in 1..(k + 1) /\ (k + 1) - 1 = k
    OBVIOUS
  <2> DEFINE at == iter[1..k]
             next == iter[1..(k + 1)]
  <2>6. base[f] # Missing => next[f] = base[f] BY <2>1, <2>4
  <2>7. ASSUME base[f] = Missing, \A j \in 1..(k + 1) : N[j][f] = Missing PROVE next[f] = Missing
    BY <2>1, <2>4, <2>5, <2>7
  <2>8. ASSUME NEW m \in 1..(k + 1), base[f] = Missing, N[m][f] # Missing,
               \A j \in 1..(m - 1) : N[j][f] = Missing
        PROVE  next[f] = N[m][f]
    <3>1. CASE m \in 1..k
      <4>1. at[f] = N[m][f] BY <2>1, <2>8, <3>1
      <4> QED BY <2>4, <2>8, <4>1
    <3>2. CASE m = k + 1
      <4>1. at[f] = Missing BY <2>1, <2>5, <2>8, <3>2
      <4> QED BY <2>4, <3>2, <4>1
    <3> QED BY <2>5, <3>1, <3>2
  <2> QED BY <2>4, <2>6, <2>7, <2>8
<1> HIDE DEF Good
<1>13. Nat \subseteq Good BY <1>11, <1>12, AllNumbers
<1>14. Holds(n) BY <1>13 DEF Good
<1>15. base[f] = p[f] BY DEF base, FirmographicsOf
<1>16. \A k \in 1..n : N[k] = normalizeFirmographics(found[k]) BY DEF N
<1>17. \A k \in 1..n : \A j \in 1..(k - 1) : j \in 1..n OBVIOUS
<1> HIDE DEF N
<1> QED BY <1>8, <1>14, <1>15, <1>16, <1>17

LEMMA EnrichedFields ==
  ASSUME NEW p, NEW found, NEW f
  PROVE  /\ DOMAIN enrichProfile(p, found) = DOMAIN p
         /\ enrichProfile(p, found) = [g \in DOMAIN p |-> enrichProfile(p, found)[g]]
         /\ f \in DOMAIN p /\ f \notin ToSet(FirmoFields) => enrichProfile(p, found)[f] = p[f]
BY Enriched, FirmoSet

LEMMA EnrichedOK ==
  ASSUME NEW p, ProfileOK(p), NEW found
  PROVE  ProfileOK(enrichProfile(p, found))
<1> DEFINE rich == enrichProfile(p, found)
<1>1. DOMAIN p = ProfileFields BY DEF ProfileOK
<1>2. rich = [g \in ProfileFields |-> rich[g]] BY <1>1, EnrichedFields
<1>3. \A f \in {"score", "lastActive", "createdAt"} : f \in ProfileFields /\ f \notin ToSet(FirmoFields)
  BY FirmoSet DEF ProfileFields
<1>4. \A f \in {"score", "lastActive", "createdAt"} : rich[f] = p[f] BY <1>1, <1>3, EnrichedFields
<1> HIDE DEF rich
<1>5. rich.score = p.score /\ rich.lastActive = p.lastActive /\ rich.createdAt = p.createdAt BY <1>4
<1>6. ProfileOK(rich) BY <1>2, <1>5 DEF ProfileOK
<1> QED BY <1>6 DEF rich

LEMMA ToolsStep == ToolsInv /\ [ToolsNext]_toolVars => ToolsInv'
<1> SUFFICES ASSUME ToolsInv, [ToolsNext]_toolVars PROVE ToolsInv'
  OBVIOUS
<1> USE ToolsAssumption
<1>1. ASSUME NEW id \in Ids, NEW draft \in Drafts, NEW when \in ActiveDays, Store(id, draft, when)
      PROVE  ToolsInv'
  <2> DEFINE new == [draft EXCEPT !.createdAt = when, !.lastActive = when]
  <2>1. profiles' = [i \in DOMAIN profiles \cup {id} |-> IF i = id THEN new ELSE profiles[i]]
    BY <1>1 DEF Store
  <2>2. ProfileOK(new)
    <3>1. draft = [f \in ProfileFields |-> draft[f]] /\ draft.score = 0 OBVIOUS
    <3>2. new = [f \in ProfileFields |-> new[f]] BY <3>1
    <3>3. new.score = 0 /\ new.lastActive = when /\ new.createdAt = when BY <3>1 DEF ProfileFields
    <3> QED BY <3>2, <3>3 DEF ProfileOK
  <2> HIDE DEF new
  <2>3. IsFiniteSet(DOMAIN profiles \cup {id}) BY FS_AddElement DEF ToolsInv
  <2>4. DOMAIN profiles' = DOMAIN profiles \cup {id} BY <2>1
  <2>5. \A i \in DOMAIN profiles' : ProfileOK(profiles'[i]) BY <2>1, <2>2, <2>4 DEF ToolsInv
  <2>6. queue' = queue BY <1>1 DEF Store
  <2> QED BY <2>3, <2>4, <2>5, <2>6 DEF ToolsInv, QueueOK, ProfileOK
<1>2. ASSUME NEW id \in Ids, NEW topics \in EventTopics, NEW when \in ActiveDays, Active(id, topics, when)
      PROVE  ToolsInv'
  <2> DEFINE all == profiles[id].topics \cup topics
             p == profiles[id]
             score == computeIntentScore(all, when, when)
             new == [p EXCEPT !.topics = all, !.lastActive = when, !.score = score]
  <2>1. /\ id \in DOMAIN profiles /\ queue' = queue
        /\ profiles' = [profiles EXCEPT ![id].topics = all, ![id].lastActive = when, ![id].score = score]
    BY <1>2 DEF Active
  <2>2. profiles' = [profiles EXCEPT ![id] = new] BY <2>1
  <2>3. score \in 0..100 BY IntentScoreRange
  <2>4. ProfileOK(p) BY <2>1 DEF ToolsInv
  <2> HIDE DEF all, score, p
  <2>5. ProfileOK(new)
    <3>1. p = [f \in ProfileFields |-> p[f]] BY <2>4 DEF ProfileOK
    <3>2. new = [f \in ProfileFields |-> new[f]] BY <3>1
    <3>3. new.score = score /\ new.lastActive = when /\ new.createdAt = p.createdAt
      BY <3>1 DEF ProfileFields
    <3> QED BY <2>3, <2>4, <3>2, <3>3 DEF ProfileOK
  <2> HIDE DEF new
  <2>6. DOMAIN profiles' = DOMAIN profiles /\ \A i \in DOMAIN profiles :
          profiles'[i] = IF i = id THEN new ELSE profiles[i]
    BY <2>2
  <2> QED BY <2>1, <2>5, <2>6 DEF ToolsInv, QueueOK, ProfileOK
<1>3. ASSUME NEW ids \in SUBSET DOMAIN profiles, StartEnrichment(ids)
      PROVE  ToolsInv'
  <2> DEFINE order == Sorted(ids, <)
             n == Cardinality(ids)
  <2>1. profiles' = profiles /\ queue' = [k \in 1..n |-> [id |-> order[k], copy |-> profiles[order[k]]]]
    BY <1>3 DEF StartEnrichment, Count
  <2>2. n \in Nat /\ \A k \in 1..n : order[k] \in DOMAIN profiles
    <3>1. ids \in SUBSET Int /\ IsFiniteSet(ids) BY FS_Subset DEF ToolsInv
    <3>2. n \in Nat /\ order \in [1..n -> ids] BY Zenon, <3>1, SortedUp
    <3> QED BY <3>2
  <2> DEFINE Jobs == {[id |-> order[k], copy |-> profiles[order[k]]] : k \in 1..n}
  <2>3. queue' \in Seq(Jobs)
    <3> HIDE DEF order, n
    <3> QED BY <2>1, <2>2
  <2>4. \A job \in Jobs : ProfileOK(job.copy)
    <3> HIDE DEF order, n
    <3> QED BY <2>2 DEF ToolsInv
  <2>5. QueueOK(queue') BY <2>3, <2>4 DEF QueueOK
  <2> QED BY <2>1, <2>5 DEF ToolsInv, QueueOK, ProfileOK
<1>4. ASSUME NEW found, EnrichNext(found) PROVE ToolsInv'
  <2> DEFINE job == Head(queue)
             new == enrichProfile(job.copy, found)
  <2>1. /\ queue # <<>> /\ queue' = Tail(queue)
        /\ profiles' = [profiles EXCEPT ![job.id] = new]
    BY <1>4 DEF EnrichNext
  <2>2. PICK Jobs : queue \in Seq(Jobs) /\ \A q \in Jobs : ProfileOK(q.copy) BY DEF ToolsInv, QueueOK
  <2>3. job \in Jobs /\ queue' \in Seq(Jobs) BY <2>1, <2>2
  <2>4. ProfileOK(new) BY <2>2, <2>3, EnrichedOK
  <2> HIDE DEF job, new
  <2>5. DOMAIN profiles' = DOMAIN profiles /\ \A i \in DOMAIN profiles :
          profiles'[i] = IF i = job.id THEN new ELSE profiles[i]
    BY <2>1
  <2>6. QueueOK(queue') BY <2>2, <2>3 DEF QueueOK
  <2> QED BY <2>4, <2>5, <2>6 DEF ToolsInv, QueueOK, ProfileOK
<1>5. ASSUME EnrichmentFails PROVE ToolsInv'
  <2>1. profiles' = profiles /\ queue' = <<>> BY <1>5 DEF EnrichmentFails
  <2>2. QueueOK(queue') BY <2>1, NoCopies
  <2> QED BY <2>1, <2>2 DEF ToolsInv, QueueOK, ProfileOK
<1>6. ASSUME UNCHANGED toolVars PROVE ToolsInv'
  BY <1>6 DEF ToolsInv, QueueOK, toolVars, ProfileOK
<1> QED BY <1>1, <1>2, <1>3, <1>4, <1>5, <1>6 DEF ToolsNext

LEMMA ToolsInvariant == ToolsSpec => []ToolsInv
BY ToolsStart, ToolsStep, PTL DEF ToolsSpec

\* What is trimmed and tidy stays as it is.
LEMMA Tidying ==
  /\ trim(Missing) = Missing /\ tidy(Missing) = Missing
  /\ \A t : trim(trim(t)) = trim(t) /\ tidy(tidy(t)) = tidy(t)
  /\ \A t \in HostNames \cup CanonicalTexts : tidy(t) = t
<1> USE TextAssumption DEF trim, tidy, Changed
<1>1. trim(Missing) = Missing /\ tidy(Missing) = Missing OBVIOUS
<1>2. \A t : trim(trim(t)) = trim(t) OBVIOUS
<1>3. \A t : tidy(tidy(t)) = tidy(t) OBVIOUS
<1>4. \A t \in HostNames \cup CanonicalTexts : tidy(t) = t OBVIOUS
<1> QED BY <1>1, <1>2, <1>3, <1>4

\* One field other than the revenue, in canonical form.
Normal(f, v) ==
  IF v = Missing THEN Missing
  ELSE IF f = "industry" THEN normalizeIndustry(v)
  ELSE IF f = "employees" THEN normalizeEmployeeRange(v)
  ELSE IF f = "company" THEN trim(v)
  ELSE normalizeDomain(v)

LEMMA Normals ==
  ASSUME NEW d, NEW f \in ToSet(FirmoFields) \ {"revenue"}
  PROVE  /\ normalizeFirmographics(d)[f] = Normal(f, d[f])
         /\ f # "domain" => \A v : Normal(f, Normal(f, v)) = Normal(f, v)
         /\ f = "domain" => \A v : v # Missing => Normal(f, v) = normalizeDomain(v)
<1>1. normalizeFirmographics(d)[f] = Normal(f, d[f])
  BY FirmoSet DEF normalizeFirmographics, canonical, Normal
<1>2. ASSUME NEW v PROVE normalizeIndustry(normalizeIndustry(v)) = normalizeIndustry(v)
  <2>1. tidy(tidy(v)) = tidy(v) BY Tidying
  <2>2. tidy("software") = "software" /\ tidy("financial_services") = "financial_services"
        /\ tidy("healthcare") = "healthcare"
    BY Tidying DEF CanonicalTexts
  <2> QED BY <2>1, <2>2 DEF normalizeIndustry
<1>3. ASSUME NEW v PROVE normalizeEmployeeRange(normalizeEmployeeRange(v)) = normalizeEmployeeRange(v)
  <2>1. \A r \in {"1-10", "11-50", "51-200", "201-1000", "1001+"} : tidy(r) = r
    BY Tidying DEF CanonicalTexts
  <2> QED BY <2>1 DEF normalizeEmployeeRange
<1>4. \A v : trim(trim(v)) = trim(v) BY Tidying
<1>5. CASE f = "industry" BY <1>1, <1>2, <1>5 DEF Normal
<1>6. CASE f = "employees" BY <1>1, <1>3, <1>6 DEF Normal
<1>7. CASE f = "company" BY <1>1, <1>4, <1>7 DEF Normal
<1>8. CASE f = "domain" BY <1>1, <1>8 DEF Normal
<1> QED BY <1>5, <1>6, <1>7, <1>8, FirmoSet

\* What a field becomes that was set, or was not, from the answers found.
Filled(f, was, found) ==
  LET answers == {j \in DOMAIN found : normalizeFirmographics(found[j])[f] # Missing} IN
  IF was # Missing THEN Normal(f, was)
  ELSE IF answers # {} THEN Normal(f, normalizeFirmographics(found[Min(answers)])[f])
  ELSE Missing

LEMMA FilledFields ==
  ASSUME NEW p, DOMAIN p = ProfileFields, NEW found \in BoundedSeq(FoundData, 2),
         NEW f \in ToSet(FirmoFields) \ {"revenue"}
  PROVE  enrichProfile(p, found)[f] = Filled(f, p[f], found)
<1> DEFINE has(j) == normalizeFirmographics(found[j])[f] # Missing
           answers == {j \in DOMAIN found : has(j)}
           m == Merged(p, found)
<1>1. PICK n \in Nat : DOMAIN found = 1..n BY DEF BoundedSeq, SeqOf
<1>2. f \in ProfileFields /\ f # "revenue" /\ f \in ToSet(FirmoFields) BY FirmoSet DEF ProfileFields
<1>3. enrichProfile(p, found)[f] = normalizeFirmographics(m)[f] BY <1>2, Enriched
<1>4. normalizeFirmographics(m)[f] = Normal(f, m[f]) BY Normals
<1>5. CASE p[f] # Missing
  <2>1. m[f] = p[f] BY <1>1, <1>5, MergedFields
  <2> QED BY <1>3, <1>4, <1>5, <2>1 DEF Filled
<1>6. CASE p[f] = Missing /\ answers = {}
  <2>1. \A k \in 1..n : ~has(k) BY <1>1, <1>6
  <2>2. m[f] = Missing BY <1>1, <1>6, <2>1, MergedFields
  <2> QED BY <1>3, <1>4, <1>6, <2>2 DEF Filled, Normal
<1>7. CASE p[f] = Missing /\ answers # {}
  <2>1. answers \in SUBSET Nat /\ answers # {} BY <1>1, <1>7
  <2> DEFINE k == Min(answers)
  <2>2. k \in answers /\ \A j \in answers : k <= j
    <3> HIDE DEF answers
    <3>1. \E x \in answers : \A y \in answers : x <= y BY <2>1, Least
    <3> QED BY <3>1 DEF Min
  <2>3. k \in 1..n /\ has(k) BY <1>1, <2>2
  <2>4. \A j \in 1..(k - 1) : ~has(j)
    <3>1. ASSUME NEW j \in 1..(k - 1), has(j) PROVE FALSE
      <4>1. j \in answers /\ j < k
        <5> HIDE DEF has, k
        <5> QED BY <1>1, <2>3, <3>1
      <4> QED BY <2>2, <2>3, <4>1
    <3> QED BY <3>1
  <2>5. m[f] = normalizeFirmographics(found[k])[f] BY <1>1, <1>7, <2>3, <2>4, MergedFields
  <2> QED BY <1>3, <1>4, <1>7, <2>5 DEF Filled
<1> QED BY <1>5, <1>6, <1>7

LEMMA GapsFilled ==
  ASSUME NEW copy, ProfileOK(copy), NEW found \in BoundedSeq(FoundData, 2)
  PROVE  LET rich == enrichProfile(copy, found)
             twice == enrichProfile(rich, found)
             answer(j) == normalizeFirmographics(found[j])
         IN
         /\ \A f \in ToSet(FirmoFields) \ {"revenue"} :
              LET answers == {j \in DOMAIN found : answer(j)[f] # Missing} IN
              /\ rich[f] = IF copy[f] # Missing THEN normalizeFirmographics(FirmographicsOf(copy))[f]
                           ELSE IF answers # {} THEN normalizeFirmographics(answer(Min(answers)))[f]
                           ELSE Missing
              /\ twice[f] # rich[f] => \/ copy[f] # Missing /\ rich[f] = Missing
                                       \/ f = "domain" /\ twice[f] = normalizeDomain(rich[f])
         /\ rich.revenue = Missing
         /\ \A f \in DOMAIN copy \ ToSet(FirmoFields) : rich[f] = copy[f]
<1> DEFINE rich == enrichProfile(copy, found)
           twice == enrichProfile(rich, found)
           answer(j) == normalizeFirmographics(found[j])
           F == ToSet(FirmoFields)
<1>1. DOMAIN copy = ProfileFields BY DEF ProfileOK
<1>2. DOMAIN rich = ProfileFields BY <1>1, EnrichedFields
<1>3. rich.revenue = Missing
  <2>1. "revenue" \in DOMAIN copy BY <1>1 DEF ProfileFields
  <2> QED BY <2>1, Enriched
<1>4. \A f \in DOMAIN copy \ F : rich[f] = copy[f] BY EnrichedFields
<1> HIDE DEF rich
<1>5. ASSUME NEW f \in F \ {"revenue"}
      PROVE  LET answers == {j \in DOMAIN found : answer(j)[f] # Missing} IN
             /\ rich[f] = IF copy[f] # Missing THEN normalizeFirmographics(FirmographicsOf(copy))[f]
                          ELSE IF answers # {} THEN normalizeFirmographics(answer(Min(answers)))[f]
                          ELSE Missing
             /\ twice[f] # rich[f] => \/ copy[f] # Missing /\ rich[f] = Missing
                                      \/ f = "domain" /\ twice[f] = normalizeDomain(rich[f])
  <2> DEFINE answers == {j \in DOMAIN found : answer(j)[f] # Missing}
  <2>1. rich[f] = Filled(f, copy[f], found) BY <1>1, FilledFields DEF rich
  <2>2. twice[f] = Filled(f, rich[f], found) BY <1>2, FilledFields
  <2>3. normalizeFirmographics(FirmographicsOf(copy))[f] = Normal(f, copy[f])
    <3>1. FirmographicsOf(copy)[f] = copy[f] BY DEF FirmographicsOf
    <3> QED BY <3>1, Normals
  <2>4. normalizeFirmographics(answer(Min(answers)))[f] = Normal(f, answer(Min(answers))[f]) BY Normals
  <2>5. Filled(f, copy[f], found) =
          IF copy[f] # Missing THEN Normal(f, copy[f])
          ELSE IF answers # {} THEN Normal(f, answer(Min(answers))[f]) ELSE Missing
    BY DEF Filled
  <2> HIDE DEF twice, answer, answers
  <2>6. rich[f] = IF copy[f] # Missing THEN normalizeFirmographics(FirmographicsOf(copy))[f]
                  ELSE IF answers # {} THEN normalizeFirmographics(answer(Min(answers)))[f]
                  ELSE Missing
    BY <2>1, <2>3, <2>4, <2>5
  <2>7. ASSUME twice[f] # rich[f]
        PROVE  \/ copy[f] # Missing /\ rich[f] = Missing
               \/ f = "domain" /\ twice[f] = normalizeDomain(rich[f])
    <3>1. CASE rich[f] # Missing
      <4>1. twice[f] = Normal(f, rich[f]) BY <2>2, <3>1 DEF Filled
      <4>2. f = "domain"
        <5>1. \E v : rich[f] = Normal(f, v) BY <2>1, <2>5, <3>1
        <5>2. f # "domain" => Normal(f, rich[f]) = rich[f] BY <5>1, Normals
        <5> QED BY <2>7, <4>1, <5>2
      <4> QED BY <3>1, <4>1, <4>2, Normals
    <3>2. CASE rich[f] = Missing
      <4>1. CASE copy[f] = Missing BY <2>1, <2>2, <2>7, <3>2, <4>1
      <4> QED BY <3>2, <4>1
    <3> QED BY <3>1, <3>2
  <2> QED BY <2>6, <2>7 DEF answers
<1> HIDE DEF twice, answer
<1> QED BY <1>3, <1>4, <1>5 DEF rich, twice, answer

\* An enrichment only fills gaps, whatever answers come and whatever the catalogues of
\* profiles and answers are (packages/enrichment).
THEOREM EnrichmentOnlyFillsGaps == ToolsSpec => []EnrichmentFillsGaps
<1>1. ToolsInv => EnrichmentFillsGaps
  <2> SUFFICES ASSUME ToolsInv, NEW k \in DOMAIN queue PROVE ProfileOK(queue[k].copy)
    BY GapsFilled DEF EnrichmentFillsGaps
  <2> QED BY DEF ToolsInv, QueueOK
<1> QED BY <1>1, ToolsInvariant, PTL

-----------------------------------------------------------------------------
(* Scores and the retention plan.                                           *)

LEMMA PointsAdd ==
  ASSUME NEW rules, IsFiniteSet(rules), \A r \in rules : r.points \in Int
  PROVE  SumPoints(rules) \in Nat
<1> DEFINE pick == [T \in SUBSET rules |-> CHOOSE x \in T : TRUE]
           step == [x \in rules \X Nat |-> x[2] + Max({x[1].points, 0})]
<1>1. \A T \in SUBSET rules : T # {} => pick[T] \in T OBVIOUS
<1>2. \A r \in rules : Max({r.points, 0}) \in Nat BY MaxOf
<1>3. step \in [rules \X Nat -> Nat] BY <1>2
<1> HIDE DEF pick
<1>4. PICK h \in [SUBSET rules -> Nat] : IsFold(h, rules, 0, pick, step)
  <2> HIDE DEF step
  <2> QED BY <1>1, <1>3, Folding
<1>5. h = [T \in SUBSET rules |->
             IF T = {} THEN 0
             ELSE h[T \ {CHOOSE x \in T : TRUE}] + Max({(CHOOSE x \in T : TRUE).points, 0})]
  <2>1. ASSUME NEW T \in SUBSET rules, T # {}
        PROVE  step[<<pick[T], h[T \ {pick[T]}]>>]
                 = h[T \ {CHOOSE x \in T : TRUE}] + Max({(CHOOSE x \in T : TRUE).points, 0})
    <3>1. pick[T] \in rules /\ h[T \ {pick[T]}] \in Nat BY <1>1, <1>4, <2>1
    <3>2. pick[T] = CHOOSE x \in T : TRUE BY DEF pick
    <3> QED BY <3>1, <3>2
  <2> HIDE DEF step
  <2> QED BY <1>4, <2>1 DEF IsFold
<1> DEFINE iter == CHOOSE g :
             g = [T \in SUBSET rules |->
                   IF T = {} THEN 0
                   ELSE g[T \ {CHOOSE x \in T : TRUE}] + Max({(CHOOSE x \in T : TRUE).points, 0})]
<1>6. iter = [T \in SUBSET rules |->
               IF T = {} THEN 0
               ELSE iter[T \ {CHOOSE x \in T : TRUE}] + Max({(CHOOSE x \in T : TRUE).points, 0})]
  BY <1>5
<1>7. SumPoints(rules) = iter[rules] BY Zenon DEF SumPoints, FoldSet, MapThenFoldSet
<1> HIDE DEF iter
<1> DEFINE Good == {n \in Nat : \A T \in SUBSET rules : Cardinality(T) = n => iter[T] \in Nat}
<1>8. \A T \in SUBSET rules : IsFiniteSet(T) /\ Cardinality(T) \in Nat BY FS_Subset, FS_CardinalityType
<1>9. 0 \in Good
  <2>1. \A T \in SUBSET rules : Cardinality(T) = 0 => T = {} BY <1>8, FS_EmptySet
  <2> QED BY <1>6, <2>1
<1>10. ASSUME NEW n \in Nat, n \in Good PROVE n + 1 \in Good
  <2> SUFFICES ASSUME NEW T \in SUBSET rules, Cardinality(T) = n + 1 PROVE iter[T] \in Nat
    OBVIOUS
  <2>1. T # {}
    <3> HIDE DEF Good
    <3>1. Cardinality({}) = 0 BY FS_EmptySet
    <3>2. Cardinality(T) # 0 OBVIOUS
    <3> QED BY Zenon, <3>1, <3>2
  <2> DEFINE x == CHOOSE x \in T : TRUE
  <2>2. x \in T BY <2>1
  <2>3. iter[T] = iter[T \ {x}] + Max({x.points, 0}) BY <1>6, <2>1
  <2> HIDE DEF x
  <2>4. Cardinality(T \ {x}) = n BY <1>8, <2>2, FS_RemoveElement
  <2>5. iter[T \ {x}] \in Nat BY <1>10, <2>4
  <2> QED BY <1>2, <2>2, <2>3, <2>5
<1> HIDE DEF Good
<1>11. Nat \subseteq Good BY <1>9, <1>10, AllNumbers
<1>12. iter[rules] \in Nat BY <1>8, <1>11 DEF Good
<1> QED BY <1>7, <1>12

LEMMA FitRange ==
  ASSUME NEW p, NEW rules, IsFiniteSet(rules), \A r \in rules : r.points \in Int
  PROVE  fitScore(p, rules) \in 0..100
<1> DEFINE met == {r \in rules : matchesRule(p, r)}
           a == SumPoints(met)
           b == SumPoints(rules)
<1>1. IsFiniteSet(met) BY FS_Subset
<1>2. a \in Nat
  <2>1. \A r \in met : r.points \in Int OBVIOUS
  <2> HIDE DEF met
  <2> QED BY <1>1, <2>1, PointsAdd
<1>3. b \in Nat BY PointsAdd
<1>4. fitScore(p, rules) = IF b = 0 THEN 0 ELSE Clamp100(RoundDiv(100 * a, b)) BY DEF fitScore
<1> HIDE DEF a, b
<1>5. CASE b = 0 BY <1>4, <1>5
<1>6. CASE b # 0
  <2>1. RoundDiv(100 * a, b) \in Int BY <1>2, <1>3, <1>6, Rounding
  <2>2. Clamp100(RoundDiv(100 * a, b)) \in 0..100 BY <2>1, Clamping
  <2> QED BY <1>4, <1>6, <2>2
<1> QED BY <1>5, <1>6

\* The later the clock, the lower the recency.
LEMMA RecencyFalls ==
  ASSUME NEW p, p.lastActive \in Nat, NEW t \in Nat, NEW u \in Nat, t <= u
  PROVE  recencyScore(p, t) \in 0..100 /\ recencyScore(p, u) <= recencyScore(p, t)
<1> DEFINE x == Max({0, t - p.lastActive})
           y == Max({0, u - p.lastActive})
<1>1. x \in Nat /\ y \in Nat /\ x <= y BY MaxOf
<1>2. recencyScore(p, t) = ByAge(x) /\ recencyScore(p, u) = ByAge(y)
  BY DEF recencyScore, Never
<1> HIDE DEF x, y
<1> QED BY <1>1, <1>2 DEF ByAge

LEMMA EngagementFalls ==
  ASSUME NEW p, ProfileOK(p), NEW t \in Nat, NEW u \in Nat, t <= u
  PROVE  engagementScore(p, t) \in 0..100 /\ engagementScore(p, u) \in 0..100
         /\ engagementScore(p, u) <= engagementScore(p, t)
<1> DEFINE x == recencyScore(p, t)
           y == recencyScore(p, u)
           s == Clamp100(p.score)
<1>1. x \in 0..100 /\ y \in 0..100 /\ y <= x BY RecencyFalls DEF ProfileOK
<1>2. s \in 0..100 BY Clamping DEF ProfileOK
<1>3. engagementScore(p, t) = RoundDiv(7 * s + 3 * x, 10) /\ engagementScore(p, u) = RoundDiv(7 * s + 3 * y, 10)
  BY DEF engagementScore
<1> HIDE DEF x, y, s
<1> QED BY <1>1, <1>2, <1>3 DEF RoundDiv

LEMMA RulesOfModels ==
  ASSUME NEW model \in LeadModels
  PROVE  /\ IsFiniteSet(model.rules) /\ \A r \in model.rules : r.points \in Int
         /\ model.fit \in {0, 3} /\ model.engagement \in {-1, 1}
<1> DEFINE r1 == [field |-> "company", op |-> "exists", points |-> 30]
           r2 == [field |-> "industry", op |-> "eq", value |-> "software", points |-> 20]
           r3 == [field |-> "score", op |-> "gte", value |-> 40, points |-> 50]
<1>1. r1.points \in Int /\ r2.points \in Int /\ r3.points \in Int OBVIOUS
<1>2. PICK f \in {0, 3}, e \in {-1, 1} :
        model = [rules |-> {r1, r2, r3}, fit |-> f, engagement |-> e]
  BY DEF LeadModels
<1> HIDE DEF r1, r2, r3
<1>3. model.rules = {r1, r2, r3} /\ model.fit \in {0, 3} /\ model.engagement \in {-1, 1} BY <1>2
<1>4. IsFiniteSet({r1}) BY FS_Singleton
<1>5. IsFiniteSet(({r1} \cup {r2}) \cup {r3}) BY <1>4, FS_AddElement
<1>6. {r1, r2, r3} = ({r1} \cup {r2}) \cup {r3} OBVIOUS
<1> QED BY <1>1, <1>3, <1>5, <1>6

LEMMA LeadsWait ==
  ASSUME NEW p, ProfileOK(p), NEW model \in LeadModels, NEW t \in Nat, NEW u \in Nat, t <= u
  PROVE  /\ model.engagement >= 0 => leadScore(p, model, u).score <= leadScore(p, model, t).score
         /\ model.engagement < 0 => leadScore(p, model, t).score <= leadScore(p, model, u).score
         /\ leadScore(p, model, t).grade = grade(leadScore(p, model, t).score)
         /\ leadScore(p, model, u).grade = grade(leadScore(p, model, u).score)
<1> DEFINE fit == fitScore(p, model.rules)
           x == engagementScore(p, t)
           y == engagementScore(p, u)
           f == model.fit
           e == model.engagement
           a == RoundDiv(fit * f + x * e, f + e)
           b == RoundDiv(fit * f + y * e, f + e)
<1>1. fit \in 0..100 /\ f \in {0, 3} /\ e \in {-1, 1} BY RulesOfModels, FitRange
<1>2. x \in 0..100 /\ y \in 0..100 /\ y <= x BY EngagementFalls
<1> DEFINE m == IF f + e <= 0 THEN 0 ELSE a
           n == IF f + e <= 0 THEN 0 ELSE b
<1>3. leadScore(p, model, t) = [score |-> Clamp100(m), grade |-> grade(m)]
  BY DEF leadScore
<1>4. leadScore(p, model, u) = [score |-> Clamp100(n), grade |-> grade(n)]
  BY DEF leadScore
<1> HIDE DEF fit, x, y, f, e
<1>5. m \in Int /\ n \in Int /\ (e >= 0 => n <= m) /\ (e < 0 => m <= n)
  <2>1. CASE f = 0 /\ e = -1 BY <1>1, <1>2, <2>1
  <2>2. CASE f = 0 /\ e = 1 BY <1>1, <1>2, <2>2 DEF RoundDiv
  <2>3. CASE f = 0 /\ e = 3 BY <1>1, <1>2, <2>3 DEF RoundDiv
  <2>4. CASE f = 3 /\ e = -1 BY <1>1, <1>2, <2>4 DEF RoundDiv
  <2>5. CASE f = 3 /\ e = 1 BY <1>1, <1>2, <2>5 DEF RoundDiv
  <2>6. CASE f = 3 /\ e = 3 BY <1>1, <1>2, <2>6 DEF RoundDiv
  <2> QED BY <1>1, <2>1, <2>2, <2>3, <2>4, <2>5, <2>6
<1> HIDE DEF m, n
<1>6. /\ Clamp100(m) = IF m < 0 THEN 0 ELSE IF m > 100 THEN 100 ELSE m
      /\ Clamp100(n) = IF n < 0 THEN 0 ELSE IF n > 100 THEN 100 ELSE n
  BY <1>5, Clamping
<1>7. grade(m) = grade(Clamp100(m)) /\ grade(n) = grade(Clamp100(n)) BY <1>5, <1>6 DEF grade
<1>8. (e >= 0 => Clamp100(n) <= Clamp100(m)) /\ (e < 0 => Clamp100(m) <= Clamp100(n)) BY <1>5, <1>6
<1> QED BY <1>3, <1>4, <1>7, <1>8 DEF e

LEMMA LeadsNeverImprove ==
  ASSUME ToolsInv
  PROVE  \A id \in DOMAIN profiles, model \in LeadModels :
           LET leads == {<<t, leadScore(profiles[id], model, t)>> : t \in ClockDays} IN
           \A x, y \in leads :
             /\ x[1] < y[1] => IF model.engagement >= 0 THEN y[2].score <= x[2].score
                               ELSE x[2].score <= y[2].score
             /\ x[2].score = y[2].score => x[2].grade = y[2].grade
<1> SUFFICES ASSUME NEW id \in DOMAIN profiles, NEW model \in LeadModels,
                    NEW t \in ClockDays, NEW u \in ClockDays
             PROVE  LET a == leadScore(profiles[id], model, t)
                        b == leadScore(profiles[id], model, u)
                    IN /\ t < u => IF model.engagement >= 0 THEN b.score <= a.score
                                   ELSE a.score <= b.score
                       /\ a.score = b.score => a.grade = b.grade
  OBVIOUS
<1>1. ProfileOK(profiles[id]) BY DEF ToolsInv
<1>2. t \in Nat /\ u \in Nat BY ToolsAssumption
<1>3. /\ leadScore(profiles[id], model, t).grade = grade(leadScore(profiles[id], model, t).score)
      /\ leadScore(profiles[id], model, u).grade = grade(leadScore(profiles[id], model, u).score)
  <2>1. t <= t /\ u <= u BY <1>2
  <2> QED BY <1>1, <1>2, <2>1, LeadsWait
<1>4. t < u => IF model.engagement >= 0
               THEN leadScore(profiles[id], model, u).score <= leadScore(profiles[id], model, t).score
               ELSE leadScore(profiles[id], model, t).score <= leadScore(profiles[id], model, u).score
  <2>1. t < u => t <= u BY <1>2
  <2>2. model.engagement \in {-1, 1} BY RulesOfModels
  <2> QED BY <1>1, <1>2, <2>1, <2>2, LeadsWait
<1> QED BY <1>3, <1>4

LEMMA OnePart ==
  ASSUME NEW records, NEW now, NEW r \in records
  PROVE  LET plan == evaluateRetention(records, Policies, now) IN
         Count({part \in DOMAIN plan : r \in plan[part]}) = 1
<1> DEFINE plan == evaluateRetention(records, Policies, now)
           due == expired(r, Policies, now)
           here == {part \in DOMAIN plan : r \in plan[part]}
<1>1. /\ DOMAIN plan = {"heldBack", "retained", "purge", "anonymize"}
      /\ r \in plan.heldBack <=> r.legalHold
      /\ r \in plan.retained <=> ~r.legalHold /\ ~due
      /\ r \in plan.purge <=> ~r.legalHold /\ due /\ Policies[r.category].action = "purge"
      /\ r \in plan.anonymize <=> ~r.legalHold /\ due /\ Policies[r.category].action = "anonymize"
  BY DEF evaluateRetention
<1>2. due => Policies[r.category].action \in {"purge", "anonymize"}
  BY DEF expired, nextExpiry, policyOf, Policies
<1> HIDE DEF plan, due
<1>3. here = CASE r.legalHold -> {"heldBack"}
               [] ~r.legalHold /\ ~due -> {"retained"}
               [] ~r.legalHold /\ due /\ Policies[r.category].action = "purge" -> {"purge"}
               [] OTHER -> {"anonymize"}
  BY <1>1, <1>2
<1>4. \E part : here = {part} BY <1>3
<1>5. Cardinality(here) = 1 BY <1>4, FS_Singleton
<1> QED BY <1>5 DEF Count, plan

LEMMA PlanGrows == ToolsInv => PlanOnlyGrows
<1> SUFFICES ASSUME ToolsInv, NEW t \in ClockDays
             PROVE  LET plan(n) == evaluateRetention(Records, Policies, n) IN
                    /\ \A r \in Records : Count({part \in DOMAIN plan(t) : r \in plan(t)[part]}) = 1
                    /\ \A u \in ClockDays : t < u => /\ plan(t).purge \subseteq plan(u).purge
                                                   /\ plan(t).anonymize \subseteq plan(u).anonymize
                    /\ \A r \in plan(t).purge \cup plan(t).anonymize : ~r.legalHold /\ r.createdAt < t
  BY DEF PlanOnlyGrows
<1> DEFINE plan(n) == evaluateRetention(Records, Policies, n)
<1>1. \A r \in Records : Count({part \in DOMAIN plan(t) : r \in plan(t)[part]}) = 1 BY OnePart
<1>2. \A r \in Records : r.createdAt \in Nat
  BY DEF Records, ToolsInv, ProfileOK, Range
<1>3. \A n \in ClockDays : n \in Nat BY ToolsAssumption
<1>4. ASSUME NEW r \in Records, NEW n \in ClockDays
      PROVE  expired(r, Policies, n)
               <=> r.category \in DOMAIN Policies /\ r.createdAt + Policies[r.category].ttlDays < n
  BY DEF expired, nextExpiry, policyOf
<1>5. \A c \in DOMAIN Policies : Policies[c].ttlDays \in Nat \ {0} BY DEF Policies
<1>7. \A n : /\ plan(n).purge = {s \in Records : ~s.legalHold /\ expired(s, Policies, n)
                                               /\ Policies[s.category].action = "purge"}
             /\ plan(n).anonymize = {s \in Records : ~s.legalHold /\ expired(s, Policies, n)
                                               /\ Policies[s.category].action = "anonymize"}
  BY DEF evaluateRetention
<1>8. \A u \in ClockDays, r \in Records : t < u /\ expired(r, Policies, t) => expired(r, Policies, u)
  BY <1>2, <1>3, <1>4, <1>5
<1>9. \A r \in Records : expired(r, Policies, t) => r.createdAt < t
  BY <1>2, <1>3, <1>4, <1>5
<1> HIDE DEF plan
<1> QED BY <1>1, <1>7, <1>8, <1>9 DEF plan

\* Time alone improves no lead and takes no record off the plan, for any days and
\* profiles (packages/lead-scoring, packages/data-retention, core-cdp's intent.ts).
THEOREM WaitingHelpsNobody == ToolsSpec => []WaitingNeverHelps
<1>1. ToolsInv => WaitingNeverHelps
  <2> SUFFICES ASSUME ToolsInv PROVE WaitingNeverHelps
    OBVIOUS
  <2>1. \A id \in DOMAIN profiles : profiles[id].score \in 0..100 BY DEF ToolsInv, ProfileOK
  <2> QED BY <2>1, LeadsNeverImprove, PlanGrows DEF WaitingNeverHelps
<1> QED BY <1>1, ToolsInvariant, PTL

-----------------------------------------------------------------------------
(* Segments, accounts and offers.                                           *)

LEMMA AudiencesAddUp ==
  ASSUME ToolsInv, NEW a, NEW b
  PROVE  LET parts == overlap(a, b) IN
         /\ parts.aOnly + parts.both = snapshot(a, 1).size
         /\ parts.bOnly + parts.both = snapshot(b, 1).size
         /\ ToSet(snapshot(a, 1).sampleIds) \subseteq segmentMembers(a)
<1> DEFINE A == segmentMembers(a)
           B == segmentMembers(b)
           LA == Sorted(A, <)
           LB == Sorted(B, <)
<1>1. A \in SUBSET Int /\ B \in SUBSET Int /\ IsFiniteSet(A) /\ IsFiniteSet(B)
  <2>1. A \subseteq DOMAIN profiles /\ B \subseteq DOMAIN profiles BY DEF segmentMembers
  <2> HIDE DEF A, B
  <2>2. IsFiniteSet(A) /\ IsFiniteSet(B) BY <2>1, FS_Subset DEF ToolsInv
  <2> QED BY <2>1, <2>2, ToolsAssumption DEF ToolsInv
<1> HIDE DEF A, B
<1>2. /\ Cardinality(A) \in Nat /\ LA \in [1..Cardinality(A) -> A]
      /\ Cardinality(B) \in Nat /\ LB \in [1..Cardinality(B) -> B]
  BY Zenon, <1>1, SortedUp
<1> DEFINE m == Min({1, Len(LA)})
           l == Min({1, Len(LB)})
<1>3. /\ snapshot(a, 1) = [size |-> Len(LA), sampleIds |-> SubSeq(LA, 1, m)]
      /\ snapshot(b, 1) = [size |-> Len(LB), sampleIds |-> SubSeq(LB, 1, l)]
  BY DEF snapshot, A, B
<1>4. overlap(a, b) = [aOnly |-> Cardinality(A \ B), bOnly |-> Cardinality(B \ A), both |-> Cardinality(A \cap B)]
  BY DEF overlap, A, B, Count
<1> HIDE DEF LA, LB
<1>5. LA \in Seq(A) /\ Len(LA) = Cardinality(A) /\ LB \in Seq(B) /\ Len(LB) = Cardinality(B) BY <1>2
<1>6. /\ Cardinality(A \ B) + Cardinality(A \cap B) = Cardinality(A)
      /\ Cardinality(B \ A) + Cardinality(A \cap B) = Cardinality(B)
  <2>1. IsFiniteSet(A \ B) /\ IsFiniteSet(B \ A) /\ IsFiniteSet(A \cap B) BY <1>1, FS_Subset
  <2>2. /\ Cardinality(A \ B) = Cardinality(A) - Cardinality(A \cap B)
        /\ Cardinality(B \ A) = Cardinality(B) - Cardinality(B \cap A)
    BY <1>1, FS_Difference
  <2>3. B \cap A = A \cap B OBVIOUS
  <2>4. Cardinality(A \cap B) \in Nat BY <2>1, FS_CardinalityType
  <2> DEFINE both == Cardinality(A \cap B)
             a1 == Cardinality(A)
             b1 == Cardinality(B)
  <2>5. a1 \in Nat /\ b1 \in Nat /\ both \in Nat BY <1>2, <2>4
  <2>6. Cardinality(A \ B) = a1 - both /\ Cardinality(B \ A) = b1 - both BY <2>2, <2>3
  <2> HIDE DEF both, a1, b1
  <2>7. Cardinality(A \ B) + both = a1 /\ Cardinality(B \ A) + both = b1 BY <2>5, <2>6
  <2> QED BY <2>7 DEF both, a1, b1
<1>7. ToSet(SubSeq(LA, 1, m)) \subseteq A
  <2>1. m \in 0..Len(LA) /\ Len(LA) \in Nat BY <1>5, MinOf
  <2> HIDE DEF m
  <2>2. \A k \in 1..m : k \in 1..Len(LA) BY <2>1
  <2>3. SubSeq(LA, 1, m) = [k \in 1..m |-> LA[k]] BY <1>5, <2>1
  <2>4. \A k \in 1..m : SubSeq(LA, 1, m)[k] \in A
    <3>1. \A k \in 1..Len(LA) : LA[k] \in A BY <1>5
    <3> QED BY <2>2, <2>3, <3>1
  <2>5. DOMAIN SubSeq(LA, 1, m) = 1..m BY <2>3
  <2> QED BY <2>4, <2>5 DEF ToSet
<1> HIDE DEF m, l
<1>8. snapshot(a, 1).size = Cardinality(A) /\ snapshot(b, 1).size = Cardinality(B) BY <1>3, <1>5
<1>9. snapshot(a, 1).sampleIds = SubSeq(LA, 1, m) BY <1>3
<1> DEFINE parts == overlap(a, b)
<1>10. /\ parts.aOnly = Cardinality(A \ B) /\ parts.bOnly = Cardinality(B \ A)
       /\ parts.both = Cardinality(A \cap B)
  BY <1>4
<1> HIDE DEF parts
<1>11. parts.aOnly + parts.both = snapshot(a, 1).size /\ parts.bOnly + parts.both = snapshot(b, 1).size
  BY Zenon, <1>6, <1>8, <1>10
<1>12. ToSet(snapshot(a, 1).sampleIds) \subseteq segmentMembers(a) BY <1>7, <1>9 DEF A
<1> QED BY <1>11, <1>12 DEF parts

LEMMA CompletenessType ==
  ASSUME NEW p
  PROVE  completeness(p) \in Nat
<1> DEFINE S == {f \in {"email", "userId", "company", "domain"} : p[f] # Missing}
<1>1. IsFiniteSet({"email", "userId", "company", "domain"})
  <2>1. IsFiniteSet({"email", "userId", "company", "domain", "domain", "domain"}) BY FewAreFinite
  <2> QED BY <2>1
<1>2. IsFiniteSet(S) BY <1>1, FS_Subset
<1> QED BY <1>2, FS_CardinalityType DEF completeness, Count

\* An account's list, and its order.
Holding(k) == {id \in DOMAIN profiles : accountKeyFor(profiles[id]) = k}
MoreComplete(a, b) ==
  LET p == profiles[a]  q == profiles[b] IN
  \/ completeness(p) > completeness(q)
  \/ completeness(p) = completeness(q) /\ p.createdAt < q.createdAt
  \/ completeness(p) = completeness(q) /\ p.createdAt = q.createdAt /\ a < b

LEMMA Graph ==
  buildAccountGraph =
    [k \in {accountKeyFor(profiles[id]) : id \in DOMAIN profiles} \ {Missing} |->
       [members |-> Holding(k),
        primary |-> CHOOSE a \in Holding(k) : \A b \in Holding(k) \ {a} : MoreComplete(a, b)]]
BY DEF buildAccountGraph, Holding, MoreComplete

LEMMA PrimaryLeads ==
  ASSUME ToolsInv, NEW k, Holding(k) # {}
  PROVE  \E a \in Holding(k) : \A b \in Holding(k) \ {a} : MoreComplete(a, b)
<1> DEFINE S == Holding(k)
<1>1. S \subseteq DOMAIN profiles BY DEF Holding
<1>2. IsFiniteSet(S) BY <1>1, FS_Subset DEF ToolsInv
<1> DEFINE c == [i \in S |-> completeness(profiles[i])]
           t == [i \in S |-> profiles[i].createdAt]
           less == [i \in S |-> 0 - c[i]]
           self == [i \in S |-> i]
<1>3. c \in [S -> Nat] /\ t \in [S -> Nat]
  <2> HIDE DEF S
  <2> QED BY <1>1, CompletenessType DEF ToolsInv, ProfileOK
<1>4. S \subseteq Int BY <1>1, ToolsAssumption DEF ToolsInv
<1>5. less \in [S -> Int] /\ t \in [S -> Int] /\ self \in [S -> Int] BY <1>3, <1>4
<1>6. \A x, y \in S : self[x] = self[y] => x = y OBVIOUS
<1> DEFINE R == LexOrder(S, less, t, self)
<1>7. ASSUME NEW x \in S, NEW y \in S, <<x, y>> \in R PROVE MoreComplete(x, y)
  <2>1. \/ less[x] < less[y]
        \/ less[x] = less[y] /\ t[x] < t[y]
        \/ less[x] = less[y] /\ t[x] = t[y] /\ self[x] < self[y]
    BY <1>7 DEF LexOrder
  <2>2. c[x] \in Nat /\ c[y] \in Nat BY <1>3
  <2>3. /\ less[x] = 0 - c[x] /\ less[y] = 0 - c[y] /\ self[x] = x /\ self[y] = y
        /\ c[x] = completeness(profiles[x]) /\ c[y] = completeness(profiles[y])
        /\ t[x] = profiles[x].createdAt /\ t[y] = profiles[y].createdAt
    OBVIOUS
  <2> HIDE DEF c, t, less, self
  <2>4. \/ c[x] > c[y]
        \/ c[x] = c[y] /\ t[x] < t[y]
        \/ c[x] = c[y] /\ t[x] = t[y] /\ x < y
    BY <2>1, <2>2, <2>3
  <2> QED BY <2>3, <2>4 DEF MoreComplete
<1> HIDE DEF c, t, less, self, S
<1>8. StrictOrder(R, S) BY <1>5, <1>6, Lexicographic
<1> HIDE DEF R
<1>9. PICK a \in S : \A b \in S \ {a} : <<a, b>> \in R BY <1>2, <1>8, FirstOf DEF S
<1> QED BY <1>7, <1>9 DEF S

LEMMA AccountsHold ==
  ASSUME ToolsInv, NEW id \in DOMAIN profiles
  PROVE  /\ accountOf(id) = {accountKeyFor(profiles[id])} \ {Missing}
         /\ \A k \in accountOf(id) :
              completeness(profiles[id]) <= completeness(profiles[buildAccountGraph[k].primary])
<1> DEFINE G == buildAccountGraph
           K == {accountKeyFor(profiles[i]) : i \in DOMAIN profiles} \ {Missing}
           best(k) == CHOOSE a \in Holding(k) : \A b \in Holding(k) \ {a} : MoreComplete(a, b)
<1>1. DOMAIN G = K /\ \A k \in K : G[k].members = Holding(k) /\ G[k].primary = best(k)
  <2> HIDE DEF best
  <2>1. G = [k \in K |-> [members |-> Holding(k), primary |-> best(k)]] BY Graph DEF best
  <2> HIDE DEF G, K
  <2> QED BY <2>1
<1>2. accountOf(id) = {k \in K : id \in Holding(k)} BY <1>1 DEF accountOf
<1>3. accountOf(id) = {accountKeyFor(profiles[id])} \ {Missing} BY <1>2 DEF Holding
<1>4. ASSUME NEW k \in accountOf(id)
      PROVE  completeness(profiles[id]) <= completeness(profiles[G[k].primary])
  <2>1. k \in K /\ id \in Holding(k) BY <1>2, <1>4
  <2>2. best(k) \in Holding(k) /\ \A b \in Holding(k) \ {best(k)} : MoreComplete(best(k), b)
    <3>1. Holding(k) # {} BY <2>1
    <3>2. \E a \in Holding(k) : \A b \in Holding(k) \ {a} : MoreComplete(a, b) BY <3>1, PrimaryLeads
    <3> HIDE DEF K, G
    <3> QED BY <3>2
  <2>3. G[k].primary = best(k) BY <1>1, <2>1
  <2> HIDE DEF best, G, K
  <2>4. CASE id = best(k) BY <2>3, <2>4, CompletenessType
  <2>5. CASE id # best(k)
    <3>1. MoreComplete(best(k), id) BY <2>1, <2>2, <2>5
    <3>2. completeness(profiles[id]) \in Nat /\ completeness(profiles[best(k)]) \in Nat BY CompletenessType
    <3> QED BY <2>3, <3>1, <3>2 DEF MoreComplete
  <2> QED BY <2>4, <2>5
<1> QED BY <1>3, <1>4

Better(a, b) == a.priority > b.priority \/ (a.priority = b.priority /\ a.key < b.key)

LEMMA BestOffer ==
  ASSUME NEW id, NEW offer \in nextBestAction(id, Offers)
  PROVE  /\ id \in segmentMembers(offer.eligibility)
         /\ \A o \in Offers : id \in segmentMembers(o.eligibility) => o.priority <= offer.priority
<1> DEFINE S == {a \in Offers : id \in segmentMembers(a.eligibility)}
           best == CHOOSE a \in S : \A b \in S \ {a} : Better(a, b)
           o(k) == [key |-> k, priority |-> (k + 1) \div 2, eligibility |-> SetToSeq(Rules)[k]]
<1>1. nextBestAction(id, Offers) = IF S = {} THEN {} ELSE {best}
  BY DEF nextBestAction, Better
<1>2. /\ IsFiniteSet(Offers)
      /\ \A a \in Offers : a.key \in Int /\ a.priority \in Int
      /\ \A a, b \in Offers : a.key = b.key => a = b
  <2>1. Offers = {o(k) : k \in 1..3} BY DEF Offers
  <2>2. \A k \in 1..3 : o(k).key = k /\ o(k).priority = (k + 1) \div 2 OBVIOUS
  <2>3. {o(k) : k \in 1..3} = {o(1), o(2), o(3), o(3), o(3), o(3)} OBVIOUS
  <2> HIDE DEF o
  <2>4. IsFiniteSet({o(1), o(2), o(3), o(3), o(3), o(3)}) BY Zenon, FewAreFinite
  <2>5. \A k \in 1..3 : o(k).key \in Int /\ o(k).priority \in Int BY <2>2
  <2>6. \A j, k \in 1..3 : o(j).key = o(k).key => o(j) = o(k) BY <2>2
  <2>7. IsFiniteSet(Offers) BY <2>1, <2>3, <2>4
  <2> QED BY <2>1, <2>5, <2>6, <2>7
<1>3. S \subseteq Offers OBVIOUS
<1> HIDE DEF S
<1>4. IsFiniteSet(S) BY <1>2, <1>3, FS_Subset
<1> DEFINE less == [a \in S |-> 0 - a.priority]
           key == [a \in S |-> a.key]
           R == LexOrder(S, less, less, key)
<1>5. less \in [S -> Int] /\ key \in [S -> Int] /\ \A x, y \in S : key[x] = key[y] => x = y
  BY <1>2, <1>3
<1>6. ASSUME NEW x \in S, NEW y \in S, <<x, y>> \in R PROVE Better(x, y)
  <2>1. x.priority \in Int /\ y.priority \in Int BY <1>2, <1>3
  <2>2. less[x] = 0 - x.priority /\ less[y] = 0 - y.priority /\ key[x] = x.key /\ key[y] = y.key OBVIOUS
  <2> HIDE DEF less, key
  <2>3. less[x] < less[y] \/ (less[x] = less[y] /\ key[x] < key[y]) BY <1>5, <1>6 DEF LexOrder
  <2> QED BY <2>1, <2>2, <2>3 DEF Better
<1> HIDE DEF less, key
<1>7. StrictOrder(R, S) BY <1>5, Lexicographic
<1> HIDE DEF R
<1>8. S # {} /\ offer = best
  <2> HIDE DEF best
  <2> QED BY <1>1
<1>9. \E a \in S : \A b \in S \ {a} : Better(a, b)
  <2>1. PICK a \in S : \A b \in S \ {a} : <<a, b>> \in R BY <1>4, <1>7, <1>8, FirstOf
  <2> QED BY <1>6, <2>1
<1>10. offer \in S /\ \A b \in S \ {offer} : Better(offer, b) BY <1>8, <1>9
<1> HIDE DEF best
<1>11. \A b \in S : b.priority <= offer.priority BY <1>2, <1>3, <1>10 DEF Better
<1> QED BY <1>3, <1>10, <1>11 DEF S

LEMMA CleanScores ==
  ASSUME NEW p
  PROVE  scoreQuality(p) = completenessScore(p) <=> validateProfile(p) = {} \/ completenessScore(p) = 0
<1> DEFINE all == {"userId", "email", "anonymousId", "company", "domain"}
           there == {f \in all : trim(p[f]) # Missing}
           errors == validateProfile(p)
<1>1. IsFiniteSet(all) /\ Cardinality(all) <= 5
  <2>1. IsFiniteSet({"userId"}) /\ Cardinality({"userId"}) = 1 BY FS_Singleton
  <2>2. /\ IsFiniteSet({"userId"} \cup {"email"})
        /\ Cardinality({"userId"} \cup {"email"}) = Cardinality({"userId"}) + 1
    BY <2>1, FS_AddElement
  <2>3. /\ IsFiniteSet(({"userId"} \cup {"email"}) \cup {"anonymousId"})
        /\ Cardinality(({"userId"} \cup {"email"}) \cup {"anonymousId"})
             = Cardinality({"userId"} \cup {"email"}) + 1
    BY <2>2, FS_AddElement
  <2>4. /\ IsFiniteSet((({"userId"} \cup {"email"}) \cup {"anonymousId"}) \cup {"company"})
        /\ Cardinality((({"userId"} \cup {"email"}) \cup {"anonymousId"}) \cup {"company"})
             = Cardinality(({"userId"} \cup {"email"}) \cup {"anonymousId"}) + 1
    BY <2>3, FS_AddElement
  <2>5. /\ IsFiniteSet(((({"userId"} \cup {"email"}) \cup {"anonymousId"}) \cup {"company"}) \cup {"domain"})
        /\ Cardinality(((({"userId"} \cup {"email"}) \cup {"anonymousId"}) \cup {"company"}) \cup {"domain"})
             = Cardinality((({"userId"} \cup {"email"}) \cup {"anonymousId"}) \cup {"company"}) + 1
    BY <2>4, FS_AddElement
  <2>6. all = ((({"userId"} \cup {"email"}) \cup {"anonymousId"}) \cup {"company"}) \cup {"domain"} OBVIOUS
  <2> QED BY <2>1, <2>2, <2>3, <2>4, <2>5, <2>6
<1>2. Cardinality(there) \in 0..5
  <2>1. IsFiniteSet(there) /\ Cardinality(there) <= Cardinality(all) BY <1>1, FS_Subset
  <2>2. Cardinality(there) \in Nat /\ Cardinality(all) \in Nat BY <1>1, <2>1, FS_CardinalityType
  <2> HIDE DEF there, all
  <2> QED BY <1>1, <2>1, <2>2
<1>3. IsFiniteSet(errors) /\ Cardinality(errors) \in Nat
  <2> DEFINE codes == {"invalid_email", "invalid_domain", "missing_identifier", "invalid_phone"}
  <2>1. IsFiniteSet({"invalid_email", "invalid_domain", "missing_identifier", "invalid_phone",
                     "invalid_phone", "invalid_phone"}) BY FewAreFinite
  <2>2. IsFiniteSet(codes) BY <2>1
  <2>3. errors \subseteq codes BY DEF validateProfile
  <2> HIDE DEF errors, codes
  <2> QED BY <2>2, <2>3, FS_Subset, FS_CardinalityType
<1> DEFINE n == Cardinality(there)
           k == Cardinality(errors)
<1>4. completenessScore(p) = 20 * n /\ scoreQuality(p) = Clamp100(20 * n - 20 * k)
  BY DEF scoreQuality, completenessScore, Count
<1>5. n \in 0..5 /\ k \in Nat BY <1>2, <1>3
<1>6. errors = {} <=> k = 0 BY <1>3, FS_EmptySet
<1> HIDE DEF n, k, errors, there
<1>7. Clamp100(20 * n - 20 * k) = IF 20 * n - 20 * k < 0 THEN 0 ELSE 20 * n - 20 * k
  <2>1. 20 * n - 20 * k \in Int /\ 20 * n - 20 * k <= 100 BY <1>5
  <2> QED BY <2>1, Clamping
<1>8. scoreQuality(p) = completenessScore(p) <=> k = 0 \/ completenessScore(p) = 0 BY <1>4, <1>5, <1>7
<1> QED BY <1>6, <1>8 DEF errors

LEMMA VariantsHaveWeight ==
  ASSUME NEW hash \in 0..5
  PROVE  chooseVariant(hash, <<1, 0, 2>>) \in {1, 3}
<1> DEFINE weights == <<1, 0, 2>>
           upTo(k) == Sum(SubSeq(weights, 1, k))
           bucket == hash % 3
           inside == {k \in 1..3 : bucket < upTo(k)}
<1>1. upTo(1) = 1 /\ upTo(2) = 1 /\ upTo(3) = 3
  <2>1. ASSUME NEW k \in 1..3
        PROVE  \E P \in [0..k -> Int] : /\ P[0] = 0 /\ \A j \in 1..k : P[j] = P[j - 1] + weights[j]
                                        /\ upTo(k) = P[k]
    <3> DEFINE s == SubSeq(weights, 1, k)
    <3>1. weights \in Seq(Int) /\ Len(weights) = 3 OBVIOUS
    <3>2. s = [j \in 1..k |-> weights[j]] BY <3>1
    <3>3. DOMAIN s = 1..k /\ \A j \in 1..k : s[j] = weights[j] /\ s[j] \in Int BY <3>2
    <3> HIDE DEF s, weights
    <3>4. k \in Nat OBVIOUS
    <3> QED BY <3>3, <3>4, Summing DEF s
  <2>2. upTo(1) = 1
    <3>1. PICK P \in [0..1 -> Int] : P[0] = 0 /\ (\A j \in 1..1 : P[j] = P[j - 1] + weights[j]) /\ upTo(1) = P[1]
      BY <2>1
    <3> QED BY <3>1
  <2>3. upTo(2) = 1
    <3>1. PICK P \in [0..2 -> Int] : P[0] = 0 /\ (\A j \in 1..2 : P[j] = P[j - 1] + weights[j]) /\ upTo(2) = P[2]
      BY <2>1
    <3>2. P[1] = P[0] + 1 /\ P[2] = P[1] + 0 BY <3>1
    <3> QED BY <3>1, <3>2
  <2>4. upTo(3) = 3
    <3>1. PICK P \in [0..3 -> Int] : P[0] = 0 /\ (\A j \in 1..3 : P[j] = P[j - 1] + weights[j]) /\ upTo(3) = P[3]
      BY <2>1
    <3>2. P[1] = P[0] + 1 /\ P[2] = P[1] + 0 /\ P[3] = P[2] + 2 BY <3>1
    <3> QED BY <3>1, <3>2
  <2> QED BY <2>2, <2>3, <2>4
<1>2. chooseVariant(hash, weights) = IF inside = {} THEN 3 ELSE Min(inside)
  <2>1. Len(weights) = 3 /\ DOMAIN weights = 1..3 OBVIOUS
  <2>2. Max({upTo(Len(weights)), 1}) = 3 BY <1>1, <2>1, MaxOf
  <2>3. chooseVariant(hash, weights) =
          LET at == hash % Max({upTo(Len(weights)), 1})
              those == {k \in DOMAIN weights : at < upTo(k)}
          IN  IF those = {} THEN Len(weights) ELSE Min(those)
    BY Zenon DEF chooseVariant, Sum
  <2> HIDE DEF upTo, weights
  <2> QED BY <2>1, <2>2, <2>3
<1> HIDE DEF upTo
<1>3. bucket \in 0..2 OBVIOUS
<1> HIDE DEF bucket
<1>4. inside = IF bucket = 0 THEN {1, 2, 3} ELSE {3} BY <1>1, <1>3
<1>5. Min({1, 2, 3}) = 1 /\ Min({3}) = 3 BY DEF Min
<1> QED BY <1>2, <1>4, <1>5

\* The views of the profiles agree, whatever profiles are stored (packages/audiences,
\* identity-graph, personalization, data-quality).
THEOREM ProfileViewsAgree == ToolsSpec => []ViewsAgree
<1>1. ToolsInv => ViewsAgree
  <2> SUFFICES ASSUME ToolsInv PROVE ViewsAgree
    OBVIOUS
  <2>1. ASSUME NEW a \in DOMAIN profiles, NEW b \in DOMAIN profiles,
               dedupeKey(a) = dedupeKey(b), dedupeKey(a)[1] = "email", domainOf(profiles[a].email) # Missing
        PROVE  accountOf(a) = accountOf(b)
    <3> DEFINE p == profiles[a]
               q == profiles[b]
    <3>1. normalizeEmail(p.email) # Missing /\ normalizeEmail(p.email) = normalizeEmail(q.email)
      BY <2>1 DEF dedupeKey
    <3>2. tidy(p.email) \in Addresses /\ tidy(q.email) = tidy(p.email) BY <3>1 DEF normalizeEmail
    <3>3. \A e : tidy(e) \in Addresses => tidy(mailHost(e)) = mailHost(tidy(e))
      <4>1. \A e : tidy(e) \in Addresses => e \in Addresses \cup DOMAIN Tidied BY DEF tidy, Changed
      <4> QED BY <4>1, TextAssumption
    <3>4. domainOf(p.email) = domainOf(q.email)
      <4>1. tidy(mailHost(p.email)) = tidy(mailHost(q.email)) BY <3>2, <3>3
      <4> QED BY <4>1 DEF domainOf, cleanDomain
    <3>5. accountKeyFor(p) = accountKeyFor(q) BY <2>1, <3>4 DEF accountKeyFor
    <3> QED BY <3>5, AccountsHold
  <2> QED BY <2>1, AudiencesAddUp, AccountsHold, BestOffer, CleanScores, VariantsHaveWeight DEF ViewsAgree
<1> QED BY <1>1, ToolsInvariant, PTL

-----------------------------------------------------------------------------
(* The stored events, and lists of them in the order of time.               *)
Events ==
  {e \in [user : Users, type : {"identify", "track"}, name : Names \cup {NoMatch}, ts : 0..MaxTs] :
     e.type = IF e.name = NoMatch THEN "identify" ELSE "track"}
LogTypes == log \in Seq(Events)

LogOK ==
  /\ Len(log) \in Nat /\ DOMAIN log = 1..Len(log)
  /\ \A i \in 1..Len(log) : /\ log[i].ts \in 0..MaxTs /\ log[i].name \in Names \cup {NoMatch}
                            /\ log[i].type = IF log[i].name = NoMatch THEN "identify" ELSE "track"

LEMMA LogFacts == LogTypes => LogOK
<1> SUFFICES ASSUME LogTypes PROVE LogOK
  OBVIOUS
<1>1. log \in Seq(Events) /\ Len(log) \in Nat /\ DOMAIN log = 1..Len(log) BY DEF LogTypes
<1>2. ASSUME NEW i \in 1..Len(log)
      PROVE  /\ log[i].ts \in 0..MaxTs /\ log[i].name \in Names \cup {NoMatch}
             /\ log[i].type = IF log[i].name = NoMatch THEN "identify" ELSE "track"
  <2>1. log[i] \in Events BY <1>1
  <2> QED BY <2>1 DEF Events
<1> QED BY <1>1, <1>2 DEF LogOK

\* An order of some rows that follows their times.
InTime(L, S) ==
  /\ Cardinality(S) \in Nat /\ L \in [1..Cardinality(S) -> S]
  /\ \A i, j \in 1..Cardinality(S) : i < j => log[L[i]].ts <= log[L[j]].ts
  /\ \A i, j \in 1..Cardinality(S) : i # j => L[i] # L[j]
  /\ \A x \in S : \E k \in 1..Cardinality(S) : L[k] = x

LEMMA TimeOrder ==
  ASSUME LogOK, NEW S \in SUBSET (1..Len(log)), NEW b \in [S -> Int], NEW L,
         SortedBy(L, S, LexOrder(S, [i \in S |-> log[i].ts], b, [i \in S |-> i]))
  PROVE  InTime(L, S)
<1> DEFINE a == [i \in S |-> log[i].ts]
           c == [i \in S |-> i]
           R == LexOrder(S, a, b, c)
<1>1. \A i \in S : log[i].ts \in Int BY DEF LogOK
<1>2. a \in [S -> Int] BY <1>1
<1>3. c \in [S -> Int] /\ \A x, y \in S : c[x] = c[y] => x = y BY DEF LogOK
<1>4. IsFiniteSet(S)
  <2>1. IsFiniteSet(1..Len(log))
    <3>1. 1 \in Int /\ Len(log) \in Int BY DEF LogOK
    <3> QED BY Zenon, <3>1, FS_Interval
  <2>2. S \in SUBSET (1..Len(log)) OBVIOUS
  <2> QED BY Zenon, <2>1, <2>2, FS_Subset
<1>5. \A x, y : <<x, y>> \in R => log[x].ts <= log[y].ts
  <2>1. \A x \in S : a[x] = log[x].ts OBVIOUS
  <2> HIDE DEF a, c
  <2>2. ASSUME NEW x, NEW y, <<x, y>> \in R PROVE x \in S /\ y \in S /\ a[x] <= a[y]
    <3>1. x \in S /\ y \in S BY <2>2 DEF LexOrder
    <3>2. a[x] \in Int /\ a[y] \in Int BY <1>2, <3>1
    <3>3. a[x] < a[y] \/ a[x] = a[y] BY <2>2 DEF LexOrder
    <3> QED BY <3>1, <3>2, <3>3
  <2> HIDE DEF R
  <2> QED BY <2>1, <2>2
<1> HIDE DEF a, c
<1>6. StrictOrder(R, S) BY <1>2, <1>3, Lexicographic
<1>7. SortedBy(L, S, R) BY DEF a, c
<1> HIDE DEF R
<1>8. /\ Cardinality(S) \in Nat /\ L \in [1..Cardinality(S) -> S]
      /\ \A i, j \in 1..Cardinality(S) : i < j => <<L[i], L[j]>> \in R
      /\ \A i, j \in 1..Cardinality(S) : i # j => L[i] # L[j]
      /\ \A x \in S : \E k \in 1..Cardinality(S) : L[k] = x
  BY SMTT(30), <1>4, <1>6, <1>7, SortedList
<1> QED BY <1>5, <1>8 DEF InTime

LEMMA MineAreRows ==
  ASSUME LogOK, NEW user
  PROVE  /\ Of(user) \in SUBSET (1..Len(log)) /\ IsFiniteSet(Of(user))
         /\ \A i \in Of(user) : log[i].user = user
         /\ user \in Seen => Of(user) # {}
<1>1. Of(user) \in SUBSET (1..Len(log)) BY DEF Of, LogOK
<1>2. IsFiniteSet(1..Len(log)) BY FS_Interval DEF LogOK
<1>3. IsFiniteSet(Of(user)) BY <1>1, <1>2, FS_Subset
<1> QED BY <1>1, <1>3 DEF Of, Seen

TimeLine(user) == Sorted(Of(user), Earlier)

LEMMA GroupedByUser ==
  ASSUME LogOK, NEW user
  PROVE  /\ InTime(TimeLine(user), Of(user))
         /\ groupByUser(user) = [k \in 1..Cardinality(Of(user)) |-> log[TimeLine(user)[k]]]
<1> DEFINE S == Of(user)
           L == TimeLine(user)
           b == [i \in S |-> 0]
           R == LexOrder(S, [i \in S |-> log[i].ts], b, [i \in S |-> i])
<1>1. S \in SUBSET (1..Len(log)) BY MineAreRows
<1>2. \A x, y \in S : Earlier(x, y) <=> <<x, y>> \in R
  BY <1>1 DEF Earlier, LexOrder, LogOK
<1>3. SortedBy(L, S, R)
  <2> DEFINE e(k) == CHOOSE x \in S : Cardinality({y \in S : Earlier(y, x)}) = k - 1
             g(k) == CHOOSE x \in S : Cardinality({y \in S : <<y, x>> \in R}) = k - 1
  <2> HIDE DEF R, S
  <2>1. \A x \in S : {y \in S : Earlier(y, x)} = {y \in S : <<y, x>> \in R} BY <1>2
  <2>2. \A k \in 1..Cardinality(S) : e(k) = g(k) BY <2>1
  <2>3. L = [k \in 1..Cardinality(S) |-> e(k)] BY Zenon DEF Sorted, TimeLine, S
  <2>4. SortedBy(L, S, R) <=> L = [k \in 1..Cardinality(S) |-> g(k)] BY Zenon DEF SortedBy
  <2> HIDE DEF e, g, L
  <2> QED BY <2>2, <2>3, <2>4
<1>4. b \in [S -> Int] OBVIOUS
<1> HIDE DEF S, L, b
<1>5. InTime(L, S) BY <1>1, <1>3, <1>4, TimeOrder
<1>6. DOMAIN L = 1..Cardinality(S) BY <1>5 DEF InTime
<1>7. groupByUser(user) = [k \in DOMAIN L |-> log[L[k]]]
  BY DEF groupByUser, RowsBy, L, TimeLine
<1> QED BY <1>5, <1>6, <1>7 DEF S, L

RankLine(user, rank) ==
  Sorted(Of(user), LAMBDA i, j :
    \/ log[i].ts < log[j].ts
    \/ log[i].ts = log[j].ts /\ rank[RowName(log[i])] < rank[RowName(log[j])]
    \/ log[i].ts = log[j].ts /\ rank[RowName(log[i])] = rank[RowName(log[j])] /\ i < j)

LEMMA RowNames ==
  ASSUME LogOK, NEW i \in 1..Len(log)
  PROVE  /\ RowName(log[i]) \in Names \cup {"identify"}
         /\ \A x \in Names \ {"identify"} : RowName(log[i]) = x <=> log[i].name = x
BY QueriesAssumption DEF LogOK, RowName

LEMMA GroupedByRank ==
  ASSUME LogOK, NEW user, NEW rank \in [Names \cup {"identify"} -> Int]
  PROVE  /\ InTime(RankLine(user, rank), Of(user))
         /\ groupRows(user, rank)
              = [k \in 1..Cardinality(Of(user)) |-> log[RankLine(user, rank)[k]]]
<1> DEFINE S == Of(user)
           L == RankLine(user, rank)
           b == [i \in S |-> rank[RowName(log[i])]]
           R == LexOrder(S, [i \in S |-> log[i].ts], b, [i \in S |-> i])
           before(i, j) ==
             \/ log[i].ts < log[j].ts
             \/ log[i].ts = log[j].ts /\ rank[RowName(log[i])] < rank[RowName(log[j])]
             \/ log[i].ts = log[j].ts /\ rank[RowName(log[i])] = rank[RowName(log[j])] /\ i < j
<1>1. S \in SUBSET (1..Len(log)) BY MineAreRows
<1>2. \A x, y \in S : before(x, y) <=> <<x, y>> \in R
  <2> HIDE DEF S
  <2> QED BY <1>1 DEF LexOrder
<1>3. SortedBy(L, S, R)
  <2> DEFINE e(k) == CHOOSE x \in S : Cardinality({y \in S : before(y, x)}) = k - 1
             g(k) == CHOOSE x \in S : Cardinality({y \in S : <<y, x>> \in R}) = k - 1
  <2>3. L = [k \in 1..Cardinality(S) |-> e(k)] BY Zenon DEF Sorted, RankLine
  <2> HIDE DEF R, S, before
  <2>1. \A x \in S : {y \in S : before(y, x)} = {y \in S : <<y, x>> \in R} BY <1>2
  <2>2. \A k \in 1..Cardinality(S) : e(k) = g(k) BY <2>1
  <2>4. SortedBy(L, S, R) <=> L = [k \in 1..Cardinality(S) |-> g(k)] BY Zenon DEF SortedBy
  <2> HIDE DEF e, g, L
  <2> QED BY <2>2, <2>3, <2>4
<1>4. b \in [S -> Int]
  <2>1. \A i \in S : rank[RowName(log[i])] \in Int BY <1>1, RowNames
  <2> QED BY <2>1
<1>7. groupRows(user, rank) = [k \in DOMAIN L |-> log[L[k]]]
  BY DEF groupRows, RowsBy, RankLine
<1> HIDE DEF S, L, b
<1>5. InTime(L, S) BY <1>1, <1>3, <1>4, TimeOrder
<1>6. DOMAIN L = 1..Cardinality(S) BY <1>5 DEF InTime
<1> QED BY <1>5, <1>6, <1>7 DEF S, L

\* At times of their own, ranks make no difference.
LEMMA NoTies ==
  ASSUME LogOK, NEW user, NEW rank \in [Names \cup {"identify"} -> Int],
         \A i, j \in DOMAIN log : i # j => log[i].ts # log[j].ts
  PROVE  groupRows(user, rank) = groupByUser(user)
<1> DEFINE S == Of(user)
           before(i, j) ==
             \/ log[i].ts < log[j].ts
             \/ log[i].ts = log[j].ts /\ rank[RowName(log[i])] < rank[RowName(log[j])]
             \/ log[i].ts = log[j].ts /\ rank[RowName(log[i])] = rank[RowName(log[j])] /\ i < j
           e(k) == CHOOSE x \in S : Cardinality({y \in S : before(y, x)}) = k - 1
           g(k) == CHOOSE x \in S : Cardinality({y \in S : Earlier(y, x)}) = k - 1
<1>1. S \in SUBSET (1..Len(log)) BY MineAreRows
<1>2. \A x, y \in S : before(x, y) <=> Earlier(x, y)
  <2> SUFFICES ASSUME NEW x \in S, NEW y \in S PROVE before(x, y) <=> Earlier(x, y)
    OBVIOUS
  <2>1. x \in 1..Len(log) /\ y \in 1..Len(log) /\ x \in DOMAIN log /\ y \in DOMAIN log
    BY <1>1 DEF LogOK
  <2>2. CASE x = y
    <3>1. RowName(log[x]) \in Names \cup {"identify"} BY <2>1, RowNames
    <3>2. rank[RowName(log[x])] \in Int /\ log[x].ts \in Int BY <2>1, <3>1 DEF LogOK
    <3> QED BY <2>1, <2>2, <3>2 DEF Earlier
  <2>3. CASE x # y
    <3>1. log[x].ts # log[y].ts BY <2>1, <2>3
    <3> QED BY <3>1 DEF Earlier
  <2> QED BY <2>2, <2>3
<1>3. RankLine(user, rank) = [k \in 1..Cardinality(S) |-> e(k)] BY Zenon DEF Sorted, RankLine
<1>4. TimeLine(user) = [k \in 1..Cardinality(S) |-> g(k)] BY Zenon DEF Sorted, TimeLine
<1>5. \A k \in 1..Cardinality(S) : e(k) = g(k)
  <2> HIDE DEF S, before
  <2>1. \A x \in S : {y \in S : before(y, x)} = {y \in S : Earlier(y, x)} BY <1>2
  <2> QED BY <2>1
<1>6. RankLine(user, rank) = TimeLine(user)
  <2> HIDE DEF e, g
  <2> QED BY <1>3, <1>4, <1>5
<1>7. groupByUser(user) = [k \in 1..Cardinality(Of(user)) |-> log[TimeLine(user)[k]]]
  BY GroupedByUser
<1>8. groupRows(user, rank) = [k \in 1..Cardinality(Of(user)) |-> log[RankLine(user, rank)[k]]]
  BY GroupedByRank
<1> QED BY <1>6, <1>7, <1>8

-----------------------------------------------------------------------------
(* How far a user gets along some steps: one row after the other.           *)
NoProgress == [reached |-> 0, first |-> 0, last |-> 0]
Advance(p, name, ts, steps, window) ==
  IF p.reached = Len(steps) \/ name # steps[p.reached + 1] THEN p
  ELSE IF p.reached > 0 /\ window >= 0 /\ ts - p.first > window THEN p
  ELSE [reached |-> p.reached + 1, first |-> IF p.reached = 0 THEN ts ELSE p.first, last |-> ts]
Progress(rows, steps, window) ==
  FoldLeft(LAMBDA p, e :
      IF p.reached = Len(steps) \/ RowName(e) # steps[p.reached + 1] THEN p
      ELSE IF p.reached > 0 /\ window >= 0 /\ e.ts - p.first > window THEN p
      ELSE [reached |-> p.reached + 1, first |-> IF p.reached = 0 THEN e.ts ELSE p.first,
            last |-> e.ts],
    [reached |-> 0, first |-> 0, last |-> 0], rows)
Depth(rows, steps) ==
  FoldLeft(LAMBDA d, e : IF d < Len(steps) /\ eventName(e) = steps[d + 1] THEN d + 1 ELSE d, 0, rows)

Marks(m) == [reached : 0..m, first : Int, last : Int]

\* The progress after each of n rows.
Course(P, n, name, ts, steps, window) ==
  /\ P \in [0..n -> Marks(Len(steps))] /\ P[0] = NoProgress
  /\ \A k \in 1..n : P[k] = Advance(P[k - 1], name[k], ts[k], steps, window)

\* What n rows are.
Stamped(rows, n) == n \in Nat /\ DOMAIN rows = 1..n /\ \A k \in 1..n : rows[k].ts \in Int
NamesOf(rows, n) == [k \in 1..n |-> rows[k].name]
RowNamesOf(rows, n) == [k \in 1..n |-> RowName(rows[k])]
TimesOf(rows, n) == [k \in 1..n |-> rows[k].ts]

LEMMA AdvanceType ==
  ASSUME NEW steps, Len(steps) \in Nat, NEW window \in Int, NEW p \in Marks(Len(steps)), NEW name,
         NEW ts \in Int
  PROVE  Advance(p, name, ts, steps, window) \in Marks(Len(steps))
<1>1. p.reached \in 0..Len(steps) /\ p.first \in Int /\ p.last \in Int BY DEF Marks
<1>2. p.reached # Len(steps) => p.reached + 1 \in 0..Len(steps) BY <1>1
<1>3. (IF p.reached = 0 THEN ts ELSE p.first) \in Int BY <1>1
<1> QED BY <1>2, <1>3 DEF Advance, Marks

LEMMA ProgressCourse ==
  ASSUME NEW n, NEW rows, Stamped(rows, n), NEW steps, Len(steps) \in Nat, NEW window \in Int
  PROVE  \E P : /\ Course(P, n, RowNamesOf(rows, n), TimesOf(rows, n), steps, window)
               /\ Progress(rows, steps, window) = P[n]
<1> DEFINE V == Marks(Len(steps))
           adv(p, k) == Advance(p, RowName(rows[k]), rows[k].ts, steps, window)
           step == [x \in (1..n) \X V |-> adv(x[2], x[1])]
<1>0. n \in Nat /\ DOMAIN rows = 1..n /\ \A k \in 1..n : rows[k].ts \in Int BY DEF Stamped
<1>1. NoProgress \in V BY DEF NoProgress, Marks
<1>2. \A k \in 1..n, p \in V : adv(p, k) \in V BY <1>0, AdvanceType
<1> HIDE DEF V, adv
<1>3. step \in [(1..n) \X V -> V] BY <1>2
<1>4. PICK h \in [SUBSET (1..n) -> V] : IsListFold(h, n, NoProgress, step)
  <2> HIDE DEF step
  <2> QED BY Zenon, <1>0, <1>1, <1>3, FoldingList
<1>5. h = [T \in SUBSET (1..n) |-> IF T = {} THEN NoProgress ELSE adv(h[T \ {Max(T)}], Max(T))]
  <2> DEFINE e(T) == IF T = {} THEN NoProgress ELSE step[<<Max(T), h[T \ {Max(T)}]>>]
             f(T) == IF T = {} THEN NoProgress ELSE adv(h[T \ {Max(T)}], Max(T))
  <2>1. ASSUME NEW T \in SUBSET (1..n), T # {}
        PROVE  step[<<Max(T), h[T \ {Max(T)}]>>] = adv(h[T \ {Max(T)}], Max(T))
    <3>1. Max(T) \in 1..n /\ h[T \ {Max(T)}] \in V BY <1>0, <1>4, <2>1, GreatestOf
    <3> QED BY <3>1
  <2> HIDE DEF step
  <2>2. \A T \in SUBSET (1..n) : e(T) = f(T) BY <2>1
  <2>3. h = [T \in SUBSET (1..n) |-> e(T)] BY <1>4 DEF IsListFold
  <2> HIDE DEF e, f
  <2>4. h = [T \in SUBSET (1..n) |-> f(T)] BY <2>2, <2>3
  <2> QED BY <2>4 DEF f
<1> HIDE DEF step
<1> DEFINE iter == CHOOSE g : g = [T \in SUBSET (1..n) |->
                     IF T = {} THEN NoProgress ELSE adv(g[T \ {Max(T)}], Max(T))]
<1>6. iter = [T \in SUBSET (1..n) |-> IF T = {} THEN NoProgress ELSE adv(iter[T \ {Max(T)}], Max(T))]
  BY Zenon, <1>5
<1>7. Progress(rows, steps, window) = iter[1..n]
  BY Zenon, <1>0 DEF Progress, FoldLeft, MapThenFoldSet, NoProgress, adv, Advance
<1> HIDE DEF iter
<1> DEFINE P == [k \in 0..n |-> iter[1..k]]
<1>8. P[0] = NoProgress BY <1>0, <1>6
<1>9. ASSUME NEW k \in 1..n PROVE P[k] = adv(P[k - 1], k)
  <2> n \in Nat BY <1>0
  <2>1. 1..k \in SUBSET (1..n) /\ 1..k # {} OBVIOUS
  <2>2. iter[1..k] = adv(iter[(1..k) \ {Max(1..k)}], Max(1..k)) BY <1>6, <2>1
  <2>3. Max(1..k) = k /\ (1..k) \ {Max(1..k)} = 1..(k - 1) BY Greatest
  <2>4. iter[1..k] = adv(iter[1..(k - 1)], k) BY <2>2, <2>3
  <2>5. k \in 0..n /\ k - 1 \in 0..n BY <1>0
  <2> QED BY <2>4, <2>5
<1>10. P = [k \in 0..n |-> P[k]] /\ Progress(rows, steps, window) = P[n] BY <1>0, <1>7
<1> HIDE DEF P
<1> DEFINE N == {k \in Nat : k <= n => P[k] \in V}
<1>11. 0 \in N BY <1>1, <1>8
<1>12. ASSUME NEW k \in Nat, k \in N PROVE k + 1 \in N
  <2>1. ASSUME k + 1 <= n PROVE P[k + 1] \in V
    <3>1. k + 1 \in 1..n /\ (k + 1) - 1 = k /\ P[k] \in V BY <1>0, <1>12, <2>1
    <3>2. P[k + 1] = adv(P[k], k + 1) BY <1>9, <3>1
    <3> QED BY <1>2, <3>1, <3>2
  <2> QED BY <2>1
<1> HIDE DEF N
<1>13. Nat \subseteq N BY <1>11, <1>12, AllNumbers
<1>14. \A k \in 0..n : P[k] \in V BY <1>0, <1>13 DEF N
<1>15. P \in [0..n -> V] BY <1>10, <1>14
<1>16. Course(P, n, RowNamesOf(rows, n), TimesOf(rows, n), steps, window)
  BY <1>8, <1>9, <1>15 DEF Course, RowNamesOf, TimesOf, V, adv
<1> QED BY <1>10, <1>16

\* Without a window, the depth is the progress (of steps and rows by their names).
LEMMA DepthCourse ==
  ASSUME NEW n, NEW rows, Stamped(rows, n), NEW steps, Len(steps) \in Nat
  PROVE  \E P : /\ Course(P, n, NamesOf(rows, n), TimesOf(rows, n), steps, NoWindow)
                /\ Depth(rows, steps) = P[n].reached
<1> DEFINE nm == NamesOf(rows, n)
           tm == TimesOf(rows, n)
           m == Len(steps)
<1>0. n \in Nat /\ DOMAIN rows = 1..n /\ \A k \in 1..n : rows[k].ts \in Int BY DEF Stamped
<1>1. PICK P : Course(P, n, nm, tm, steps, NoWindow)
  <2> DEFINE same == [k \in 1..n |-> [name |-> NoMatch, type |-> rows[k].name, ts |-> rows[k].ts]]
  <2>1. Stamped(same, n) /\ \A k \in 1..n : same[k].ts = rows[k].ts BY <1>0 DEF Stamped
  <2>2. \A k \in 1..n : RowName(same[k]) = rows[k].name BY DEF RowName
  <2>3. NoWindow \in Int BY DEF NoWindow
  <2> HIDE DEF same
  <2>4. PICK P : Course(P, n, RowNamesOf(same, n), TimesOf(same, n), steps, NoWindow)
    BY <2>1, <2>3, ProgressCourse
  <2>5. RowNamesOf(same, n) = nm /\ TimesOf(same, n) = tm
    BY <2>1, <2>2 DEF RowNamesOf, NamesOf, TimesOf
  <2> QED BY <2>4, <2>5
<1> DEFINE V == 0..m
           adv(d, k) == IF d < Len(steps) /\ rows[k].name = steps[d + 1] THEN d + 1 ELSE d
           step == [x \in (1..n) \X V |-> adv(x[2], x[1])]
<1>2. \A k \in 1..n, d \in V : adv(d, k) \in V OBVIOUS
<1>3. 0 \in V OBVIOUS
<1> HIDE DEF V, adv
<1>4. step \in [(1..n) \X V -> V] BY <1>2
<1>5. PICK h \in [SUBSET (1..n) -> V] : IsListFold(h, n, 0, step)
  <2> HIDE DEF step
  <2> QED BY Zenon, <1>0, <1>3, <1>4, FoldingList
<1>6. h = [T \in SUBSET (1..n) |-> IF T = {} THEN 0 ELSE adv(h[T \ {Max(T)}], Max(T))]
  <2> DEFINE e(T) == IF T = {} THEN 0 ELSE step[<<Max(T), h[T \ {Max(T)}]>>]
             f(T) == IF T = {} THEN 0 ELSE adv(h[T \ {Max(T)}], Max(T))
  <2>1. ASSUME NEW T \in SUBSET (1..n), T # {}
        PROVE  step[<<Max(T), h[T \ {Max(T)}]>>] = adv(h[T \ {Max(T)}], Max(T))
    <3>1. Max(T) \in 1..n /\ h[T \ {Max(T)}] \in V BY <1>0, <1>5, <2>1, GreatestOf
    <3> QED BY <3>1
  <2> HIDE DEF step
  <2>2. \A T \in SUBSET (1..n) : e(T) = f(T) BY <2>1
  <2>3. h = [T \in SUBSET (1..n) |-> e(T)] BY <1>5 DEF IsListFold
  <2> HIDE DEF e, f
  <2>4. h = [T \in SUBSET (1..n) |-> f(T)] BY <2>2, <2>3
  <2> QED BY <2>4 DEF f
<1> HIDE DEF step
<1> DEFINE iter == CHOOSE g : g = [T \in SUBSET (1..n) |->
                     IF T = {} THEN 0 ELSE adv(g[T \ {Max(T)}], Max(T))]
<1>7. iter = [T \in SUBSET (1..n) |-> IF T = {} THEN 0 ELSE adv(iter[T \ {Max(T)}], Max(T))]
  BY Zenon, <1>6
<1>8. Depth(rows, steps) = iter[1..n]
  BY Zenon, <1>0 DEF Depth, FoldLeft, MapThenFoldSet, adv, eventName
<1> HIDE DEF iter
<1>9. iter[{}] = 0 BY <1>7
<1>10. ASSUME NEW k \in 1..n PROVE iter[1..k] = adv(iter[1..(k - 1)], k)
  <2> n \in Nat BY <1>0
  <2>1. 1..k \in SUBSET (1..n) /\ 1..k # {} OBVIOUS
  <2>2. iter[1..k] = adv(iter[(1..k) \ {Max(1..k)}], Max(1..k)) BY <1>7, <2>1
  <2>3. Max(1..k) = k /\ (1..k) \ {Max(1..k)} = 1..(k - 1) BY Greatest
  <2> QED BY <2>2, <2>3
<1> DEFINE N == {k \in Nat : k <= n => iter[1..k] = P[k].reached}
<1>11. 0 \in N
  <2>1. P[0].reached = 0 BY <1>1 DEF Course, NoProgress
  <2>2. 1..0 = {} OBVIOUS
  <2> QED BY <1>9, <2>1, <2>2
<1>12. ASSUME NEW k \in Nat, k \in N PROVE k + 1 \in N
  <2> SUFFICES ASSUME k + 1 <= n PROVE iter[1..(k + 1)] = P[k + 1].reached
    OBVIOUS
  <2>1. k + 1 \in 1..n /\ (k + 1) - 1 = k /\ k \in 0..n /\ iter[1..k] = P[k].reached BY <1>0, <1>12
  <2>2. iter[1..(k + 1)] = adv(iter[1..k], k + 1) BY <1>10, <2>1
  <2>3. P[k + 1] = Advance(P[k], rows[k + 1].name, rows[k + 1].ts, steps, NoWindow)
    BY <1>1, <2>1 DEF Course, NamesOf, TimesOf
  <2>4. P[k].reached \in 0..m BY <1>1, <2>1 DEF Course, Marks
  <2> DEFINE d == P[k].reached
             x == rows[k + 1].name
  <2>5. adv(d, k + 1) = IF d # m /\ x = steps[d + 1] THEN d + 1 ELSE d BY <2>4 DEF adv
  <2>6. P[k + 1].reached = IF d = m \/ x # steps[d + 1] THEN d ELSE d + 1
    BY <2>3 DEF Advance, NoWindow
  <2> QED BY <2>1, <2>2, <2>5, <2>6
<1> HIDE DEF N
<1>13. Nat \subseteq N BY <1>11, <1>12, AllNumbers
<1>14. iter[1..n] = P[n].reached BY <1>0, <1>13 DEF N
<1> QED BY <1>1, <1>8, <1>14

\* Progress never goes back, and goes on at a row of the next step.
LEMMA NeverBack ==
  ASSUME NEW n \in Nat, NEW P, NEW name, NEW ts, \A k \in 1..n : ts[k] \in Int, NEW steps,
         Len(steps) \in Nat, NEW window \in Int, Course(P, n, name, ts, steps, window)
  PROVE  /\ \A k \in 0..n : P[k].reached \in 0..Len(steps) /\ P[k].first \in Int /\ P[k].last \in Int
         /\ \A k \in 1..n : \/ P[k] = P[k - 1]
                            \/ /\ P[k].reached = P[k - 1].reached + 1
                               /\ P[k].reached \in DOMAIN steps => name[k] = steps[P[k].reached]
         /\ \A j, k \in 0..n : j <= k => P[j].reached <= P[k].reached
<1>1. \A k \in 0..n : P[k].reached \in 0..Len(steps) /\ P[k].first \in Int /\ P[k].last \in Int
  BY DEF Course, Marks
<1>2. ASSUME NEW k \in 1..n
      PROVE  \/ P[k] = P[k - 1]
             \/ /\ P[k].reached = P[k - 1].reached + 1
                /\ name[k] = steps[P[k].reached]
  <2>1. P[k] = Advance(P[k - 1], name[k], ts[k], steps, window) BY DEF Course
  <2> QED BY <2>1 DEF Advance
<1>3. ASSUME NEW j \in 0..n PROVE \A k \in 0..n : j <= k => P[j].reached <= P[k].reached
  <2> DEFINE N == {i \in Nat : j + i <= n => P[j].reached <= P[j + i].reached}
  <2>1. 0 \in N BY <1>1
  <2>2. ASSUME NEW i \in Nat, i \in N PROVE i + 1 \in N
    <3> SUFFICES ASSUME j + (i + 1) <= n PROVE P[j].reached <= P[j + (i + 1)].reached
      OBVIOUS
    <3>1. j + i + 1 \in 1..n /\ j + i \in 0..n /\ j + (i + 1) = j + i + 1 /\ (j + i + 1) - 1 = j + i
      OBVIOUS
    <3>2. P[j + i + 1].reached >= P[j + i].reached
      <4>1. \/ P[j + i + 1] = P[j + i] \/ P[j + i + 1].reached = P[j + i].reached + 1 BY <1>2, <3>1
      <4> QED BY <1>1, <3>1, <4>1
    <3>3. P[j].reached <= P[j + i].reached BY <2>2, <3>1
    <3>4. P[j].reached \in Int /\ P[j + i].reached \in Int /\ P[j + i + 1].reached \in Int
      BY <1>1, <3>1
    <3> QED BY <3>1, <3>2, <3>3, <3>4
  <2> HIDE DEF N
  <2>3. Nat \subseteq N BY <2>1, <2>2, AllNumbers
  <2>4. ASSUME NEW k \in 0..n, j <= k PROVE P[j].reached <= P[k].reached
    <3>1. k - j \in Nat /\ j + (k - j) = k BY <2>4
    <3>2. k - j \in N BY <2>3, <3>1
    <3> QED BY <3>1, <3>2 DEF N
  <2> QED BY <2>4
<1> QED BY <1>1, <1>2, <1>3

\* The rows at which progress was made, one per step, in their order; the first and
\* the last of them, and the window they keep.
LEMMA StepsTaken ==
  ASSUME NEW n \in Nat, NEW P, NEW name, NEW ts, \A k \in 1..n : ts[k] \in Int, NEW steps,
         Len(steps) \in Nat, NEW window \in Int, Course(P, n, name, ts, steps, window),
         NEW k \in 0..n
  PROVE  \E g \in [1..P[k].reached -> 1..k] :
           /\ \A j \in 1..P[k].reached : name[g[j]] = steps[j]
           /\ \A i, j \in 1..P[k].reached : i < j => g[i] < g[j]
           /\ P[k].reached > 0 => /\ P[k].first = ts[g[1]] /\ P[k].last = ts[g[P[k].reached]]
                                  /\ window >= 0 => P[k].last - P[k].first <= window
<1> DEFINE Taken(i, g) ==
             /\ g \in [1..P[i].reached -> 1..i]
             /\ \A j \in 1..P[i].reached : name[g[j]] = steps[j]
             /\ \A x, y \in 1..P[i].reached : x < y => g[x] < g[y]
             /\ P[i].reached > 0 => /\ P[i].first = ts[g[1]] /\ P[i].last = ts[g[P[i].reached]]
                                    /\ window >= 0 => P[i].last - P[i].first <= window
           N == {i \in Nat : i <= n => \E g : Taken(i, g)}
<1>1. \A i \in 0..n : P[i].reached \in 0..Len(steps) /\ P[i].first \in Int /\ P[i].last \in Int
  BY NeverBack
<1>2. 0 \in N
  <2>1. P[0].reached = 0 BY DEF Course, NoProgress
  <2> DEFINE none == [j \in {} |-> 0]
  <2>2. 1..0 = {} /\ none \in [{} -> {}] OBVIOUS
  <2> HIDE DEF none
  <2>3. none \in [1..P[0].reached -> 1..0] BY <2>1, <2>2
  <2>4. \A j : j \notin 1..P[0].reached BY <2>1, <2>2
  <2>5. Taken(0, none) BY <2>1, <2>3, <2>4
  <2> HIDE DEF Taken
  <2> QED BY <2>5
<1>3. ASSUME NEW i \in Nat, i \in N PROVE i + 1 \in N
  <2> SUFFICES ASSUME i + 1 <= n PROVE \E g : Taken(i + 1, g)
    OBVIOUS
  <2>1. i + 1 \in 1..n /\ (i + 1) - 1 = i /\ i \in 0..n /\ i + 1 \in 0..n OBVIOUS
  <2>2. PICK g : Taken(i, g) BY <1>3, <2>1
  <2>3. P[i + 1] = Advance(P[i], name[i + 1], ts[i + 1], steps, window) BY <2>1 DEF Course
  <2> DEFINE d == P[i].reached
  <2>4. d \in 0..Len(steps) BY <1>1, <2>1
  <2>5. CASE P[i + 1] = P[i]
    <3>1. Taken(i + 1, g) BY <2>2, <2>4, <2>5
    <3> HIDE DEF Taken
    <3> QED BY <3>1
  <2>6. CASE P[i + 1] # P[i]
    <3>1. /\ name[i + 1] = steps[d + 1]
          /\ ~(d > 0 /\ window >= 0 /\ ts[i + 1] - P[i].first > window)
          /\ P[i + 1] = [reached |-> d + 1, first |-> IF d = 0 THEN ts[i + 1] ELSE P[i].first,
                         last |-> ts[i + 1]]
      BY <2>3, <2>6 DEF Advance
    <3> DEFINE f == [j \in 1..(d + 1) |-> IF j <= d THEN g[j] ELSE i + 1]
    <3>2. /\ P[i + 1].reached = d + 1 /\ P[i + 1].last = ts[i + 1]
          /\ P[i + 1].first = IF d = 0 THEN ts[i + 1] ELSE P[i].first
      BY <3>1
    <3>3. \A j \in 1..(d + 1) : j <= d => j \in 1..d BY <2>4
    <3>4. \A j \in 1..d : g[j] \in 1..i BY <2>2
    <3>5. f \in [1..(d + 1) -> 1..(i + 1)]
      <4>1. \A j \in 1..(d + 1) : f[j] \in 1..(i + 1) BY <2>4, <3>3, <3>4
      <4> QED BY <4>1
    <3>6. \A j \in 1..(d + 1) : name[f[j]] = steps[j]
      <4> SUFFICES ASSUME NEW j \in 1..(d + 1) PROVE name[f[j]] = steps[j]
        OBVIOUS
      <4>1. CASE j <= d BY <2>2, <3>3, <4>1
      <4>2. CASE ~(j <= d)
        <5>1. j = d + 1 BY <2>4, <4>2
        <5> QED BY <2>4, <3>1, <5>1
      <4> QED BY <4>1, <4>2
    <3>7. \A x, y \in 1..(d + 1) : x < y => f[x] < f[y]
      <4> SUFFICES ASSUME NEW x \in 1..(d + 1), NEW y \in 1..(d + 1), x < y PROVE f[x] < f[y]
        OBVIOUS
      <4>1. x <= d /\ x \in 1..d BY <2>4
      <4>2. CASE y <= d
        <5>1. y \in 1..d BY <3>3, <4>2
        <5> QED BY <2>2, <4>1, <4>2, <5>1
      <4>3. CASE ~(y <= d) BY <3>4, <4>1, <4>3
      <4> QED BY <4>2, <4>3
    <3>8. ts[i + 1] \in Int /\ P[i].first \in Int /\ P[i].last \in Int BY <1>1, <2>1
    <3>9. P[i + 1].first = ts[f[1]] /\ P[i + 1].last = ts[f[d + 1]]
      <4>1. f[d + 1] = i + 1 BY <2>4
      <4>2. CASE d = 0 BY <3>2, <4>1, <4>2
      <4>3. CASE d # 0
        <5>1. f[1] = g[1] /\ P[i].first = ts[g[1]] BY <2>2, <2>4, <4>3
        <5> QED BY <3>2, <4>1, <4>3, <5>1
      <4> QED BY <4>2, <4>3
    <3>10. window >= 0 => P[i + 1].last - P[i + 1].first <= window BY <2>4, <3>1, <3>2, <3>8
    <3> HIDE DEF f
    <3>11. Taken(i + 1, f) BY <3>2, <3>5, <3>6, <3>7, <3>9, <3>10
    <3> HIDE DEF Taken
    <3> QED BY <3>11
  <2> QED BY <2>5, <2>6
<1> HIDE DEF N
<1>4. Nat \subseteq N BY <1>2, <1>3, AllNumbers
<1>5. k \in N /\ k <= n BY <1>4
<1>6. \E g : Taken(k, g)
  <2> HIDE DEF Taken
  <2> QED BY <1>5 DEF N
<1>7. PICK g : Taken(k, g) BY <1>6
<1> QED BY <1>7

\* Some of n rows, later ones for later steps.
Onward(q, m, n, name, steps) ==
  /\ n \in Nat /\ m \in 1..3 /\ q \in [1..m -> 1..n]
  /\ \A j \in 1..m : name[q[j]] = steps[j]
  /\ \A j \in 2..m : q[j - 1] < q[j]

\* Rows at rising times whose names are the first steps carry the progress that far.
LEMMA GoesAtLeast ==
  ASSUME NEW n, NEW P, NEW name, NEW ts, \A k \in 1..n : ts[k] \in Int, NEW steps,
         Len(steps) = 3, Course(P, n, name, ts, steps, NoWindow),
         NEW m, NEW q, Onward(q, m, n, name, steps)
  PROVE  P[n].reached >= m
<1> USE DEF Onward
<1>1. /\ \A k \in 0..n : P[k].reached \in 0..3
      /\ \A j, k \in 0..n : j <= k => P[j].reached <= P[k].reached
  <2>1. NoWindow \in Int /\ Len(steps) \in Nat BY DEF NoWindow
  <2>2. /\ \A k \in 0..n : P[k].reached \in 0..Len(steps)
        /\ \A j, k \in 0..n : j <= k => P[j].reached <= P[k].reached
    BY <2>1, NeverBack
  <2> QED BY <2>2
<1>2. ASSUME NEW j \in 1..m, P[q[j] - 1].reached >= j - 1 PROVE P[q[j]].reached >= j
  <2> DEFINE k == q[j]
             d == P[k - 1].reached
  <2>1. k \in 1..n /\ k - 1 \in 0..n /\ k \in 0..n OBVIOUS
  <2>2. P[k] = Advance(P[k - 1], name[k], ts[k], steps, NoWindow) BY <2>1 DEF Course
  <2>3. d \in 0..3 BY <1>1, <2>1
  <2>4. P[k].reached >= d BY <1>1, <2>1
  <2>5. CASE d = j - 1
    <3>1. d # Len(steps) /\ name[k] = steps[d + 1] BY <2>3, <2>5
    <3>2. P[k].reached = d + 1 BY <2>2, <3>1 DEF Advance, NoWindow
    <3> QED BY <2>3, <2>5, <3>2
  <2>6. CASE d # j - 1
    <3>1. P[k].reached \in 0..3 BY <1>1, <2>1
    <3> DEFINE e == P[k].reached
    <3>2. d >= j - 1 /\ e >= d /\ d \in 0..3 /\ e \in 0..3 /\ j \in Int BY <1>2, <2>3, <2>4, <3>1
    <3> HIDE DEF d, e
    <3>3. e >= j BY <2>6, <3>2
    <3> QED BY <3>3 DEF e
  <2> QED BY <2>5, <2>6
<1>3. \A j \in 1..m : q[j] \in 1..n /\ q[j] \in 0..n /\ q[j] - 1 \in 0..n OBVIOUS
<1>4. P[q[1]].reached >= 1
  <2>1. 1 \in 1..m OBVIOUS
  <2>2. q[1] - 1 \in 0..n BY <1>3, <2>1
  <2>3. P[q[1] - 1].reached \in 0..3 BY <1>1, <2>2
  <2>4. P[q[1] - 1].reached >= 1 - 1 BY <2>3
  <2> QED BY <1>2, <2>1, <2>4
<1>5. ASSUME NEW j \in 1..m, j + 1 <= m, P[q[j]].reached >= j PROVE P[q[j + 1]].reached >= j + 1
  <2>1. j + 1 \in 1..m /\ j + 1 \in 2..m /\ (j + 1) - 1 = j BY <1>5
  <2>2. q[j] < q[j + 1] BY <2>1
  <2>3. q[j] <= q[j + 1] - 1 BY <1>3, <2>1, <2>2
  <2>4. P[q[j]].reached <= P[q[j + 1] - 1].reached BY <1>1, <1>3, <2>1, <2>3
  <2>5. P[q[j]].reached \in 0..3 /\ P[q[j + 1] - 1].reached \in 0..3 BY <1>1, <1>3, <2>1
  <2> DEFINE d == P[q[j]].reached
             e == P[q[j + 1] - 1].reached
  <2>6. e >= (j + 1) - 1
    <3>1. d >= j /\ d <= e /\ d \in 0..3 /\ e \in 0..3 /\ j \in Int BY <1>5, <2>4, <2>5
    <3> HIDE DEF d, e
    <3> QED BY <3>1
  <2> QED BY <1>2, <2>1, <2>6
<1>6. P[q[m]].reached >= m
  <2>1. CASE m = 1 BY <1>4, <2>1
  <2>2. CASE m = 2 BY <1>4, <1>5, <2>2
  <2>3. CASE m = 3
    <3>1. P[q[2]].reached >= 2 BY <1>4, <1>5, <2>3
    <3> QED BY <1>5, <2>3, <3>1
  <2> QED BY <2>1, <2>2, <2>3
<1>7. m \in 1..m OBVIOUS
<1>8. q[m] \in 0..n /\ q[m] <= n BY <1>3, <1>7
<1>9. n \in 0..n OBVIOUS
<1>10. P[q[m]].reached <= P[n].reached BY <1>1, <1>8, <1>9
<1>11. P[n].reached \in 0..3 /\ P[q[m]].reached \in 0..3 BY <1>1, <1>8, <1>9
<1> QED BY <1>6, <1>10, <1>11

\* A window only ever holds back.
LEMMA WindowHoldsBack ==
  ASSUME NEW n \in Nat, NEW P, NEW Q, NEW name, NEW ts, \A k \in 1..n : ts[k] \in Int, NEW steps,
         Len(steps) \in Nat, NEW window \in Int,
         Course(P, n, name, ts, steps, NoWindow), Course(Q, n, name, ts, steps, window)
  PROVE  Q[n].reached <= P[n].reached
<1> DEFINE m == Len(steps)
           N == {k \in Nat : k <= n => Q[k].reached <= P[k].reached}
<1>1. \A k \in 0..n : P[k].reached \in 0..m /\ Q[k].reached \in 0..m
  <2>1. NoWindow \in Int BY DEF NoWindow
  <2>2. \A k \in 0..n : P[k].reached \in 0..m BY <2>1, NeverBack
  <2>3. \A k \in 0..n : Q[k].reached \in 0..m BY NeverBack
  <2> QED BY <2>2, <2>3
<1>2. 0 \in N BY DEF Course, NoProgress
<1>3. ASSUME NEW k \in Nat, k \in N PROVE k + 1 \in N
  <2> SUFFICES ASSUME k + 1 <= n PROVE Q[k + 1].reached <= P[k + 1].reached
    OBVIOUS
  <2>1. k + 1 \in 1..n /\ (k + 1) - 1 = k /\ k \in 0..n /\ k + 1 \in 0..n OBVIOUS
  <2> DEFINE p == P[k].reached
             q == Q[k].reached
             x == name[k + 1]
  <2>2. P[k + 1] = Advance(P[k], x, ts[k + 1], steps, NoWindow) BY <2>1 DEF Course
  <2>3. Q[k + 1] = Advance(Q[k], x, ts[k + 1], steps, window) BY <2>1 DEF Course
  <2>4. P[k + 1].reached = IF p = m \/ x # steps[p + 1] THEN p ELSE p + 1
    BY <2>2 DEF Advance, NoWindow
  <2>5. Q[k + 1].reached = q \/ (q # m /\ x = steps[q + 1] /\ Q[k + 1].reached = q + 1)
    BY <2>3 DEF Advance
  <2>6. p \in 0..m /\ q \in 0..m /\ q <= p BY <1>1, <1>3, <2>1
  <2> HIDE DEF p, q, x, m
  <2>7. p <= P[k + 1].reached BY <2>4, <2>6
  <2>8. P[k + 1].reached \in 0..m /\ Q[k + 1].reached \in 0..m BY <1>1, <2>1
  <2>9. CASE p = q
    <3>1. CASE Q[k + 1].reached = q BY <2>6, <2>7, <2>8, <2>9, <3>1
    <3>2. CASE q # m /\ x = steps[q + 1] /\ Q[k + 1].reached = q + 1
      BY <2>4, <2>6, <2>9, <3>2
    <3> QED BY <2>5, <3>1, <3>2
  <2>10. CASE p # q
    <3>1. Q[k + 1].reached = q \/ Q[k + 1].reached = q + 1 BY <2>5
    <3>2. q + 1 <= p BY <2>6, <2>8, <2>10
    <3> QED BY <2>6, <2>7, <2>8, <3>1, <3>2
  <2> QED BY <2>9, <2>10
<1> HIDE DEF N
<1>4. Nat \subseteq N BY <1>2, <1>3, AllNumbers
<1> QED BY <1>4 DEF N

\* Along the first two steps one gets as far as along all three, up to the second.
LEMMA FirstTwo ==
  ASSUME NEW n \in Nat, NEW P, NEW Q, NEW name, NEW ts, NEW steps, Len(steps) = 3,
         NEW two, Len(two) = 2, two[1] = steps[1], two[2] = steps[2],
         Course(P, n, name, ts, steps, NoWindow), Course(Q, n, name, ts, two, NoWindow)
  PROVE  \A k \in 1..2 : Q[n].reached >= k <=> P[n].reached >= k
<1> DEFINE N == {k \in Nat : k <= n =>
                   Q[k].reached = IF P[k].reached <= 2 THEN P[k].reached ELSE 2}
<1>1. \A k \in 0..n : P[k].reached \in 0..3 /\ Q[k].reached \in 0..2
  BY DEF Course, Marks
<1>2. 0 \in N BY DEF Course, NoProgress
<1>3. ASSUME NEW k \in Nat, k \in N PROVE k + 1 \in N
  <2> SUFFICES ASSUME k + 1 <= n
               PROVE  Q[k + 1].reached = IF P[k + 1].reached <= 2 THEN P[k + 1].reached ELSE 2
    OBVIOUS
  <2>1. k + 1 \in 1..n /\ (k + 1) - 1 = k /\ k \in 0..n /\ k + 1 \in 0..n OBVIOUS
  <2> DEFINE p == P[k].reached
             q == Q[k].reached
             x == name[k + 1]
  <2>2. P[k + 1] = Advance(P[k], x, ts[k + 1], steps, NoWindow) BY <2>1 DEF Course
  <2>3. Q[k + 1] = Advance(Q[k], x, ts[k + 1], two, NoWindow) BY <2>1 DEF Course
  <2>4. P[k + 1].reached = IF p = 3 \/ x # steps[p + 1] THEN p ELSE p + 1
    BY <2>2 DEF Advance, NoWindow
  <2>5. Q[k + 1].reached = IF q = 2 \/ x # two[q + 1] THEN q ELSE q + 1
    BY <2>3 DEF Advance, NoWindow
  <2>6. p \in 0..3 /\ q \in 0..2 /\ q = IF p <= 2 THEN p ELSE 2 BY <1>1, <1>3, <2>1
  <2> HIDE DEF p, q, x
  <2>7. CASE p = 0 BY <2>4, <2>5, <2>6, <2>7
  <2>8. CASE p = 1 BY <2>4, <2>5, <2>6, <2>8
  <2>9. CASE p = 2 BY <2>4, <2>5, <2>6, <2>9
  <2>10. CASE p = 3 BY <2>4, <2>5, <2>6, <2>10
  <2> QED BY <2>6, <2>7, <2>8, <2>9, <2>10
<1> HIDE DEF N
<1>4. Nat \subseteq N BY <1>2, <1>3, AllNumbers
<1>5. n \in 0..n /\ Q[n].reached = IF P[n].reached <= 2 THEN P[n].reached ELSE 2
  BY <1>4 DEF N
<1>6. P[n].reached \in 0..3 BY <1>1, <1>5
<1> QED BY <1>5, <1>6

-----------------------------------------------------------------------------
(* The ways of a user through some steps, and how far each funnel takes it. *)
Rising(user, steps, n) ==
  {f \in [1..n -> Of(user)] :
    /\ \A k \in 1..n : log[f[k]].name = steps[k]
    /\ \A k \in 2..n : f[k - 1] # f[k] /\ log[f[k - 1]].ts <= log[f[k]].ts
    /\ n = 3 => f[1] # f[3]}
StrictlyRising(user, steps, n) ==
  {f \in [1..n -> Of(user)] :
    /\ \A k \in 1..n : log[f[k]].name = steps[k]
    /\ \A k \in 2..n : f[k - 1] # f[k] /\ log[f[k - 1]].ts < log[f[k]].ts
    /\ n = 3 => f[1] # f[3]}

LEMMA WaysRise ==
  ASSUME NEW user, NEW steps, NEW n
  PROVE  /\ Way(user, steps, n, <=) = Rising(user, steps, n)
         /\ Way(user, steps, n, <) = StrictlyRising(user, steps, n)
BY Zenon DEF Way, Rising, StrictlyRising

\* A list of rows of the user, whose names of the steps are those of the events.
Reading(L, user, name, ts, steps) ==
  /\ InTime(L, Of(user))
  /\ \A k \in 1..Cardinality(Of(user)) :
       /\ ts[k] = log[L[k]].ts
       /\ \A j \in 1..3 : name[k] = steps[j] <=> log[L[k]].name = steps[j]

LEMMA WaysTaken ==
  ASSUME LogOK, NEW user, NEW L, NEW name, NEW ts, NEW steps, Len(steps) = 3,
         Reading(L, user, name, ts, steps), NEW window \in Int, NEW P,
         Course(P, Cardinality(Of(user)), name, ts, steps, window),
         NEW m \in 1..P[Cardinality(Of(user))].reached
  PROVE  \E f \in Rising(user, steps, m) :
           m = P[Cardinality(Of(user))].reached =>
             /\ P[Cardinality(Of(user))].first = log[f[1]].ts
             /\ P[Cardinality(Of(user))].last = log[f[m]].ts
             /\ window >= 0 => log[f[m]].ts - log[f[1]].ts <= window
<1> DEFINE n == Cardinality(Of(user))
           r == P[n].reached
<1>1. /\ n \in Nat /\ L \in [1..n -> Of(user)]
      /\ \A i, j \in 1..n : i < j => log[L[i]].ts <= log[L[j]].ts
      /\ \A i, j \in 1..n : i # j => L[i] # L[j]
  BY DEF Reading, InTime
<1>2. /\ \A k \in 1..n : ts[k] = log[L[k]].ts
      /\ \A k \in 1..n, j \in 1..3 : name[k] = steps[j] <=> log[L[k]].name = steps[j]
  BY DEF Reading
<1>3. \A k \in 1..n : ts[k] \in Int
  <2> SUFFICES ASSUME NEW k \in 1..n PROVE ts[k] \in Int
    OBVIOUS
  <2>1. L[k] \in 1..Len(log) BY <1>1, MineAreRows
  <2> QED BY <1>2, <2>1 DEF LogOK
<1>4. Course(P, n, name, ts, steps, window) OBVIOUS
<1> HIDE DEF n
<1>5. n \in 0..n BY <1>1
<1>6. r \in 0..3 BY <1>4, <1>5 DEF Course, Marks
<1>7. PICK g \in [1..r -> 1..n] :
         /\ \A j \in 1..r : name[g[j]] = steps[j]
         /\ \A i, j \in 1..r : i < j => g[i] < g[j]
         /\ r > 0 => /\ P[n].first = ts[g[1]] /\ P[n].last = ts[g[r]]
                     /\ window >= 0 => P[n].last - P[n].first <= window
  <2>1. Len(steps) \in Nat OBVIOUS
  <2> QED BY <1>1, <1>3, <1>4, <1>5, <2>1, StepsTaken
<1>8. m \in 1..r BY DEF n
<1> HIDE DEF r
<1> DEFINE f == [j \in 1..m |-> L[g[j]]]
<1>9. \A j \in 1..m : j \in 1..r /\ j \in 1..3 /\ g[j] \in 1..n BY <1>6, <1>7, <1>8
<1>10. f \in [1..m -> Of(user)] BY <1>1, <1>9
<1>11. \A j \in 1..m : log[f[j]].name = steps[j] BY <1>2, <1>7, <1>9
<1>12. ASSUME NEW i \in 1..m, NEW j \in 1..m, i < j
       PROVE  f[i] # f[j] /\ log[f[i]].ts <= log[f[j]].ts
  <2>1. g[i] < g[j] /\ g[i] \in 1..n /\ g[j] \in 1..n BY <1>7, <1>9, <1>12
  <2>2. g[i] # g[j] BY <2>1
  <2>3. f[i] = L[g[i]] /\ f[j] = L[g[j]] OBVIOUS
  <2> HIDE DEF f
  <2> QED BY <1>1, <2>1, <2>2, <2>3
<1>13. f \in Rising(user, steps, m)
  <2>1. \A k \in 2..m : k - 1 \in 1..m /\ k \in 1..m /\ k - 1 < k BY <1>6, <1>8
  <2>2. \A k \in 2..m : f[k - 1] # f[k] /\ log[f[k - 1]].ts <= log[f[k]].ts BY <1>12, <2>1
  <2>3. m = 3 => 1 \in 1..m /\ 3 \in 1..m OBVIOUS
  <2>4. m = 3 => f[1] # f[3] BY <1>12, <2>3
  <2> HIDE DEF f
  <2> QED BY <1>10, <1>11, <2>2, <2>4 DEF Rising
<1>14. ASSUME m = r
       PROVE  /\ P[n].first = log[f[1]].ts /\ P[n].last = log[f[m]].ts
              /\ window >= 0 => log[f[m]].ts - log[f[1]].ts <= window
  <2>1. 1 \in 1..m /\ m \in 1..m /\ r > 0 BY <1>6, <1>8
  <2>2. ts[g[1]] = log[f[1]].ts /\ ts[g[m]] = log[f[m]].ts BY <1>2, <1>9, <2>1
  <2> HIDE DEF f
  <2> QED BY <1>7, <1>14, <2>1, <2>2
<1> HIDE DEF f
<1> QED BY <1>13, <1>14 DEF n, r

LEMMA WaysCount ==
  ASSUME LogOK, NEW user, NEW L, NEW name, NEW ts, NEW steps, Len(steps) = 3,
         Reading(L, user, name, ts, steps), NEW P,
         Course(P, Cardinality(Of(user)), name, ts, steps, NoWindow),
         NEW m \in 1..3, StrictlyRising(user, steps, m) # {}
  PROVE  P[Cardinality(Of(user))].reached >= m
<1> DEFINE n == Cardinality(Of(user))
<1>1. /\ n \in Nat /\ L \in [1..n -> Of(user)]
      /\ \A i, j \in 1..n : i < j => log[L[i]].ts <= log[L[j]].ts
      /\ \A x \in Of(user) : \E k \in 1..n : L[k] = x
  BY DEF Reading, InTime
<1>2. /\ \A k \in 1..n : ts[k] = log[L[k]].ts
      /\ \A k \in 1..n, j \in 1..3 : name[k] = steps[j] <=> log[L[k]].name = steps[j]
  BY DEF Reading
<1>3. \A x \in Of(user) : log[x].ts \in Int BY MineAreRows DEF LogOK
<1>4. \A k \in 1..n : ts[k] \in Int BY <1>1, <1>2, <1>3
<1>5. Course(P, n, name, ts, steps, NoWindow) OBVIOUS
<1> HIDE DEF n
<1>6. PICK f \in [1..m -> Of(user)] :
         /\ \A k \in 1..m : log[f[k]].name = steps[k]
         /\ \A k \in 2..m : log[f[k - 1]].ts < log[f[k]].ts
  BY DEF StrictlyRising
<1> DEFINE q == [j \in 1..m |-> CHOOSE k \in 1..n : L[k] = f[j]]
<1>7. \A j \in 1..m : q[j] \in 1..n /\ L[q[j]] = f[j] BY <1>1, <1>6
<1>8. q \in [1..m -> 1..n] BY <1>7
<1> HIDE DEF q
<1>9. \A j \in 1..m : name[q[j]] = steps[j]
  <2> SUFFICES ASSUME NEW j \in 1..m PROVE name[q[j]] = steps[j]
    OBVIOUS
  <2>1. j \in 1..3 /\ q[j] \in 1..n /\ log[L[q[j]]].name = steps[j] BY <1>6, <1>7
  <2> QED BY <1>2, <2>1
<1>10. ASSUME NEW j \in 2..m PROVE q[j - 1] < q[j]
  <2> DEFINE a == q[j - 1]
             b == q[j]
  <2>1. j - 1 \in 1..m /\ j \in 1..m OBVIOUS
  <2>2. log[f[j - 1]].ts < log[f[j]].ts BY <1>6
  <2>3. a \in 1..n /\ L[a] = f[j - 1] BY <1>7, <2>1
  <2>4. b \in 1..n /\ L[b] = f[j] BY <1>7, <2>1
  <2> HIDE DEF a, b
  <2>5. log[L[a]].ts < log[L[b]].ts BY <2>2, <2>3, <2>4
  <2>6. L[a] \in Of(user) /\ L[b] \in Of(user) BY <1>1, <2>3, <2>4
  <2>7. log[L[a]].ts \in Int /\ log[L[b]].ts \in Int BY <1>3, <2>6
  <2>8. a # b BY <2>5, <2>7
  <2>9. ~(log[L[b]].ts <= log[L[a]].ts) BY <2>5, <2>7
  <2>10. ~(b < a) BY <1>1, <2>3, <2>4, <2>9
  <2>11. a \in Int /\ b \in Int
    <3>1. n \in Nat BY <1>1
    <3> QED BY <2>3, <2>4, <3>1
  <2>12. a < b BY <2>8, <2>10, <2>11
  <2> QED BY <2>12 DEF a, b
<1>11. n \in Nat BY <1>1
<1>12. Onward(q, m, n, name, steps) BY <1>8, <1>9, <1>10, <1>11 DEF Onward
<1>13. P[n].reached >= m BY <1>4, <1>5, <1>12, GoesAtLeast
<1> QED BY <1>13 DEF n

\* Each funnel reads a user's rows as such a course.
LEMMA AnyPath ==
  ASSUME NEW steps \in Paths
  PROVE  /\ Len(steps) = 3 /\ DOMAIN steps = 1..3
         /\ \A j \in 1..3 : steps[j] \in Names \ {"identify"}
<1>1. steps \in [1..3 -> Names \ {"identify"}] BY DEF Paths
<1>2. 3 \in Nat OBVIOUS
<1>3. Len(steps) = 3 BY <1>1, <1>2, LengthOf
<1> QED BY <1>1, <1>3

LEMMA RanksAreNumbers == Ranks \in [Names \cup {"identify"} -> Int]
<1> DEFINE S == Names \cup {"identify"}
           order == SetToSeq(S)
<1>1. IsFiniteSet(S) BY QueriesAssumption, FS_AddElement
<1>2. order \in [1..Cardinality(S) -> S] /\ \A x \in S : \E k \in 1..Cardinality(S) : order[k] = x
  <2>1. PICK n \in Nat : ExistsBijection(1..n, S) BY <1>1, FS_NatBijection
  <2>2. n = Cardinality(S) BY <1>1, <2>1, FS_CountingElements
  <2>3. PICK f \in Bijection(1..n, S) : TRUE BY <2>1 DEF ExistsBijection
  <2>4. f \in [1..Cardinality(S) -> S] /\ IsInjective(f)
    BY <2>2, <2>3 DEF Bijection, Injection, IsInjective
  <2>5. order \in [1..Cardinality(S) -> S] /\ IsInjective(order)
    <3> HIDE DEF S
    <3>1. order = CHOOSE g \in [1..Cardinality(S) -> S] : IsInjective(g) BY Zenon DEF SetToSeq
    <3> HIDE DEF order
    <3> QED BY <2>4, <3>1
  <2>6. IsFiniteSet(1..n) /\ Cardinality(1..n) = n
    <3>1. IsFiniteSet(1..n) /\ Cardinality(1..n) = IF 1 > n THEN 0 ELSE n - 1 + 1 BY FS_Interval
    <3> QED BY <3>1
  <2> HIDE DEF order, S
  <2>7. order \in Injection(1..n, S) BY <2>2, <2>5 DEF Injection, IsInjective
  <2>8. order \in Surjection(1..n, S) BY <1>1, <2>2, <2>6, <2>7, FS_Injection
  <2> QED BY <2>2, <2>5, <2>8 DEF Surjection
<1> HIDE DEF S, order
<1>3. DOMAIN order = 1..Cardinality(S) /\ Cardinality(S) \in Nat BY <1>1, <1>2, FS_CardinalityType
<1>4. ToSet(order) = S BY <1>2, <1>3 DEF ToSet
<1>5. Ranks = [x \in ToSet(order) |-> CHOOSE k \in DOMAIN order : order[k] = x]
  BY Zenon DEF Ranks, order, S
<1>6. \A x \in S : (CHOOSE k \in DOMAIN order : order[k] = x) \in Int
  <2> SUFFICES ASSUME NEW x \in S PROVE (CHOOSE k \in DOMAIN order : order[k] = x) \in Int
    OBVIOUS
  <2>1. \E k \in DOMAIN order : order[k] = x BY <1>2, <1>3
  <2>2. (CHOOSE k \in DOMAIN order : order[k] = x) \in DOMAIN order BY <2>1
  <2> QED BY <1>3, <2>2
<1> DEFINE e(x) == CHOOSE k \in DOMAIN order : order[k] = x
<1>7. Ranks = [x \in S |-> e(x)] BY <1>4, <1>5
<1>8. \A x \in S : e(x) \in Int BY <1>6
<1> HIDE DEF e
<1>9. Ranks \in [S -> Int] BY <1>7, <1>8
<1> QED BY <1>9 DEF S

\* The rows of a user as either funnel lists them.
Listed(rows, L, user) ==
  InTime(L, Of(user)) /\ rows = [k \in 1..Cardinality(Of(user)) |-> log[L[k]]]

LEMMA Readings ==
  ASSUME LogOK, NEW user, NEW L, NEW rows, Listed(rows, L, user), NEW steps \in Paths
  PROVE  LET n == Cardinality(Of(user)) IN
         /\ Reading(L, user, NamesOf(rows, n), TimesOf(rows, n), steps)
         /\ Reading(L, user, RowNamesOf(rows, n), TimesOf(rows, n), steps)
<1> DEFINE n == Cardinality(Of(user))
<1>1. n \in Nat /\ L \in [1..n -> Of(user)] /\ InTime(L, Of(user)) BY DEF Listed, InTime
<1>2. \A k \in 1..n : L[k] \in 1..Len(log) BY <1>1, MineAreRows
<1>3. \A k \in 1..n : rows[k] = log[L[k]] BY DEF Listed
<1> DEFINE a == NamesOf(rows, n)
           b == RowNamesOf(rows, n)
           c == TimesOf(rows, n)
<1>4. ASSUME NEW k \in 1..n
      PROVE  c[k] = log[L[k]].ts /\ a[k] = log[L[k]].name /\ b[k] = RowName(log[L[k]])
  BY <1>3 DEF TimesOf, NamesOf, RowNamesOf
<1> HIDE DEF n, a, b, c
<1>5. ASSUME NEW k \in 1..n, NEW j \in 1..3
      PROVE  /\ a[k] = steps[j] <=> log[L[k]].name = steps[j]
             /\ b[k] = steps[j] <=> log[L[k]].name = steps[j]
  <2>1. steps[j] \in Names \ {"identify"} BY AnyPath
  <2>2. RowName(log[L[k]]) = steps[j] <=> log[L[k]].name = steps[j] BY <1>2, <2>1, RowNames
  <2> QED BY <1>4, <2>2
<1>6. Reading(L, user, a, c, steps) /\ Reading(L, user, b, c, steps)
  BY <1>1, <1>4, <1>5 DEF Reading, n
<1> QED BY <1>6 DEF a, b, c, n

LEMMA BothListed ==
  ASSUME LogOK, NEW user
  PROVE  /\ Listed(groupByUser(user), TimeLine(user), user)
         /\ Listed(groupRows(user, Ranks), RankLine(user, Ranks), user)
BY GroupedByUser, GroupedByRank, RanksAreNumbers DEF Listed

LEMMA ListedStamped ==
  ASSUME LogOK, NEW user, NEW L, NEW rows, Listed(rows, L, user)
  PROVE  Stamped(rows, Cardinality(Of(user)))
<1> DEFINE n == Cardinality(Of(user))
<1>1. n \in Nat /\ L \in [1..n -> Of(user)] BY DEF Listed, InTime
<1>2. \A k \in 1..n : L[k] \in 1..Len(log) BY <1>1, MineAreRows
<1>3. DOMAIN rows = 1..n /\ \A k \in 1..n : rows[k] = log[L[k]] BY DEF Listed
<1>4. \A k \in 1..n : rows[k].ts \in Int BY <1>2, <1>3 DEF LogOK
<1> QED BY <1>1, <1>3, <1>4 DEF Stamped

LEMMA DepthOf ==
  ASSUME LogOK, NEW user, NEW steps, Len(steps) \in Nat
  PROVE  \E P : LET n == Cardinality(Of(user))
                    rows == groupByUser(user)
                IN /\ Course(P, n, NamesOf(rows, n), TimesOf(rows, n), steps, NoWindow)
                   /\ completedDepth(user, steps) = P[n].reached
<1>1. Stamped(groupByUser(user), Cardinality(Of(user))) BY BothListed, ListedStamped
<1>2. completedDepth(user, steps) = Depth(groupByUser(user), steps)
  BY Zenon DEF completedDepth, Depth
<1> QED BY <1>1, <1>2, DepthCourse

LEMMA ProgressOf ==
  ASSUME LogOK, NEW user, NEW steps, Len(steps) \in Nat, NEW window \in Int
  PROVE  \E P : LET n == Cardinality(Of(user))
                    rows == groupRows(user, Ranks)
                IN /\ Course(P, n, RowNamesOf(rows, n), TimesOf(rows, n), steps, window)
                   /\ subjectProgress(user, steps, window, Ranks) = P[n]
<1>1. Stamped(groupRows(user, Ranks), Cardinality(Of(user))) BY BothListed, ListedStamped
<1>2. subjectProgress(user, steps, window, Ranks) = Progress(groupRows(user, Ranks), steps, window)
  BY Zenon DEF subjectProgress, Progress
<1> QED BY <1>1, <1>2, ProgressCourse

LEMMA DepthWays ==
  ASSUME LogOK, NEW user, NEW steps \in Paths, NEW m \in 1..3
  PROVE  /\ completedDepth(user, steps) \in 0..3
         /\ completedDepth(user, steps) >= m => Rising(user, steps, m) # {}
         /\ StrictlyRising(user, steps, m) # {} => completedDepth(user, steps) >= m
<1> DEFINE n == Cardinality(Of(user))
           rows == groupByUser(user)
           name == NamesOf(rows, n)
           ts == TimesOf(rows, n)
<1>1. Len(steps) = 3 /\ Len(steps) \in Nat /\ NoWindow \in Int BY AnyPath DEF NoWindow
<1>2. PICK P : Course(P, n, name, ts, steps, NoWindow) /\ completedDepth(user, steps) = P[n].reached
  BY <1>1, DepthOf
<1>3. Reading(TimeLine(user), user, name, ts, steps) BY BothListed, Readings
<1> HIDE DEF rows, name, ts
<1>4. P[n].reached \in 0..3
  <2>1. n \in Nat BY <1>3 DEF Reading, InTime
  <2> HIDE DEF n
  <2>2. n \in 0..n BY <2>1
  <2> QED BY <1>1, <1>2, <2>2 DEF Course, Marks
<1>5. ASSUME P[n].reached >= m PROVE Rising(user, steps, m) # {}
  <2>1. m \in 1..P[n].reached BY <1>4, <1>5
  <2> QED BY <1>1, <1>2, <1>3, <2>1, WaysTaken
<1>6. StrictlyRising(user, steps, m) # {} => P[n].reached >= m BY <1>1, <1>2, <1>3, WaysCount
<1> QED BY <1>2, <1>4, <1>5, <1>6

LEMMA ProgressWays ==
  ASSUME LogOK, NEW user, NEW steps \in Paths, NEW window \in Int, NEW m \in 1..3
  PROVE  LET p == subjectProgress(user, steps, window, Ranks) IN
         /\ p.reached \in 0..3 /\ p.first \in Int /\ p.last \in Int
         /\ p.reached >= m => Rising(user, steps, m) # {}
         /\ p.reached > 0 => \E f \in Rising(user, steps, p.reached) :
              /\ p.first = log[f[1]].ts /\ p.last = log[f[p.reached]].ts
              /\ window >= 0 => log[f[p.reached]].ts - log[f[1]].ts <= window
         /\ window = NoWindow /\ StrictlyRising(user, steps, m) # {} => p.reached >= m
<1> DEFINE n == Cardinality(Of(user))
           rows == groupRows(user, Ranks)
           name == RowNamesOf(rows, n)
           ts == TimesOf(rows, n)
           p == subjectProgress(user, steps, window, Ranks)
<1>1. Len(steps) = 3 /\ Len(steps) \in Nat BY AnyPath
<1>2. PICK P : Course(P, n, name, ts, steps, window) /\ p = P[n]
  BY <1>1, ProgressOf
<1>3. Reading(RankLine(user, Ranks), user, name, ts, steps) BY BothListed, Readings
<1> HIDE DEF rows, name, ts, p
<1>4. p.reached \in 0..3 /\ p.first \in Int /\ p.last \in Int
  <2>1. n \in Nat BY <1>3 DEF Reading, InTime
  <2> HIDE DEF n
  <2>2. n \in 0..n BY <2>1
  <2> QED BY <1>1, <1>2, <2>2 DEF Course, Marks
<1>5. ASSUME NEW k \in 1..p.reached
      PROVE  \E f \in Rising(user, steps, k) :
                k = p.reached => /\ p.first = log[f[1]].ts /\ p.last = log[f[k]].ts
                                 /\ window >= 0 => log[f[k]].ts - log[f[1]].ts <= window
  BY <1>1, <1>2, <1>3, WaysTaken
<1>6. ASSUME p.reached >= m PROVE Rising(user, steps, m) # {}
  <2>1. m \in 1..p.reached BY <1>4, <1>6
  <2> QED BY <1>5, <2>1
<1>7. ASSUME p.reached > 0
      PROVE  \E f \in Rising(user, steps, p.reached) :
                /\ p.first = log[f[1]].ts /\ p.last = log[f[p.reached]].ts
                /\ window >= 0 => log[f[p.reached]].ts - log[f[1]].ts <= window
  <2>1. p.reached \in 1..p.reached BY <1>4, <1>7
  <2> QED BY <1>5, <2>1
<1>8. window = NoWindow /\ StrictlyRising(user, steps, m) # {} => p.reached >= m
  BY <1>1, <1>2, <1>3, WaysCount
<1>9. /\ p.reached \in 0..3 /\ p.first \in Int /\ p.last \in Int
      /\ p.reached >= m => Rising(user, steps, m) # {}
      /\ p.reached > 0 => \E f \in Rising(user, steps, p.reached) :
           /\ p.first = log[f[1]].ts /\ p.last = log[f[p.reached]].ts
           /\ window >= 0 => log[f[p.reached]].ts - log[f[1]].ts <= window
      /\ window = NoWindow /\ StrictlyRising(user, steps, m) # {} => p.reached >= m
  BY <1>4, <1>6, <1>7, <1>8
<1> QED BY <1>9 DEF p

LEMMA WindowLimits ==
  ASSUME LogOK, NEW user, NEW steps \in Paths, NEW window \in Int
  PROVE  subjectProgress(user, steps, window, Ranks).reached
           <= subjectProgress(user, steps, NoWindow, Ranks).reached
<1> DEFINE n == Cardinality(Of(user))
           rows == groupRows(user, Ranks)
           name == RowNamesOf(rows, n)
           ts == TimesOf(rows, n)
<1>1. Len(steps) \in Nat /\ NoWindow \in Int BY AnyPath DEF NoWindow
<1>2. PICK Q : Course(Q, n, name, ts, steps, window) /\ subjectProgress(user, steps, window, Ranks) = Q[n]
  BY <1>1, ProgressOf
<1>3. PICK P : Course(P, n, name, ts, steps, NoWindow)
               /\ subjectProgress(user, steps, NoWindow, Ranks) = P[n]
  BY <1>1, ProgressOf
<1>4. Stamped(rows, n) BY BothListed, ListedStamped
<1>5. n \in Nat /\ \A k \in 1..n : ts[k] \in Int BY <1>4 DEF Stamped, TimesOf
<1> HIDE DEF n, rows, name, ts
<1> QED BY <1>1, <1>2, <1>3, <1>5, WindowHoldsBack

LEMMA WaysAgree ==
  ASSUME LogOK, NEW steps \in Paths, NEW user \in Seen
  PROVE  LET depth == completedDepth(user, steps)
             progress(window) == subjectProgress(user, steps, window, Ranks)
         IN
         /\ \A n \in DOMAIN steps :
              /\ depth >= n \/ progress(NoWindow).reached >= n => Way(user, steps, n, <=) # {}
              /\ Way(user, steps, n, <) # {} => depth >= n /\ progress(NoWindow).reached >= n
         /\ \A window \in Windows :
              LET p == progress(window) IN
              /\ p.reached <= progress(NoWindow).reached
              /\ p.reached > 0 => \E f \in Way(user, steps, p.reached, <=) :
                   log[f[p.reached]].ts - log[f[1]].ts <= window
<1> DEFINE depth == completedDepth(user, steps)
           p(w) == subjectProgress(user, steps, w, Ranks)
<1>1. DOMAIN steps = 1..3 /\ NoWindow \in Int BY AnyPath DEF NoWindow
<1>2. ASSUME NEW n \in DOMAIN steps
      PROVE  /\ depth >= n \/ p(NoWindow).reached >= n => Way(user, steps, n, <=) # {}
             /\ Way(user, steps, n, <) # {} => depth >= n /\ p(NoWindow).reached >= n
  <2>1. n \in 1..3 BY <1>1
  <2> DEFINE up == Way(user, steps, n, <=)
             strict == Way(user, steps, n, <)
             q == p(NoWindow).reached
  <2>2. up = Rising(user, steps, n) /\ strict = StrictlyRising(user, steps, n) BY Zenon, WaysRise
  <2> HIDE DEF up, strict
  <2>3. /\ depth >= n => up # {}
        /\ strict # {} => depth >= n
    BY <2>1, <2>2, DepthWays
  <2>4. /\ q >= n => up # {}
        /\ strict # {} => q >= n
    BY <1>1, <2>1, <2>2, ProgressWays
  <2> HIDE DEF depth, q
  <2>5. /\ depth >= n \/ q >= n => up # {}
        /\ strict # {} => depth >= n /\ q >= n
    BY <2>3, <2>4
  <2> QED BY Zenon, <2>5 DEF up, strict, q
<1>3. ASSUME NEW window \in Windows
      PROVE  /\ p(window).reached <= p(NoWindow).reached
             /\ p(window).reached > 0 => \E f \in Way(user, steps, p(window).reached, <=) :
                  log[f[p(window).reached]].ts - log[f[1]].ts <= window
  <2>1. window \in Nat /\ window \in Int /\ window >= 0 BY QueriesAssumption
  <2>2. p(window).reached <= p(NoWindow).reached BY <2>1, WindowLimits
  <2> DEFINE q == p(window).reached
             up == Way(user, steps, q, <=)
  <2>3. up = Rising(user, steps, q) BY Zenon, WaysRise
  <2> HIDE DEF up
  <2>4. q > 0 => \E f \in up : log[f[q]].ts - log[f[1]].ts <= window
    <3>1. 1 \in 1..3 OBVIOUS
    <3>2. q > 0 => \E f \in Rising(user, steps, q) : log[f[q]].ts - log[f[1]].ts <= window
      BY <2>1, <3>1, ProgressWays
    <3> QED BY <2>3, <3>2
  <2> HIDE DEF p
  <2>5. q = p(window).reached OBVIOUS
  <2> HIDE DEF q
  <2> QED BY Zenon, <2>2, <2>4, <2>5 DEF up
<1> HIDE DEF p
<1>4. /\ \A n \in DOMAIN steps :
           /\ depth >= n \/ p(NoWindow).reached >= n => Way(user, steps, n, <=) # {}
           /\ Way(user, steps, n, <) # {} => depth >= n /\ p(NoWindow).reached >= n
      /\ \A window \in Windows :
           /\ p(window).reached <= p(NoWindow).reached
           /\ p(window).reached > 0 => \E f \in Way(user, steps, p(window).reached, <=) :
                log[f[p(window).reached]].ts - log[f[1]].ts <= window
  BY Zenon, <1>2, <1>3
<1> QED BY Zenon, <1>4 DEF p

-----------------------------------------------------------------------------
(* The figures of the two funnels.                                          *)
LEMMA SeenFacts ==
  ASSUME LogOK
  PROVE  /\ IsFiniteSet(Seen) /\ Cardinality(Seen) \in Nat
         /\ \A u \in Seen : Of(u) # {}
<1>1. IsFiniteSet(DOMAIN log)
  <2>1. Len(log) \in Int /\ DOMAIN log = 1..Len(log) BY DEF LogOK
  <2> DEFINE n == Len(log)
  <2>2. n \in Int BY <2>1
  <2> HIDE DEF n
  <2>3. IsFiniteSet(1..n) BY <2>2, FS_Interval
  <2> QED BY Zenon, <2>1, <2>3 DEF n
<1>2. IsFiniteSet({log[i].user : i \in DOMAIN log})
  <2> DEFINE f == [i \in DOMAIN log |-> log[i].user]
             T == {log[i].user : i \in DOMAIN log}
  <2>1. f \in Surjection(DOMAIN log, T) BY DEF Surjection
  <2> HIDE DEF f, T
  <2>2. IsFiniteSet(T) BY <1>1, <2>1, FS_Surjection
  <2> QED BY <2>2 DEF T
<1>3. IsFiniteSet(Seen) BY <1>2 DEF Seen
<1> QED BY <1>3, FS_CardinalityType, MineAreRows

\* The median time of those who took every step is within the window.
LEMMA MedianWithin ==
  ASSUME LogOK, NEW steps \in Paths, NEW window \in Windows
  PROVE  LET median == analyzeFunnel(steps, window, Ranks).median IN
         median # <<>> => 0 <= median[1] /\ median[1] <= window * median[2]
<1> DEFINE progress == [u \in Seen |-> subjectProgress(u, steps, window, Ranks)]
           median == medianTimeToConvert(progress, steps)
           done == {u \in Seen : progress[u].reached = Len(steps)}
           spent(u) == progress[u].last - progress[u].first
           sorted == Sorted(done, LAMBDA u, v :
                       \/ spent(u) < spent(v)
                       \/ spent(u) = spent(v) /\ Min(Of(u)) < Min(Of(v)))
           mid == Len(sorted) \div 2
<1>1. analyzeFunnel(steps, window, Ranks).median = median
  <2> DEFINE funnelOf == analyzeFunnel(steps, window, Ranks)
  <2>1. \E s, r, l : funnelOf = [subjects |-> s, reached |-> r, lost |-> l, median |-> median]
    BY Zenon DEF analyzeFunnel
  <2> HIDE DEF funnelOf, median
  <2> QED BY <2>1 DEF funnelOf
<1>2. window \in Nat /\ window \in Int BY QueriesAssumption
<1>3. Len(steps) = 3 BY AnyPath
<1>4. ASSUME NEW u \in done PROVE spent(u) \in 0..window
  <2> DEFINE p == subjectProgress(u, steps, window, Ranks)
  <2>1. progress[u] = p /\ p.reached = 3 BY <1>3
  <2>2. 1 \in 1..3 /\ p.first \in Int /\ p.last \in Int
    <3>1. 1 \in 1..3 OBVIOUS
    <3> QED BY <1>2, <3>1, ProgressWays
  <2>3. PICK f \in Rising(u, steps, 3) : /\ p.first = log[f[1]].ts /\ p.last = log[f[3]].ts
                                         /\ log[f[3]].ts - log[f[1]].ts <= window
    <3>1. p.reached > 0 BY <2>1
    <3>2. \E f \in Rising(u, steps, p.reached) :
             /\ p.first = log[f[1]].ts /\ p.last = log[f[p.reached]].ts
             /\ window >= 0 => log[f[p.reached]].ts - log[f[1]].ts <= window
      <4> HIDE DEF done
      <4> QED BY <1>2, <2>2, <3>1, ProgressWays
    <3> HIDE DEF p
    <3> QED BY <1>2, <2>1, <3>2
  <2>4. log[f[1]].ts <= log[f[2]].ts /\ log[f[2]].ts <= log[f[3]].ts
    <3>1. 2 \in 2..3 /\ 3 \in 2..3 /\ 2 - 1 = 1 /\ 3 - 1 = 2 OBVIOUS
    <3> QED BY <3>1 DEF Rising
  <2>5. \A k \in 1..3 : f[k] \in 1..Len(log) BY MineAreRows DEF Rising
  <2>6. /\ log[f[1]].ts \in Int /\ log[f[2]].ts \in Int /\ log[f[3]].ts \in Int
    BY <2>5 DEF LogOK
  <2> HIDE DEF p, progress
  <2>7. spent(u) = log[f[3]].ts - log[f[1]].ts BY <2>1, <2>3
  <2>8. log[f[3]].ts - log[f[1]].ts \in 0..window BY <1>2, <2>3, <2>4, <2>6
  <2> QED BY <2>7, <2>8
<1>5. IsFiniteSet(done) /\ \A u \in done : Min(Of(u)) \in Of(u) /\ Min(Of(u)) \in Int
  <2>1. IsFiniteSet(done) BY SeenFacts, FS_Subset
  <2>2. ASSUME NEW u \in done PROVE Min(Of(u)) \in Of(u) /\ Min(Of(u)) \in Int
    <3> DEFINE S == Of(u)
    <3>1. S \in SUBSET (1..Len(log)) /\ S # {} BY MineAreRows
    <3>2. S \in SUBSET Nat
      <4>1. Len(log) \in Nat BY DEF LogOK
      <4> QED BY <3>1, <4>1
    <3> HIDE DEF S
    <3>3. PICK x \in S : \A y \in S : x <= y BY <3>1, <3>2, Least
    <3>4. Min(S) \in S BY <3>3 DEF Min
    <3> QED BY <3>2, <3>4 DEF S
  <2> QED BY <2>1, <2>2
<1>6. sorted \in [1..Cardinality(done) -> done] /\ Cardinality(done) \in Nat
  <2> DEFINE a == [u \in done |-> spent(u)]
             b == [u \in done |-> 0]
             c == [u \in done |-> Min(Of(u))]
             R == LexOrder(done, a, b, c)
             before(u, v) == \/ spent(u) < spent(v)
                             \/ spent(u) = spent(v) /\ Min(Of(u)) < Min(Of(v))
             e(k) == CHOOSE x \in done : Cardinality({y \in done : before(y, x)}) = k - 1
             g(k) == CHOOSE x \in done : Cardinality({y \in done : <<y, x>> \in R}) = k - 1
  <2>1. sorted = [k \in 1..Cardinality(done) |-> e(k)] BY Zenon DEF Sorted
  <2> HIDE DEF done, spent, sorted
  <2>2. a \in [done -> Int] /\ b \in [done -> Int]
    <3>1. \A u \in done : spent(u) \in Int BY <1>2, <1>4
    <3> QED BY <3>1
  <2>3. c \in [done -> Int] BY <1>5
  <2>4. \A u, v \in done : c[u] = c[v] => u = v
    <3> SUFFICES ASSUME NEW u \in done, NEW v \in done, c[u] = c[v] PROVE u = v
      OBVIOUS
    <3>1. Min(Of(u)) \in Of(u) /\ Min(Of(u)) \in Of(v) BY <1>5
    <3> QED BY <3>1, MineAreRows
  <2>5. \A u, v \in done : before(u, v) <=> <<u, v>> \in R BY DEF LexOrder
  <2> HIDE DEF a, b, c
  <2>6. StrictOrder(R, done) BY <2>2, <2>3, <2>4, Lexicographic
  <2> HIDE DEF R, before
  <2>7. \A x \in done : {y \in done : before(y, x)} = {y \in done : <<y, x>> \in R} BY <2>5
  <2>8. \A k \in 1..Cardinality(done) : e(k) = g(k) BY <2>7
  <2>9. SortedBy(sorted, done, R) <=> sorted = [k \in 1..Cardinality(done) |-> g(k)]
    BY Zenon DEF SortedBy
  <2> HIDE DEF e, g
  <2>10. SortedBy(sorted, done, R) BY <2>1, <2>8, <2>9
  <2> QED BY <1>5, <2>6, <2>10, SortedList
<1>7. median = IF done = {} THEN <<>>
               ELSE IF Len(sorted) % 2 = 1 THEN <<spent(sorted[mid + 1]), 1>>
               ELSE <<spent(sorted[mid]) + spent(sorted[mid + 1]), 2>>
  BY DEF medianTimeToConvert
<1> HIDE DEF median, done, spent, sorted, progress
<1> DEFINE n == Cardinality(done)
<1>8. done # {} => n \in Nat \ {0} BY <1>5, <1>6, FS_EmptySet
<1> HIDE DEF n
<1>9. Len(sorted) = n
  <2>1. n \in Nat /\ sorted \in [1..n -> done] BY <1>6 DEF n
  <2> QED BY <2>1, LengthOf
<1>10. \A k \in 1..n : spent(sorted[k]) \in 0..window
  <2>1. \A k \in 1..n : sorted[k] \in done BY <1>6 DEF n
  <2> QED BY <1>4, <2>1
<1>11. ASSUME median # <<>> PROVE 0 <= median[1] /\ median[1] <= window * median[2]
  <2>1. done # {} /\ n \in Nat \ {0} BY <1>7, <1>8, <1>11
  <2>2. mid \in Nat /\ (n % 2 = 1 => mid + 1 \in 1..n) /\ (n % 2 # 1 => mid \in 1..n /\ mid + 1 \in 1..n)
    BY <1>9, <2>1
  <2> HIDE DEF mid
  <2>3. CASE n % 2 = 1
    <3>1. spent(sorted[mid + 1]) \in 0..window BY <1>10, <2>2, <2>3
    <3>2. median = <<spent(sorted[mid + 1]), 1>> BY <1>7, <1>9, <2>1, <2>3
    <3>3. median[1] = spent(sorted[mid + 1]) /\ median[2] = 1 BY <3>2
    <3>4. window * 1 = window BY <1>2
    <3> QED BY <1>2, <3>1, <3>3, <3>4
  <2>4. CASE n % 2 # 1
    <3> DEFINE x == spent(sorted[mid])
               y == spent(sorted[mid + 1])
    <3>1. x \in 0..window /\ y \in 0..window BY <1>10, <2>2, <2>4
    <3>2. median = <<x + y, 2>> BY <1>7, <1>9, <2>1, <2>4
    <3> HIDE DEF x, y
    <3>3. median[1] = x + y /\ median[2] = 2 BY <3>2
    <3>4. 0 <= x + y /\ x + y <= window * 2 BY <1>2, <3>1
    <3> QED BY <3>3, <3>4
  <2> QED BY <2>3, <2>4
<1> QED BY <1>1, <1>11 DEF median

\* At times of their own the two funnels count the same users.
LEMMA CountsAgree ==
  ASSUME LogOK, \A i, j \in DOMAIN log : i # j => log[i].ts # log[j].ts, NEW steps \in Paths
  PROVE  SameCounts(steps)
<1> DEFINE depth(u) == completedDepth(u, steps)
           two == <<steps[1], steps[2]>>
           reached(u) == subjectProgress(u, steps, NoWindow, Ranks).reached
           count(k) == Cardinality({u \in Seen : depth(u) >= k})
<1>1. Len(steps) = 3 /\ DOMAIN steps = 1..3 BY AnyPath
<1>2. Len(two) = 2 /\ DOMAIN two = 1..2 /\ two[1] = steps[1] /\ two[2] = steps[2] OBVIOUS
<1>3. ASSUME NEW u \in Seen
      PROVE  /\ depth(u) \in 0..3 /\ reached(u) = depth(u)
             /\ \A k \in 1..2 : completedDepth(u, two) >= k <=> depth(u) >= k
  <2> DEFINE n == Cardinality(Of(u))
             rows == groupByUser(u)
             name == NamesOf(rows, n)
             ts == TimesOf(rows, n)
  <2>1. depth(u) \in 0..3
    <3>1. 1 \in 1..3 OBVIOUS
    <3> QED BY <3>1, DepthWays
  <2>2. PICK P : Course(P, n, name, ts, steps, NoWindow) /\ depth(u) = P[n].reached
    BY <1>1, DepthOf
  <2>3. PICK Q : Course(Q, n, name, ts, two, NoWindow) /\ completedDepth(u, two) = Q[n].reached
    <3>1. Len(two) \in Nat BY <1>2
    <3> HIDE DEF two
    <3> QED BY <3>1, DepthOf
  <2>4. n \in Nat BY MineAreRows, FS_CardinalityType
  <2>5. \A k \in 1..2 : Q[n].reached >= k <=> P[n].reached >= k
    <3> HIDE DEF two, name, ts, n
    <3> QED BY <1>1, <1>2, <2>2, <2>3, <2>4, FirstTwo
  <2>6. reached(u) = depth(u)
    <3> DEFINE name2 == RowNamesOf(rows, n)
    <3>1. groupRows(u, Ranks) = rows BY RanksAreNumbers, NoTies
    <3>2. PICK R : Course(R, n, name2, ts, steps, NoWindow)
                   /\ subjectProgress(u, steps, NoWindow, Ranks) = R[n]
      <4>1. NoWindow \in Int BY DEF NoWindow
      <4> QED BY <1>1, <3>1, <4>1, ProgressOf
    <3>3. /\ Reading(TimeLine(u), u, name, ts, steps)
          /\ Reading(TimeLine(u), u, name2, ts, steps)
      BY BothListed, Readings
    <3>4. \A k \in 1..n, j \in 1..3 : name[k] = steps[j] <=> name2[k] = steps[j]
      BY <3>3 DEF Reading
    <3> HIDE DEF name, name2, ts, n, rows, depth
    <3>5. \A k \in 0..n : P[k].reached \in 0..3 /\ R[k].reached \in 0..3
      BY <1>1, <2>2, <3>2 DEF Course, Marks
    <3> DEFINE N == {k \in Nat : k <= n => P[k].reached = R[k].reached}
    <3>6. 0 \in N BY <2>2, <3>2 DEF Course, NoProgress
    <3>7. ASSUME NEW k \in Nat, k \in N PROVE k + 1 \in N
      <4> SUFFICES ASSUME k + 1 <= n PROVE P[k + 1].reached = R[k + 1].reached
        OBVIOUS
      <4>1. k + 1 \in 1..n /\ (k + 1) - 1 = k /\ k \in 0..n /\ P[k].reached = R[k].reached
        BY <2>4, <3>7
      <4> DEFINE d == P[k].reached
      <4>2. P[k + 1] = Advance(P[k], name[k + 1], ts[k + 1], steps, NoWindow)
        BY <2>2, <4>1 DEF Course
      <4>3. R[k + 1] = Advance(R[k], name2[k + 1], ts[k + 1], steps, NoWindow)
        BY <3>2, <4>1 DEF Course
      <4>4. P[k + 1].reached = IF d = 3 \/ name[k + 1] # steps[d + 1] THEN d ELSE d + 1
        BY <1>1, <4>2 DEF Advance, NoWindow
      <4>5. R[k + 1].reached = IF d = 3 \/ name2[k + 1] # steps[d + 1] THEN d ELSE d + 1
        BY <1>1, <4>1, <4>3 DEF Advance, NoWindow
      <4>6. d \in 0..3 BY <3>5, <4>1
      <4>7. d # 3 => (name[k + 1] = steps[d + 1] <=> name2[k + 1] = steps[d + 1])
        <5>1. d # 3 => d + 1 \in 1..3 BY <4>6
        <5> QED BY <3>4, <4>1, <5>1
      <4> QED BY <4>4, <4>5, <4>7
    <3> HIDE DEF N
    <3>8. Nat \subseteq N BY <3>6, <3>7, AllNumbers
    <3>9. P[n].reached = R[n].reached BY <2>4, <3>8 DEF N
    <3> QED BY <2>2, <3>2, <3>9
  <2> QED BY <2>1, <2>2, <2>3, <2>5, <2>6
<1> DEFINE f == funnel(steps)
           g == analyzeFunnel(steps, NoWindow, Ranks)
           h == funnel(two)
<1>4. \A k \in 1..3 : count(k) \in Nat
  <2> SUFFICES ASSUME NEW k \in 1..3 PROVE count(k) \in Nat
    OBVIOUS
  <2> DEFINE S == {u \in Seen : depth(u) >= k}
  <2>1. S \subseteq Seen OBVIOUS
  <2> HIDE DEF S
  <2>2. Cardinality(S) \in Nat BY <2>1, SeenFacts, FS_Subset, FS_CardinalityType
  <2> QED BY <2>2 DEF S
<1>5. \A k \in 2..3 : count(k) <= count(k - 1)
  <2> SUFFICES ASSUME NEW k \in 2..3 PROVE count(k) <= count(k - 1)
    OBVIOUS
  <2> DEFINE S == {u \in Seen : depth(u) >= k}
             T == {u \in Seen : depth(u) >= k - 1}
  <2>1. T \subseteq Seen OBVIOUS
  <2>2. S \subseteq T
    <3> HIDE DEF depth
    <3> QED BY <1>3
  <2> HIDE DEF S, T
  <2>3. Cardinality(S) <= Cardinality(T) BY <2>1, <2>2, SeenFacts, FS_Subset
  <2> QED BY <2>3 DEF S, T
<1>6. \A k \in 1..3 : f[k].count = count(k)
  <2> DEFINE e(k) == [count |-> count(k), dropoff |-> IF k = 1 THEN 0 ELSE count(k - 1) - count(k)]
  <2>1. f = [k \in DOMAIN steps |-> e(k)] BY Zenon DEF funnel
  <2>2. \A k : e(k).count = count(k)
    <3> HIDE DEF count
    <3> QED OBVIOUS
  <2> HIDE DEF f, e, count
  <2> QED BY <1>1, <2>1, <2>2
<1>7. \A k \in 2..3 : f[k].dropoff = count(k - 1) - count(k)
  <2> DEFINE e(k) == [count |-> count(k), dropoff |-> IF k = 1 THEN 0 ELSE count(k - 1) - count(k)]
  <2>1. f = [k \in DOMAIN steps |-> e(k)] BY Zenon DEF funnel
  <2>2. \A k \in 2..3 : e(k).dropoff = count(k - 1) - count(k)
    <3> HIDE DEF count
    <3> QED OBVIOUS
  <2> HIDE DEF f, e, count
  <2> QED BY <1>1, <2>1, <2>2
<1>8. h[1].count = count(1) /\ h[2].count = count(2)
  <2> DEFINE c(k) == Cardinality({u \in Seen : completedDepth(u, two) >= k})
             e(k) == [count |-> c(k), dropoff |-> IF k = 1 THEN 0 ELSE c(k - 1) - c(k)]
  <2>1. h = [k \in DOMAIN two |-> e(k)] BY Zenon DEF funnel
  <2>2. \A k : e(k).count = c(k)
    <3> HIDE DEF c
    <3> QED OBVIOUS
  <2>3. \A k \in 1..2 : c(k) = count(k)
    <3> SUFFICES ASSUME NEW k \in 1..2 PROVE c(k) = count(k)
      OBVIOUS
    <3> DEFINE S == {u \in Seen : completedDepth(u, two) >= k}
               T == {u \in Seen : depth(u) >= k}
    <3>1. S = T
      <4> HIDE DEF two, depth
      <4> QED BY <1>3
    <3> HIDE DEF S, T
    <3>2. Cardinality(S) = Cardinality(T) BY <3>1
    <3> QED BY <3>2 DEF S, T
  <2> HIDE DEF h, e, c, count
  <2>4. DOMAIN two = 1..2 BY <1>2
  <2> HIDE DEF two
  <2> QED BY <2>1, <2>2, <2>3, <2>4
<1>9. /\ \A k \in 1..3 : g.reached[k] = count(k)
      /\ \A k \in 2..3 : g.lost[k] = count(k - 1) - count(k)
  <2> DEFINE progress == [u \in Seen |-> subjectProgress(u, steps, NoWindow, Ranks)]
             c(k) == Cardinality({u \in Seen : progress[u].reached >= k})
             rs == [k \in DOMAIN steps |-> c(k)]
             ls == [k \in 2..Len(steps) |-> rs[k - 1] - rs[k]]
  <2>1. \E s, m : g = [subjects |-> s, reached |-> rs, lost |-> ls, median |-> m]
    BY Zenon DEF analyzeFunnel
  <2>2. \A k \in 1..3 : c(k) = count(k)
    <3> SUFFICES ASSUME NEW k \in 1..3 PROVE c(k) = count(k)
      OBVIOUS
    <3> DEFINE S == {u \in Seen : progress[u].reached >= k}
               T == {u \in Seen : depth(u) >= k}
    <3>1. \A u \in Seen : progress[u].reached = reached(u) OBVIOUS
    <3>2. S = T
      <4> HIDE DEF progress, depth, reached
      <4> QED BY <1>3, <3>1
    <3> HIDE DEF S, T
    <3>3. Cardinality(S) = Cardinality(T) BY <3>2
    <3> QED BY <3>3 DEF S, T
  <2> HIDE DEF c, count
  <2>3. \A k \in 1..3 : rs[k] = count(k) BY <1>1, <2>2
  <2>4. \A k \in 2..3 : ls[k] = count(k - 1) - count(k)
    <3>1. \A k \in 2..3 : k - 1 \in 1..3 /\ k \in 1..3 OBVIOUS
    <3> HIDE DEF rs
    <3> QED BY <1>1, <2>3, <3>1
  <2> HIDE DEF g, rs, ls
  <2>5. g.reached = rs /\ g.lost = ls BY <2>1
  <2> QED BY <2>3, <2>4, <2>5
<1>10. conversionRate(steps[1], steps[2]) = <<h[2].count, h[1].count>>
  BY Zenon DEF conversionRate
<1> HIDE DEF f, g, h, count
<1>11. \A k \in DOMAIN steps : f[k].count = g.reached[k] BY <1>1, <1>6, <1>9
<1>12. \A k \in 2..Len(steps) : f[k].dropoff = g.lost[k] /\ g.lost[k] >= 0
  <2>1. \A k \in 2..3 : k - 1 \in 1..3 /\ k \in 1..3 OBVIOUS
  <2>2. \A k \in 2..3 : count(k - 1) - count(k) >= 0 BY <1>4, <1>5, <2>1
  <2> QED BY <1>1, <1>7, <1>9, <2>2
<1>13. conversionRate(steps[1], steps[2]) = <<g.reached[2], g.reached[1]>>
  <2>1. 1 \in 1..3 /\ 2 \in 1..3 OBVIOUS
  <2>2. g.reached[1] = count(1) /\ g.reached[2] = count(2) BY <1>9, <2>1
  <2> QED BY <1>8, <1>10, <2>2
<1> QED BY Zenon, <1>11, <1>12, <1>13 DEF SameCounts, f, g

LEMMA TheFunnelsAgree == LogOK => FunnelsAgree
<1> SUFFICES ASSUME LogOK PROVE FunnelsAgree
  OBVIOUS
<1>1. (\A i, j \in DOMAIN log : i # j => log[i].ts # log[j].ts) =>
        \A steps \in Paths : SameCounts(steps)
  BY CountsAgree
<1> QED BY Zenon, <1>1, MedianWithin, WaysAgree DEF FunnelsAgree

-----------------------------------------------------------------------------
(* Retentions and series.                                                   *)
\* A set is counted once if each of its members falls into one bucket.
LEMMA Buckets ==
  ASSUME NEW S, IsFiniteSet(S), NEW n \in Nat, NEW c \in [S -> 0..(n - 1)], NEW s,
         s = [k \in 1..n |-> Cardinality({x \in S : c[x] = k - 1})]
  PROVE  SumOf(s) = Cardinality(S)
<1>1. SumOf(s) = Sum(s) BY Zenon DEF SumOf, Sum
<1> DEFINE at(k) == {x \in S : c[x] = k - 1}
           upto(k) == {x \in S : c[x] < k}
<1>2. DOMAIN s = 1..n /\ \A k \in 1..n : s[k] = Cardinality(at(k)) OBVIOUS
<1>3. ASSUME NEW k \in Int
      PROVE  /\ IsFiniteSet(at(k)) /\ Cardinality(at(k)) \in Int
             /\ IsFiniteSet(upto(k)) /\ Cardinality(upto(k)) \in Int
  <2> DEFINE a == at(k)
             b == upto(k)
  <2>1. a \subseteq S /\ b \subseteq S OBVIOUS
  <2> HIDE DEF a, b
  <2>2. IsFiniteSet(a) /\ IsFiniteSet(b) BY <2>1, FS_Subset
  <2>3. Cardinality(a) \in Int /\ Cardinality(b) \in Int BY <2>2, FS_CardinalityType
  <2> QED BY <2>2, <2>3 DEF a, b
<1>4. \A x \in S : c[x] \in 0..(n - 1) OBVIOUS
<1> HIDE DEF at, upto
<1>5. \A k \in 1..n : s[k] \in Int
  <2>1. \A k \in 1..n : k \in Int OBVIOUS
  <2> QED BY Zenon, <1>2, <1>3, <2>1
<1>6. PICK P \in [0..n -> Int] : /\ P[0] = 0 /\ \A k \in 1..n : P[k] = P[k - 1] + s[k]
                                 /\ Sum(s) = P[n]
  BY <1>2, <1>5, Summing
<1> DEFINE N == {k \in Nat : k <= n => P[k] = Cardinality(upto(k))}
<1>7. 0 \in N
  <2>1. upto(0) = {} BY <1>4 DEF upto
  <2>2. Cardinality({}) = 0 BY FS_EmptySet
  <2> QED BY <1>6, <2>1, <2>2
<1>8. ASSUME NEW k \in Nat, k \in N PROVE k + 1 \in N
  <2> SUFFICES ASSUME k + 1 <= n PROVE P[k + 1] = Cardinality(upto(k + 1))
    OBVIOUS
  <2>1. k + 1 \in 1..n /\ (k + 1) - 1 = k /\ k \in Int /\ k + 1 \in Int OBVIOUS
  <2>2. P[k + 1] = P[k] + Cardinality(at(k + 1)) /\ P[k] = Cardinality(upto(k))
    <3>1. s[k + 1] = Cardinality(at(k + 1)) BY Zenon, <1>2, <2>1
    <3>2. P[k + 1] = P[(k + 1) - 1] + s[k + 1] BY Zenon, <1>6, <2>1
    <3>3. P[k] = Cardinality(upto(k)) BY <1>8
    <3> QED BY Zenon, <2>1, <3>1, <3>2, <3>3
  <2> DEFINE a == at(k + 1)
             b == upto(k)
             d == upto(k + 1)
  <2>3. d = b \cup a /\ b \cap a = {}
    <3>1. \A x \in S : c[x] \in Int BY <1>4
    <3>2. \A x \in S : c[x] < k + 1 <=> c[x] < k \/ c[x] = k BY <3>1
    <3>3. \A x \in S : ~(c[x] < k /\ c[x] = k) BY <3>1
    <3> QED BY <2>1, <3>2, <3>3 DEF at, upto
  <2>4. IsFiniteSet(a) /\ IsFiniteSet(b) /\ Cardinality(a) \in Int /\ Cardinality(b) \in Int
    BY <1>3, <2>1
  <2> HIDE DEF a, b, d
  <2>5. Cardinality(d) = Cardinality(b) + Cardinality(a) - Cardinality(b \cap a)
    BY <2>3, <2>4, FS_Union
  <2>6. Cardinality(b \cap a) = 0 BY <2>3, FS_EmptySet
  <2>7. Cardinality(d) = Cardinality(b) + Cardinality(a) BY <2>4, <2>5, <2>6
  <2> QED BY <2>2, <2>7 DEF a, b, d
<1> HIDE DEF N
<1>9. Nat \subseteq N BY <1>7, <1>8, AllNumbers
<1>10. P[n] = Cardinality(upto(n)) BY <1>9 DEF N
<1>11. upto(n) = S BY <1>4 DEF upto
<1> QED BY <1>1, <1>6, <1>10, <1>11

LEMMA Dividing ==
  ASSUME NEW d \in Nat \ {0}
  PROVE  /\ \A a \in Nat : a \div d \in Nat /\ a \div d <= a
         /\ \A a \in Int : a \div d \in Int
         /\ \A a, b \in Int : a <= b => a \div d <= b \div d
OBVIOUS

LEMMA DaysOf ==
  /\ \A t \in 0..MaxTs : day(t) \in 0..LastDay
  /\ \A t \in 0..MaxTs : cohortKey(t, "day") = day(t)
  /\ \A t \in 0..MaxTs : cohortKey(t, "month") \in 0..LastDay
  /\ LastDay \in Nat
<1>1. MaxTs \in Nat /\ DayTicks \in Nat \ {0} /\ MonthDays \in Nat \ {0} BY QueriesAssumption
<1>2. LastDay \in Nat BY <1>1, Dividing DEF LastDay, day
<1>3. ASSUME NEW t \in 0..MaxTs PROVE day(t) \in 0..LastDay
  <2>1. t \in Nat /\ t \in Int /\ MaxTs \in Int /\ t <= MaxTs BY <1>1
  <2>2. t \div DayTicks \in Nat /\ t \div DayTicks <= MaxTs \div DayTicks BY <1>1, <2>1, Dividing
  <2>3. MaxTs \div DayTicks \in Nat BY <1>1, Dividing
  <2> QED BY <2>2, <2>3 DEF day, LastDay
<1>4. \A t : cohortKey(t, "day") = day(t) /\ cohortKey(t, "month") = day(t) \div MonthDays
  BY DEF cohortKey
<1>5. ASSUME NEW t \in 0..MaxTs PROVE cohortKey(t, "month") \in 0..LastDay
  <2>1. day(t) \in Nat /\ day(t) <= LastDay BY <1>2, <1>3
  <2>2. day(t) \div MonthDays \in Nat /\ day(t) \div MonthDays <= day(t) BY <1>1, <2>1, Dividing
  <2> QED BY <1>2, <1>4, <2>1, <2>2
<1> QED BY <1>2, <1>3, <1>4, <1>5

LEMMA CohortsOf ==
  ASSUME LogOK, NEW u \in Seen, NEW g \in {"day", "month"}
  PROVE  /\ cohortOf(u, g) \in 0..LastDay
         /\ cohortOf(u, "day") = day(groupByUser(u)[1].ts)
         /\ \E i \in Of(u) : cohortKey(log[i].ts, g) = cohortOf(u, g)
<1> DEFINE n == Cardinality(Of(u))
           L == TimeLine(u)
<1>1. L \in [1..n -> Of(u)] /\ groupByUser(u) = [k \in 1..n |-> log[L[k]]]
  BY GroupedByUser DEF InTime
<1>2. IsFiniteSet(Of(u)) /\ Of(u) # {} BY MineAreRows
<1>3. n \in Nat \ {0} BY <1>2, FS_CardinalityType, FS_EmptySet
<1> HIDE DEF n, L
<1>4. 1 \in 1..n BY <1>3
<1>5. L[1] \in Of(u) /\ groupByUser(u)[1] = log[L[1]] BY <1>1, <1>4
<1>6. log[L[1]].ts \in 0..MaxTs BY <1>5, MineAreRows DEF LogOK
<1>7. cohortOf(u, g) = cohortKey(log[L[1]].ts, g) BY <1>5 DEF cohortOf
<1>8. cohortOf(u, "day") = cohortKey(groupByUser(u)[1].ts, "day") BY DEF cohortOf
<1>9. cohortOf(u, "day") = day(groupByUser(u)[1].ts) BY <1>5, <1>6, <1>8, DaysOf
<1>10. cohortOf(u, g) \in 0..LastDay BY <1>6, <1>7, DaysOf
<1> QED BY <1>5, <1>7, <1>9, <1>10

Members(key, g) == {u \in Seen : cohortOf(u, g) = key}
ActiveAt(u, key, k, g) == \E i \in Of(u) : periodOffset(key, cohortKey(log[i].ts, g), g) = k

Cohorts(cohorts, g, periods) ==
  /\ DOMAIN cohorts = {cohortOf(u, g) : u \in Seen}
  /\ \A key \in DOMAIN cohorts :
       /\ cohorts[key].size = Cardinality(Members(key, g))
       /\ \A k \in 0..(periods - 1) :
            cohorts[key].retention[k] = Cardinality({u \in Members(key, g) : ActiveAt(u, key, k, g)})

LEMMA Retained ==
  ASSUME NEW g, NEW periods
  PROVE  Cohorts(buildRetention(g, periods), g, periods)
<1> DEFINE cohorts == buildRetention(g, periods)
           keys == {cohortOf(u, g) : u \in Seen}
           size(key) == Cardinality(Members(key, g))
           count(key, k) == Cardinality({u \in Members(key, g) : ActiveAt(u, key, k, g)})
<1>1. cohorts = [key \in keys |-> [size |-> size(key),
                                   retention |-> [k \in 0..(periods - 1) |-> count(key, k)]]]
  BY Zenon DEF buildRetention, Members, ActiveAt
<1> HIDE DEF cohorts, keys, size, count
<1>2. /\ DOMAIN cohorts = keys
      /\ \A key \in keys : /\ cohorts[key].size = size(key)
                           /\ \A k \in 0..(periods - 1) : cohorts[key].retention[k] = count(key, k)
  BY <1>1
<1> QED BY Zenon, <1>2 DEF Cohorts, cohorts, keys, size, count

\* A cohort is active in its first period, and a day is so many days after another.
LEMMA Offsets ==
  /\ \A key \in Int, g \in {"day", "month"} : periodOffset(key, key, g) = 0
  /\ \A key, d \in Int, k \in Nat : periodOffset(key, d, "day") = k <=> d = key + k
BY DEF periodOffset, NaN

LEMMA EverybodyOnce ==
  ASSUME LogOK, NEW g \in {"day", "month"}
  PROVE  LET cohorts == buildRetention(g, 2) IN
         /\ SumOf([k \in 1..(LastDay + 1) |->
                     IF k - 1 \in DOMAIN cohorts THEN cohorts[k - 1].size ELSE 0]) = Cardinality(Seen)
         /\ \A key \in DOMAIN cohorts : cohorts[key].retention[0] = cohorts[key].size
<1> DEFINE cohorts == buildRetention(g, 2)
<1>1. /\ DOMAIN cohorts = {cohortOf(u, g) : u \in Seen}
      /\ \A key \in DOMAIN cohorts :
           /\ cohorts[key].size = Cardinality(Members(key, g))
           /\ \A k \in 0..(2 - 1) :
                cohorts[key].retention[k] = Cardinality({u \in Members(key, g) : ActiveAt(u, key, k, g)})
  <2>1. Cohorts(cohorts, g, 2) BY Retained
  <2> HIDE DEF cohorts
  <2> QED BY Zenon, <2>1 DEF Cohorts
<1> HIDE DEF cohorts
<1>2. LastDay \in Nat BY DaysOf
<1> DEFINE c == [u \in Seen |-> cohortOf(u, g)]
           s == [k \in 1..(LastDay + 1) |-> Cardinality({u \in Seen : c[u] = k - 1})]
<1>3. SumOf(s) = Cardinality(Seen)
  <2>1. c \in [Seen -> 0..((LastDay + 1) - 1)]
    <3>1. \A u \in Seen : cohortOf(u, g) \in 0..LastDay BY CohortsOf
    <3>2. 0..((LastDay + 1) - 1) = 0..LastDay BY <1>2
    <3> QED BY <3>1, <3>2
  <2>2. LastDay + 1 \in Nat /\ IsFiniteSet(Seen) BY <1>2, SeenFacts
  <2> HIDE DEF c
  <2> QED BY <2>1, <2>2, Buckets
<1>4. \A k \in 1..(LastDay + 1) :
        s[k] = IF k - 1 \in DOMAIN cohorts THEN cohorts[k - 1].size ELSE 0
  <2> SUFFICES ASSUME NEW k \in 1..(LastDay + 1)
               PROVE  s[k] = IF k - 1 \in DOMAIN cohorts THEN cohorts[k - 1].size ELSE 0
    OBVIOUS
  <2> DEFINE S == {u \in Seen : c[u] = k - 1}
  <2>1. S = Members(k - 1, g) BY DEF Members
  <2>2. k - 1 \notin DOMAIN cohorts => S = {} BY <1>1
  <2>3. s[k] = Cardinality(S) OBVIOUS
  <2>4. Cardinality({}) = 0 BY FS_EmptySet
  <2> HIDE DEF S, s
  <2> QED BY <1>1, <2>1, <2>2, <2>3, <2>4
<1>5. s = [k \in 1..(LastDay + 1) |-> IF k - 1 \in DOMAIN cohorts THEN cohorts[k - 1].size ELSE 0]
  <2>1. s = [k \in 1..(LastDay + 1) |-> s[k]] OBVIOUS
  <2> HIDE DEF s
  <2> DEFINE e(k) == IF k - 1 \in DOMAIN cohorts THEN cohorts[k - 1].size ELSE 0
  <2>2. \A k \in 1..(LastDay + 1) : s[k] = e(k) BY <1>4
  <2> HIDE DEF e
  <2>3. s = [k \in 1..(LastDay + 1) |-> e(k)] BY <2>1, <2>2
  <2> QED BY <2>3 DEF e
<1>6. ASSUME NEW key \in DOMAIN cohorts PROVE cohorts[key].retention[0] = cohorts[key].size
  <2> DEFINE M == Members(key, g)
             A == {u \in M : ActiveAt(u, key, 0, g)}
  <2>1. A = M
    <3> SUFFICES ASSUME NEW u \in M PROVE ActiveAt(u, key, 0, g)
      OBVIOUS
    <3>1. u \in Seen /\ cohortOf(u, g) = key BY DEF Members
    <3>2. PICK i \in Of(u) : cohortKey(log[i].ts, g) = key BY <3>1, CohortsOf
    <3>3. key \in Int BY <3>1, CohortsOf
    <3> QED BY <3>2, <3>3, Offsets DEF ActiveAt
  <2>2. 0 \in 0..(2 - 1) OBVIOUS
  <2>3. cohorts[key].retention[0] = Cardinality(A) BY <1>1, <2>2
  <2>4. cohorts[key].size = Cardinality(M) BY <1>1
  <2> HIDE DEF A, M
  <2> QED BY <2>1, <2>3, <2>4
<1>7. SumOf([k \in 1..(LastDay + 1) |->
               IF k - 1 \in DOMAIN cohorts THEN cohorts[k - 1].size ELSE 0]) = Cardinality(Seen)
  <2> HIDE DEF s
  <2> QED BY Zenon, <1>3, <1>5
<1> QED BY Zenon, <1>6, <1>7 DEF cohorts

EventsOn(d) == {i \in DOMAIN log : day(log[i].ts) = d}
UsersOn(d) == {log[i].user : i \in EventsOn(d)}

LEMMA Series ==
  ASSUME NEW from, NEW to, NEW d \in from..to
  PROVE  /\ timeSeries("users", from, to)[d] = Cardinality(UsersOn(d))
         /\ timeSeries("events", from, to)[d] = Cardinality(EventsOn(d))
<1> DEFINE users(x) == Cardinality(UsersOn(x))
           events(x) == Cardinality(EventsOn(x))
           on(x) == {i \in DOMAIN log : day(log[i].ts) = x}
           e(x, metric) == Cardinality(IF metric = "users" THEN {log[i].user : i \in on(x)} ELSE on(x))
<1>1. \A x : e(x, "users") = users(x) /\ e(x, "events") = events(x)
  <2> DEFINE us(x) == {log[i].user : i \in on(x)}
  <2>1. \A x : (IF "users" = "users" THEN us(x) ELSE on(x)) = us(x)
               /\ (IF "events" = "users" THEN us(x) ELSE on(x)) = on(x)
    <3> HIDE DEF us, on
    <3> QED OBVIOUS
  <2> QED BY Zenon, <2>1 DEF UsersOn, EventsOn
<1>2. \A metric : timeSeries(metric, from, to) = [x \in from..to |-> e(x, metric)]
  BY Zenon DEF timeSeries
<1> HIDE DEF e, users, events
<1>3. timeSeries("users", from, to)[d] = users(d) BY <1>1, <1>2
<1>4. timeSeries("events", from, to)[d] = events(d) BY <1>1, <1>2
<1> QED BY Zenon, <1>3, <1>4 DEF users, events

LEMMA EventsOnce ==
  ASSUME LogOK
  PROVE  SumOf([k \in 1..(LastDay + 1) |-> timeSeries("events", 0, LastDay)[k - 1]]) = Len(log)
<1> DEFINE S == DOMAIN log
           c == [i \in S |-> day(log[i].ts)]
           n == LastDay + 1
           s == [k \in 1..n |-> Cardinality({i \in S : c[i] = k - 1})]
           series == timeSeries("events", 0, LastDay)
<1>1. S = 1..Len(log) /\ Len(log) \in Nat BY DEF LogOK
<1>2. IsFiniteSet(S) /\ Cardinality(S) = Len(log)
  <2> DEFINE m == Len(log)
  <2>1. IsFiniteSet(1..m) /\ Cardinality(1..m) = IF 1 > m THEN 0 ELSE m - 1 + 1 BY <1>1, FS_Interval
  <2>2. Cardinality(1..m) = m BY <1>1, <2>1
  <2> QED BY <1>1, <2>1, <2>2
<1>3. n \in Nat /\ 0..(n - 1) = 0..LastDay BY DaysOf
<1>4. c \in [S -> 0..(n - 1)]
  <2>1. \A i \in S : day(log[i].ts) \in 0..LastDay BY <1>1, DaysOf DEF LogOK
  <2> QED BY <1>3, <2>1
<1>5. ASSUME NEW k \in 1..n PROVE s[k] = series[k - 1]
  <2> DEFINE A == {i \in S : c[i] = k - 1}
             B == {i \in S : day(log[i].ts) = k - 1}
  <2>1. A = B OBVIOUS
  <2>2. k - 1 \in 0..LastDay BY DaysOf
  <2>3. s[k] = Cardinality(A) OBVIOUS
  <2>4. series[k - 1] = Cardinality(EventsOn(k - 1))
    <3> DEFINE x == k - 1
    <3>1. x \in 0..LastDay BY <2>2
    <3> HIDE DEF x
    <3>2. series[x] = Cardinality(EventsOn(x)) BY <3>1, Series
    <3> QED BY <3>2 DEF x
  <2>5. EventsOn(k - 1) = B BY DEF EventsOn
  <2> HIDE DEF A, B, s, series
  <2> QED BY <2>1, <2>3, <2>4, <2>5
<1>6. s = [k \in 1..n |-> s[k]] OBVIOUS
<1> DEFINE t == [k \in 1..n |-> series[k - 1]]
<1>7. SumOf(s) = Len(log)
  <2>1. s = [k \in 1..n |-> Cardinality({i \in S : c[i] = k - 1})] OBVIOUS
  <2> HIDE DEF S, c, n, s
  <2>2. SumOf(s) = Cardinality(S) BY Zenon, <1>2, <1>3, <1>4, <2>1, Buckets
  <2> QED BY <1>2, <2>2
<1>8. t = s
  <2> HIDE DEF s, series, n
  <2> QED BY <1>5, <1>6
<1> HIDE DEF s
<1>9. SumOf(t) = Len(log) BY <1>7, <1>8
<1> QED BY Zenon, <1>9 DEF t, n, series

LEMMA DaysAgree ==
  ASSUME LogOK, NEW d \in 0..LastDay
  PROVE  LET byDay == buildRetention("day", LastDay + 1)
             days == retention(d, LastDay, LastDay)
         IN \A k \in DOMAIN days :
              days[k] = IF d \in DOMAIN byDay THEN byDay[d].retention[k] ELSE 0
<1> DEFINE byDay == buildRetention("day", LastDay + 1)
           days == retention(d, LastDay, LastDay)
           A(k) == {u \in CohortUsers(d) : ActiveOn(u, d + k)}
           B(k) == {u \in Members(d, "day") : ActiveAt(u, d, k, "day")}
<1>1. LastDay \in Nat /\ d \in Nat /\ d <= LastDay BY DaysOf
<1>2. Max({0, Min({LastDay, LastDay - d})}) = LastDay - d
  <2>1. Min({LastDay, LastDay - d}) = IF LastDay <= LastDay - d THEN LastDay ELSE LastDay - d
    BY <1>1, MinOf
  <2>2. Min({LastDay, LastDay - d}) = LastDay - d BY <1>1, <2>1
  <2>3. Max({0, LastDay - d}) = IF 0 >= LastDay - d THEN 0 ELSE LastDay - d BY <1>1, MaxOf
  <2> QED BY <1>1, <2>2, <2>3
<1>3. DOMAIN days = 0..(LastDay - d) /\ \A k \in 0..(LastDay - d) : days[k] = Cardinality(A(k))
  <2> DEFINE a(k) == Cardinality(A(k))
             w == Max({0, Min({LastDay, LastDay - d})})
  <2>1. days = [k \in 0..w |-> a(k)] BY Zenon DEF retention
  <2> HIDE DEF days, a, w
  <2>2. DOMAIN days = 0..w /\ \A k \in 0..w : days[k] = a(k) BY <2>1
  <2>3. w = LastDay - d BY <1>2 DEF w
  <2>4. \A k : a(k) = Cardinality(A(k)) BY DEF a
  <2> HIDE DEF A
  <2> QED BY <2>2, <2>3, <2>4
<1>4. Cohorts(byDay, "day", LastDay + 1) BY Retained
<1>5. ASSUME NEW k \in 0..(LastDay - d) PROVE A(k) = B(k)
  <2>1. \A u \in Seen : cohortOf(u, "day") = day(groupByUser(u)[1].ts)
    <3>1. "day" \in {"day", "month"} OBVIOUS
    <3> QED BY <3>1, CohortsOf
  <2>2. CohortUsers(d) = Members(d, "day") BY <2>1 DEF CohortUsers, Members
  <2>3. ASSUME NEW u \in Seen PROVE ActiveOn(u, d + k) <=> ActiveAt(u, d, k, "day")
    <3>1. ASSUME NEW i \in Of(u)
          PROVE  day(log[i].ts) = d + k <=> periodOffset(d, cohortKey(log[i].ts, "day"), "day") = k
      <4>1. log[i].ts \in 0..MaxTs BY MineAreRows DEF LogOK
      <4>2. cohortKey(log[i].ts, "day") = day(log[i].ts) /\ day(log[i].ts) \in Int BY <4>1, DaysOf
      <4>3. k \in Nat /\ d \in Int BY <1>1
      <4> QED BY <4>2, <4>3, Offsets
    <3> QED BY <3>1 DEF ActiveOn, ActiveAt
  <2> QED BY <2>2, <2>3 DEF Members
<1> HIDE DEF byDay, days, A
<1>6. ASSUME NEW k \in DOMAIN days
      PROVE  days[k] = IF d \in DOMAIN byDay THEN byDay[d].retention[k] ELSE 0
  <2>1. k \in 0..(LastDay - d) /\ k \in 0..((LastDay + 1) - 1) BY <1>1, <1>3
  <2>2. days[k] = Cardinality(B(k)) BY <1>3, <1>5, <2>1
  <2>3. CASE d \in DOMAIN byDay
    <3>1. byDay[d].retention[k] = Cardinality(B(k)) BY Zenon, <1>4, <2>1, <2>3 DEF Cohorts
    <3> HIDE DEF B
    <3> QED BY <2>2, <2>3, <3>1
  <2>4. CASE d \notin DOMAIN byDay
    <3>1. Members(d, "day") = {}
      <4>1. d \notin {cohortOf(u, "day") : u \in Seen} BY Zenon, <1>4, <2>4 DEF Cohorts
      <4> QED BY <4>1 DEF Members
    <3>2. B(k) = {} BY <3>1
    <3>3. Cardinality({}) = 0 BY FS_EmptySet
    <3> HIDE DEF B
    <3> QED BY <2>2, <2>4, <3>2, <3>3
  <2> QED BY <2>3, <2>4
<1> QED BY Zenon, <1>6 DEF days, byDay

LEMMA NewcomersCounted ==
  ASSUME LogOK, NEW d \in DOMAIN buildRetention("day", LastDay + 1)
  PROVE  /\ timeSeries("users", 0, LastDay)[d] >= buildRetention("day", LastDay + 1)[d].size
         /\ \A x \in Names :
              funnelByCohort(<<x>>, "day", 1)[d][1][2] = timeSeries("users", 0, LastDay)[d]
<1> DEFINE byDay == buildRetention("day", LastDay + 1)
           M == Members(d, "day")
           U == UsersOn(d)
           subjects == {u \in Seen : \E i \in Of(u) : cohortKey(log[i].ts, "day") = d}
<1>1. Cohorts(byDay, "day", LastDay + 1) BY Retained
<1>2. /\ d \in {cohortOf(u, "day") : u \in Seen} /\ byDay[d].size = Cardinality(M)
  BY Zenon, <1>1 DEF Cohorts
<1>3. d \in 0..LastDay
  <2>1. "day" \in {"day", "month"} OBVIOUS
  <2> QED BY <1>2, <2>1, CohortsOf
<1>4. timeSeries("users", 0, LastDay)[d] = Cardinality(U) BY <1>3, Series
<1>5. \A i \in DOMAIN log : cohortKey(log[i].ts, "day") = day(log[i].ts) BY DaysOf DEF LogOK
<1>6. subjects = U
  <2>1. ASSUME NEW u \in subjects PROVE u \in U
    <3>1. PICK i \in Of(u) : cohortKey(log[i].ts, "day") = d OBVIOUS
    <3>2. i \in DOMAIN log /\ log[i].user = u BY <3>1 DEF Of
    <3> QED BY <1>5, <3>1, <3>2 DEF UsersOn, EventsOn
  <2>2. ASSUME NEW i \in EventsOn(d) PROVE log[i].user \in subjects
    <3>1. log[i].user \in Seen /\ i \in Of(log[i].user) /\ i \in DOMAIN log /\ day(log[i].ts) = d
      BY DEF Seen, Of, EventsOn
    <3> QED BY <1>5, <3>1
  <2> QED BY <2>1, <2>2 DEF UsersOn
<1>7. M \subseteq U
  <2> SUFFICES ASSUME NEW u \in M PROVE u \in subjects
    BY <1>6
  <2>1. u \in Seen /\ cohortOf(u, "day") = d BY DEF Members
  <2>2. "day" \in {"day", "month"} OBVIOUS
  <2>3. \E i \in Of(u) : cohortKey(log[i].ts, "day") = d BY <2>1, <2>2, CohortsOf
  <2> QED BY <2>1, <2>3
<1>8. IsFiniteSet(U)
  <2>1. subjects \subseteq Seen OBVIOUS
  <2> HIDE DEF subjects, U
  <2> QED BY <1>6, <2>1, SeenFacts, FS_Subset
<1>9. Cardinality(U) >= Cardinality(M)
  <2> HIDE DEF U, M
  <2>1. Cardinality(M) <= Cardinality(U) /\ IsFiniteSet(M) BY <1>7, <1>8, FS_Subset
  <2>2. Cardinality(M) \in Nat /\ Cardinality(U) \in Nat BY <1>8, <2>1, FS_CardinalityType
  <2> QED BY <2>1, <2>2
<1>10. ASSUME NEW x \in Names PROVE funnelByCohort(<<x>>, "day", 1)[d][1][2] = Cardinality(U)
  <2> DEFINE one == <<x>>
             keys == DOMAIN buildRetention("day", 1)
  <2>1. Cohorts(buildRetention("day", 1), "day", 1) BY Retained
  <2>2. d \in keys BY Zenon, <1>2, <2>1 DEF Cohorts
  <2>3. stepRate(d, x, "day")[2] = Cardinality(subjects)
    <3> DEFINE some == Cardinality({u \in subjects : \E i \in Of(u) : log[i].name = x})
               all == Cardinality(subjects)
    <3>1. stepRate(d, x, "day") = <<some, all>> BY Zenon DEF stepRate
    <3> HIDE DEF some, all
    <3>2. stepRate(d, x, "day")[2] = all BY <3>1
    <3> QED BY <3>2 DEF all
  <2>4. funnelByCohort(one, "day", 1) = [key \in keys |-> [k \in DOMAIN one |-> stepRate(key, one[k], "day")]]
    BY Zenon DEF funnelByCohort
  <2>5. 1 \in DOMAIN one /\ one[1] = x OBVIOUS
  <2> HIDE DEF one, keys, subjects, U
  <2>6. funnelByCohort(one, "day", 1)[d][1] = stepRate(d, x, "day") BY <2>2, <2>4, <2>5
  <2>7. funnelByCohort(one, "day", 1)[d][1][2] = Cardinality(U) BY <1>6, <2>3, <2>6
  <2> QED BY <2>7 DEF one
<1> HIDE DEF U, M
<1>11. timeSeries("users", 0, LastDay)[d] >= byDay[d].size BY <1>2, <1>4, <1>9
<1> QED BY <1>4, <1>10, <1>11

LEMMA TheRetentionsAgree == LogOK => RetentionsAgree
<1> SUFFICES ASSUME LogOK PROVE RetentionsAgree
  OBVIOUS
<1> QED BY Zenon, EverybodyOnce, EventsOnce, DaysAgree, NewcomersCounted DEF RetentionsAgree

-----------------------------------------------------------------------------
(* The traits of a user.                                                    *)
\* The events of a user and a name, first to last.
Matches(user, name, c, m) ==
  /\ c \in Nat /\ m \in [1..c -> {log[i] : i \in {j \in Of(user) : log[j].name = name}}]
  /\ \A i, j \in 1..c : i < j => m[i].ts <= m[j].ts
  /\ \A i \in Of(user) : log[i].name = name => \E k \in 1..c : m[k] = log[i]

LEMMA Matching ==
  ASSUME LogOK, NEW user, NEW name \in Names
  PROVE  \E c : Matches(user, name, c, filterEvents(user, name))
<1> DEFINE n == Cardinality(Of(user))
           L == TimeLine(user)
           rows == groupByUser(user)
           K == {k \in 1..n : rows[k].name = name}
           c == Cardinality(K)
           m == filterEvents(user, name)
<1>1. InTime(L, Of(user)) /\ rows = [k \in 1..n |-> log[L[k]]] BY GroupedByUser
<1>2. n \in Nat /\ L \in [1..n -> Of(user)] BY <1>1 DEF InTime
<1>3. DOMAIN rows = 1..n /\ \A k \in 1..n : rows[k] = log[L[k]] BY <1>1
<1>4. m = [k \in DOMAIN Up(K) |-> rows[Up(K)[k]]]
  <2> DEFINE T == {k \in DOMAIN rows : name = NoMatch \/ rows[k].name = name}
  <2>1. m = [k \in DOMAIN Up(T) |-> rows[Up(T)[k]]] BY Zenon DEF filterEvents, Filter, Up
  <2>2. T = K
    <3> HIDE DEF rows, n
    <3> QED BY <1>3, QueriesAssumption
  <2> HIDE DEF T, K, m, rows
  <2> QED BY <2>1, <2>2
<1>5. K \in SUBSET (1..n) OBVIOUS
<1>6. \A k \in K : k \in 1..n /\ rows[k].name = name OBVIOUS
<1>7. \A k \in 1..n : rows[k].name = name => k \in K OBVIOUS
<1> HIDE DEF n, L, rows, K, m, c
<1>8. /\ c \in Nat /\ Up(K) \in [1..c -> K]
      /\ \A i, j \in 1..c : i < j => Up(K)[i] < Up(K)[j]
      /\ \A x \in K : \E k \in 1..c : Up(K)[k] = x
  BY <1>2, <1>5, Filtered DEF c
<1>9. DOMAIN m = 1..c /\ \A k \in 1..c : m[k] = rows[Up(K)[k]] BY <1>4, <1>8
<1>10. \A k \in 1..c : Up(K)[k] \in K /\ Up(K)[k] \in 1..n BY <1>6, <1>8
<1>11. ASSUME NEW k \in 1..c
       PROVE  m[k] \in {log[i] : i \in {j \in Of(user) : log[j].name = name}}
  <2> DEFINE x == Up(K)[k]
  <2>1. x \in K /\ x \in 1..n BY <1>10
  <2>2. m[k] = log[L[x]] /\ L[x] \in Of(user) /\ log[L[x]].name = name
    BY <1>2, <1>3, <1>6, <1>9, <2>1
  <2> QED BY <2>2
<1>12. m = [k \in 1..c |-> m[k]] BY <1>4, <1>9
<1>13. m \in [1..c -> {log[i] : i \in {j \in Of(user) : log[j].name = name}}] BY <1>11, <1>12
<1>14. ASSUME NEW i \in 1..c, NEW j \in 1..c, i < j PROVE m[i].ts <= m[j].ts
  <2> DEFINE x == Up(K)[i]
             y == Up(K)[j]
  <2>1. x \in 1..n /\ y \in 1..n /\ x < y BY <1>8, <1>10, <1>14
  <2>2. m[i] = log[L[x]] /\ m[j] = log[L[y]] BY <1>3, <1>9, <2>1
  <2> HIDE DEF x, y
  <2>3. log[L[x]].ts <= log[L[y]].ts BY <1>1, <2>1 DEF InTime, n
  <2> QED BY <2>2, <2>3
<1>15. ASSUME NEW i \in Of(user), log[i].name = name PROVE \E k \in 1..c : m[k] = log[i]
  <2>1. PICK x \in 1..n : L[x] = i BY <1>1 DEF InTime, n
  <2>2. rows[x] = log[i] /\ x \in K BY <1>3, <1>7, <1>15, <2>1
  <2>3. PICK k \in 1..c : Up(K)[k] = x BY <1>8, <2>2
  <2> QED BY <1>9, <2>2, <2>3
<1>16. Matches(user, name, c, m) BY <1>8, <1>13, <1>14, <1>15 DEF Matches
<1> QED BY <1>16 DEF m

LEMMA MatchFacts ==
  ASSUME LogOK, NEW user, NEW name \in Names, NEW c, NEW m, Matches(user, name, c, m)
  PROVE  /\ c \in Nat /\ DOMAIN m = 1..c /\ Len(m) = c
         /\ \A k \in 1..c : /\ m[k].name = name /\ m[k].type = "track" /\ m[k].ts \in 0..MaxTs
                            /\ \E i \in Of(user) : log[i].name = name
         /\ c > 0 => Head(m) = m[1] /\ Last(m) = m[c]
         /\ m = <<>> <=> c = 0
<1> DEFINE M == {log[i] : i \in {j \in Of(user) : log[j].name = name}}
<1>1. c \in Nat /\ m \in [1..c -> M] BY DEF Matches
<1>2. ASSUME NEW e \in M
      PROVE  /\ e.name = name /\ e.type = "track" /\ e.ts \in 0..MaxTs
             /\ \E i \in Of(user) : log[i].name = name
  <2>1. PICK i \in Of(user) : e = log[i] /\ log[i].name = name OBVIOUS
  <2>2. i \in 1..Len(log) BY <2>1, MineAreRows
  <2> QED BY <2>1, <2>2, QueriesAssumption DEF LogOK
<1> HIDE DEF M
<1>3. m \in Seq(M) /\ Len(m) = c BY <1>1, LengthOf
<1>4. c > 0 => Head(m) = m[1] /\ Last(m) = m[c] BY <1>1, <1>3 DEF Last
<1>5. m = <<>> <=> c = 0 BY <1>3, EmptySeq
<1>6. \A k \in 1..c : m[k] \in M BY <1>1
<1>7. \A k \in 1..c : /\ m[k].name = name /\ m[k].type = "track" /\ m[k].ts \in 0..MaxTs
                      /\ \E i \in Of(user) : log[i].name = name
  BY <1>2, <1>6
<1> QED BY <1>1, <1>3, <1>4, <1>5, <1>7

LEMMA Equals ==
  ASSUME NEW c \in Nat, NEW w \in Int, NEW s, DOMAIN s = 1..c, \A k \in 1..c : s[k] = w
  PROVE  SumOf(s) = c * w
<1>1. SumOf(s) = Sum(s) BY Zenon DEF SumOf, Sum
<1>2. \A k \in 1..c : s[k] \in Int OBVIOUS
<1>3. PICK P \in [0..c -> Int] : /\ P[0] = 0 /\ \A k \in 1..c : P[k] = P[k - 1] + s[k]
                                 /\ Sum(s) = P[c]
  BY <1>2, Summing
<1> DEFINE N == {k \in Nat : k <= c => P[k] = k * w}
<1>4. 0 \in N
  <2>1. 0 * w = 0 OBVIOUS
  <2> QED BY <1>3, <2>1
<1>5. ASSUME NEW k \in Nat, k \in N PROVE k + 1 \in N
  <2> SUFFICES ASSUME k + 1 <= c PROVE P[k + 1] = (k + 1) * w
    OBVIOUS
  <2>1. k + 1 \in 1..c /\ (k + 1) - 1 = k /\ P[k] = k * w BY <1>5
  <2>2. P[k + 1] = P[k] + w BY <1>3, <2>1
  <2>3. (k + 1) * w = k * w + w OBVIOUS
  <2> QED BY <2>1, <2>2, <2>3
<1> HIDE DEF N
<1>6. Nat \subseteq N BY <1>4, <1>5, AllNumbers
<1> QED BY <1>1, <1>3, <1>6 DEF N

LEMMA TrackNumbers ==
  ASSUME LogOK, NEW user, NEW name \in Names, NEW c, NEW m, Matches(user, name, c, m)
  PROVE  SumOf(numbers(m)) = c * Worth[name]
<1> DEFINE K == {k \in DOMAIN m : m[k].type = "track"}
           tracks == Filter(m, LAMBDA e : e.type = "track")
           v == numbers(m)
<1>1. /\ c \in Nat /\ DOMAIN m = 1..c
      /\ \A k \in 1..c : m[k].name = name /\ m[k].type = "track"
  <2>1. /\ c \in Nat /\ DOMAIN m = 1..c /\ Len(m) = c
        /\ \A k \in 1..c : /\ m[k].name = name /\ m[k].type = "track" /\ m[k].ts \in 0..MaxTs
                           /\ \E i \in Of(user) : log[i].name = name
        /\ c > 0 => Head(m) = m[1] /\ Last(m) = m[c]
        /\ m = <<>> <=> c = 0
    BY Zenon, MatchFacts
  <2> QED BY Zenon, <2>1
<1>2. K = 1..c BY <1>1
<1>3. tracks = [k \in DOMAIN Up(K) |-> m[Up(K)[k]]] BY Zenon DEF Filter, Up
<1>4. v = [k \in DOMAIN tracks |-> Worth[tracks[k].name]] BY Zenon DEF numbers
<1> HIDE DEF K, tracks, v
<1>5. Cardinality(1..c) = c
  <2>1. Cardinality(1..c) = IF 1 > c THEN 0 ELSE c - 1 + 1 BY <1>1, FS_Interval
  <2>2. c \in Nat BY <1>1
  <2> QED BY <2>1, <2>2
<1>6. Up(K) \in [1..c -> 1..c]
  <2>1. 1..c \in SUBSET (1..c) OBVIOUS
  <2> QED BY <1>1, <1>2, <1>5, <2>1, Filtered
<1>7. DOMAIN tracks = 1..c /\ \A k \in 1..c : tracks[k].name = name
  BY <1>1, <1>3, <1>6
<1>8. DOMAIN v = 1..c /\ \A k \in 1..c : v[k] = Worth[name] BY <1>4, <1>7
<1>9. Worth[name] \in Int BY QueriesAssumption
<1>10. SumOf(v) = c * Worth[name] BY <1>1, <1>8, <1>9, Equals
<1> QED BY <1>10 DEF v

\* One step is taken exactly if there is an event for it.
LEMMA OneStep ==
  ASSUME LogOK, NEW user, NEW name \in Names
  PROVE  completedDepth(user, <<name>>) = 1 <=> \E i \in Of(user) : log[i].name = name
<1> DEFINE one == <<name>>
           n == Cardinality(Of(user))
           L == TimeLine(user)
           rows == groupByUser(user)
           names == NamesOf(rows, n)
           ts == TimesOf(rows, n)
<1>1. Len(one) = 1 /\ Len(one) \in Nat /\ one[1] = name OBVIOUS
<1>2. PICK P : Course(P, n, names, ts, one, NoWindow) /\ completedDepth(user, one) = P[n].reached
  BY <1>1, DepthOf
<1>3. InTime(L, Of(user)) /\ rows = [k \in 1..n |-> log[L[k]]] BY GroupedByUser
<1>4. Stamped(rows, n) BY BothListed, ListedStamped
<1>5. n \in Nat /\ \A k \in 1..n : ts[k] \in Int BY <1>4 DEF Stamped, TimesOf
<1>6. \A k \in 1..n : names[k] = log[L[k]].name BY <1>3 DEF NamesOf
<1>7. NoWindow \in Int BY DEF NoWindow
<1> HIDE DEF one, n, L, rows, names, ts
<1>8. n \in 0..n BY <1>5
<1>9. /\ \A k \in 0..n : P[k].reached \in 0..1
      /\ \A j, k \in 0..n : j <= k => P[j].reached <= P[k].reached
  <2> DEFINE Back ==
        /\ \A k \in 0..n : P[k].reached \in 0..Len(one) /\ P[k].first \in Int /\ P[k].last \in Int
        /\ \A k \in 1..n : \/ P[k] = P[k - 1]
                           \/ /\ P[k].reached = P[k - 1].reached + 1
                              /\ P[k].reached \in DOMAIN one => names[k] = one[P[k].reached]
        /\ \A j, k \in 0..n : j <= k => P[j].reached <= P[k].reached
  <2>1. Back BY Zenon, <1>1, <1>2, <1>5, <1>7, NeverBack
  <2> QED BY <1>1, <2>1
<1>10. ASSUME P[n].reached = 1 PROVE \E i \in Of(user) : log[i].name = name
  <2>1. PICK g \in [1..P[n].reached -> 1..n] : \A j \in 1..P[n].reached : names[g[j]] = one[j]
    <3>1. \E g \in [1..P[n].reached -> 1..n] :
            /\ \A j \in 1..P[n].reached : names[g[j]] = one[j]
            /\ \A i, j \in 1..P[n].reached : i < j => g[i] < g[j]
            /\ P[n].reached > 0 => /\ P[n].first = ts[g[1]] /\ P[n].last = ts[g[P[n].reached]]
                                   /\ NoWindow >= 0 => P[n].last - P[n].first <= NoWindow
      BY Zenon, <1>1, <1>2, <1>5, <1>7, <1>8, StepsTaken
    <3> QED BY Zenon, <3>1
  <2>2. 1 \in 1..P[n].reached BY <1>10
  <2>3. g[1] \in 1..n /\ names[g[1]] = name BY <1>1, <2>1, <2>2
  <2>4. L[g[1]] \in Of(user) BY <1>3, <2>3 DEF InTime, n
  <2> QED BY <1>6, <2>3, <2>4
<1>11. ASSUME NEW i \in Of(user), log[i].name = name PROVE P[n].reached = 1
  <2>1. PICK k \in 1..n : L[k] = i BY <1>3 DEF InTime, n
  <2>2. k \in 0..n /\ k - 1 \in 0..n /\ k <= n BY <1>5, <2>1
  <2>3. P[k] = Advance(P[k - 1], names[k], ts[k], one, NoWindow) BY <1>2, <2>1 DEF Course
  <2>4. names[k] = name BY <1>6, <1>11, <2>1
  <2>5. P[k - 1].reached \in 0..1 BY <1>9, <2>2
  <2>6. P[k].reached = 1
    <3>1. CASE P[k - 1].reached = 1 BY <1>1, <2>3, <3>1 DEF Advance
    <3>2. CASE P[k - 1].reached = 0 BY <1>1, <2>3, <2>4, <3>2 DEF Advance, NoWindow
    <3> QED BY <2>5, <3>1, <3>2
  <2>7. P[k].reached <= P[n].reached BY <1>8, <1>9, <2>2
  <2> QED BY <1>8, <1>9, <2>6, <2>7
<1>12. completedDepth(user, one) = 1 <=> \E i \in Of(user) : log[i].name = name
  BY <1>2, <1>10, <1>11
<1> QED BY <1>12 DEF one

\* What each trait is computed from.
LEMMA Computed ==
  ASSUME NEW user, NEW name, NEW now
  PROVE  LET m == filterEvents(user, name) IN
         /\ compute("count", user, name, now) = Len(m)
         /\ compute("sum", user, name, now) = SumOf(numbers(m))
         /\ m # <<>> => /\ compute("first", user, name, now) = Head(m).ts
                        /\ compute("last", user, name, now) = Last(m).ts
                        /\ compute("recency", user, name, now) = daysSince(Last(m).ts, now)
<1>1. compute("count", user, name, now) = Len(filterEvents(user, name)) BY DEF compute
<1>2. compute("sum", user, name, now) = SumOf(numbers(filterEvents(user, name))) BY DEF compute
<1>3. ASSUME filterEvents(user, name) # <<>>
      PROVE  /\ compute("first", user, name, now) = Head(filterEvents(user, name)).ts
             /\ compute("last", user, name, now) = Last(filterEvents(user, name)).ts
             /\ compute("recency", user, name, now) = daysSince(Last(filterEvents(user, name)).ts, now)
  BY <1>3 DEF compute
<1> QED BY Zenon, <1>1, <1>2, <1>3

LEMMA Ages ==
  ASSUME NEW ts \in Int
  PROVE  /\ \A now \in Int : daysSince(ts, now) \in Nat
         /\ \A now \in Int : now >= ts => daysSince(ts, now) = (now - ts) \div DayTicks
         /\ \A now, later \in Int : now <= later => daysSince(ts, now) <= daysSince(ts, later)
<1>1. DayTicks \in Nat \ {0} BY QueriesAssumption
<1>2. ASSUME NEW now \in Int
      PROVE  daysSince(ts, now) = IF 0 >= (now - ts) \div DayTicks THEN 0 ELSE (now - ts) \div DayTicks
  <2> DEFINE a == (now - ts) \div DayTicks
  <2>1. now - ts \in Int OBVIOUS
  <2>2. a \in Int BY <1>1, <2>1, Dividing
  <2>3. daysSince(ts, now) = Max({0, a}) BY DEF daysSince
  <2> HIDE DEF a
  <2>4. daysSince(ts, now) = IF 0 >= a THEN 0 ELSE a BY <2>2, <2>3, MaxOf
  <2> QED BY <2>4 DEF a
<1>3. \A now \in Int : (now - ts) \div DayTicks \in Int
  <2> TAKE now \in Int
  <2>1. now - ts \in Int OBVIOUS
  <2> QED BY <1>1, <2>1, Dividing
<1>4. ASSUME NEW now \in Int, now >= ts PROVE (now - ts) \div DayTicks \in Nat
  <2>1. now - ts \in Nat BY <1>4
  <2> QED BY <1>1, <2>1, Dividing
<1>5. ASSUME NEW now \in Int, NEW later \in Int, now <= later
      PROVE  (now - ts) \div DayTicks <= (later - ts) \div DayTicks
  <2>1. now - ts \in Int /\ later - ts \in Int /\ now - ts <= later - ts BY <1>5
  <2> QED BY <1>1, <2>1, Dividing
<1>6. ASSUME NEW now \in Int PROVE daysSince(ts, now) \in Nat
  <2> DEFINE a == (now - ts) \div DayTicks
  <2>1. a \in Int /\ daysSince(ts, now) = (IF 0 >= a THEN 0 ELSE a) BY <1>2, <1>3
  <2> HIDE DEF a
  <2> QED BY <2>1
<1>7. ASSUME NEW now \in Int, now >= ts PROVE daysSince(ts, now) = (now - ts) \div DayTicks
  <2>1. (now - ts) \div DayTicks \in Nat BY <1>4, <1>7
  <2> QED BY <1>2, <2>1
<1>8. ASSUME NEW now \in Int, NEW later \in Int, now <= later
      PROVE  daysSince(ts, now) <= daysSince(ts, later)
  <2> DEFINE a == (now - ts) \div DayTicks
             b == (later - ts) \div DayTicks
  <2>1. a \in Int /\ b \in Int /\ a <= b BY <1>3, <1>5, <1>8
  <2>2. daysSince(ts, now) = (IF 0 >= a THEN 0 ELSE a) /\ daysSince(ts, later) = (IF 0 >= b THEN 0 ELSE b)
    BY <1>2
  <2> HIDE DEF a, b
  <2> QED BY <2>1, <2>2
<1> QED BY <1>6, <1>7, <1>8

\* The score of `rfm`, of its three parts.
Points(r, f, v) == Clamp100(100 - r) + Min({f * 20, 100}) + Min({v, 100})
Scored(r, f, v) == Clamp100((2 * Points(r, f, v) + 3) \div 6)

LEMMA Scores ==
  ASSUME NEW f \in Int, NEW v \in Int
  PROVE  /\ \A r \in Int : Scored(r, f, v) \in 0..100
         /\ \A r, s \in Int : r <= s => Scored(s, f, v) <= Scored(r, f, v)
<1> DEFINE a == Min({f * 20, 100})
           b == Min({v, 100})
<1>1. a \in Int /\ b \in Int
  <2>1. f * 20 \in Int OBVIOUS
  <2>2. a = (IF f * 20 <= 100 THEN f * 20 ELSE 100) BY <2>1, MinOf
  <2>3. b = (IF v <= 100 THEN v ELSE 100) BY MinOf
  <2> QED BY <2>1, <2>2, <2>3
<1>2. \A r : Points(r, f, v) = Clamp100(100 - r) + a + b BY Zenon DEF Points
<1> HIDE DEF a, b
<1>3. \A r \in Int : Clamp100(100 - r) = IF 100 - r < 0 THEN 0 ELSE IF 100 - r > 100 THEN 100 ELSE 100 - r
  <2> TAKE r \in Int
  <2>1. 100 - r \in Int OBVIOUS
  <2> QED BY <2>1, Clamping
<1>4. \A r \in Int : Points(r, f, v) \in Int BY <1>1, <1>2, <1>3
<1>5. \A r, s \in Int : r <= s => Points(s, f, v) <= Points(r, f, v) BY <1>1, <1>2, <1>3
<1>6. ASSUME NEW r \in Int
      PROVE  (2 * Points(r, f, v) + 3) \div 6 \in Int
  BY <1>4
<1>7. ASSUME NEW r \in Int
      PROVE  Scored(r, f, v) = LET x == (2 * Points(r, f, v) + 3) \div 6
                               IN IF x < 0 THEN 0 ELSE IF x > 100 THEN 100 ELSE x
  BY <1>6, Clamping DEF Scored
<1>8. ASSUME NEW r \in Int PROVE Scored(r, f, v) \in 0..100
  <2> DEFINE x == (2 * Points(r, f, v) + 3) \div 6
  <2>1. x \in Int BY Zenon, <1>6
  <2>2. Scored(r, f, v) = (IF x < 0 THEN 0 ELSE IF x > 100 THEN 100 ELSE x) BY Zenon, <1>7
  <2> HIDE DEF x
  <2> QED BY <2>1, <2>2
<1>9. ASSUME NEW r \in Int, NEW s \in Int, r <= s PROVE Scored(s, f, v) <= Scored(r, f, v)
  <2> DEFINE x == (2 * Points(r, f, v) + 3) \div 6
             y == (2 * Points(s, f, v) + 3) \div 6
  <2>1. Points(r, f, v) \in Int /\ Points(s, f, v) \in Int /\ Points(s, f, v) <= Points(r, f, v)
    BY <1>4, <1>5, <1>9
  <2>2. x \in Int /\ y \in Int /\ y <= x BY <2>1
  <2>3. /\ Scored(r, f, v) = (IF x < 0 THEN 0 ELSE IF x > 100 THEN 100 ELSE x)
        /\ Scored(s, f, v) = (IF y < 0 THEN 0 ELSE IF y > 100 THEN 100 ELSE y)
    BY Zenon, <1>7
  <2> HIDE DEF x, y
  <2> QED BY <2>2, <2>3
<1> QED BY <1>8, <1>9

LEMMA ScoreOf ==
  ASSUME NEW user, NEW name, NEW now
  PROVE  LET f == compute("count", user, name, now)
             r == IF f = 0 THEN 365 ELSE compute("recency", user, name, now)
         IN rfm(user, name, now).score = Scored(r, f, compute("sum", user, name, now))
BY DEF rfm, Scored, Points, Clamp100

\* The traits of one user and one name.
TraitsOf(user, name) ==
  LET trait(op) == compute(op, user, name, MaxTs)
      mine == {i \in Of(user) : log[i].name = name}
  IN
  /\ (completedDepth(user, <<name>>) = 1) <=> trait("count") > 0
  /\ trait("sum") = trait("count") * Worth[name]
  /\ mine # {} =>
       /\ \A i \in mine : trait("first") <= log[i].ts /\ log[i].ts <= trait("last")
       /\ trait("recency") = (MaxTs - trait("last")) \div DayTicks
  /\ \A now \in 0..(MaxTs + DayTicks) :
       /\ rfm(user, name, now).score \in 0..100
       /\ rfm(user, name, now + DayTicks).score <= rfm(user, name, now).score

LEMMA TraitsHold ==
  ASSUME LogOK, NEW user, NEW name \in Names
  PROVE  TraitsOf(user, name)
<1> DEFINE m == filterEvents(user, name)
           w == Worth[name]
           mine == {i \in Of(user) : log[i].name = name}
<1>1. PICK c : Matches(user, name, c, m) BY Zenon, Matching
<1>2. /\ c \in Nat /\ DOMAIN m = 1..c /\ Len(m) = c
      /\ \A k \in 1..c : /\ m[k].name = name /\ m[k].type = "track" /\ m[k].ts \in 0..MaxTs
                         /\ \E i \in Of(user) : log[i].name = name
      /\ c > 0 => Head(m) = m[1] /\ Last(m) = m[c]
      /\ m = <<>> <=> c = 0
  BY Zenon, <1>1, MatchFacts
<1>3. SumOf(numbers(m)) = c * w BY Zenon, <1>1, TrackNumbers
<1>4. MaxTs \in Nat /\ DayTicks \in Nat \ {0} /\ w \in Int /\ c * w \in Int
  <2>1. MaxTs \in Nat /\ DayTicks \in Nat \ {0} /\ w \in Int BY QueriesAssumption
  <2> QED BY <1>2, <2>1
<1>5. ASSUME NEW now
      PROVE  /\ compute("count", user, name, now) = Len(m)
             /\ compute("sum", user, name, now) = SumOf(numbers(m))
             /\ m # <<>> => /\ compute("first", user, name, now) = Head(m).ts
                            /\ compute("last", user, name, now) = Last(m).ts
                            /\ compute("recency", user, name, now) = daysSince(Last(m).ts, now)
  BY Zenon, Computed
<1>6. \A i, j \in 1..c : i < j => m[i].ts <= m[j].ts BY Zenon, <1>1 DEF Matches
<1>7. \A i \in mine : \E k \in 1..c : m[k] = log[i] BY <1>1 DEF Matches
<1>8. (completedDepth(user, <<name>>) = 1) <=> (mine # {})
  <2>1. completedDepth(user, <<name>>) = 1 <=> \E i \in Of(user) : log[i].name = name BY OneStep
  <2> HIDE DEF m, w
  <2> QED BY Zenon, <2>1
<1>9. c > 0 => mine # {}
  <2> SUFFICES ASSUME c > 0 PROVE \E i \in Of(user) : log[i].name = name
    OBVIOUS
  <2>1. 1 \in 1..c BY <1>2
  <2> QED BY <1>2, <2>1
<1> HIDE DEF m, w
<1>10. mine # {} => c > 0
  <2> SUFFICES ASSUME NEW i \in mine PROVE c > 0
    OBVIOUS
  <2>1. PICK k \in 1..c : m[k] = log[i] BY <1>7
  <2> QED BY <1>2, <2>1
<1> HIDE DEF mine
<1>11. \A now : compute("count", user, name, now) = c /\ compute("sum", user, name, now) = c * w
  BY <1>2, <1>3, <1>5
<1>12. (completedDepth(user, <<name>>) = 1) <=> compute("count", user, name, MaxTs) > 0
  BY <1>8, <1>9, <1>10, <1>11
<1>13. compute("sum", user, name, MaxTs) = compute("count", user, name, MaxTs) * w
  BY <1>11
<1>14. ASSUME c > 0
       PROVE  /\ 1 \in 1..c /\ c \in 1..c /\ m[1].ts \in 0..MaxTs /\ m[c].ts \in 0..MaxTs
              /\ \A now : /\ compute("first", user, name, now) = m[1].ts
                          /\ compute("last", user, name, now) = m[c].ts
                          /\ compute("recency", user, name, now) = daysSince(m[c].ts, now)
  <2>1. 1 \in 1..c /\ c \in 1..c /\ m # <<>> BY <1>2, <1>14
  <2>2. m[1].ts \in 0..MaxTs /\ m[c].ts \in 0..MaxTs BY <1>2, <2>1
  <2>3. Head(m) = m[1] /\ Last(m) = m[c] BY <1>2, <1>14
  <2> QED BY Zenon, <1>5, <2>1, <2>2, <2>3
<1>15. ASSUME mine # {}
       PROVE  /\ \A i \in mine : /\ compute("first", user, name, MaxTs) <= log[i].ts
                                 /\ log[i].ts <= compute("last", user, name, MaxTs)
              /\ compute("recency", user, name, MaxTs)
                   = (MaxTs - compute("last", user, name, MaxTs)) \div DayTicks
  <2>1. c > 0 BY <1>10, <1>15
  <2>2. ASSUME NEW i \in mine PROVE m[1].ts <= log[i].ts /\ log[i].ts <= m[c].ts
    <3>1. PICK k \in 1..c : m[k] = log[i] BY <1>7
    <3>2. m[1].ts \in Int /\ m[k].ts \in Int /\ m[c].ts \in Int BY <1>2, <1>4, <1>14, <2>1
    <3>3. m[1].ts <= m[k].ts
      <4>1. CASE k = 1 BY <3>2, <4>1
      <4>2. CASE k # 1 BY <1>2, <1>6, <1>14, <2>1, <4>2
      <4> QED BY <4>1, <4>2
    <3>4. m[k].ts <= m[c].ts
      <4>1. CASE k = c BY <3>2, <4>1
      <4>2. CASE k # c BY <1>2, <1>6, <1>14, <2>1, <4>2
      <4> QED BY <4>1, <4>2
    <3> QED BY <3>1, <3>3, <3>4
  <2>3. daysSince(m[c].ts, MaxTs) = (MaxTs - m[c].ts) \div DayTicks
    <3>1. m[c].ts \in Int /\ MaxTs \in Int /\ MaxTs >= m[c].ts BY <1>4, <1>14, <2>1
    <3> QED BY <3>1, Ages
  <2> QED BY <1>14, <2>1, <2>2, <2>3
<1>16. ASSUME NEW now \in Int
       PROVE  /\ rfm(user, name, now).score \in 0..100
              /\ rfm(user, name, now + DayTicks).score <= rfm(user, name, now).score
  <2> DEFINE age(t) == IF c = 0 THEN 365 ELSE compute("recency", user, name, t)
  <2>1. \A t : rfm(user, name, t).score = Scored(age(t), c, c * w)
    <3> TAKE t
    <3> DEFINE f == compute("count", user, name, t)
               s == compute("sum", user, name, t)
               r == IF f = 0 THEN 365 ELSE compute("recency", user, name, t)
    <3>1. rfm(user, name, t).score = Scored(r, f, s) BY Zenon, ScoreOf
    <3>2. f = c /\ s = c * w BY <1>11
    <3> QED BY Zenon, <3>1, <3>2
  <2>2. now + DayTicks \in Int /\ now <= now + DayTicks BY <1>4
  <2>3. age(now) \in Int /\ age(now + DayTicks) \in Int /\ age(now) <= age(now + DayTicks)
    <3>1. CASE c = 0 BY <3>1
    <3>2. CASE c # 0
      <4>1. c > 0 BY <1>2, <3>2
      <4>2. m[c].ts \in Int BY <1>4, <1>14, <4>1
      <4>3. \A t : age(t) = daysSince(m[c].ts, t) BY <1>14, <3>2, <4>1
      <4>4. /\ daysSince(m[c].ts, now) \in Nat /\ daysSince(m[c].ts, now + DayTicks) \in Nat
            /\ daysSince(m[c].ts, now) <= daysSince(m[c].ts, now + DayTicks)
        BY <2>2, <4>2, Ages
      <4> HIDE DEF age
      <4> QED BY <4>3, <4>4
    <3> QED BY <3>1, <3>2
  <2> HIDE DEF age
  <2> DEFINE v == c * w
             r == age(now)
             s == age(now + DayTicks)
  <2>4. c \in Int /\ v \in Int /\ r \in Int /\ s \in Int /\ r <= s BY <1>2, <1>4, <2>3
  <2> HIDE DEF v, r, s
  <2>5. Scored(r, c, v) \in 0..100 BY <2>4, Scores
  <2>6. Scored(s, c, v) <= Scored(r, c, v) BY <2>4, Scores
  <2> QED BY <2>1, <2>5, <2>6 DEF v, r, s
<1>17. \A now \in 0..(MaxTs + DayTicks) :
          /\ rfm(user, name, now).score \in 0..100
          /\ rfm(user, name, now + DayTicks).score <= rfm(user, name, now).score
  <2> TAKE now \in 0..(MaxTs + DayTicks)
  <2>1. now \in Int BY <1>4
  <2> QED BY <1>16, <2>1
<1> QED BY Zenon, <1>12, <1>13, <1>15, <1>17 DEF TraitsOf, mine, w

LEMMA TheTraitsAgree == LogOK => TraitsAgree
<1> SUFFICES ASSUME LogOK, NEW user \in Seen, NEW name \in Names PROVE TraitsOf(user, name)
  BY Zenon DEF TraitsAgree, TraitsOf
<1> QED BY Zenon, TraitsHold

-----------------------------------------------------------------------------
(* The stored events keep their type, so the readings agree in every state. *)
LEMMA LogStart == LogInit => LogTypes
<1> SUFFICES ASSUME LogInit PROVE LogTypes
  OBVIOUS
<1>1. log = <<>> BY DEF LogInit
<1> QED BY <1>1 DEF LogTypes

LEMMA LogSaved ==
  ASSUME LogTypes, NEW user \in Users, NEW name \in Names \cup {NoMatch}, NEW ts \in 0..MaxTs,
         save(user, name, ts)
  PROVE  LogTypes'
<1>1. Stored(user, name, ts) \in Events BY DEF Stored, Events
<1>2. log' = Append(log, Stored(user, name, ts)) BY DEF save
<1> HIDE DEF Events, Stored
<1> QED BY <1>1, <1>2 DEF LogTypes

LEMMA LogErased ==
  ASSUME LogTypes, NEW user, deleteByAnonymousId(user)
  PROVE  LogTypes'
<1> DEFINE n == Len(log)
           K == {k \in DOMAIN log : log[k].user # user}
           c == Cardinality(K)
<1>1. n \in Nat /\ DOMAIN log = 1..n /\ \A k \in 1..n : log[k] \in Events BY DEF LogTypes
<1>2. log' = [k \in DOMAIN Up(K) |-> log[Up(K)[k]]] BY Zenon DEF deleteByAnonymousId, Filter, Up
<1>3. K \in SUBSET (1..n) BY <1>1
<1> HIDE DEF n, K
<1>4. c \in Nat /\ Up(K) \in [1..c -> K] BY <1>1, <1>3, Filtered
<1> HIDE DEF c
<1>5. \A k \in 1..c : log[Up(K)[k]] \in Events
  <2> TAKE k \in 1..c
  <2>1. Up(K)[k] \in 1..n BY <1>3, <1>4
  <2> QED BY <1>1, <2>1
<1>6. log' \in [1..c -> Events] BY <1>2, <1>4, <1>5
<1> HIDE DEF Events
<1>7. log' \in Seq(Events) BY <1>4, <1>6, LengthOf
<1> QED BY <1>7 DEF LogTypes, Events

LEMMA LogKept == LogTypes /\ [LogNext]_log => LogTypes'
<1> SUFFICES ASSUME LogTypes, [LogNext]_log PROVE LogTypes'
  OBVIOUS
<1>1. ASSUME NEW user \in Users, NEW name \in Names \cup {NoMatch}, NEW ts \in 0..MaxTs,
             save(user, name, ts)
      PROVE  LogTypes'
  BY Zenon, <1>1, LogSaved
<1>2. ASSUME NEW user \in Users, deleteByAnonymousId(user) PROVE LogTypes'
  BY Zenon, <1>2, LogErased
<1>3. CASE UNCHANGED log BY <1>3 DEF LogTypes, Events
<1> QED BY Zenon, <1>1, <1>2, <1>3 DEF LogNext

\* The stored events stay a list of well-formed rows, whatever is saved and erased:
\* an identify event without a name, a track event with one (toStoredIngestEvent).
THEOREM LogTypeCorrect == LogSpec => []LogTypes
<1>1. LogInit => LogTypes BY LogStart
<1>2. LogTypes /\ [LogNext]_log => LogTypes' BY LogKept
<1> QED BY <1>1, <1>2, PTL DEF LogSpec

\* The five readings of the stored events agree with each other and with the events,
\* for every list of events the store can return, every path of three names, every
\* window and every calendar: the two funnels, the two retentions, the daily series
\* and the computed traits (packages/analytics, packages/funnels, packages/cohorts,
\* packages/computed-traits).
THEOREM ReadingsAgree == LogSpec => []QueriesAgree
<1>1. LogTypes => QueriesAgree
  <2>1. LogOK => FunnelsAgree BY TheFunnelsAgree
  <2>2. LogOK => RetentionsAgree BY TheRetentionsAgree
  <2>3. LogOK => TraitsAgree BY TheTraitsAgree
  <2> QED BY Zenon, <2>1, <2>2, <2>3, LogFacts DEF QueriesAgree, HistoriesAgree
<1> QED BY <1>1, LogTypeCorrect, PTL

-----------------------------------------------------------------------------
(* The lists of the reports.                                                *)
ReportTypes == raw \in Seq(RawRows) /\ touches \in Seq(Touches) /\ exposures \in Seq(Exposed)

LEMMA ReportTypesHold == ReportSpec => []ReportTypes
<1>1. ReportInit => ReportTypes BY DEF ReportInit, ReportTypes
<1>2. ReportTypes /\ [ReportNext]_reportVars => ReportTypes'
  <2> SUFFICES ASSUME ReportTypes, [ReportNext]_reportVars PROVE ReportTypes'
    OBVIOUS
  <2> USE DEF ReportTypes
  <2>1. CASE AddRow BY <2>1 DEF AddRow
  <2>2. CASE AddTouch BY <2>2 DEF AddTouch
  <2>3. CASE AddExposure BY <2>3 DEF AddExposure
  <2>4. CASE UNCHANGED reportVars BY <2>4 DEF reportVars
  <2> QED BY <2>1, <2>2, <2>3, <2>4 DEF ReportNext
<1> QED BY <1>1, <1>2, PTL DEF ReportSpec

-----------------------------------------------------------------------------
(* The credit of the touches.                                               *)

\* How old a touch is at the conversion.
LEMMA AgeOfTouch ==
  ASSUME NEW t \in 0..MaxTouchTs, NEW ts \in 0..MaxTouchTs
  PROVE  /\ Max({0, ts - t}) \in Nat
         /\ Max({0, ts - t}) > Underflow <=> ts - t > Underflow
         /\ \A u \in 0..MaxTouchTs : t <= u => Max({0, ts - u}) <= Max({0, ts - t})
<1>1. MaxTouchTs \in Nat /\ Underflow \in Nat BY ReportsAssumption
<1>2. \A u \in 0..MaxTouchTs : Max({0, ts - u}) = IF 0 >= ts - u THEN 0 ELSE ts - u
  <2> SUFFICES ASSUME NEW u \in 0..MaxTouchTs
               PROVE  Max({0, ts - u}) = IF 0 >= ts - u THEN 0 ELSE ts - u
    OBVIOUS
  <2>1. 0 \in Int /\ ts - u \in Int BY <1>1
  <2> QED BY <2>1, MaxOf
<1> DEFINE age(u) == Max({0, ts - u})
<1>3. \A u \in 0..MaxTouchTs : age(u) = IF 0 >= ts - u THEN 0 ELSE ts - u BY <1>2
<1> HIDE DEF age
<1>4. age(t) \in Nat /\ (age(t) > Underflow <=> ts - t > Underflow) BY <1>1, <1>3
<1>5. \A u \in 0..MaxTouchTs : t <= u => age(u) <= age(t) BY <1>1, <1>3
<1> QED BY <1>4, <1>5 DEF age

\* The older a touch, the less it weighs, and nothing beyond an age.
LEMMA Decaying ==
  ASSUME NEW a \in Nat
  PROVE  /\ decay(a) \in Nat /\ (decay(a) = 0 <=> a > Underflow)
         /\ \A b \in Nat : a <= b => decay(b) <= decay(a)
<1>1. Underflow \in Nat BY ReportsAssumption
<1>2. ASSUME NEW b \in Nat
      PROVE  decay(b) \in Nat /\ (decay(b) = 0 <=> b > Underflow)
  <2>1. CASE b > Underflow BY <2>1 DEF decay
  <2>2. CASE ~(b > Underflow)
    <3>1. Underflow - b \in Nat BY <1>1, <2>2
    <3>2. 2 ^ (Underflow - b) \in Nat \ {0} BY <3>1, PowersOfTwo
    <3> QED BY <2>2, <3>2 DEF decay
  <2> QED BY <2>1, <2>2
<1>3. ASSUME NEW b \in Nat, a <= b PROVE decay(b) <= decay(a)
  <2>1. CASE b > Underflow
    <3>1. decay(b) = 0 /\ decay(a) \in Nat BY <1>2, <2>1
    <3> QED BY <3>1
  <2>2. CASE ~(b > Underflow)
    <3>1. Underflow - b \in Nat /\ Underflow - a \in Nat /\ Underflow - b <= Underflow - a /\ ~(a > Underflow)
      BY <1>1, <1>3, <2>2
    <3>2. 2 ^ (Underflow - b) <= 2 ^ (Underflow - a) BY <3>1, PowersOfTwo
    <3> QED BY <2>2, <3>1, <3>2 DEF decay
  <2> QED BY <2>1, <2>2
<1> QED BY <1>2, <1>3

LEMMA DecayOfTouches ==
  ASSUME NEW s \in Seq(Touches), NEW ts \in 0..MaxTouchTs
  PROVE  /\ timeDecayWeights(s, ts) = [k \in 1..Len(s) |-> decay(Max({0, ts - s[k].ts}))]
         /\ \A k \in 1..Len(s) : /\ timeDecayWeights(s, ts)[k] \in Nat
                                 /\ timeDecayWeights(s, ts)[k] = 0 <=> ts - s[k].ts > Underflow
         /\ \A j, k \in 1..Len(s) :
              s[j].ts <= s[k].ts => timeDecayWeights(s, ts)[j] <= timeDecayWeights(s, ts)[k]
<1> DEFINE e == [k \in 1..Len(s) |-> Max({0, ts - s[k].ts})]
           w == timeDecayWeights(s, ts)
<1>1. DOMAIN s = 1..Len(s) /\ \A k \in 1..Len(s) : s[k].ts \in 0..MaxTouchTs
  <2>1. DOMAIN s = 1..Len(s) /\ \A k \in 1..Len(s) : s[k] \in Touches OBVIOUS
  <2> QED BY <2>1, ReportsAssumption
<1>2. w = [k \in 1..Len(s) |-> decay(Max({0, ts - s[k].ts}))] BY <1>1 DEF timeDecayWeights
<1>3. \A k \in 1..Len(s) : w[k] = decay(e[k]) BY <1>2
<1>4. \A k \in 1..Len(s) : e[k] \in Nat /\ (e[k] > Underflow <=> ts - s[k].ts > Underflow) BY <1>1, AgeOfTouch
<1>5. \A j, k \in 1..Len(s) : s[j].ts <= s[k].ts => e[k] <= e[j] BY <1>1, AgeOfTouch
<1> HIDE DEF w, e
<1>6. \A k \in 1..Len(s) : w[k] \in Nat /\ (w[k] = 0 <=> ts - s[k].ts > Underflow) BY <1>3, <1>4, Decaying
<1>7. \A j, k \in 1..Len(s) : s[j].ts <= s[k].ts => w[j] <= w[k]
  <2> SUFFICES ASSUME NEW j \in 1..Len(s), NEW k \in 1..Len(s), s[j].ts <= s[k].ts PROVE w[j] <= w[k]
    OBVIOUS
  <2>1. e[j] \in Nat /\ e[k] \in Nat /\ e[k] <= e[j] BY <1>4, <1>5
  <2>2. decay(e[j]) <= decay(e[k]) BY <2>1, Decaying
  <2> QED BY <1>3, <2>2
<1> QED BY <1>2, <1>6, <1>7 DEF w

\* The touches are all too old to weigh anything.
Vanished(s, model, ts) == model = "time_decay" /\ \A k \in 1..Len(s) : ts - s[k].ts > Underflow

\* Every model gives each touch a number, and not all of them 0 unless they vanished.
LEMMA WeightsAreNumbers ==
  ASSUME NEW s \in Seq(Touches), NEW ts \in 0..MaxTouchTs, NEW model \in Models
  PROVE  /\ DOMAIN weightsFor(s, model, ts) = 1..Len(s)
         /\ \A k \in 1..Len(s) : weightsFor(s, model, ts)[k] \in Nat
         /\ s # <<>> => ((\A k \in 1..Len(s) : weightsFor(s, model, ts)[k] = 0) <=> Vanished(s, model, ts))
<1>1. DOMAIN s = 1..Len(s) /\ Len(s) \in Nat /\ (s # <<>> => Len(s) \in 1..Len(s) /\ 1 \in 1..Len(s)) OBVIOUS
<1>2. CASE model = "first"
  <2>1. weightsFor(s, model, ts) = [k \in 1..Len(s) |-> IF k = 1 THEN 1 ELSE 0] BY <1>1, <1>2 DEF weightsFor
  <2> QED BY <1>1, <1>2, <2>1 DEF Vanished
<1>3. CASE model = "last"
  <2>1. weightsFor(s, model, ts) = [k \in 1..Len(s) |-> IF k = Len(s) THEN 1 ELSE 0] BY <1>1, <1>3 DEF weightsFor
  <2> DEFINE n == Len(s)
             p == [k \in 1..n |-> IF k = n THEN 1 ELSE 0]
  <2>2. s # <<>> => n \in 1..n BY <1>1
  <2>3. DOMAIN p = 1..n /\ \A k \in 1..n : p[k] \in Nat OBVIOUS
  <2>4. n \in 1..n => p[n] = 1 OBVIOUS
  <2>5. ~Vanished(s, model, ts) BY <1>3 DEF Vanished
  <2>6. weightsFor(s, model, ts) = p BY <2>1
  <2> HIDE DEF n, p
  <2> QED BY <2>2, <2>3, <2>4, <2>5, <2>6 DEF n
<1>4. CASE model = "position"
  <2>1. weightsFor(s, model, ts) = positionWeights(Len(s)) BY <1>4 DEF weightsFor
  <2> DEFINE n == Len(s)
             p == positionWeights(n)
  <2>2. n \in Nat /\ (s # <<>> => 1 \in 1..n) BY <1>1
  <2> HIDE DEF n
  <2>3. DOMAIN p = 1..n BY DEF positionWeights
  <2>4. n >= 3 => 2 * (n - 2) \in Nat \ {0} BY <2>2
  <2>5. \A k \in 1..n : p[k] = 1 \/ (n >= 3 /\ p[k] = 2 * (n - 2)) BY <2>2 DEF positionWeights
  <2> HIDE DEF p
  <2>6. \A k \in 1..n : p[k] \in Nat \ {0} BY <2>4, <2>5
  <2> QED BY <1>4, <2>1, <2>2, <2>3, <2>6 DEF n, p, Vanished
<1>5. CASE model = "time_decay"
  <2>1. weightsFor(s, model, ts) = timeDecayWeights(s, ts) BY <1>5 DEF weightsFor
  <2>2. DOMAIN timeDecayWeights(s, ts) = 1..Len(s) BY DecayOfTouches
  <2>3. \A k \in 1..Len(s) : /\ timeDecayWeights(s, ts)[k] \in Nat
                             /\ timeDecayWeights(s, ts)[k] = 0 <=> ts - s[k].ts > Underflow
    BY DecayOfTouches
  <2> QED BY <1>5, <2>1, <2>2, <2>3 DEF Vanished
<1>6. CASE model = "linear"
  <2>1. weightsFor(s, model, ts) = [k \in 1..Len(s) |-> 1] BY <1>1, <1>6 DEF weightsFor
  <2> QED BY <1>1, <1>6, <2>1 DEF Vanished
<1> QED BY <1>2, <1>3, <1>4, <1>5, <1>6 DEF Models

\* Whose touches, and that every touch is some channel's.
LEMMA ChannelsOf ==
  ASSUME NEW s \in Seq(Touches)
  PROVE  /\ IsFiniteSet(1..Len(s)) /\ IsFiniteSet({s[k].channel : k \in 1..Len(s)})
<1>1. IsFiniteSet(1..Len(s))
  <2>1. 1 \in Int /\ Len(s) \in Int OBVIOUS
  <2> QED BY Zenon, <2>1, FS_Interval
<1> DEFINE D == 1..Len(s)
           f == [k \in D |-> s[k].channel]
           C == {f[k] : k \in D}
<1>2. {s[k].channel : k \in 1..Len(s)} = C OBVIOUS
<1> HIDE DEF D, f
<1>3. IsFiniteSet(C) BY <1>1, FiniteImage DEF D
<1> QED BY <1>1, <1>2, <1>3


\* The touches of a channel.
TouchesOf(s, c) == {k \in 1..Len(s) : s[k].channel = c}

LEMMA CreditOf ==
  ASSUME NEW s \in Seq(Touches), s # <<>>, NEW ts \in 0..MaxTouchTs, NEW model \in Models
  PROVE  attribute(s, model, ts) =
           IF SumOver(1..Len(s), weightsFor(s, model, ts)) <= 0 THEN <<>>
           ELSE [c \in {s[k].channel : k \in 1..Len(s)} |->
                  <<SumOver(TouchesOf(s, c), weightsFor(s, model, ts)),
                    SumOver(1..Len(s), weightsFor(s, model, ts))>>]
<1> DEFINE w == weightsFor(s, model, ts)
<1>1. DOMAIN s = 1..Len(s) OBVIOUS
<1>2. DOMAIN w = 1..Len(s) BY WeightsAreNumbers
<1>3. attribute(s, model, ts) = normalizeByChannel(s, w) BY DEF attribute
<1> HIDE DEF w
<1> QED BY Zenon, <1>1, <1>2, <1>3 DEF normalizeByChannel, TotalOf, TouchesOf, w

\* There is credit unless the touches vanished.
LEMMA SomeCredit ==
  ASSUME NEW s \in Seq(Touches), s # <<>>, NEW ts \in 0..MaxTouchTs, NEW model \in Models
  PROVE  SumOver(1..Len(s), weightsFor(s, model, ts)) <= 0 <=> Vanished(s, model, ts)
<1> DEFINE D == 1..Len(s)
           w == weightsFor(s, model, ts)
<1>1. /\ \A k \in D : w[k] \in Nat
      /\ (\A k \in D : w[k] = 0) <=> Vanished(s, model, ts)
  BY WeightsAreNumbers
<1>2. IsFiniteSet(D) BY ChannelsOf
<1> HIDE DEF D, w
<1>3. /\ SumOver(D, w) \in Nat
      /\ \A k \in D : w[k] <= SumOver(D, w)
      /\ (\A k \in D : w[k] = 0) => SumOver(D, w) = 0
  BY <1>1, <1>2, SumOfNaturals
<1>4. SumOver(D, w) <= 0 <=> \A k \in D : w[k] = 0 BY <1>1, <1>3
<1> QED BY <1>1, <1>4 DEF D, w

LEMMA CreditIsGivenOnce ==
  ASSUME NEW s \in Seq(Touches), s # <<>>, NEW ts \in 0..MaxTouchTs, NEW model \in Models
  PROVE  /\ \A c \in DOMAIN attribute(s, model, ts) : Credited(s, model, ts) = attribute(s, model, ts)[c][2]
         /\ DOMAIN attribute(s, model, ts) = {} <=> Vanished(s, model, ts)
<1> DEFINE D == 1..Len(s)
           w == weightsFor(s, model, ts)
           C == {s[k].channel : k \in D}
           key == [k \in D |-> s[k].channel]
           at == [c \in C |-> TouchesOf(s, c)]
           g == [c \in C |-> SumOver(TouchesOf(s, c), w)]
           credit == attribute(s, model, ts)
<1>1. DOMAIN w = D /\ \A k \in D : w[k] \in Int BY WeightsAreNumbers
<1>2. IsFiniteSet(D) /\ IsFiniteSet(C) BY ChannelsOf
<1>3. \A k \in D : key[k] \in C OBVIOUS
<1>4. \A c \in C : \A k : k \in at[c] <=> k \in D /\ key[k] = c BY DEF TouchesOf
<1>5. \A c \in C : g[c] = SumOver(at[c], w) OBVIOUS
<1>6. credit = IF SumOver(D, w) <= 0 THEN <<>>
               ELSE [c \in C |-> <<SumOver(TouchesOf(s, c), w), SumOver(D, w)>>]
  BY CreditOf
<1>7. SumOver(D, w) <= 0 <=> Vanished(s, model, ts) BY SomeCredit
<1>8. g = [c \in C |-> g[c]] OBVIOUS
<1>9. C # {}
  <2>1. 1 \in D OBVIOUS
  <2> QED BY <2>1
<1>10. ASSUME SumOver(D, w) <= 0 PROVE DOMAIN credit = {}
  <2>1. credit = <<>> BY Zenon, <1>6, <1>10
  <2> HIDE DEF credit
  <2> QED BY <2>1
<1>11. ASSUME ~(SumOver(D, w) <= 0)
       PROVE  DOMAIN credit = C /\ \A c \in C : Credited(s, model, ts) = credit[c][2]
  <2>1. credit = [c \in C |-> <<SumOver(TouchesOf(s, c), w), SumOver(D, w)>>] BY Zenon, <1>6, <1>11
  <2>2. DOMAIN credit = C /\ \A c \in C : credit[c] = <<g[c], SumOver(D, w)>>
    <3> HIDE DEF C, D, w, credit
    <3> QED BY <2>1
  <2>3. Credited(s, model, ts) = SumOver(C, [c \in C |-> credit[c][1]]) BY <2>2 DEF Credited, TotalOf
  <2> HIDE DEF D, w, C, key, at, g, credit
  <2>4. SumOver(C, g) = SumOver(D, w) BY <1>1, <1>2, <1>3, <1>4, <1>5, SumOfGroups
  <2>5. [c \in C |-> credit[c][1]] = g BY <1>8, <2>2
  <2> QED BY <2>2, <2>3, <2>4, <2>5
<1> HIDE DEF D, w, C, credit
<1>12. \A c \in DOMAIN credit : Credited(s, model, ts) = credit[c][2] BY <1>10, <1>11
<1>13. DOMAIN credit = {} <=> Vanished(s, model, ts) BY <1>7, <1>9, <1>10, <1>11
<1> QED BY <1>12, <1>13 DEF credit

\* The linear and the decaying weight of a touch do not depend on its place.
LEMMA WeightsReversed ==
  ASSUME NEW s \in Seq(Touches), s # <<>>, NEW ts \in 0..MaxTouchTs, NEW model \in {"linear", "time_decay"}
  PROVE  \A k \in 1..Len(s) :
           weightsFor(Reverse(s), model, ts)[Len(s) - k + 1] = weightsFor(s, model, ts)[k]
<1> DEFINE n == Len(s)
           r == Reverse(s)
<1>1. /\ r \in Seq(Touches) /\ Len(r) = n
      /\ \A k \in 1..n : n - k + 1 \in 1..n /\ r[n - k + 1] = s[k]
  BY Backwards
<1>2. DOMAIN s = 1..n /\ DOMAIN r = 1..n BY <1>1
<1> HIDE DEF n, r
<1>3. CASE model = "linear"
  <2>1. \A k \in 1..n : weightsFor(r, model, ts)[k] = 1 /\ weightsFor(s, model, ts)[k] = 1
    BY <1>2, <1>3 DEF weightsFor
  <2>2. \A k \in 1..n : weightsFor(r, model, ts)[n - k + 1] = weightsFor(s, model, ts)[k] BY <1>1, <2>1
  <2> QED BY <2>2 DEF n, r
<1>4. CASE model = "time_decay"
  <2>1. weightsFor(r, model, ts) = timeDecayWeights(r, ts) /\ weightsFor(s, model, ts) = timeDecayWeights(s, ts)
    BY <1>4 DEF weightsFor
  <2> DEFINE u == timeDecayWeights(r, ts)
             w == timeDecayWeights(s, ts)
             power(t) == decay(Max({0, ts - t.ts}))
  <2>2. u = [k \in 1..n |-> power(r[k])] BY <1>1, DecayOfTouches
  <2>3. w = [k \in 1..n |-> power(s[k])] BY DecayOfTouches DEF n
  <2> HIDE DEF u, w, power
  <2>4. \A k \in 1..n : u[n - k + 1] = w[k] BY <1>1, <2>2, <2>3
  <2> QED BY <2>1, <2>4 DEF n, r, u, w
<1> QED BY <1>3, <1>4

LEMMA CreditReversed ==
  ASSUME NEW s \in Seq(Touches), s # <<>>, NEW ts \in 0..MaxTouchTs, NEW model \in {"linear", "time_decay"}
  PROVE  attribute(Reverse(s), model, ts) = attribute(s, model, ts)
<1> DEFINE n == Len(s)
           r == Reverse(s)
           u == weightsFor(r, model, ts)
           w == weightsFor(s, model, ts)
           f == [k \in 1..n |-> n - k + 1]
           C == {s[k].channel : k \in 1..n}
           B == {r[k].channel : k \in 1..n}
<1>1. /\ r \in Seq(Touches) /\ Len(r) = n /\ r # <<>>
      /\ \A k \in 1..n : n - k + 1 \in 1..n /\ r[n - k + 1] = s[k]
      /\ \A k \in 1..n : r[k] = s[n - k + 1]
  BY Backwards
<1>2. n \in Nat /\ model \in Models BY DEF Models
<1>3. \A k \in 1..n : u[f[k]] = w[k] BY WeightsReversed
<1>0. f = [k \in 1..n |-> f[k]] OBVIOUS
<1>4. \A k \in 1..n : w[k] \in Int BY <1>2, WeightsAreNumbers
<1>5. IsFiniteSet(1..n) BY ChannelsOf
<1>6. \A k \in 1..n : f[k] \in 1..n /\ f[f[k]] = k BY <1>1, <1>2
<1>7. \A j, k \in 1..n : f[j] = f[k] => j = k BY <1>6
<1>8. \A k \in 1..n : r[f[k]] = s[k] BY <1>1
<1>9. attribute(s, model, ts) =
        IF SumOver(1..n, w) <= 0 THEN <<>>
        ELSE [c \in C |-> <<SumOver(TouchesOf(s, c), w), SumOver(1..n, w)>>]
  BY <1>2, CreditOf
<1>10. attribute(r, model, ts) =
         IF SumOver(1..n, u) <= 0 THEN <<>>
         ELSE [c \in B |-> <<SumOver(TouchesOf(r, c), u), SumOver(1..n, u)>>]
  <2>1. attribute(r, model, ts) =
          IF SumOver(1..Len(r), u) <= 0 THEN <<>>
          ELSE [c \in {r[k].channel : k \in 1..Len(r)} |-> <<SumOver(TouchesOf(r, c), u), SumOver(1..Len(r), u)>>]
    <3>1. r \in Seq(Touches) /\ r # <<>> /\ model \in Models BY <1>1, <1>2
    <3> HIDE DEF r
    <3> QED BY <3>1, CreditOf
  <2>2. Len(r) = n BY <1>1
  <2> HIDE DEF r, n, u
  <2> QED BY Zenon, <2>1, <2>2
<1> HIDE DEF n, r, u, w, f
<1>11. B = C
  <2>1. \A k \in 1..n : r[k].channel = s[f[k]].channel /\ s[k].channel = r[f[k]].channel BY <1>6, <1>8
  <2> QED BY <1>6, <2>1
<1>12. SumOver(1..n, u) = SumOver(1..n, w)
  <2> DEFINE D == 1..n
  <2>1. f \in Surjection(D, D) BY <1>6, <1>0 DEF Surjection
  <2> HIDE DEF D
  <2>2. \A j, k \in D : f[j] = f[k] => j = k BY <1>7 DEF D
  <2>3. IsFiniteSet(D) /\ \A k \in D : w[k] \in Int BY <1>4, <1>5 DEF D
  <2>4. \A k \in D : u[f[k]] = w[k] BY <1>3 DEF D
  <2>5. SumOver(D, u) = SumOver(D, w) BY <2>1, <2>2, <2>3, <2>4, SumRenamed
  <2> QED BY <2>5 DEF D
<1>13. ASSUME NEW c \in C PROVE SumOver(TouchesOf(r, c), u) = SumOver(TouchesOf(s, c), w)
  <2> DEFINE K == TouchesOf(s, c)
             L == TouchesOf(r, c)
  <2>1. K \in SUBSET (1..n) BY DEF TouchesOf, n
  <2> DEFINE h == [k \in K |-> f[k]]
  <2>2. h \in Surjection(K, L)
    <3>1. \A k : k \in K <=> k \in 1..n /\ s[k].channel = c BY DEF TouchesOf, n
    <3>2. \A k : k \in L <=> k \in 1..n /\ r[k].channel = c BY <1>1 DEF TouchesOf
    <3> HIDE DEF K, L
    <3>3. \A k \in K : f[k] \in L BY <1>6, <1>8, <3>1, <3>2
    <3>4. \A k \in L : f[k] \in K /\ f[f[k]] = k BY <1>6, <1>8, <3>1, <3>2
    <3> QED BY <3>3, <3>4 DEF Surjection
  <2>8. \A k \in K : h[k] = f[k] OBVIOUS
  <2> HIDE DEF K, L, h
  <2>3. IsFiniteSet(K)
    <3> DEFINE D == 1..n
    <3>1. IsFiniteSet(D) /\ K \in SUBSET D BY <1>5, <2>1
    <3> HIDE DEF D
    <3> QED BY <3>1, FS_Subset
  <2>4. \A j, k \in K : h[j] = h[k] => j = k BY <1>7, <2>1, <2>8
  <2>5. \A k \in K : w[k] \in Int BY <1>4, <2>1
  <2>6. \A k \in K : u[h[k]] = w[k] BY <1>3, <2>1, <2>8
  <2>7. SumOver(L, u) = SumOver(K, w) BY <2>2, <2>3, <2>4, <2>5, <2>6, SumRenamed
  <2> QED BY <2>7 DEF K, L
<1> DEFINE a == [c \in C |-> <<SumOver(TouchesOf(s, c), w), SumOver(1..n, w)>>]
           b == [c \in C |-> <<SumOver(TouchesOf(r, c), u), SumOver(1..n, u)>>]
<1> HIDE DEF C, B
<1>14. a = b BY <1>12, <1>13
<1>15. attribute(s, model, ts) = (IF SumOver(1..n, w) <= 0 THEN <<>> ELSE a) BY Zenon, <1>9 DEF a
<1>16. attribute(r, model, ts) = (IF SumOver(1..n, u) <= 0 THEN <<>> ELSE b) BY Zenon, <1>10, <1>11 DEF b
<1> HIDE DEF a, b
<1>17. attribute(r, model, ts) = attribute(s, model, ts) BY <1>12, <1>14, <1>15, <1>16
<1> QED BY <1>17 DEF r

LEMMA TheCreditAddsUp == ReportTypes => CreditAddsUp
<1> SUFFICES ASSUME ReportTypes, NEW ts \in 0..MaxTouchTs, NEW model \in Models, touches # <<>>
             PROVE  /\ \A c \in DOMAIN attribute(touches, model, ts) :
                         Credited(touches, model, ts) = attribute(touches, model, ts)[c][2]
                    /\ DOMAIN attribute(touches, model, ts) = {} <=>
                         model = "time_decay" /\ \A k \in DOMAIN touches : ts - touches[k].ts > Underflow
                    /\ model \in {"linear", "time_decay"} =>
                         attribute(Reverse(touches), model, ts) = attribute(touches, model, ts)
                    /\ \A j, k \in DOMAIN touches :
                         touches[j].ts <= touches[k].ts =>
                           timeDecayWeights(touches, ts)[j] <= timeDecayWeights(touches, ts)[k]
  BY DEF CreditAddsUp
<1>1. touches \in Seq(Touches) BY DEF ReportTypes
<1>2. DOMAIN touches = 1..Len(touches) BY <1>1
<1>3. \A c \in DOMAIN attribute(touches, model, ts) :
        Credited(touches, model, ts) = attribute(touches, model, ts)[c][2]
  BY <1>1, CreditIsGivenOnce
<1>6. DOMAIN attribute(touches, model, ts) = {} <=> Vanished(touches, model, ts)
  BY <1>1, CreditIsGivenOnce
<1>4. model \in {"linear", "time_decay"} =>
        attribute(Reverse(touches), model, ts) = attribute(touches, model, ts)
  BY <1>1, CreditReversed
<1>5. \A j, k \in 1..Len(touches) :
        touches[j].ts <= touches[k].ts =>
          timeDecayWeights(touches, ts)[j] <= timeDecayWeights(touches, ts)[k]
  BY <1>1, DecayOfTouches
<1> QED BY <1>2, <1>3, <1>4, <1>5, <1>6 DEF Vanished

-----------------------------------------------------------------------------
(* The return of the channels.                                              *)

\* A fact is of spend or of revenue, and its amount is a number.
FactOK(fact) ==
  \/ fact.is = "metric" /\ fact.spend \in Int /\ fact.conversions \in Int
  \/ fact.is = "revenue" /\ fact.amount \in Int

LEMMA MappedRow ==
  ASSUME NEW r \in RawRows
  PROVE  Mapped(r) = <<>> \/ \E fact : FactOK(fact) /\ Mapped(r) = <<fact>>
<1>1. \A channel, spend, conversions :
        spend \in Int /\ conversions \in Int => FactOK(Spend(channel, spend, conversions))
  BY DEF FactOK, Spend
<1>2. \A channel, amount, isNew : amount \in Int => FactOK(Sale(channel, amount, isNew))
  BY DEF FactOK, Sale
<1>3. CASE r.provider = "ga4"
  <2>1. Mapped(r) = mapGa4Row(r) BY Zenon, <1>3 DEF Mapped
  <2>2. r.conversions \in Int BY <1>3, ReportsAssumption
  <2> QED BY <1>1, <2>1, <2>2 DEF mapGa4Row
<1>4. CASE r.provider = "google_ads"
  <2>1. Mapped(r) = mapGoogleAdsRow(r) BY Zenon, <1>4 DEF Mapped
  <2>2. r.micros \in Nat /\ r.cost \in Nat /\ r.conversions \in Nat BY <1>4, ReportsAssumption
  <2> DEFINE spend == IF r.micros > 0 THEN r.micros ELSE r.cost
  <2>3. spend \in Int /\ r.conversions \in Int BY <2>2
  <2> DEFINE channel == CASE r.network \in {"DISPLAY", "DISCOVERY"} -> "display" [] r.network = "VIDEO" -> "video"
                          [] r.network = "DEMAND_GEN" -> "paid_social" [] OTHER -> "paid_search"
  <2>4. Mapped(r) = <<Spend(channel, spend, r.conversions)>> BY Zenon, <2>1 DEF mapGoogleAdsRow
  <2> HIDE DEF spend, channel
  <2> QED BY <1>1, <2>3, <2>4
<1>5. CASE r.provider = "meta"
  <2>1. Mapped(r) = mapMetaRow(r) BY Zenon, <1>5 DEF Mapped
  <2>2. r.cost \in Int /\ r.conversions \in Int BY <1>5, ReportsAssumption
  <2> QED BY <1>1, <2>1, <2>2 DEF mapMetaRow
<1>6. CASE r.provider \in {"stripe", "shopify", "hubspot"}
  <2>1. r.amount \in Int BY <1>6, ReportsAssumption
  <2>2. CASE r.provider = "stripe"
    <3>1. Mapped(r) = mapStripeCharge(r) BY Zenon, <2>2 DEF Mapped
    <3>2. Cent * r.amount \in Int BY <2>1 DEF Cent
    <3> QED BY <1>2, <3>1, <3>2 DEF mapStripeCharge
  <2>3. CASE r.provider = "shopify"
    <3>1. Mapped(r) = mapShopifyOrder(r) BY Zenon, <2>3 DEF Mapped
    <3> QED BY <1>2, <2>1, <3>1 DEF mapShopifyOrder
  <2>4. CASE r.provider = "hubspot"
    <3>1. Mapped(r) = mapHubspotDeal(r) BY Zenon, <2>4 DEF Mapped
    <3> QED BY <1>2, <2>1, <3>1 DEF mapHubspotDeal
  <2> QED BY <1>6, <2>2, <2>3, <2>4
<1> QED BY <1>3, <1>4, <1>5, <1>6, ReportsAssumption

\* The facts of all rows are facts.
AllFacts == {Mapped(r)[1] : r \in {q \in RawRows : Mapped(q) # <<>>}}

LEMMA FactsOfRows ==
  ASSUME NEW rows \in Seq(RawRows)
  PROVE  /\ FoldLeft(LAMBDA facts, r : facts \o Mapped(r), <<>>, rows) \in Seq(AllFacts)
         /\ \A fact \in AllFacts : FactOK(fact)
<1> DEFINE n == Len(rows)
           V == Seq(AllFacts)
           step == [x \in (1..n) \X V |-> x[2] \o Mapped(rows[x[1]])]
<1>1. n \in Nat /\ DOMAIN rows = 1..n /\ \A k \in 1..n : rows[k] \in RawRows OBVIOUS
<1>2. \A r \in RawRows : Mapped(r) \in V
  <2> SUFFICES ASSUME NEW r \in RawRows PROVE Mapped(r) \in V
    OBVIOUS
  <2>1. CASE Mapped(r) = <<>> BY <2>1
  <2>2. CASE Mapped(r) # <<>>
    <3>1. PICK fact : Mapped(r) = <<fact>> BY <2>2, MappedRow
    <3>2. fact \in AllFacts BY <2>2, <3>1 DEF AllFacts
    <3> QED BY <3>1, <3>2
  <2> QED BY <2>1, <2>2
<1>3. \A fact \in AllFacts : FactOK(fact)
  <2> SUFFICES ASSUME NEW r \in RawRows, Mapped(r) # <<>> PROVE FactOK(Mapped(r)[1])
    BY DEF AllFacts
  <2>1. PICK fact : FactOK(fact) /\ Mapped(r) = <<fact>> BY MappedRow
  <2>2. Mapped(r)[1] = fact BY <2>1
  <2> QED BY <2>1, <2>2
<1>4. step \in [(1..n) \X V -> V]
  <2>1. \A x \in (1..n) \X V : x[2] \in V /\ Mapped(rows[x[1]]) \in V BY <1>1, <1>2
  <2>2. \A s, t \in V : s \o t \in V OBVIOUS
  <2> QED BY <2>1, <2>2
<1>5. PICK h \in [SUBSET (1..n) -> V] : IsListFold(h, n, <<>>, step)
  <2>1. <<>> \in V OBVIOUS
  <2> HIDE DEF step, V, n
  <2> QED BY Zenon, <1>1, <1>4, <2>1, FoldingList
<1>6. h = [T \in SUBSET (1..n) |-> IF T = {} THEN <<>> ELSE h[T \ {Max(T)}] \o Mapped(rows[Max(T)])]
  <2>1. ASSUME NEW T \in SUBSET (1..n), T # {}
        PROVE  step[<<Max(T), h[T \ {Max(T)}]>>] = h[T \ {Max(T)}] \o Mapped(rows[Max(T)])
    <3>1. Max(T) \in 1..n BY <1>1, <2>1, GreatestOf
    <3>2. h[T \ {Max(T)}] \in V BY <1>5
    <3> HIDE DEF V, n
    <3> QED BY <3>1, <3>2
  <2> DEFINE e(T) == IF T = {} THEN <<>> ELSE step[<<Max(T), h[T \ {Max(T)}]>>]
             f(T) == IF T = {} THEN <<>> ELSE h[T \ {Max(T)}] \o Mapped(rows[Max(T)])
  <2> HIDE DEF step, n, V
  <2>2. \A T \in SUBSET (1..n) : e(T) = f(T) BY <2>1
  <2>3. h = [T \in SUBSET (1..n) |-> e(T)] BY <1>5 DEF IsListFold
  <2> HIDE DEF e, f
  <2>4. h = [T \in SUBSET (1..n) |-> f(T)] BY <2>2, <2>3
  <2> QED BY <2>4 DEF f
<1> HIDE DEF step
<1> DEFINE iter == CHOOSE g :
             g = [T \in SUBSET (1..n) |-> IF T = {} THEN <<>> ELSE g[T \ {Max(T)}] \o Mapped(rows[Max(T)])]
<1>7. iter = [T \in SUBSET (1..n) |-> IF T = {} THEN <<>> ELSE iter[T \ {Max(T)}] \o Mapped(rows[Max(T)])]
  BY <1>6
<1> DEFINE whole == FoldLeft(LAMBDA facts, r : facts \o Mapped(r), <<>>, rows)
<1>8. whole = iter[1..n]
  <2>1. DOMAIN rows = 1..n BY <1>1
  <2> HIDE DEF n
  <2> QED BY Zenon, <2>1 DEF FoldLeft, MapThenFoldSet
<1> HIDE DEF iter, V, n, whole
<1> DEFINE N == {k \in Nat : k <= n => iter[1..k] \in V}
<1>9. 0 \in N
  <2>1. 1..0 = {} OBVIOUS
  <2>2. iter[{}] = <<>> BY <1>7
  <2>3. <<>> \in V BY DEF V
  <2> QED BY <2>1, <2>2, <2>3
<1>10. ASSUME NEW k \in Nat, k \in N PROVE k + 1 \in N
  <2>0. k <= n => iter[1..k] \in V BY <1>10
  <2>1. ASSUME k + 1 <= n PROVE iter[1..(k + 1)] \in V
    <3>1. k + 1 \in 1..n /\ k + 1 \in Nat \ {0} /\ iter[1..k] \in V BY <1>1, <2>0, <2>1
    <3>2. 1..(k + 1) \in SUBSET (1..n) /\ 1..(k + 1) # {}
      <4>1. k + 1 <= n /\ n \in Int BY <1>1, <2>1
      <4>2. \A i \in 1..(k + 1) : i \in 1..n BY <4>1
      <4>3. k + 1 \in 1..(k + 1) OBVIOUS
      <4> QED BY <4>2, <4>3
    <3>3. Max(1..(k + 1)) = k + 1 /\ (1..(k + 1)) \ {k + 1} = 1..k BY <3>1, Greatest
    <3>4. iter[1..(k + 1)] = iter[1..k] \o Mapped(rows[k + 1]) BY <1>7, <3>2, <3>3
    <3>5. Mapped(rows[k + 1]) \in V BY <1>1, <1>2, <3>1
    <3>6. \A s, t \in V : s \o t \in V BY DEF V
    <3> QED BY <3>1, <3>4, <3>5, <3>6
  <2> QED BY <2>1
<1> HIDE DEF N
<1>11. Nat \subseteq N BY <1>9, <1>10, AllNumbers
<1>12. iter[1..n] \in V BY <1>1, <1>11 DEF N
<1> QED BY <1>3, <1>8, <1>12 DEF V, whole

\* A source or a medium that was resolved stays as it is.
LEMMA ResolvedOnce ==
  \A s, m : /\ resolveSource(resolveSource(s)) = resolveSource(s)
            /\ resolveMedium(resolveMedium(m)) = resolveMedium(m)
<1>1. ASSUME NEW s PROVE resolveSource(resolveSource(s)) = resolveSource(s)
  <2>1. /\ resolveSource("facebook") = "facebook" /\ resolveSource("google") = "google"
        /\ resolveSource("twitter") = "twitter"
    BY DEF resolveSource
  <2>2. resolveSource(s) \in {"facebook", "google", "twitter"} \/ resolveSource(s) = s
    BY DEF resolveSource
  <2> QED BY <2>1, <2>2
<1>2. ASSUME NEW m PROVE resolveMedium(resolveMedium(m)) = resolveMedium(m)
  <2>1. /\ resolveMedium("cpc") = "cpc" /\ resolveMedium("paid_social") = "paid_social"
        /\ resolveMedium("social") = "social" /\ resolveMedium("email") = "email"
        /\ resolveMedium("display") = "display" /\ resolveMedium("affiliate") = "affiliate"
    BY DEF resolveMedium
  <2>2. resolveMedium(m) \in {"cpc", "paid_social", "social", "email", "display", "affiliate"} \/ resolveMedium(m) = m
    BY DEF resolveMedium
  <2> QED BY <2>1, <2>2
<1> QED BY <1>1, <1>2

LEMMA OneChannel == \A s, m : channelKey(s, m) = classifyChannel(s, m)
<1> SUFFICES ASSUME NEW s, NEW m PROVE channelKey(s, m) = classifyChannel(s, m)
  OBVIOUS
<1>1. resolveSource(resolveSource(s)) = resolveSource(s) /\ resolveMedium(resolveMedium(m)) = resolveMedium(m)
  BY ResolvedOnce
<1> QED BY Zenon, <1>1 DEF channelKey, classifyChannel

\* The sales and the costs among facts, and those of a channel.
SalesIn(facts) == {k \in DOMAIN facts : facts[k].is = "revenue"}
CostsIn(facts) == {k \in DOMAIN facts : facts[k].is = "metric"}
SalesOf(facts, c) == {k \in DOMAIN facts : facts[k].is = "revenue" /\ facts[k].channel = c}
CostsOf(facts, c) == {k \in DOMAIN facts : facts[k].is = "metric" /\ facts[k].channel = c}

\* Every key belongs to one of the groups, which hold no other.
Grouped(K, C, key, at) ==
  /\ \A k \in K : key[k] \in C
  /\ \A c \in C : \A k : k \in at[c] <=> k \in K /\ key[k] = c
PartOf(v, T) == TotalOf([k \in T |-> v[k]])

\* What one of the two kinds of facts brings to a channel is in the sum over all channels.
LEMMA SumOverChannels ==
  ASSUME NEW K, IsFiniteSet(K), NEW C, IsFiniteSet(C), NEW key, NEW at, Grouped(K, C, key, at),
         NEW v, \A k \in K : v[k] \in Int,
         NEW g, \A c \in C : g[c] = PartOf(v, at[c])
  PROVE  SumOver(C, g) = PartOf(v, K) /\ \A c \in C : g[c] \in Int
<1> USE DEF Grouped
<1>1. ASSUME NEW T \in SUBSET K
      PROVE  PartOf(v, T) = SumOver(T, v) /\ SumOver(T, v) \in Int
  <2> DEFINE u == [k \in T |-> v[k]]
  <2>1. IsFiniteSet(T) BY FS_Subset
  <2>2. DOMAIN u = T /\ \A k \in T : v[k] \in Int /\ v[k] = u[k] OBVIOUS
  <2> HIDE DEF u
  <2>3. SumOver(T, v) = SumOver(T, u) BY <2>1, <2>2, SameSum
  <2>4. SumOver(T, v) \in Int BY <2>1, <2>2, SumByKey
  <2>5. TotalOf(u) = SumOver(T, v) BY <2>2, <2>3 DEF TotalOf
  <2>6. PartOf(v, T) = TotalOf(u) BY Zenon DEF PartOf, u
  <2> QED BY <2>4, <2>5, <2>6
<1>2. ASSUME NEW c \in C PROVE g[c] = SumOver(at[c], v) /\ g[c] \in Int
  <2>1. at[c] \in SUBSET K OBVIOUS
  <2>2. g[c] = PartOf(v, at[c]) OBVIOUS
  <2> QED BY <1>1, <2>1, <2>2
<1>5. \A c \in C : g[c] = SumOver(at[c], v) BY <1>2
<1>6. SumOver(C, g) = SumOver(K, v) BY <1>5, SumOfGroups
<1>7. K \in SUBSET K OBVIOUS
<1>8. PartOf(v, K) = SumOver(K, v) BY <1>1, <1>7
<1> QED BY <1>2, <1>6, <1>8

\* The figures of each channel.
LEMMA FiguresOf ==
  ASSUME NEW facts
  PROVE  LET channels == summarizeChannelRoi(facts, 100)
             C == {facts[k].channel : k \in DOMAIN facts}
         IN /\ DOMAIN channels = C
            /\ \A c \in C :
                 LET sold == TotalOf([k \in SalesOf(facts, c) |-> facts[k].amount])
                     spent == TotalOf([k \in CostsOf(facts, c) |-> facts[k].spend])
                 IN /\ channels[c].revenue = round(sold) /\ channels[c].spend = round(spent)
                    /\ channels[c].profit = round(sold - spent)
                    /\ channels[c].conversions = TotalOf([k \in CostsOf(facts, c) |-> facts[k].conversions])
                    /\ channels[c].newCustomers = TotalOf([k \in SalesOf(facts, c) |-> IF facts[k].isNew THEN 1 ELSE 0])
<1> DEFINE channels == summarizeChannelRoi(facts, 100)
           C == {facts[k].channel : k \in DOMAIN facts}
           figures(c) == channelRoi(acc(facts, c), 100)
           sold(c) == TotalOf([k \in SalesOf(facts, c) |-> facts[k].amount])
           spent(c) == TotalOf([k \in CostsOf(facts, c) |-> facts[k].spend])
           converted(c) == TotalOf([k \in CostsOf(facts, c) |-> facts[k].conversions])
           won(c) == TotalOf([k \in SalesOf(facts, c) |-> IF facts[k].isNew THEN 1 ELSE 0])
<1>1. channels = [c \in C |-> figures(c)] BY Zenon DEF summarizeChannelRoi
<1>2. ASSUME NEW c
      PROVE  /\ acc(facts, c).revenue = sold(c) /\ acc(facts, c).spend = spent(c)
             /\ acc(facts, c).conversions = converted(c) /\ acc(facts, c).newCustomers = won(c)
  <2>1. acc(facts, c) = [spend |-> spent(c), conversions |-> converted(c), revenue |-> sold(c), newCustomers |-> won(c)]
    BY Zenon DEF acc, SalesOf, CostsOf
  <2> HIDE DEF sold, spent, converted, won
  <2> QED BY <2>1
<1>3. ASSUME NEW a
      PROVE  /\ channelRoi(a, 100).revenue = round(a.revenue) /\ channelRoi(a, 100).spend = round(a.spend)
             /\ channelRoi(a, 100).profit = round(a.revenue - a.spend)
             /\ channelRoi(a, 100).conversions = a.conversions /\ channelRoi(a, 100).newCustomers = a.newCustomers
  BY DEF channelRoi
<1> HIDE DEF channels, C, figures, sold, spent, converted, won
<1>4. DOMAIN channels = C /\ \A c \in C : channels[c] = figures(c) BY <1>1
<1>5. ASSUME NEW c \in C
      PROVE  /\ channels[c].revenue = round(sold(c)) /\ channels[c].spend = round(spent(c))
             /\ channels[c].profit = round(sold(c) - spent(c))
             /\ channels[c].conversions = converted(c) /\ channels[c].newCustomers = won(c)
  <2> DEFINE a == acc(facts, c)
             f == channelRoi(a, 100)
  <2>1. channels[c] = f BY <1>4 DEF figures
  <2>2. /\ f.revenue = round(a.revenue) /\ f.spend = round(a.spend) /\ f.profit = round(a.revenue - a.spend)
        /\ f.conversions = a.conversions /\ f.newCustomers = a.newCustomers
    BY Zenon, <1>3
  <2>3. a.revenue = sold(c) /\ a.spend = spent(c) /\ a.conversions = converted(c) /\ a.newCustomers = won(c)
    BY Zenon, <1>2
  <2> HIDE DEF a, f
  <2> QED BY <2>1, <2>2, <2>3
<1> QED BY Zenon, <1>4, <1>5 DEF channels, C, sold, spent, converted, won

LEMMA TheTotals ==
  ASSUME NEW channels
  PROVE  /\ totals(channels).revenue = TotalOf([c \in DOMAIN channels |-> channels[c].revenue])
         /\ totals(channels).spend = TotalOf([c \in DOMAIN channels |-> channels[c].spend])
         /\ totals(channels).profit = TotalOf([c \in DOMAIN channels |-> channels[c].profit])
         /\ totals(channels).conversions = TotalOf([c \in DOMAIN channels |-> channels[c].conversions])
         /\ totals(channels).newCustomers = TotalOf([c \in DOMAIN channels |-> channels[c].newCustomers])
BY DEF totals

\* Half a cent is the most that rounding takes or adds, and nothing of whole cents.
LEMMA RoundedAmounts ==
  /\ \A x \in Int : /\ round(x) \in Int
                    /\ x - 5000 <= Cent * round(x) /\ Cent * round(x) <= x + 5000
  /\ \A q \in Int : round(Cent * q) = q
  /\ \A x, y \in Int : /\ (round(x) - round(y)) - 1 <= 1 * round(x - y)
                       /\ 1 * round(x - y) <= (round(x) - round(y)) + 1
  /\ Cent \in Int /\ Cent \div 2 = 5000
<1>1. \A x : round(x) = (2 * x + 10000) \div 20000 BY DEF round, RoundedDiv, Cent
<1>2. ASSUME NEW x \in Int
      PROVE  /\ round(x) \in Int
             /\ x - 5000 <= 10000 * round(x) /\ 10000 * round(x) <= x + 5000
             /\ x + 5000 < 10000 * round(x) + 10000
  BY <1>1
<1>3. ASSUME NEW q \in Int PROVE round(10000 * q) = q
  BY <1>1
<1>4. ASSUME NEW x \in Int, NEW y \in Int
      PROVE  /\ (round(x) - round(y)) - 1 <= 1 * round(x - y)
             /\ 1 * round(x - y) <= (round(x) - round(y)) + 1
  <2> DEFINE a == round(x)
             b == round(y)
             c == round(x - y)
  <2>1. x - y \in Int OBVIOUS
  <2>2. a \in Int /\ b \in Int /\ c \in Int BY <1>2, <2>1
  <2>3. /\ 10000 * a <= x + 5000 /\ x + 5000 < 10000 * a + 10000
        /\ 10000 * b <= y + 5000 /\ y + 5000 < 10000 * b + 10000
        /\ 10000 * c <= (x - y) + 5000 /\ (x - y) + 5000 < 10000 * c + 10000
    BY <1>2, <2>1
  <2> HIDE DEF a, b, c
  <2>4. (a - b) - 1 <= 1 * c /\ 1 * c <= (a - b) + 1 BY <2>2, <2>3
  <2> QED BY <2>4 DEF a, b, c
<1> QED BY <1>2, <1>3, <1>4 DEF Cent

\* Amounts of whole cents add up to whole cents.
LEMMA WholeCents ==
  ASSUME NEW T, IsFiniteSet(T), NEW v, \A k \in T : v[k] \in Int /\ v[k] % Cent = 0
  PROVE  \E q \in Int : SumOver(T, v) = Cent * q
<1> DEFINE u == [k \in T |-> v[k] \div 10000]
<1>1. \A k \in T : u[k] \in Int /\ v[k] \in Int /\ v[k] - 0 <= 10000 * u[k] /\ 10000 * u[k] <= v[k] + 0
  <2> SUFFICES ASSUME NEW k \in T
               PROVE  u[k] \in Int /\ v[k] \in Int /\ v[k] - 0 <= 10000 * u[k] /\ 10000 * u[k] <= v[k] + 0
    OBVIOUS
  <2> DEFINE x == v[k]
  <2>1. x \in Int /\ x % 10000 = 0 /\ u[k] = x \div 10000 BY DEF Cent
  <2> HIDE DEF x, u
  <2> QED BY <2>1 DEF x
<1> HIDE DEF u
<1>2. 10000 \in Int /\ 0 \in Nat OBVIOUS
<1>3. /\ SumOver(T, u) \in Int /\ SumOver(T, v) \in Int /\ Cardinality(T) \in Nat
      /\ SumOver(T, v) - Cardinality(T) * 0 <= 10000 * SumOver(T, u)
      /\ 10000 * SumOver(T, u) <= SumOver(T, v) + Cardinality(T) * 0
  <2> DEFINE m == 10000
             b == 0
  <2>1. m \in Int /\ b \in Nat BY <1>2
  <2>2. \A k \in T : u[k] \in Int /\ v[k] \in Int /\ v[k] - b <= m * u[k] /\ m * u[k] <= v[k] + b BY <1>1
  <2> HIDE DEF m, b
  <2>3. /\ SumOver(T, u) \in Int /\ SumOver(T, v) \in Int /\ Cardinality(T) \in Nat
        /\ SumOver(T, v) - Cardinality(T) * b <= m * SumOver(T, u)
        /\ m * SumOver(T, u) <= SumOver(T, v) + Cardinality(T) * b
    BY Zenon, <2>1, <2>2, SumsNear
  <2> QED BY <2>3 DEF m, b
<1>4. SumOver(T, v) = 10000 * SumOver(T, u) BY <1>3
<1> QED BY <1>3, <1>4 DEF Cent

\* What one kind of facts brings, rounded for each channel.
LEMMA RoundedOverChannels ==
  ASSUME NEW K, IsFiniteSet(K), NEW C, IsFiniteSet(C), NEW key, NEW at, Grouped(K, C, key, at),
         NEW v, \A k \in K : v[k] \in Int,
         NEW g, \A c \in C : g[c] = PartOf(v, at[c]),
         NEW h, \A c \in C : h[c] = round(g[c])
  PROVE  /\ PartOf(v, K) \in Int /\ SumOver(C, h) \in Int /\ Cardinality(C) \in Nat
         /\ \A c \in C : g[c] \in Int /\ h[c] \in Int
         /\ Near(PartOf(v, K), Cent * SumOver(C, h), Cardinality(C) * (Cent \div 2))
         /\ (\A k \in K : v[k] % Cent = 0) => /\ \A c \in C : g[c] = Cent * h[c]
                                              /\ Cent * SumOver(C, h) = PartOf(v, K)
<1>1. SumOver(C, g) = PartOf(v, K) /\ \A c \in C : g[c] \in Int
  BY SumOverChannels
<1> DEFINE m == 10000
           b == 5000
           z == 0
<1>2. m \in Int /\ b \in Nat /\ z \in Nat OBVIOUS
<1>3. \A c \in C : h[c] \in Int /\ g[c] \in Int /\ g[c] - b <= m * h[c] /\ m * h[c] <= g[c] + b
  <2> SUFFICES ASSUME NEW c \in C
               PROVE  h[c] \in Int /\ g[c] \in Int /\ g[c] - b <= m * h[c] /\ m * h[c] <= g[c] + b
    OBVIOUS
  <2> DEFINE x == g[c]
  <2>1. x \in Int /\ h[c] = round(x) BY <1>1
  <2> HIDE DEF x
  <2>2. round(x) \in Int /\ x - 5000 <= 10000 * round(x) /\ 10000 * round(x) <= x + 5000
    BY <2>1, RoundedAmounts DEF Cent
  <2> QED BY <2>1, <2>2 DEF x
<1>4. ASSUME \A k \in K : v[k] % Cent = 0
      PROVE  \A c \in C : h[c] \in Int /\ g[c] \in Int /\ g[c] - z <= m * h[c] /\ m * h[c] <= g[c] + z
  <2> SUFFICES ASSUME NEW c \in C
               PROVE  h[c] \in Int /\ g[c] \in Int /\ g[c] - z <= m * h[c] /\ m * h[c] <= g[c] + z
    OBVIOUS
  <2>1. at[c] \in SUBSET K BY DEF Grouped
  <2>2. IsFiniteSet(at[c]) BY <2>1, FS_Subset
  <2>3. \A k \in at[c] : v[k] \in Int /\ v[k] % Cent = 0 BY <1>4, <2>1
  <2>4. PICK q \in Int : SumOver(at[c], v) = Cent * q BY <2>2, <2>3, WholeCents
  <2>5. g[c] = SumOver(at[c], v)
    <3> DEFINE T == at[c]
               u == [k \in T |-> v[k]]
    <3>1. DOMAIN u = T /\ \A k \in T : u[k] = v[k] /\ v[k] \in Int BY <2>3
    <3>2. PartOf(v, T) = TotalOf(u) BY Zenon DEF PartOf
    <3>3. g[c] = PartOf(v, T) /\ IsFiniteSet(T) BY <2>2
    <3> HIDE DEF T, u
    <3>4. SumOver(T, u) = SumOver(T, v) BY <3>1, <3>3, SameSum
    <3>5. g[c] = SumOver(T, v) BY <3>1, <3>2, <3>3, <3>4 DEF TotalOf
    <3> QED BY <3>5 DEF T
  <2>6. h[c] = round(g[c]) OBVIOUS
  <2>7. h[c] = q BY <2>4, <2>5, <2>6, RoundedAmounts
  <2>8. g[c] = 10000 * q BY <2>4, <2>5 DEF Cent
  <2> QED BY <2>7, <2>8
<1> HIDE DEF m, b, z
<1>5. /\ SumOver(C, h) \in Int /\ SumOver(C, g) \in Int /\ Cardinality(C) \in Nat
      /\ SumOver(C, g) - Cardinality(C) * b <= m * SumOver(C, h)
      /\ m * SumOver(C, h) <= SumOver(C, g) + Cardinality(C) * b
  BY Zenon, <1>2, <1>3, SumsNear
<1>6. Near(PartOf(v, K), Cent * SumOver(C, h), Cardinality(C) * (Cent \div 2))
  <2>1. Cent = m /\ Cent \div 2 = b BY RoundedAmounts DEF Cent, m, b
  <2> QED BY Zenon, <1>1, <1>5, <2>1 DEF Near
<1>7. ASSUME \A k \in K : v[k] % Cent = 0
      PROVE  /\ \A c \in C : g[c] = Cent * h[c]
             /\ Cent * SumOver(C, h) = PartOf(v, K)
  <2>1. \A c \in C : h[c] \in Int /\ g[c] \in Int /\ g[c] - z <= m * h[c] /\ m * h[c] <= g[c] + z BY <1>4, <1>7
  <2>2. /\ SumOver(C, h) \in Int /\ SumOver(C, g) \in Int /\ Cardinality(C) \in Nat
        /\ SumOver(C, g) - Cardinality(C) * z <= m * SumOver(C, h)
        /\ m * SumOver(C, h) <= SumOver(C, g) + Cardinality(C) * z
    BY Zenon, <1>2, <2>1, SumsNear
  <2>3. \A c \in C : g[c] = 10000 * h[c] BY <2>1 DEF m, z
  <2>4. 10000 * SumOver(C, h) = SumOver(C, g) BY <2>2 DEF m, z
  <2> QED BY <1>1, <2>3, <2>4 DEF Cent
<1>8. PartOf(v, K) \in Int BY Zenon, <1>1, <1>5
<1> QED BY Zenon, <1>1, <1>3, <1>5, <1>6, <1>7, <1>8

LEMMA RoiOfFacts ==
  ASSUME NEW facts \in Seq(AllFacts), \A fact \in AllFacts : FactOK(fact)
  PROVE  RoiOf(facts, summarizeChannelRoi(facts, 100))
<1> DEFINE channels == summarizeChannelRoi(facts, 100)
           D == 1..Len(facts)
           C == {facts[k].channel : k \in D}
           key == [k \in D |-> facts[k].channel]
           amount == [k \in D |-> facts[k].amount]
           spent == [k \in D |-> facts[k].spend]
           converted == [k \in D |-> facts[k].conversions]
           won == [k \in D |-> IF facts[k].isNew THEN 1 ELSE 0]
           revenue == [c \in C |-> channels[c].revenue]
           spend == [c \in C |-> channels[c].spend]
           profit == [c \in C |-> channels[c].profit]
           conversions == [c \in C |-> channels[c].conversions]
           newCustomers == [c \in C |-> channels[c].newCustomers]
           sold == [c \in C |-> SalesOf(facts, c)]
           paid == [c \in C |-> CostsOf(facts, c)]
           taken == [c \in C |-> PartOf(amount, sold[c])]
           given == [c \in C |-> PartOf(spent, paid[c])]
           S == SalesIn(facts)
           P == CostsIn(facts)
<1>1. DOMAIN facts = D /\ \A k \in D : FactOK(facts[k]) OBVIOUS
<1>2. IsFiniteSet(D)
  <2>1. 1 \in Int /\ Len(facts) \in Int OBVIOUS
  <2> QED BY Zenon, <2>1, FS_Interval
<1>3. IsFiniteSet(C)
  <2> DEFINE T == {key[k] : k \in D}
  <2>1. C = T OBVIOUS
  <2> HIDE DEF D, key
  <2>2. IsFiniteSet(T) BY <1>2, FiniteImage
  <2> QED BY <2>1, <2>2
<1>6. S \in SUBSET D /\ P \in SUBSET D BY <1>1 DEF SalesIn, CostsIn
<1>7. /\ \A k \in S : amount[k] \in Int /\ won[k] \in Int
      /\ \A k \in P : spent[k] \in Int /\ converted[k] \in Int
  BY <1>1 DEF SalesIn, CostsIn, FactOK
<1>8. Grouped(S, C, key, sold) /\ Grouped(P, C, key, paid)
  <2>1. /\ \A c \in C : \A k : k \in sold[c] <=> k \in S /\ key[k] = c
        /\ \A c \in C : \A k : k \in paid[c] <=> k \in P /\ key[k] = c
    BY <1>1 DEF SalesIn, CostsIn, SalesOf, CostsOf
  <2>2. /\ \A k \in S : key[k] \in C
        /\ \A k \in P : key[k] \in C
    BY <1>6
  <2> QED BY <2>1, <2>2 DEF Grouped
<1>20. IsFiniteSet(S) /\ IsFiniteSet(P)
  <2> HIDE DEF D, S, P
  <2> QED BY <1>2, <1>6, FS_Subset
<1>9. \A T \in SUBSET D :
        /\ [k \in T |-> facts[k].amount] = [k \in T |-> amount[k]]
        /\ [k \in T |-> facts[k].spend] = [k \in T |-> spent[k]]
        /\ [k \in T |-> facts[k].conversions] = [k \in T |-> converted[k]]
        /\ [k \in T |-> IF facts[k].isNew THEN 1 ELSE 0] = [k \in T |-> won[k]]
  OBVIOUS
<1>21. \A T \in SUBSET D :
        /\ TotalOf([k \in T |-> facts[k].amount]) = PartOf(amount, T)
        /\ TotalOf([k \in T |-> facts[k].spend]) = PartOf(spent, T)
        /\ TotalOf([k \in T |-> facts[k].conversions]) = PartOf(converted, T)
        /\ TotalOf([k \in T |-> IF facts[k].isNew THEN 1 ELSE 0]) = PartOf(won, T)
  BY Zenon, <1>9 DEF PartOf
<1>10. \A c \in C : SalesOf(facts, c) \in SUBSET D /\ CostsOf(facts, c) \in SUBSET D
  BY <1>1 DEF SalesOf, CostsOf
<1>11. \A c \in C :
        /\ revenue[c] = channels[c].revenue /\ spend[c] = channels[c].spend /\ profit[c] = channels[c].profit
        /\ conversions[c] = channels[c].conversions /\ newCustomers[c] = channels[c].newCustomers
        /\ sold[c] = SalesOf(facts, c) /\ paid[c] = CostsOf(facts, c)
        /\ taken[c] = PartOf(amount, sold[c]) /\ given[c] = PartOf(spent, paid[c])
  OBVIOUS
<1>4. DOMAIN channels = C /\
      \A c \in C :
        LET all == TotalOf([k \in SalesOf(facts, c) |-> facts[k].amount])
            costs == TotalOf([k \in CostsOf(facts, c) |-> facts[k].spend])
        IN /\ channels[c].revenue = round(all) /\ channels[c].spend = round(costs)
           /\ channels[c].profit = round(all - costs)
           /\ channels[c].conversions = TotalOf([k \in CostsOf(facts, c) |-> facts[k].conversions])
           /\ channels[c].newCustomers = TotalOf([k \in SalesOf(facts, c) |-> IF facts[k].isNew THEN 1 ELSE 0])
  <2> HIDE DEF channels
  <2> QED BY Zenon, <1>1, FiguresOf DEF channels
<1>12. /\ totals(channels).revenue = SumOver(C, revenue)
       /\ totals(channels).spend = SumOver(C, spend)
       /\ totals(channels).profit = SumOver(C, profit)
       /\ totals(channels).conversions = SumOver(C, conversions)
       /\ totals(channels).newCustomers = SumOver(C, newCustomers)
  <2>1. /\ DOMAIN revenue = C /\ DOMAIN spend = C /\ DOMAIN profit = C
        /\ DOMAIN conversions = C /\ DOMAIN newCustomers = C
    OBVIOUS
  <2>2. /\ totals(channels).revenue = TotalOf(revenue) /\ totals(channels).spend = TotalOf(spend)
        /\ totals(channels).profit = TotalOf(profit) /\ totals(channels).conversions = TotalOf(conversions)
        /\ totals(channels).newCustomers = TotalOf(newCustomers)
    <3> HIDE DEF channels, C
    <3> QED BY Zenon, <1>4, TheTotals
  <2> HIDE DEF revenue, spend, profit, conversions, newCustomers, C, channels
  <2> QED BY <2>1, <2>2 DEF TotalOf
<1>14. \A b \in byRoas(channels).best, w \in byRoas(channels).worst : channels[b].roas >= channels[w].roas
  <2> HIDE DEF channels
  <2> QED BY DEF byRoas
<1>13. RoiOf(facts, channels) <=>
         LET all == TotalOf([k \in S |-> facts[k].amount])
             costs == TotalOf([k \in P |-> facts[k].spend])
             n == Cardinality(DOMAIN channels)
             total == totals(channels)
         IN /\ Near(all, Cent * total.revenue, n * (Cent \div 2))
            /\ Near(costs, Cent * total.spend, n * (Cent \div 2))
            /\ Near(total.revenue - total.spend, total.profit, n)
            /\ /\ \A k \in S : facts[k].amount % Cent = 0
               /\ \A k \in P : facts[k].spend % Cent = 0
               => /\ Cent * total.revenue = all /\ Cent * total.spend = costs
                  /\ total.profit = total.revenue - total.spend
            /\ total.conversions = TotalOf([k \in P |-> facts[k].conversions])
            /\ total.newCustomers = TotalOf([k \in S |-> IF facts[k].isNew THEN 1 ELSE 0])
            /\ \A b \in byRoas(channels).best, w \in byRoas(channels).worst : channels[b].roas >= channels[w].roas
  <2> HIDE DEF channels
  <2> QED BY Zenon DEF RoiOf, SalesIn, CostsIn
<1>22. \A k \in D : amount[k] = facts[k].amount /\ spent[k] = facts[k].spend OBVIOUS
<1> HIDE DEF channels, D, C, key, amount, spent, converted, won, revenue, spend, profit, conversions, newCustomers,
             sold, paid, taken, given, S, P
<1>23. \A c \in C :
         /\ revenue[c] = round(taken[c]) /\ spend[c] = round(given[c]) /\ profit[c] = round(taken[c] - given[c])
         /\ conversions[c] = PartOf(converted, paid[c]) /\ newCustomers[c] = PartOf(won, sold[c])
  <2> SUFFICES ASSUME NEW c \in C
               PROVE  /\ revenue[c] = round(taken[c]) /\ spend[c] = round(given[c])
                      /\ profit[c] = round(taken[c] - given[c])
                      /\ conversions[c] = PartOf(converted, paid[c]) /\ newCustomers[c] = PartOf(won, sold[c])
    OBVIOUS
  <2>1. sold[c] \in SUBSET D /\ paid[c] \in SUBSET D BY Zenon, <1>10, <1>11
  <2>2. /\ TotalOf([k \in SalesOf(facts, c) |-> facts[k].amount]) = taken[c]
        /\ TotalOf([k \in CostsOf(facts, c) |-> facts[k].spend]) = given[c]
        /\ TotalOf([k \in CostsOf(facts, c) |-> facts[k].conversions]) = PartOf(converted, paid[c])
        /\ TotalOf([k \in SalesOf(facts, c) |-> IF facts[k].isNew THEN 1 ELSE 0]) = PartOf(won, sold[c])
    BY Zenon, <1>11, <1>21, <2>1
  <2> QED BY Zenon, <1>4, <1>11, <2>2
<1>15. /\ PartOf(amount, S) \in Int /\ SumOver(C, revenue) \in Int /\ Cardinality(C) \in Nat
       /\ \A c \in C : taken[c] \in Int /\ revenue[c] \in Int
       /\ Near(PartOf(amount, S), Cent * SumOver(C, revenue), Cardinality(C) * (Cent \div 2))
       /\ (\A k \in S : amount[k] % Cent = 0) => /\ \A c \in C : taken[c] = Cent * revenue[c]
                                                /\ Cent * SumOver(C, revenue) = PartOf(amount, S)
  <2>1. \A k \in S : amount[k] \in Int BY <1>7
  <2>2. \A c \in C : taken[c] = PartOf(amount, sold[c]) BY Zenon, <1>11
  <2>3. \A c \in C : revenue[c] = round(taken[c]) BY Zenon, <1>23
  <2>4. Grouped(S, C, key, sold) BY <1>8
  <2>5. IsFiniteSet(S) BY <1>20
  <2> QED BY <1>3, <2>1, <2>2, <2>3, <2>4, <2>5, RoundedOverChannels
<1>16. /\ PartOf(spent, P) \in Int /\ SumOver(C, spend) \in Int /\ Cardinality(C) \in Nat
       /\ \A c \in C : given[c] \in Int /\ spend[c] \in Int
       /\ Near(PartOf(spent, P), Cent * SumOver(C, spend), Cardinality(C) * (Cent \div 2))
       /\ (\A k \in P : spent[k] % Cent = 0) => /\ \A c \in C : given[c] = Cent * spend[c]
                                               /\ Cent * SumOver(C, spend) = PartOf(spent, P)
  <2>1. \A k \in P : spent[k] \in Int BY <1>7
  <2>2. \A c \in C : given[c] = PartOf(spent, paid[c]) BY Zenon, <1>11
  <2>3. \A c \in C : spend[c] = round(given[c]) BY Zenon, <1>23
  <2>4. Grouped(P, C, key, paid) BY <1>8
  <2>5. IsFiniteSet(P) BY <1>20
  <2> QED BY <1>3, <2>1, <2>2, <2>3, <2>4, <2>5, RoundedOverChannels
<1>24. SumOver(C, conversions) = PartOf(converted, P)
  <2>1. \A k \in P : converted[k] \in Int BY <1>7
  <2>2. \A c \in C : conversions[c] = PartOf(converted, paid[c]) BY Zenon, <1>23
  <2>3. Grouped(P, C, key, paid) BY <1>8
  <2>4. IsFiniteSet(P) BY <1>20
  <2> QED BY <1>3, <2>1, <2>2, <2>3, <2>4, SumOverChannels
<1>25. SumOver(C, newCustomers) = PartOf(won, S)
  <2>1. \A k \in S : won[k] \in Int BY <1>7
  <2>2. \A c \in C : newCustomers[c] = PartOf(won, sold[c]) BY Zenon, <1>23
  <2>3. Grouped(S, C, key, sold) BY <1>8
  <2>4. IsFiniteSet(S) BY <1>20
  <2> QED BY <1>3, <2>1, <2>2, <2>3, <2>4, SumOverChannels
<1> DEFINE rest == [c \in C |-> revenue[c] - spend[c]]
<1>26. /\ \A c \in C : rest[c] \in Int /\ spend[c] \in Int /\ rest[c] = revenue[c] - spend[c]
       /\ \A c \in C : revenue[c] = rest[c] + spend[c]
  BY <1>15, <1>16
<1> HIDE DEF rest
<1>27. SumOver(C, rest) = SumOver(C, revenue) - SumOver(C, spend) /\ SumOver(C, rest) \in Int
  <2>1. SumOver(C, revenue) = SumOver(C, rest) + SumOver(C, spend) BY <1>3, <1>26, SumAdds
  <2>2. SumOver(C, rest) \in Int /\ SumOver(C, spend) \in Int BY <1>3, <1>26, SumByKey
  <2> QED BY <2>1, <2>2
<1>28. \A c \in C : profit[c] \in Int /\ rest[c] - 1 <= 1 * profit[c] /\ 1 * profit[c] <= rest[c] + 1
  <2> SUFFICES ASSUME NEW c \in C
               PROVE  profit[c] \in Int /\ rest[c] - 1 <= 1 * profit[c] /\ 1 * profit[c] <= rest[c] + 1
    OBVIOUS
  <2> DEFINE x == taken[c]
             y == given[c]
  <2>1. x \in Int /\ y \in Int BY <1>15, <1>16
  <2>2. x - y \in Int BY <2>1
  <2>3. revenue[c] = round(x) /\ spend[c] = round(y) /\ profit[c] = round(x - y) BY Zenon, <1>23
  <2>4. rest[c] = round(x) - round(y) BY Zenon, <1>26, <2>3
  <2> HIDE DEF x, y
  <2> QED BY <2>1, <2>2, <2>3, <2>4, RoundedAmounts
<1>17. Near(SumOver(C, revenue) - SumOver(C, spend), SumOver(C, profit), Cardinality(C))
  <2> DEFINE m == 1
  <2>1. m \in Int /\ m \in Nat OBVIOUS
  <2>2. \A c \in C : profit[c] \in Int /\ rest[c] \in Int /\ rest[c] - m <= m * profit[c] /\ m * profit[c] <= rest[c] + m
    BY <1>26, <1>28
  <2> HIDE DEF m
  <2>3. /\ SumOver(C, profit) \in Int /\ SumOver(C, rest) \in Int /\ Cardinality(C) \in Nat
        /\ SumOver(C, rest) - Cardinality(C) * m <= m * SumOver(C, profit)
        /\ m * SumOver(C, profit) <= SumOver(C, rest) + Cardinality(C) * m
    BY Zenon, <1>3, <2>1, <2>2, SumsNear
  <2>4. /\ SumOver(C, rest) - Cardinality(C) <= SumOver(C, profit)
        /\ SumOver(C, profit) <= SumOver(C, rest) + Cardinality(C)
    BY <2>3 DEF m
  <2> QED BY Zenon, <1>27, <2>4 DEF Near
<1>18. ASSUME \A k \in S : facts[k].amount % Cent = 0, \A k \in P : facts[k].spend % Cent = 0
       PROVE  /\ Cent * SumOver(C, revenue) = PartOf(amount, S)
              /\ Cent * SumOver(C, spend) = PartOf(spent, P)
              /\ SumOver(C, profit) = SumOver(C, revenue) - SumOver(C, spend)
  <2>1. \A k \in S : amount[k] % Cent = 0 BY Zenon, <1>6, <1>18, <1>22
  <2>2. \A k \in P : spent[k] % Cent = 0 BY Zenon, <1>6, <1>18, <1>22
  <2>3. \A c \in C : taken[c] = Cent * revenue[c] BY Zenon, <1>15, <2>1
  <2>4. \A c \in C : given[c] = Cent * spend[c] BY Zenon, <1>16, <2>2
  <2>5. \A c \in C : profit[c] = rest[c]
    <3> SUFFICES ASSUME NEW c \in C PROVE profit[c] = rest[c]
      OBVIOUS
    <3> DEFINE x == revenue[c]
               y == spend[c]
    <3>1. x \in Int /\ y \in Int BY <1>15, <1>16
    <3>2. taken[c] = Cent * x /\ given[c] = Cent * y BY Zenon, <2>3, <2>4
    <3>3. profit[c] = round(taken[c] - given[c]) BY Zenon, <1>23
    <3>4. rest[c] = x - y BY <1>26
    <3> HIDE DEF x, y
    <3>5. Cent * x - Cent * y = Cent * (x - y) /\ x - y \in Int BY <3>1 DEF Cent
    <3>6. \A q \in Int : round(Cent * q) = q BY RoundedAmounts
    <3>7. round(Cent * (x - y)) = x - y BY Zenon, <3>5, <3>6
    <3> QED BY Zenon, <3>2, <3>3, <3>4, <3>5, <3>7
  <2>6. SumOver(C, profit) = SumOver(C, rest) BY <1>3, <1>26, <2>5, SameSum
  <2> QED BY Zenon, <1>15, <1>16, <1>27, <2>1, <2>2, <2>6
<1>29. /\ TotalOf([k \in S |-> facts[k].amount]) = PartOf(amount, S)
       /\ TotalOf([k \in P |-> facts[k].spend]) = PartOf(spent, P)
       /\ TotalOf([k \in P |-> facts[k].conversions]) = PartOf(converted, P)
       /\ TotalOf([k \in S |-> IF facts[k].isNew THEN 1 ELSE 0]) = PartOf(won, S)
  BY Zenon, <1>6, <1>21
<1>30. DOMAIN channels = C BY Zenon, <1>4
<1>19. RoiOf(facts, channels)
  BY Zenon, <1>12, <1>13, <1>14, <1>15, <1>16, <1>17, <1>18, <1>24, <1>25, <1>29, <1>30
<1> QED BY <1>19 DEF channels

LEMMA TheReturnsAddUp == ReportTypes => RoiAddsUp
<1> SUFFICES ASSUME ReportTypes PROVE RoiAddsUp
  OBVIOUS
<1>1. raw \in Seq(RawRows) BY DEF ReportTypes
<1>2. Facts \in Seq(AllFacts) /\ \A fact \in AllFacts : FactOK(fact)
  BY Zenon, <1>1, FactsOfRows DEF Facts
<1>3. RoiOf(Facts, summarizeChannelRoi(Facts, 100)) BY <1>2, RoiOfFacts
<1>4. \A facts \in {Facts} : RoiOf(facts, summarizeChannelRoi(facts, 100)) BY Zenon, <1>3
<1> QED BY Zenon, <1>4, OneChannel DEF RoiAddsUp

-----------------------------------------------------------------------------
(* The experiments.                                                         *)

\* A comparison from both sides: the same square, the same base.
LEMMA SameFromBothSides ==
  ASSUME NEW n \in Int, NEW m \in Int, NEW c \in Int, NEW d \in Int
  PROVE  /\ n * m * (c + d) * (n + m - c - d) = m * n * (d + c) * (m + n - d - c)
         /\ (d * n - c * m) * (d * n - c * m) * (n + m) = (c * m - d * n) * (c * m - d * n) * (m + n)
<1>1. n * m = m * n /\ c + d = d + c /\ n + m - c - d = m + n - d - c /\ n + m = m + n
  BY SMT
<1>2. n * m * (c + d) * (n + m - c - d) = m * n * (d + c) * (m + n - d - c) BY Zenon, <1>1
<1> DEFINE x == d * n - c * m
           y == c * m - d * n
<1>3. x \in Int /\ y \in Int /\ y = -x BY SMT
<1> HIDE DEF x, y
<1>4. x * x = y * y BY <1>3, SMT
<1>5. x * x * (n + m) = y * y * (m + n) BY Zenon, <1>1, <1>4
<1> QED BY <1>2, <1>5 DEF x, y

LEMMA ComparedBothWays ==
  ASSUME NEW a, NEW b, a.n \in Int, b.n \in Int, a.conversions \in Int, b.conversions \in Int
  PROVE  compare(a, b) = compare(b, a)
<1> DEFINE base(x, y) == x.n * y.n * (x.conversions + y.conversions) * (x.n + y.n - x.conversions - y.conversions)
           diff(x, y) == y.conversions * x.n - x.conversions * y.n
           over(x, y) == diff(x, y) * diff(x, y) * (x.n + y.n)
<1>1. \A x, y : compare(x, y) = IF base(x, y) = 0 THEN <<0, 1>> ELSE <<over(x, y), base(x, y)>>
  BY Zenon DEF compare
<1>2. base(a, b) = base(b, a) /\ over(a, b) = over(b, a) BY SameFromBothSides
<1> HIDE DEF base, over, diff
<1> QED BY <1>1, <1>2

\* Of each variant so many, and so many of them converted.
LEMMA Exposures ==
  ASSUME ReportTypes, NEW v
  PROVE  analyze(v).n \in Nat /\ analyze(v).conversions \in Nat
<1> DEFINE D == 1..Len(exposures)
           mine == {k \in DOMAIN exposures : exposures[k].variant = v}
           some == {k \in mine : exposures[k].converted}
<1>1. IsFiniteSet(D)
  <2>1. 1 \in Int /\ Len(exposures) \in Int BY DEF ReportTypes
  <2> QED BY Zenon, <2>1, FS_Interval
<1>2. mine \in SUBSET D /\ some \in SUBSET D BY DEF ReportTypes
<1>3. analyze(v) = [n |-> Cardinality(mine), conversions |-> Cardinality(some)] BY Zenon DEF analyze
<1> HIDE DEF D, mine, some
<1>4. Cardinality(mine) \in Nat /\ Cardinality(some) \in Nat BY <1>1, <1>2, FS_Subset, FS_CardinalityType
<1> QED BY <1>3, <1>4

LEMMA EveryExposure ==
  ASSUME ReportTypes
  PROVE  analyze("a").n + analyze("b").n = Len(exposures)
<1> DEFINE D == 1..Len(exposures)
           of(v) == {k \in DOMAIN exposures : exposures[k].variant = v}
           A == of("a")
           B == of("b")
<1>1. DOMAIN exposures = D /\ Len(exposures) \in Nat /\ \A k \in D : exposures[k].variant \in {"a", "b"}
  BY ReportsAssumption DEF ReportTypes
<1>2. IsFiniteSet(D) /\ Cardinality(D) = Len(exposures)
  <2> DEFINE n == Len(exposures)
  <2>1. n \in Nat BY <1>1
  <2> HIDE DEF n
  <2>2. IsFiniteSet(1..n) /\ Cardinality(1..n) = IF 1 > n THEN 0 ELSE n - 1 + 1 BY <2>1, FS_Interval
  <2>3. IsFiniteSet(1..n) /\ Cardinality(1..n) = n BY <2>1, <2>2
  <2> QED BY <2>3 DEF n
<1>3. A \in SUBSET D /\ B = D \ A BY <1>1
<1>4. analyze("a").n = Cardinality(A) /\ analyze("b").n = Cardinality(B) BY DEF analyze
<1> HIDE DEF D, A, B
<1>5. Cardinality(B) = Cardinality(D) - Cardinality(D \cap A) BY <1>2, <1>3, FS_Difference
<1>6. D \cap A = A BY <1>3
<1>7. Cardinality(A) \in Nat BY <1>2, <1>3, FS_Subset, FS_CardinalityType
<1>8. Cardinality(D) \in Nat BY <1>2, FS_CardinalityType
<1>9. Cardinality(A) + Cardinality(B) = Cardinality(D) BY <1>5, <1>6, <1>7, <1>8
<1> QED BY Zenon, <1>2, <1>4, <1>9

\* The upper bounds of the shares of three weights.
LEMMA SharesUpTo ==
  ASSUME NEW x \in Nat, NEW y \in Nat
  PROVE  LET weights == <<x, y, 1>>
             upTo(k) == TotalOf([j \in 1..k |-> Max({weights[j], 0})])
         IN  upTo(1) = x /\ upTo(2) = x + y /\ upTo(3) = x + y + 1
<1> DEFINE weights == <<x, y, 1>>
           v == [j \in 1..3 |-> Max({weights[j], 0})]
           upTo(k) == TotalOf([j \in 1..k |-> Max({weights[j], 0})])
<1>1. v[1] = x /\ v[2] = y /\ v[3] = 1
  <2>1. Max({x, 0}) = x /\ Max({y, 0}) = y /\ Max({1, 0}) = 1 BY MaxOf
  <2> QED BY <2>1
<1>2. ASSUME NEW k \in 1..3 PROVE upTo(k) = SumOver(1..k, v)
  <2> DEFINE u == [j \in 1..k |-> Max({weights[j], 0})]
             T == 1..k
  <2>1. DOMAIN u = T /\ \A j \in T : u[j] = v[j] /\ u[j] \in Int
    <3>1. \A j \in T : j \in 1..3 OBVIOUS
    <3>2. \A j \in 1..3 : v[j] \in Int
      <4>1. \A j \in 1..3 : j = 1 \/ j = 2 \/ j = 3 OBVIOUS
      <4> HIDE DEF v
      <4> QED BY <1>1, <4>1
    <3>3. \A j \in T : u[j] = v[j]
      <4> DEFINE e(j) == Max({weights[j], 0})
      <4> HIDE DEF e
      <4>1. \A j \in T : [i \in T |-> e(i)][j] = e(j) /\ [i \in 1..3 |-> e(i)][j] = e(j) BY <3>1
      <4> QED BY <4>1 DEF e
    <3> HIDE DEF v
    <3> QED BY <3>1, <3>2, <3>3
  <2>2. IsFiniteSet(T)
    <3>1. 1 \in Int /\ k \in Int OBVIOUS
    <3> QED BY Zenon, <3>1, FS_Interval
  <2>3. upTo(k) = TotalOf(u) OBVIOUS
  <2> HIDE DEF u, v, T, upTo
  <2>4. SumOver(T, u) = SumOver(T, v) BY <2>1, <2>2, SameSum
  <2>5. upTo(k) = SumOver(T, v) BY <2>1, <2>3, <2>4 DEF TotalOf
  <2> QED BY <2>5 DEF T
<1>3. SumOver(1..1, v) = x /\ SumOver(1..2, v) = x + y /\ SumOver(1..3, v) = x + y + 1
  <2> DEFINE D == 1..3
  <2>1. IsFiniteSet(D)
    <3>1. 1 \in Int /\ 3 \in Int OBVIOUS
    <3> QED BY Zenon, <3>1, FS_Interval
  <2>2. \A j \in D : v[j] \in Int
    <3>1. \A j \in D : j = 1 \/ j = 2 \/ j = 3 OBVIOUS
    <3> HIDE DEF v
    <3> QED BY <1>1, <3>1
  <2> DEFINE A == 1..1
             B == 1..2
  <2>3. /\ {} \in SUBSET D /\ A \in SUBSET D /\ B \in SUBSET D
        /\ 1 \in D \ {} /\ 2 \in D \ A /\ 3 \in D \ B
        /\ {} \cup {1} = A /\ A \cup {2} = B /\ B \cup {3} = D
    OBVIOUS
  <2> HIDE DEF v, D, A, B
  <2>4. /\ SumOver({}, v) = 0
        /\ \A T \in SUBSET D : \A j \in D \ T : SumOver(T \cup {j}, v) = SumOver(T, v) + v[j]
    BY <2>1, <2>2, SumOfParts
  <2>5. SumOver({} \cup {1}, v) = SumOver({}, v) + v[1] BY <2>3, <2>4
  <2>6. SumOver(A \cup {2}, v) = SumOver(A, v) + v[2] BY <2>3, <2>4
  <2>7. SumOver(B \cup {3}, v) = SumOver(B, v) + v[3] BY <2>3, <2>4
  <2>8. SumOver(A, v) = 0 + x BY Zenon, <1>1, <2>3, <2>4, <2>5
  <2>9. SumOver(B, v) = SumOver(A, v) + y BY Zenon, <1>1, <2>3, <2>6
  <2>10. SumOver(D, v) = SumOver(B, v) + 1 BY Zenon, <1>1, <2>3, <2>7
  <2>11. SumOver(A, v) = x /\ SumOver(B, v) = x + y /\ SumOver(D, v) = x + y + 1
    BY <2>8, <2>9, <2>10
  <2> QED BY <2>11 DEF A, B, D
<1> HIDE DEF v, upTo
<1>4. upTo(1) = x /\ upTo(2) = x + y /\ upTo(3) = x + y + 1 BY <1>2, <1>3
<1> QED BY <1>4 DEF upTo

\* A share is as large as its weight.
LEMMA SharesAreWeights ==
  ASSUME NEW x \in Nat, NEW y \in Nat
  PROVE  LET weights == <<x, y, 1>>
             buckets == y + x + 1
         IN  \A k \in DOMAIN weights :
               Cardinality({bucket \in 0..(buckets - 1) : assign(weights, bucket, buckets) = k}) = weights[k]
<1> DEFINE weights == <<x, y, 1>>
           buckets == y + x + 1
           upTo(k) == TotalOf([j \in 1..k |-> Max({weights[j], 0})])
           positive == {k \in DOMAIN weights : weights[k] > 0}
           fits(bucket) == {k \in positive : bucket * upTo(Len(weights)) < upTo(k) * buckets}
<1>1. upTo(1) = x /\ upTo(2) = x + y /\ upTo(3) = x + y + 1 BY SharesUpTo
<1>2. DOMAIN weights = {1, 2, 3} /\ Len(weights) = 3 /\ weights[1] = x /\ weights[2] = y /\ weights[3] = 1
  OBVIOUS
<1>3. buckets \in Nat /\ buckets > 0 /\ upTo(3) = buckets BY <1>1
<1>4. \A bucket : assign(weights, bucket, buckets) = Min(fits(bucket)) BY Zenon DEF assign
<1> HIDE DEF weights, upTo
<1>5. \A k : k \in positive <=> (k = 1 /\ x > 0) \/ (k = 2 /\ y > 0) \/ k = 3 BY <1>2
<1>6. \A a \in Int, b \in Int : a * buckets < b * buckets <=> a < b
  <2> DEFINE c == buckets
  <2>1. c \in Nat /\ c > 0 BY <1>3
  <2> HIDE DEF c
  <2>2. \A a \in Int, b \in Int : a < b => a * c < b * c BY <2>1
  <2>3. \A a \in Int, b \in Int : ~(a < b) => ~(a * c < b * c) BY <2>1
  <2>4. \A a \in Int, b \in Int : a * c < b * c <=> a < b BY <2>2, <2>3
  <2> QED BY <2>4 DEF c
<1>7. ASSUME NEW bucket \in 0..(buckets - 1)
      PROVE  assign(weights, bucket, buckets) =
               IF bucket < x THEN 1 ELSE IF bucket < x + y THEN 2 ELSE 3
  <2>1. \A k : k \in fits(bucket) <=> k \in positive /\ bucket * buckets < upTo(k) * buckets
    BY <1>2, <1>3
  <2>2. bucket \in Int /\ 0 <= bucket /\ bucket < x + y + 1 OBVIOUS
  <2>3. /\ bucket * buckets < upTo(1) * buckets <=> bucket < x
        /\ bucket * buckets < upTo(2) * buckets <=> bucket < x + y
        /\ bucket * buckets < upTo(3) * buckets <=> bucket < x + y + 1
    <3> HIDE DEF buckets
    <3> QED BY <1>1, <1>6, <2>2
  <2> DEFINE F == fits(bucket)
  <2> HIDE DEF positive, buckets
  <2>4. \A k : k \in F <=> \/ k = 1 /\ bucket < x
                           \/ k = 2 /\ y > 0 /\ bucket < x + y
                           \/ k = 3
    <3>1. \A k : k \in F => k = 1 \/ k = 2 \/ k = 3 BY <1>5, <2>1
    <3>2. 1 \in F <=> bucket < x BY <1>5, <2>1, <2>2, <2>3
    <3>3. 2 \in F <=> y > 0 /\ bucket < x + y BY <1>5, <2>1, <2>2, <2>3
    <3>4. 3 \in F BY <1>5, <2>1, <2>2, <2>3
    <3> HIDE DEF F
    <3> QED BY <3>1, <3>2, <3>3, <3>4
  <2> HIDE DEF F
  <2>5. CASE bucket < x
    <3>1. Min(F) = 1
      <4>1. 1 \in F /\ \A k \in F : 1 <= k BY <2>4, <2>5
      <4>2. \A m \in F : (\A k \in F : m <= k) => m = 1 BY <2>4, <2>5
      <4> QED BY <4>1, <4>2 DEF Min
    <3> QED BY <1>4, <2>5, <3>1 DEF F
  <2>6. CASE ~(bucket < x) /\ bucket < x + y
    <3>1. Min(F) = 2
      <4>1. 2 \in F /\ \A k \in F : 2 <= k BY <2>2, <2>4, <2>6
      <4>2. \A m \in F : (\A k \in F : m <= k) => m = 2 BY <2>4, <4>1
      <4> QED BY <4>1, <4>2 DEF Min
    <3> QED BY <1>4, <2>6, <3>1 DEF F
  <2>7. CASE ~(bucket < x + y)
    <3>1. Min(F) = 3
      <4>1. 3 \in F /\ \A k \in F : k = 3 BY <2>2, <2>4, <2>7
      <4>2. F = {3} BY <4>1
      <4> QED BY <4>2 DEF Min
    <3>2. ~(bucket < x) BY <2>2, <2>7
    <3> QED BY <1>4, <2>7, <3>1, <3>2 DEF F
  <2> QED BY <2>5, <2>6, <2>7
<1> DEFINE share(k) == {bucket \in 0..(buckets - 1) : assign(weights, bucket, buckets) = k}
<1>8. share(1) = 0..(x - 1) /\ share(2) = x..(x + y - 1) /\ share(3) = (x + y)..(x + y)
  BY <1>7
<1>9. /\ Cardinality(0..(x - 1)) = x /\ Cardinality(x..(x + y - 1)) = y
      /\ Cardinality((x + y)..(x + y)) = 1
  <2>1. \A a \in Int, b \in Int : Cardinality(a..b) = IF a > b THEN 0 ELSE b - a + 1 BY FS_Interval
  <2>2. 0 \in Int /\ x - 1 \in Int /\ x \in Int /\ x + y - 1 \in Int /\ x + y \in Int OBVIOUS
  <2>3. Cardinality(0..(x - 1)) = IF 0 > x - 1 THEN 0 ELSE x - 1 - 0 + 1 BY <2>1, <2>2
  <2>4. Cardinality(x..(x + y - 1)) = IF x > x + y - 1 THEN 0 ELSE x + y - 1 - x + 1 BY <2>1, <2>2
  <2>5. Cardinality((x + y)..(x + y)) = 1
    <3>1. (x + y)..(x + y) = {x + y} OBVIOUS
    <3> QED BY Zenon, <3>1, FS_Singleton
  <2> QED BY <2>3, <2>4, <2>5
<1>10. \A k \in DOMAIN weights : Cardinality(share(k)) = weights[k]
  <2> SUFFICES ASSUME NEW k \in DOMAIN weights PROVE Cardinality(share(k)) = weights[k]
    OBVIOUS
  <2>1. k = 1 \/ k = 2 \/ k = 3 BY <1>2
  <2> HIDE DEF share
  <2> QED BY <1>2, <1>8, <1>9, <2>1
<1> QED BY Zenon, <1>10 DEF weights

LEMMA TheExperimentsAreFair == ReportTypes => ExperimentIsFair
<1> SUFFICES ASSUME ReportTypes PROVE ExperimentIsFair
  OBVIOUS
<1> DEFINE a == analyze("a")
           b == analyze("b")
<1>1. a.n \in Nat /\ a.conversions \in Nat /\ b.n \in Nat /\ b.conversions \in Nat BY Exposures
<1>2. a.n + b.n = Len(exposures) BY EveryExposure
<1> HIDE DEF a, b
<1>3. compare(a, b) = compare(b, a) BY <1>1, ComparedBothWays
<1>4. significant(a, b) = significant(b, a) BY <1>3 DEF significant
<1>5. LET weights == <<b.n, a.n, 1>>
          buckets == a.n + b.n + 1
      IN  \A k \in DOMAIN weights :
            Cardinality({bucket \in 0..(buckets - 1) : assign(weights, bucket, buckets) = k}) = weights[k]
  BY Zenon, <1>1, SharesAreWeights
<1> QED BY Zenon, <1>2, <1>4, <1>5 DEF ExperimentIsFair, a, b

\* Whatever rows, touches and exposures are stored, the reports add up: every touch's
\* credit, every sale and every cost is counted once, and experiments are fair
\* (packages/attribution, packages/channel-roi, packages/ab-testing).
THEOREM ReportsAgree == ReportSpec => []ReportsAddUp
<1>1. ReportTypes => ReportsAddUp
  BY TheCreditAddsUp, TheReturnsAddUp, TheExperimentsAreFair DEF ReportsAddUp
<1> QED BY <1>1, ReportTypesHold, PTL

-----------------------------------------------------------------------------
(* The lists of audience research.                                          *)
IntelTypes ==
  /\ items \in Seq(Items) /\ comments \in Seq(Comments) /\ results \in Seq(Results)

LEMMA IntelTypesHold == IntelSpec => []IntelTypes
<1>1. IntelInit => IntelTypes BY DEF IntelInit, IntelTypes
<1>2. IntelTypes /\ [IntelNext]_intelVars => IntelTypes'
  <2> SUFFICES ASSUME IntelTypes, [IntelNext]_intelVars PROVE IntelTypes'
    OBVIOUS
  <2> USE DEF IntelTypes
  <2>1. CASE Posted BY <2>1 DEF Posted
  <2>2. CASE Commented BY <2>2 DEF Commented
  <2>3. CASE Uploaded BY <2>3 DEF Uploaded
  <2>4. CASE UNCHANGED intelVars BY <2>4 DEF intelVars
  <2> QED BY <2>1, <2>2, <2>3, <2>4 DEF IntelNext
<1> QED BY <1>1, <1>2, PTL DEF IntelSpec

-----------------------------------------------------------------------------
(* Keywords in a text.                                                      *)
\* The words of texts and keywords (no prover places a given word among the strings).
KeywordWords ==
  {"cancel", "better", "than", "recommend", "price", "how", "much", "buy", "broken", "help"}
Words == STRING \cup {"\n"} \cup KeywordWords
Keywords == {kw \in Seq(Words) : Len(kw) > 0 /\ \A i \in 1..Len(kw) : kw[i] # "\n"}
Found(text, kw) ==
  {k \in 1..(Len(text) - Len(kw) + 1) : \A i \in 1..Len(kw) : text[k + i - 1] = kw[i]}

LEMMA HitsFound ==
  ASSUME NEW text \in Seq(Words), NEW kw \in Seq(Words)
  PROVE  countHits(text, kw) = Cardinality(Found(text, kw))
<1> DEFINE n == Len(text)
           l == Len(kw)
           D == 1..(n - l + 1)
<1>1. n \in Nat /\ l \in Nat /\ (\A k \in 1..n : text[k] \in Words) /\ \A i \in 1..l : kw[i] \in Words
  OBVIOUS
<1>2. ASSUME NEW k \in D
      PROVE  SubSeq(text, k, k + l - 1) = kw <=> \A i \in 1..l : text[k + i - 1] = kw[i]
  <2> DEFINE m == k + l - 1
             part == SubSeq(text, k, m)
  <2>1. k \in Int /\ m \in Int /\ m - k + 1 = l /\ \A i \in k..m : text[i] \in Words
    <3>1. k \in Int /\ k >= 1 /\ k <= n - l + 1 BY <1>1
    <3> HIDE DEF n, l
    <3>2. \A i \in k..m : i \in 1..n BY <1>1, <3>1
    <3> QED BY <1>1, <3>1, <3>2
  <2> HIDE DEF n, m
  <2>2. /\ part \in Seq(Words) /\ Len(part) = IF k <= m THEN m - k + 1 ELSE 0
        /\ \A i \in 1..(m - k + 1) : part[i] = text[k + i - 1]
    BY <2>1, SubSeqProperties
  <2> HIDE DEF part, l
  <2>3. Len(part) = l BY <1>1, <2>1, <2>2
  <2>4. \A i \in 1..l : part[i] = text[k + i - 1] BY <2>1, <2>2
  <2>5. ASSUME part = kw PROVE \A i \in 1..l : text[k + i - 1] = kw[i] BY <2>4, <2>5
  <2>6. ASSUME \A i \in 1..l : text[k + i - 1] = kw[i] PROVE part = kw
    <3>1. Len(part) = Len(kw) /\ \A i \in 1..Len(part) : part[i] = kw[i] BY <2>3, <2>4, <2>6 DEF l
    <3> QED BY <2>2, <3>1, SeqEqual
  <2> QED BY <2>5, <2>6 DEF part, m
<1>3. {k \in D : SubSeq(text, k, k + l - 1) = kw} = {k \in D : \A i \in 1..l : text[k + i - 1] = kw[i]}
  <2> HIDE DEF n, l, D
  <2> QED BY <1>2
<1>4. countHits(text, kw) = Cardinality({k \in D : SubSeq(text, k, k + l - 1) = kw}) BY Zenon DEF countHits
<1>5. Found(text, kw) = {k \in D : \A i \in 1..l : text[k + i - 1] = kw[i]} BY Zenon DEF Found
<1> QED BY Zenon, <1>3, <1>4, <1>5

LEMMA SingleWord ==
  ASSUME NEW S, NEW c \in S
  PROVE  <<c>> \in Seq(S) /\ Len(<<c>>) = 1 /\ <<c>>[1] = c
OBVIOUS

\* No keyword is found across a line break: the hits of a joined text are those
\* of its parts.
LEMMA HitsAdd ==
  ASSUME NEW t \in Seq(Words), NEW s \in Seq(Words), NEW kw \in Keywords
  PROVE  /\ countHits(t, kw) \in Nat /\ countHits(s, kw) \in Nat
         /\ countHits(t \o <<"\n">> \o s, kw) = countHits(t, kw) + countHits(s, kw)
<1> DEFINE n == Len(t)
           m == Len(s)
           l == Len(kw)
           text == t \o <<"\n">> \o s
           A == Found(t, kw)
           B == Found(s, kw)
           W == Found(text, kw)
           f == [k \in B |-> k + n + 1]
           M == {f[k] : k \in B}
<1>1. n \in Nat /\ m \in Nat /\ l \in Nat /\ l > 0 /\ kw \in Seq(Words) /\ \A i \in 1..l : kw[i] # "\n"
  BY DEF Keywords
<1>2. /\ text \in Seq(Words) /\ Len(text) = n + 1 + m
      /\ \A i \in 1..n : text[i] = t[i]
      /\ text[n + 1] = "\n"
      /\ \A i \in 1..m : text[n + 1 + i] = s[i]
  <2> DEFINE nl == <<"\n">>
             head == t \o nl
  <2>1. nl \in Seq(Words) /\ Len(nl) = 1 /\ nl[1] = "\n"
    <3>1. "\n" \in Words BY DEF Words
    <3> QED BY Zenon, <3>1, SingleWord
  <2> HIDE DEF nl
  <2>2. /\ head \in Seq(Words) /\ Len(head) = n + 1
        /\ \A i \in 1..(n + 1) : head[i] = IF i <= n THEN t[i] ELSE nl[i - n]
    <3>1. /\ head \in Seq(Words) /\ Len(head) = Len(t) + Len(nl)
          /\ \A i \in 1..(Len(t) + Len(nl)) : head[i] = IF i <= Len(t) THEN t[i] ELSE nl[i - Len(t)]
      BY Zenon, <2>1, ConcatProperties
    <3> HIDE DEF head
    <3> QED BY <2>1, <3>1
  <2> HIDE DEF head, n, m
  <2>3. /\ head \o s \in Seq(Words) /\ Len(head \o s) = n + 1 + m
        /\ \A i \in 1..(n + 1 + m) : (head \o s)[i] = IF i <= n + 1 THEN head[i] ELSE s[i - (n + 1)]
    <3> DEFINE all == head \o s
    <3>1. /\ all \in Seq(Words) /\ Len(all) = Len(head) + Len(s)
          /\ \A i \in 1..(Len(head) + Len(s)) : all[i] = IF i <= Len(head) THEN head[i] ELSE s[i - Len(head)]
      BY Zenon, <2>2, ConcatProperties
    <3> HIDE DEF all
    <3>2. /\ all \in Seq(Words) /\ Len(all) = n + 1 + m
          /\ \A i \in 1..(n + 1 + m) : all[i] = IF i <= n + 1 THEN head[i] ELSE s[i - (n + 1)]
      BY <1>1, <2>2, <3>1 DEF m
    <3> QED BY Zenon, <3>2 DEF all
  <2>4. text = head \o s BY Zenon DEF text, head, nl
  <2> HIDE DEF text
  <2>5. \A i \in 1..n : text[i] = t[i]
    <3> SUFFICES ASSUME NEW i \in 1..n PROVE text[i] = t[i]
      OBVIOUS
    <3>1. i \in 1..(n + 1) /\ i \in 1..(n + 1 + m) /\ i <= n /\ i <= n + 1 BY <1>1
    <3> QED BY <2>2, <2>3, <2>4, <3>1
  <2>6. text[n + 1] = "\n"
    <3>1. n + 1 \in 1..(n + 1) /\ n + 1 \in 1..(n + 1 + m) /\ ~(n + 1 <= n) /\ (n + 1) - n = 1 BY <1>1
    <3> QED BY <2>1, <2>2, <2>3, <2>4, <3>1
  <2>7. \A i \in 1..m : text[n + 1 + i] = s[i]
    <3> SUFFICES ASSUME NEW i \in 1..m PROVE text[n + 1 + i] = s[i]
      OBVIOUS
    <3>1. n + 1 + i \in 1..(n + 1 + m) /\ ~(n + 1 + i <= n + 1) /\ (n + 1 + i) - (n + 1) = i BY <1>1
    <3> QED BY <2>3, <2>4, <3>1
  <2> QED BY <2>3, <2>4, <2>5, <2>6, <2>7
<1> HIDE DEF text
<1>3. /\ \A k : k \in A <=> k \in 1..(n - l + 1) /\ \A i \in 1..l : t[k + i - 1] = kw[i]
      /\ \A k : k \in B <=> k \in 1..(m - l + 1) /\ \A i \in 1..l : s[k + i - 1] = kw[i]
      /\ \A k : k \in W <=> k \in 1..((n + 1 + m) - l + 1) /\ \A i \in 1..l : text[k + i - 1] = kw[i]
  <2>1. \A k : k \in A <=> k \in 1..(n - l + 1) /\ \A i \in 1..l : t[k + i - 1] = kw[i] BY DEF Found
  <2>2. \A k : k \in B <=> k \in 1..(m - l + 1) /\ \A i \in 1..l : s[k + i - 1] = kw[i] BY DEF Found
  <2>3. \A k : k \in W <=> k \in 1..(Len(text) - l + 1) /\ \A i \in 1..l : text[k + i - 1] = kw[i] BY DEF Found
  <2>4. Len(text) = n + 1 + m BY <1>2
  <2> HIDE DEF A, B, W, n, m, l
  <2>5. \A k : k \in W <=> k \in 1..((n + 1 + m) - l + 1) /\ \A i \in 1..l : text[k + i - 1] = kw[i]
    BY Zenon, <2>3, <2>4
  <2> QED BY Zenon, <2>1, <2>2, <2>5
<1> HIDE DEF n, m, l, A, B, W
<1>4. A \in SUBSET W
  <2> SUFFICES ASSUME NEW k \in A PROVE k \in W
    OBVIOUS
  <2>1. k \in 1..(n - l + 1) BY <1>3
  <2>2. \A i \in 1..l : k + i - 1 \in 1..n BY <1>1, <2>1
  <2>3. \A i \in 1..l : text[k + i - 1] = kw[i] BY <1>2, <1>3, <2>2
  <2>4. k \in 1..((n + 1 + m) - l + 1) BY <1>1, <2>1
  <2> QED BY <1>3, <2>3, <2>4
<1>5. M \in SUBSET W /\ A \cap M = {}
  <2> SUFFICES ASSUME NEW k \in B PROVE k + n + 1 \in W /\ k + n + 1 \notin A
    OBVIOUS
  <2>1. k \in 1..(m - l + 1) BY <1>3
  <2>2. \A i \in 1..l : k + i - 1 \in 1..m /\ (k + n + 1) + i - 1 = n + 1 + (k + i - 1) BY <1>1, <2>1
  <2>3. \A i \in 1..l : text[(k + n + 1) + i - 1] = kw[i] BY <1>2, <1>3, <2>2
  <2>4. k + n + 1 \in 1..((n + 1 + m) - l + 1) /\ k + n + 1 \notin 1..(n - l + 1) BY <1>1, <2>1
  <2> QED BY <1>3, <2>3, <2>4
<1>6. W = A \cup M
  <2> SUFFICES ASSUME NEW k \in W, k \notin A PROVE k \in M
    BY <1>4, <1>5
  <2>1. k \in 1..((n + 1 + m) - l + 1) /\ \A i \in 1..l : text[k + i - 1] = kw[i] BY <1>3
  <2>2. CASE k + l - 1 <= n
    <3>1. k \in 1..(n - l + 1) /\ \A i \in 1..l : k + i - 1 \in 1..n BY <1>1, <2>1, <2>2
    <3>2. \A i \in 1..l : t[k + i - 1] = kw[i] BY <1>2, <2>1, <3>1
    <3> QED BY <1>3, <3>1, <3>2
  <2>3. CASE k <= n + 1 /\ k + l - 1 > n
    <3> DEFINE i == n + 2 - k
    <3>1. i \in 1..l /\ k + i - 1 = n + 1 BY <1>1, <2>1, <2>3
    <3> HIDE DEF i
    <3>2. kw[i] = "\n" BY <1>2, <2>1, <3>1
    <3> QED BY <1>1, <3>1, <3>2
  <2>4. CASE k > n + 1
    <3> DEFINE j == k - n - 1
    <3>1. j \in 1..(m - l + 1) /\ j + n + 1 = k BY <1>1, <2>1, <2>4
    <3> HIDE DEF j
    <3>2. \A i \in 1..l : j + i - 1 \in 1..m /\ k + i - 1 = n + 1 + (j + i - 1) BY <1>1, <3>1
    <3>3. \A i \in 1..l : s[j + i - 1] = kw[i] BY <1>2, <2>1, <3>2
    <3>4. j \in B BY <1>3, <3>1, <3>3
    <3>5. f[j] = k BY <3>1, <3>4
    <3> QED BY <3>4, <3>5
  <2> QED BY <1>1, <2>1, <2>2, <2>3, <2>4
<1>7. IsFiniteSet(A) /\ IsFiniteSet(B) /\ Cardinality(A) \in Nat /\ Cardinality(B) \in Nat
  <2> DEFINE D == 1..(n - l + 1)
             E == 1..(m - l + 1)
  <2>1. IsFiniteSet(D) /\ IsFiniteSet(E)
    <3>1. 1 \in Int /\ n - l + 1 \in Int /\ m - l + 1 \in Int BY <1>1
    <3> QED BY Zenon, <3>1, FS_Interval
  <2>2. A \in SUBSET D /\ B \in SUBSET E BY <1>3
  <2> HIDE DEF D, E
  <2> QED BY <2>1, <2>2, FS_Subset, FS_CardinalityType
<1>8. IsFiniteSet(M) /\ Cardinality(M) = Cardinality(B)
  <2>1. f \in Surjection(B, M) BY DEF Surjection
  <2>2. \A j, k \in B : j \in Int /\ k \in Int /\ f[j] = j + n + 1 BY <1>3
  <2>3. \A j, k \in B : f[j] = f[k] => j = k BY <1>1, <2>2
  <2> HIDE DEF f
  <2>4. f \in Injection(B, M) BY <2>1, <2>3 DEF Surjection, Injection, IsInjective
  <2> HIDE DEF M
  <2> QED BY <1>7, <2>1, <2>4, FS_Surjection
<1>9. Cardinality(W) = Cardinality(A) + Cardinality(B)
  <2> HIDE DEF M, f
  <2>1. Cardinality(A \cup M) = Cardinality(A) + Cardinality(M) - Cardinality(A \cap M)
    BY <1>7, <1>8, FS_Union
  <2>2. Cardinality(A \cap M) = 0 BY <1>5, FS_EmptySet
  <2>3. Cardinality(A \cup M) = Cardinality(A) + Cardinality(B) BY <1>7, <1>8, <2>1, <2>2
  <2> QED BY Zenon, <1>6, <2>3
<1>10. /\ countHits(t, kw) = Cardinality(A) /\ countHits(s, kw) = Cardinality(B)
       /\ countHits(text, kw) = Cardinality(W)
  BY <1>1, <1>2, HitsFound DEF A, B, W
<1> QED BY <1>7, <1>9, <1>10 DEF text

-----------------------------------------------------------------------------
(* The text of all signals.                                                 *)
\* A list of signals, of a length.
SignalsOK(s, n) == n \in Nat /\ DOMAIN s = 1..n /\ \A k \in 1..n : s[k].text \in Seq(Words)

LEMMA CorpusBuilt ==
  ASSUME NEW n \in Nat, NEW s, SignalsOK(s, n)
  PROVE  \E P \in [0..n -> Seq(Words)] :
           /\ P[0] = <<>> /\ \A k \in 1..n : P[k] = P[k - 1] \o <<"\n">> \o s[k].text
           /\ Corpus(s) = P[n]
<1> DEFINE V == Seq(Words)
           add(k, t) == t \o <<"\n">> \o s[k].text
           step == [x \in (1..n) \X V |-> add(x[1], x[2])]
<1>1. \A k \in 1..n, t \in V : add(k, t) \in V
  <2> SUFFICES ASSUME NEW k \in 1..n, NEW t \in V PROVE add(k, t) \in V
    OBVIOUS
  <2> DEFINE nl == <<"\n">>
             e == s[k].text
  <2>1. nl \in V
    <3>1. "\n" \in Words BY DEF Words
    <3> QED BY Zenon, <3>1, SingleWord
  <2>2. e \in V BY DEF SignalsOK
  <2> HIDE DEF nl, e
  <2>3. t \o nl \in V BY <2>1, ConcatProperties
  <2>4. (t \o nl) \o e \in V BY <2>2, <2>3, ConcatProperties
  <2> QED BY <2>4 DEF nl, e
<1> HIDE DEF add, V
<1>2. step \in [(1..n) \X V -> V] BY <1>1
<1>3. <<>> \in V BY DEF V
<1>4. PICK h \in [SUBSET (1..n) -> V] : IsListFold(h, n, <<>>, step)
  <2> HIDE DEF step
  <2> QED BY Zenon, <1>2, <1>3, FoldingList
<1>5. h = [T \in SUBSET (1..n) |-> IF T = {} THEN <<>> ELSE add(Max(T), h[T \ {Max(T)}])]
  <2>1. ASSUME NEW T \in SUBSET (1..n), T # {}
        PROVE  step[<<Max(T), h[T \ {Max(T)}]>>] = add(Max(T), h[T \ {Max(T)}])
    <3>1. Max(T) \in 1..n /\ h[T \ {Max(T)}] \in V BY <1>4, <2>1, GreatestOf
    <3> QED BY <3>1
  <2> DEFINE e(T) == IF T = {} THEN <<>> ELSE step[<<Max(T), h[T \ {Max(T)}]>>]
             f(T) == IF T = {} THEN <<>> ELSE add(Max(T), h[T \ {Max(T)}])
  <2> HIDE DEF step
  <2>2. \A T \in SUBSET (1..n) : e(T) = f(T) BY <2>1
  <2>3. h = [T \in SUBSET (1..n) |-> e(T)] BY <1>4 DEF IsListFold
  <2> HIDE DEF e, f
  <2>4. h = [T \in SUBSET (1..n) |-> f(T)] BY <2>2, <2>3
  <2> QED BY <2>4 DEF f
<1> HIDE DEF step
<1> DEFINE iter == CHOOSE g :
             g = [T \in SUBSET (1..n) |-> IF T = {} THEN <<>> ELSE add(Max(T), g[T \ {Max(T)}])]
<1>6. iter = [T \in SUBSET (1..n) |-> IF T = {} THEN <<>> ELSE add(Max(T), iter[T \ {Max(T)}])]
  BY <1>5
<1>7. Corpus(s) = iter[1..n]
  <2>1. DOMAIN s = 1..n BY DEF SignalsOK
  <2> HIDE DEF iter
  <2> QED BY Zenon, <2>1 DEF Corpus, FoldLeft, MapThenFoldSet, iter, add
<1> HIDE DEF iter
<1> DEFINE P == [k \in 0..n |-> iter[1..k]]
<1>8. P[0] = <<>> BY <1>6
<1>9. ASSUME NEW k \in 1..n PROVE P[k] = add(k, P[k - 1])
  <2>1. 1..k \in SUBSET (1..n) /\ 1..k # {} OBVIOUS
  <2>2. iter[1..k] = add(Max(1..k), iter[(1..k) \ {Max(1..k)}]) BY <1>6, <2>1
  <2>3. Max(1..k) = k /\ (1..k) \ {Max(1..k)} = 1..(k - 1) BY Greatest
  <2>4. iter[1..k] = add(k, iter[1..(k - 1)]) BY <2>2, <2>3
  <2>5. k \in 0..n /\ k - 1 \in 0..n OBVIOUS
  <2> QED BY <2>4, <2>5
<1>10. P = [k \in 0..n |-> P[k]] /\ Corpus(s) = P[n] BY <1>7
<1> HIDE DEF P
<1> DEFINE N == {k \in Nat : k <= n => P[k] \in V}
<1>11. 0 \in N BY <1>3, <1>8
<1>12. ASSUME NEW k \in Nat, k \in N PROVE k + 1 \in N
  <2>1. ASSUME k + 1 <= n PROVE P[k + 1] \in V
    <3>1. k + 1 \in 1..n /\ (k + 1) - 1 = k /\ P[k] \in V BY <1>12, <2>1
    <3> QED BY <1>1, <1>9, <3>1
  <2> QED BY <2>1
<1> HIDE DEF N
<1>13. Nat \subseteq N BY <1>11, <1>12, AllNumbers
<1>14. \A k \in 0..n : P[k] \in V BY <1>13 DEF N
<1>15. P \in [0..n -> Seq(Words)] BY <1>10, <1>14 DEF V
<1> QED BY <1>8, <1>9, <1>10, <1>15 DEF add

\* The hits of all signals are those of each, together.
LEMMA HitsOfSignals ==
  ASSUME NEW n \in Nat, NEW s, SignalsOK(s, n), NEW kw \in Keywords,
         NEW v, \A k \in 1..n : v[k] = countHits(s[k].text, kw)
  PROVE  /\ \A k \in 1..n : v[k] \in Nat
         /\ countHits(Corpus(s), kw) = SumOver(1..n, v)
<1>1. PICK P \in [0..n -> Seq(Words)] :
        /\ P[0] = <<>> /\ \A k \in 1..n : P[k] = P[k - 1] \o <<"\n">> \o s[k].text
        /\ Corpus(s) = P[n]
  BY CorpusBuilt
<1>2. ASSUME NEW k \in 1..n
      PROVE  /\ countHits(P[k - 1], kw) \in Nat /\ v[k] \in Nat
             /\ countHits(P[k], kw) = countHits(P[k - 1], kw) + v[k]
  <2> DEFINE t == P[k - 1]
             e == s[k].text
  <2>1. t \in Seq(Words)
    <3>1. k - 1 \in 0..n OBVIOUS
    <3> QED BY <1>1, <3>1
  <2>2. e \in Seq(Words) BY DEF SignalsOK
  <2>3. P[k] = t \o <<"\n">> \o e BY <1>1
  <2>4. v[k] = countHits(e, kw) OBVIOUS
  <2> HIDE DEF t, e
  <2>5. /\ countHits(t, kw) \in Nat /\ countHits(e, kw) \in Nat
        /\ countHits(t \o <<"\n">> \o e, kw) = countHits(t, kw) + countHits(e, kw)
    BY <2>1, <2>2, HitsAdd
  <2>6. /\ countHits(t, kw) \in Nat /\ v[k] \in Nat
        /\ countHits(P[k], kw) = countHits(t, kw) + v[k]
    BY Zenon, <2>3, <2>4, <2>5
  <2> QED BY <2>6 DEF t
<1>3. countHits(<<>>, kw) = 0
  <2> DEFINE W == Found(<<>>, kw)
  <2>1. <<>> \in Seq(Words) /\ kw \in Seq(Words) /\ Len(kw) \in Nat /\ Len(kw) > 0 BY DEF Keywords
  <2>2. W = {} BY <2>1 DEF Found
  <2>3. countHits(<<>>, kw) = Cardinality(W) BY <2>1, HitsFound
  <2> HIDE DEF W
  <2> QED BY <2>2, <2>3, FS_EmptySet
<1> DEFINE hits == [k \in 0..n |-> countHits(P[k], kw)]
           N == {k \in Nat : k <= n => hits[k] = SumOver(1..k, v)}
<1>4. hits[0] = 0 /\ (\A k \in 1..n : hits[k] = hits[k - 1] + v[k]) /\ hits[n] = countHits(Corpus(s), kw)
  <2>1. hits[0] = 0 BY <1>1, <1>3
  <2>2. \A k \in 1..n : k \in 0..n /\ k - 1 \in 0..n OBVIOUS
  <2>3. \A k \in 1..n : hits[k] = hits[k - 1] + v[k] BY <1>2, <2>2
  <2>4. n \in 0..n OBVIOUS
  <2>5. hits[n] = countHits(Corpus(s), kw) BY <1>1, <2>4
  <2> QED BY <2>1, <2>3, <2>5
<1> HIDE DEF hits
<1>5. \A k \in 1..n : v[k] \in Nat BY <1>2
<1>6. 0 \in N
  <2>1. SumOver({}, v) = 0 BY FS_EmptySet, SumByKey
  <2>2. 1..0 = {} OBVIOUS
  <2>3. SumOver(1..0, v) = 0 BY Zenon, <2>1, <2>2
  <2> QED BY <1>4, <2>3
<1>7. ASSUME NEW k \in Nat, k \in N PROVE k + 1 \in N
  <2> SUFFICES ASSUME k + 1 <= n PROVE hits[k + 1] = SumOver(1..(k + 1), v)
    OBVIOUS
  <2>1. k + 1 \in 1..n /\ (k + 1) - 1 = k /\ k <= n OBVIOUS
  <2>2. hits[k] = SumOver(1..k, v) BY <1>7, <2>1
  <2>3. hits[k + 1] = hits[k] + v[k + 1]
    <3>1. hits[k + 1] = hits[(k + 1) - 1] + v[k + 1] BY <1>4, <2>1
    <3> QED BY <2>1, <3>1
  <2> HIDE DEF N
  <2> DEFINE A == 1..k
             x == k + 1
  <2>4. IsFiniteSet(A)
    <3>1. 1 \in Int /\ k \in Int OBVIOUS
    <3> QED BY Zenon, <3>1, FS_Interval
  <2>5. x \notin A /\ 1..(k + 1) = A \cup {x} /\ \A y \in A \cup {x} : v[y] \in Int BY <1>5, <2>1
  <2>6. hits[x] = SumOver(A, v) + v[x] BY <2>2, <2>3
  <2>8. hits[k + 1] = hits[x] OBVIOUS
  <2> HIDE DEF A, x
  <2>7. SumOver(A \cup {x}, v) = SumOver(A, v) + v[x] BY <2>4, <2>5, SumGrows
  <2> QED BY Zenon, <2>5, <2>6, <2>7, <2>8
<1> HIDE DEF N
<1>8. n \in N BY <1>6, <1>7, AllNumbers
<1>9. hits[n] = SumOver(1..n, v) BY <1>8 DEF N
<1> QED BY <1>4, <1>5, <1>9

\* Any list of signals, in another order, without one of them, or only one of them.
LEMMA HitsOfReversed ==
  ASSUME NEW S, \A x \in S : x.text \in Seq(Words), NEW s \in Seq(S), NEW kw \in Keywords
  PROVE  countHits(Corpus(Reverse(s)), kw) = countHits(Corpus(s), kw)
<1> DEFINE n == Len(s)
           r == Reverse(s)
           D == 1..n
           v == [k \in D |-> countHits(s[k].text, kw)]
           w == [k \in D |-> countHits(r[k].text, kw)]
           f == [k \in D |-> n - k + 1]
<1>1. CASE s = <<>>
  <2>1. Reverse(s) = s
    <3>1. Len(s) = 0 BY <1>1
    <3>2. Reverse(s) = [k \in 1..Len(s) |-> s[(Len(s) - k) + 1]] BY DEF Reverse
    <3>3. Reverse(s) \in [1..0 -> S] BY <3>1, <3>2
    <3>4. Reverse(s) \in Seq(S) /\ Len(Reverse(s)) = 0 BY <3>3, LengthOf
    <3> HIDE DEF r, n
    <3> QED BY <1>1, <3>4
  <2> QED BY Zenon, <2>1
<1>2. CASE s # <<>>
  <2>1. /\ n \in Nat /\ DOMAIN s = D /\ \A k \in D : s[k] \in S
    OBVIOUS
  <2>2. /\ r \in Seq(S) /\ Len(r) = n
        /\ \A k \in D : n - k + 1 \in D /\ r[n - k + 1] = s[k]
    BY <1>2, Backwards
  <2>3. DOMAIN r = D /\ \A k \in D : r[k] \in S BY <2>2
  <2> HIDE DEF n, r
  <2>4. SignalsOK(s, n) /\ SignalsOK(r, n) BY <2>1, <2>3 DEF SignalsOK
  <2>5. /\ \A k \in D : v[k] = countHits(s[k].text, kw) /\ w[k] = countHits(r[k].text, kw)
    OBVIOUS
  <2>6. \A k \in D : f[k] = n - k + 1 /\ f[k] \in D /\ w[f[k]] = v[k] BY <2>2
  <2>7. f \in Surjection(D, D)
    <3>1. f \in [D -> D] BY <2>6
    <3>2. \A k \in D : f[n - k + 1] = k BY <2>1, <2>2
    <3> HIDE DEF f
    <3> QED BY <2>2, <3>1, <3>2 DEF Surjection
  <2>8. \A i, j \in D : f[i] = f[j] => i = j BY <2>1, <2>6
  <2>9. IsFiniteSet(D)
    <3>1. 1 \in Int /\ n \in Int BY <2>1
    <3> QED BY Zenon, <3>1, FS_Interval
  <2> HIDE DEF v, w, f
  <2>10. (\A k \in D : v[k] \in Nat) /\ countHits(Corpus(s), kw) = SumOver(D, v)
    BY <2>1, <2>4, <2>5, HitsOfSignals
  <2>11. countHits(Corpus(r), kw) = SumOver(D, w) BY <2>1, <2>4, <2>5, HitsOfSignals
  <2> HIDE DEF D
  <2>12. \A k \in D : v[k] \in Int BY <2>10
  <2>13. SumOver(D, w) = SumOver(D, v) BY <2>6, <2>7, <2>8, <2>9, <2>12, SumRenamed
  <2> QED BY Zenon, <2>10, <2>11, <2>13 DEF r
<1> QED BY <1>1, <1>2

LEMMA OneRemoved ==
  ASSUME NEW S, NEW s \in Seq(S), NEW k \in 1..Len(s)
  PROVE  /\ RemoveAt(s, k) \in Seq(S) /\ Len(RemoveAt(s, k)) = Len(s) - 1
         /\ \A j \in 1..(Len(s) - 1) : RemoveAt(s, k)[j] = s[IF j < k THEN j ELSE j + 1]
<1> DEFINE n == Len(s)
           head == SubSeq(s, 1, k - 1)
           tail == SubSeq(s, k + 1, n)
           r == head \o tail
           D == 1..n
<1>1. n \in Nat /\ k \in Int /\ 1 <= k /\ k <= n /\ \A i \in D : s[i] \in S OBVIOUS
<1> HIDE DEF n
<1>2. /\ head \in Seq(S) /\ Len(head) = k - 1 /\ \A i \in 1..(k - 1) : head[i] = s[i]
  <2> DEFINE m == k - 1
  <2>1. m \in Int /\ \A i \in 1..m : s[i] \in S BY <1>1
  <2>2. 1 <= m => m - 1 + 1 = m BY <2>1
  <2> HIDE DEF m
  <2>3. 1 \in Int OBVIOUS
  <2>4. /\ SubSeq(s, 1, m) \in Seq(S) /\ Len(SubSeq(s, 1, m)) = IF 1 <= m THEN m - 1 + 1 ELSE 0
        /\ \A i \in 1..(m - 1 + 1) : SubSeq(s, 1, m)[i] = s[1 + i - 1]
    BY <2>1, <2>3, SubSeqProperties
  <2> DEFINE h == SubSeq(s, 1, m)
  <2>5. h = head BY DEF m
  <2> HIDE DEF h, head
  <2>6. m = k - 1 BY DEF m
  <2>7. \A i \in 1..m : i \in 1..(m - 1 + 1) /\ 1 + i - 1 = i BY <2>1
  <2> QED BY <1>1, <2>4, <2>5, <2>6, <2>7 DEF h
<1>3. /\ tail \in Seq(S) /\ Len(tail) = n - k /\ \A i \in 1..(n - k) : tail[i] = s[k + i]
  <2> DEFINE m == k + 1
  <2>1. m \in Int /\ n \in Int /\ \A i \in m..n : s[i] \in S BY <1>1
  <2>6. m = k + 1 OBVIOUS
  <2> DEFINE h == SubSeq(s, m, n)
  <2>5. h = tail OBVIOUS
  <2> HIDE DEF m
  <2>4. /\ SubSeq(s, m, n) \in Seq(S) /\ Len(SubSeq(s, m, n)) = IF m <= n THEN n - m + 1 ELSE 0
        /\ \A i \in 1..(n - m + 1) : SubSeq(s, m, n)[i] = s[m + i - 1]
    BY <2>1, SubSeqProperties
  <2>8. h \in Seq(S) /\ Len(h) = (IF m <= n THEN n - m + 1 ELSE 0) /\ \A i \in 1..(n - m + 1) : h[i] = s[m + i - 1]
    BY <2>4
  <2> HIDE DEF h, tail
  <2>7. \A i \in 1..(n - k) : i \in 1..(n - m + 1) /\ m + i - 1 = k + i BY <1>1, <2>6
  <2> QED BY <1>1, <2>5, <2>6, <2>7, <2>8
<1> HIDE DEF head, tail
<1>4. /\ r \in Seq(S) /\ Len(r) = Len(head) + Len(tail)
      /\ \A i \in 1..(Len(head) + Len(tail)) : r[i] = IF i <= Len(head) THEN head[i] ELSE tail[i - Len(head)]
  BY <1>2, <1>3, ConcatProperties
<1> HIDE DEF r
<1>5. \A j \in 1..(n - 1) : r[j] = s[IF j < k THEN j ELSE j + 1]
  <2> SUFFICES ASSUME NEW j \in 1..(n - 1) PROVE r[j] = s[IF j < k THEN j ELSE j + 1]
    OBVIOUS
  <2>1. CASE j < k
    <3>1. j \in 1..(k - 1) /\ j <= k - 1 BY <1>1, <2>1
    <3>2. j \in 1..(Len(head) + Len(tail)) BY <1>1, <1>2, <1>3
    <3>3. r[j] = head[j] BY <1>2, <1>4, <3>1, <3>2
    <3> QED BY <1>2, <2>1, <3>1, <3>3
  <2>2. CASE ~(j < k)
    <3> DEFINE i == j - (k - 1)
    <3>1. i \in 1..(n - k) /\ ~(j <= k - 1) /\ k + i = j + 1 BY <1>1, <2>2
    <3>2. j \in 1..(Len(head) + Len(tail)) BY <1>1, <1>2, <1>3
    <3>4. j - Len(head) = i BY <1>2
    <3> HIDE DEF i
    <3>3. r[j] = tail[i] BY <1>2, <1>4, <3>1, <3>2, <3>4
    <3> QED BY <1>3, <2>2, <3>1, <3>3
  <2> QED BY <2>1, <2>2
<1>6. RemoveAt(s, k) = r BY Zenon DEF RemoveAt, r, head, tail, n
<1>7. Len(r) = n - 1 BY <1>1, <1>2, <1>3, <1>4
<1> QED BY <1>4, <1>5, <1>6, <1>7 DEF n

LEMMA HitsOfOneOf ==
  ASSUME NEW S, \A x \in S : x.text \in Seq(Words), NEW s \in Seq(S), NEW kw \in Keywords,
         NEW v, \A k \in 1..Len(s) : v[k] = countHits(Corpus(<<s[k]>>), kw)
  PROVE  /\ \A k \in 1..Len(s) : v[k] \in Nat
         /\ countHits(Corpus(s), kw) = SumOver(1..Len(s), v)
<1> DEFINE n == Len(s)
<1>1. n \in Nat /\ DOMAIN s = 1..n /\ \A k \in 1..n : s[k] \in S OBVIOUS
<1> HIDE DEF n
<1>2. ASSUME NEW k \in 1..n PROVE countHits(Corpus(<<s[k]>>), kw) = countHits(s[k].text, kw)
  <2> DEFINE e == s[k]
             one == <<e>>
             m == 1
             u == [i \in 1..m |-> countHits(one[i].text, kw)]
  <2>1. e \in S /\ m \in Nat /\ 1..m = {1} /\ {1} \ {1} = {}
    <3>1. e \in S BY <1>1
    <3>2. m \in Nat /\ m = 1 OBVIOUS
    <3> HIDE DEF m, e
    <3>3. 1..m = {1} BY <3>2
    <3> QED BY <3>1, <3>2, <3>3
  <2> HIDE DEF e, m
  <2>2. one \in Seq(S) /\ Len(one) = 1 /\ one[1] = e /\ DOMAIN one = 1..m
    <3>1. one \in Seq(S) /\ Len(one) = 1 /\ one[1] = e /\ DOMAIN one = 1..1 BY <2>1
    <3> HIDE DEF one
    <3>2. 1..1 = {1} OBVIOUS
    <3> QED BY Zenon, <2>1, <3>1, <3>2
  <2> HIDE DEF one
  <2>3. SignalsOK(one, m)
    <3>1. \A i \in 1..m : one[i] = e BY <2>1, <2>2
    <3> QED BY <2>1, <2>2, <3>1 DEF SignalsOK
  <2>4. \A i \in 1..m : u[i] = countHits(one[i].text, kw) OBVIOUS
  <2> HIDE DEF u
  <2>5. (\A i \in 1..m : u[i] \in Nat) /\ countHits(Corpus(one), kw) = SumOver(1..m, u)
    BY <2>1, <2>3, <2>4, HitsOfSignals
  <2>7. u[1] \in Nat BY <2>1, <2>5
  <2>8. SumOver({1}, u) = SumOver({1} \ {1}, u) + u[1]
    <3> DEFINE O == {1}
    <3>1. IsFiniteSet(O) BY FS_Singleton
    <3>2. 1 \in O /\ \A x \in O : u[x] \in Int BY <2>7
    <3> HIDE DEF O
    <3>3. SumOver(O, u) = SumOver(O \ {1}, u) + u[1] BY <3>1, <3>2, SumByKey
    <3> QED BY <3>3 DEF O
  <2>9. SumOver({}, u) = 0 BY FS_EmptySet, SumByKey
  <2>10. SumOver(1..m, u) = u[1]
    <3>1. SumOver(1..m, u) = SumOver({}, u) + u[1] BY Zenon, <2>1, <2>8
    <3> QED BY <2>7, <2>9, <3>1
  <2>11. u[1] = countHits(e.text, kw) BY <2>1, <2>2, <2>4
  <2> QED BY Zenon, <2>5, <2>10, <2>11 DEF one, e
<1>3. SignalsOK(s, n) BY <1>1 DEF SignalsOK
<1>4. \A k \in 1..n : v[k] = countHits(s[k].text, kw) BY <1>2 DEF n
<1>5. (\A k \in 1..n : v[k] \in Nat) /\ countHits(Corpus(s), kw) = SumOver(1..n, v)
  BY <1>1, <1>3, <1>4, HitsOfSignals
<1> QED BY <1>5 DEF n

\* A signal with no hit changes nothing by being left out.
LEMMA HitsWithout ==
  ASSUME NEW S, \A x \in S : x.text \in Seq(Words), NEW s \in Seq(S), NEW k \in 1..Len(s),
         NEW kw \in Keywords, countHits(Corpus(<<s[k]>>), kw) = 0
  PROVE  countHits(Corpus(RemoveAt(s, k)), kw) = countHits(Corpus(s), kw)
<1> DEFINE n == Len(s)
           r == RemoveAt(s, k)
           D == 1..n
           E == 1..(n - 1)
           v == [i \in D |-> countHits(Corpus(<<s[i]>>), kw)]
           w == [j \in E |-> countHits(Corpus(<<r[j]>>), kw)]
           f == [j \in E |-> IF j < k THEN j ELSE j + 1]
           R == D \ {k}
<1>1. /\ n \in Nat /\ k \in D /\ r \in Seq(S) /\ Len(r) = n - 1
      /\ \A j \in E : r[j] = s[IF j < k THEN j ELSE j + 1]
  <2>1. /\ r \in Seq(S) /\ Len(r) = n - 1
        /\ \A j \in E : r[j] = s[IF j < k THEN j ELSE j + 1]
    BY Zenon, OneRemoved
  <2>2. n \in Nat /\ k \in D BY LenProperties
  <2> QED BY Zenon, <2>1, <2>2
<1> HIDE DEF n, r
<1>2. v[k] = 0 /\ \A i \in 1..Len(s) : v[i] = countHits(Corpus(<<s[i]>>), kw) BY <1>1 DEF n
<1>3. \A j \in 1..Len(r) : w[j] = countHits(Corpus(<<r[j]>>), kw) BY <1>1
<1>4. \A j \in E : f[j] \in R /\ w[j] = v[f[j]]
  <2> SUFFICES ASSUME NEW j \in E PROVE f[j] \in R /\ w[j] = v[f[j]]
    OBVIOUS
  <2>1. f[j] = IF j < k THEN j ELSE j + 1 OBVIOUS
  <2>2. f[j] \in R BY <1>1, <2>1
  <2>3. r[j] = s[f[j]] BY <1>1, <2>1
  <2>4. v[f[j]] = countHits(Corpus(<<s[f[j]]>>), kw) BY <2>2
  <2> QED BY <2>2, <2>3, <2>4
<1>5. f \in Surjection(E, R)
  <2>1. f \in [E -> R] BY <1>4
  <2>2. ASSUME NEW i \in R PROVE \E j \in E : f[j] = i
    <3>1. CASE i < k
      <4>1. i \in E /\ f[i] = i BY <1>1, <3>1
      <4> QED BY <4>1
    <3>2. CASE i > k
      <4>1. i - 1 \in E /\ f[i - 1] = i BY <1>1, <3>2
      <4> QED BY <4>1
    <3> QED BY <1>1, <3>1, <3>2
  <2> HIDE DEF f, E, R
  <2> QED BY <2>1, <2>2 DEF Surjection
<1>6. \A i, j \in E : f[i] = f[j] => i = j BY <1>1
<1>7. IsFiniteSet(D) /\ IsFiniteSet(E)
  <2>1. 1 \in Int /\ n \in Int /\ n - 1 \in Int BY <1>1
  <2> QED BY Zenon, <2>1, FS_Interval
<1> HIDE DEF v, w, f
<1>8. (\A i \in 1..Len(s) : v[i] \in Nat) /\ countHits(Corpus(s), kw) = SumOver(1..Len(s), v)
  BY <1>2, HitsOfOneOf
<1>9. (\A j \in 1..Len(r) : w[j] \in Nat) /\ countHits(Corpus(r), kw) = SumOver(1..Len(r), w)
  BY <1>1, <1>3, HitsOfOneOf
<1>10. \A i \in D : v[i] \in Int BY <1>8 DEF n
<1>11. \A j \in E : w[j] \in Int BY <1>1, <1>9
<1>12. SumOver(E, w) = SumOver(R, v)
  <2>1. \A j \in E : v[f[j]] = w[j] BY <1>4
  <2> HIDE DEF D, E, R
  <2>2. SumOver(R, v) = SumOver(E, w) BY <1>5, <1>6, <1>7, <1>11, <2>1, SumRenamed
  <2> QED BY <2>2
<1>13. SumOver(D, v) = SumOver(R, v) + v[k] /\ SumOver(R, v) \in Int
  <2>1. IsFiniteSet(R) /\ \A i \in R : v[i] \in Int
    <3>1. R \in SUBSET D OBVIOUS
    <3>2. \A i \in R : i \in D OBVIOUS
    <3> HIDE DEF R, D
    <3> QED BY <1>7, <1>10, <3>1, <3>2, FS_Subset
  <2>2. SumOver(R, v) \in Int
    <3> HIDE DEF R
    <3> QED BY <2>1, SumByKey
  <2>3. k \in D BY <1>1
  <2> HIDE DEF D
  <2>4. SumOver(D, v) = SumOver(D \ {k}, v) + v[k] BY <1>7, <1>10, <2>3, SumByKey
  <2> QED BY <2>2, <2>4
<1>14. SumOver(D, v) = SumOver(R, v)
  <2> HIDE DEF D, R
  <2> QED BY <1>2, <1>13
<1>15. countHits(Corpus(s), kw) = SumOver(D, v) BY <1>8 DEF n
<1>16. countHits(Corpus(r), kw) = SumOver(E, w)
  <2>1. 1..Len(r) = E BY <1>1
  <2> QED BY Zenon, <1>9, <2>1
<1> QED BY Zenon, <1>12, <1>14, <1>15, <1>16 DEF r

-----------------------------------------------------------------------------
(* The intent of signals.                                                   *)
Topics == DOMAIN DEFAULT_INTENT_TOPICS
KeywordsFor(t) == DEFAULT_INTENT_TOPICS[t]
HitsIn(text) ==
  [t \in DOMAIN DEFAULT_INTENT_TOPICS |->
     TotalOf([kw \in DEFAULT_INTENT_TOPICS[t] |-> countHits(text, kw)])]
Present(hits) == {t \in DOMAIN hits : hits[t] > 0}
TopicsBy(hits) ==
  Sorted(Present(hits), LAMBDA s, t :
    hits[s] > hits[t] \/ (hits[s] = hits[t] /\ Alphabetic(s) < Alphabetic(t)))
ScoreBy(p, total, n) ==
  (2 * (60 * p * (total + n) + 40 * total * Len(TopicOrder)) + Len(TopicOrder) * (total + n))
    \div (2 * Len(TopicOrder) * (total + n))

LEMMA IntentOf ==
  ASSUME NEW s
  PROVE  analyzeIntent(s) =
           IF s = <<>> THEN [topics |-> <<>>, score |-> 0]
           ELSE [topics |-> TopicsBy(HitsIn(Corpus(s))),
                 score |-> ScoreBy(Cardinality(Present(HitsIn(Corpus(s)))),
                                   SumOver(Present(HitsIn(Corpus(s))), HitsIn(Corpus(s))), Len(s))]
BY Zenon DEF analyzeIntent, TopicsBy, ScoreBy, Present, HitsIn

LEMMA TopicKeywords ==
  /\ Topics = {"churn", "comparison", "evaluation", "pricing", "purchase", "support"}
  /\ \A t \in Topics : IsFiniteSet(KeywordsFor(t)) /\ KeywordsFor(t) \in SUBSET Keywords
<1>1. Topics = {"churn", "comparison", "evaluation", "pricing", "purchase", "support"}
  BY DEF Topics, DEFAULT_INTENT_TOPICS
<1>2. ASSUME NEW a \in KeywordWords, NEW b \in KeywordWords
      PROVE  <<a>> \in Keywords /\ <<a, b>> \in Keywords
  <2>1. a \in Words /\ b \in Words /\ a # "\n" /\ b # "\n" BY DEF Words, KeywordWords
  <2> DEFINE one == <<a>>
             two == <<a, b>>
  <2>2. one \in Seq(Words) /\ Len(one) = 1 /\ one[1] = a BY <2>1
  <2>3. two \in Seq(Words) /\ Len(two) = 2 /\ two[1] = a /\ two[2] = b BY <2>1
  <2> HIDE DEF one, two
  <2>4. \A i \in 1..Len(one) : one[i] # "\n" BY <2>1, <2>2
  <2>5. \A i \in 1..Len(two) : two[i] # "\n"
    <3> SUFFICES ASSUME NEW i \in 1..2 PROVE two[i] # "\n"
      BY <2>3
    <3>1. i = 1 \/ i = 2 OBVIOUS
    <3> QED BY <2>1, <2>3, <3>1
  <2>6. Len(one) > 0 /\ Len(two) > 0 BY <2>2, <2>3
  <2>7. one \in Keywords BY Zenon, <2>2, <2>4, <2>6 DEF Keywords
  <2>8. two \in Keywords BY Zenon, <2>3, <2>5, <2>6 DEF Keywords
  <2> QED BY <2>7, <2>8 DEF one, two
<1>3. /\ <<"cancel">> \in Keywords /\ <<"better", "than">> \in Keywords /\ <<"recommend">> \in Keywords
      /\ <<"price">> \in Keywords /\ <<"how", "much">> \in Keywords /\ <<"buy">> \in Keywords
      /\ <<"broken">> \in Keywords /\ <<"help">> \in Keywords
  <2>1. /\ "cancel" \in KeywordWords /\ "better" \in KeywordWords /\ "than" \in KeywordWords
        /\ "recommend" \in KeywordWords /\ "price" \in KeywordWords /\ "how" \in KeywordWords
        /\ "much" \in KeywordWords /\ "buy" \in KeywordWords /\ "broken" \in KeywordWords
        /\ "help" \in KeywordWords
    BY DEF KeywordWords
  <2> QED BY Zenon, <1>2, <2>1
<1>4. ASSUME NEW a \in Keywords, NEW b \in Keywords
      PROVE  /\ IsFiniteSet({a}) /\ {a} \in SUBSET Keywords
             /\ IsFiniteSet({a, b}) /\ {a, b} \in SUBSET Keywords
  <2>1. IsFiniteSet({a}) BY FS_Singleton
  <2>2. IsFiniteSet({a} \cup {b}) BY <2>1, FS_AddElement
  <2>3. {a} \cup {b} = {a, b} OBVIOUS
  <2> QED BY Zenon, <2>1, <2>2, <2>3
<1>5. /\ KeywordsFor("churn") = {<<"cancel">>} /\ KeywordsFor("comparison") = {<<"better", "than">>}
      /\ KeywordsFor("evaluation") = {<<"recommend">>}
      /\ KeywordsFor("pricing") = {<<"price">>, <<"how", "much">>}
      /\ KeywordsFor("purchase") = {<<"buy">>} /\ KeywordsFor("support") = {<<"broken">>, <<"help">>}
  BY DEF KeywordsFor, DEFAULT_INTENT_TOPICS
<1>6. ASSUME NEW t \in Topics
      PROVE  IsFiniteSet(KeywordsFor(t)) /\ KeywordsFor(t) \in SUBSET Keywords
  <2>1. CASE t = "churn" BY Zenon, <1>3, <1>4, <1>5, <2>1
  <2>2. CASE t = "comparison" BY Zenon, <1>3, <1>4, <1>5, <2>2
  <2>3. CASE t = "evaluation" BY Zenon, <1>3, <1>4, <1>5, <2>3
  <2>4. CASE t = "pricing"
    <3>1. PICK a \in Keywords : a = <<"price">> BY Zenon, <1>3
    <3>2. PICK b \in Keywords : b = <<"how", "much">> BY Zenon, <1>3
    <3>3. IsFiniteSet({a, b}) /\ {a, b} \in SUBSET Keywords BY <1>4
    <3> QED BY Zenon, <1>5, <2>4, <3>1, <3>2, <3>3
  <2>5. CASE t = "purchase" BY Zenon, <1>3, <1>4, <1>5, <2>5
  <2>6. CASE t = "support"
    <3>1. PICK a \in Keywords : a = <<"broken">> BY Zenon, <1>3
    <3>2. PICK b \in Keywords : b = <<"help">> BY Zenon, <1>3
    <3>3. IsFiniteSet({a, b}) /\ {a, b} \in SUBSET Keywords BY <1>4
    <3> QED BY Zenon, <1>5, <2>6, <3>1, <3>2, <3>3
  <2> QED BY <1>1, <2>1, <2>2, <2>3, <2>4, <2>5, <2>6
<1> QED BY <1>1, <1>6

\* The hits of a topic are those of its keywords.
LEMMA HitsOfTopics ==
  ASSUME NEW text, \A kw \in Keywords : countHits(text, kw) \in Nat
  PROVE  /\ HitsIn(text) \in [Topics -> Nat]
         /\ \A t \in Topics : HitsIn(text)[t] > 0 <=> \E kw \in KeywordsFor(t) : countHits(text, kw) > 0
<1> DEFINE v(t) == [kw \in KeywordsFor(t) |-> countHits(text, kw)]
           h == HitsIn(text)
<1>1. \A t \in Topics : h[t] = TotalOf(v(t)) BY DEF HitsIn, Topics, KeywordsFor
<1>2. DOMAIN h = Topics /\ h = [t \in Topics |-> TotalOf(v(t))] BY Zenon DEF HitsIn, Topics, KeywordsFor
<1>3. ASSUME NEW t \in Topics
      PROVE  h[t] \in Nat /\ (h[t] > 0 <=> \E kw \in KeywordsFor(t) : countHits(text, kw) > 0)
  <2> DEFINE D == KeywordsFor(t)
             w == v(t)
  <2>1. IsFiniteSet(D) /\ \A kw \in D : w[kw] = countHits(text, kw) /\ w[kw] \in Nat BY TopicKeywords
  <2>2. DOMAIN w = D OBVIOUS
  <2>3. h[t] = TotalOf(w) BY <1>1
  <2> HIDE DEF D, w, h
  <2>4. TotalOf(w) = SumOver(D, w) BY <2>2 DEF TotalOf
  <2>5. /\ SumOver(D, w) \in Nat /\ \A kw \in D : w[kw] <= SumOver(D, w)
        /\ (\A kw \in D : w[kw] = 0) => SumOver(D, w) = 0
    BY <2>1, SumOfNaturals
  <2>6. SumOver(D, w) > 0 <=> \E kw \in D : countHits(text, kw) > 0 BY <2>1, <2>5
  <2> QED BY Zenon, <2>3, <2>4, <2>5, <2>6 DEF D
<1>4. h \in [Topics -> Nat]
  <2> HIDE DEF h
  <2>1. h = [t \in Topics |-> h[t]] BY <1>2
  <2> QED BY <1>3, <2>1
<1> QED BY <1>3, <1>4

LEMMA PlacesOfTopics ==
  /\ Len(TopicOrder) = 6
  /\ \A t \in Topics : Alphabetic(t) \in 1..6
  /\ \A s, t \in Topics : Alphabetic(s) = Alphabetic(t) => s = t
<1>1. /\ DOMAIN TopicOrder = 1..6 /\ Len(TopicOrder) = 6
      /\ TopicOrder[1] = "churn" /\ TopicOrder[2] = "comparison" /\ TopicOrder[3] = "evaluation"
      /\ TopicOrder[4] = "pricing" /\ TopicOrder[5] = "purchase" /\ TopicOrder[6] = "support"
  BY DEF TopicOrder
<1>2. 1 \in 1..6 /\ 2 \in 1..6 /\ 3 \in 1..6 /\ 4 \in 1..6 /\ 5 \in 1..6 /\ 6 \in 1..6 OBVIOUS
<1>3. ASSUME NEW t \in Topics PROVE Alphabetic(t) \in 1..6 /\ TopicOrder[Alphabetic(t)] = t
  <2>1. \E k \in 1..6 : TopicOrder[k] = t BY Zenon, <1>1, <1>2, TopicKeywords
  <2>2. Alphabetic(t) = CHOOSE k \in 1..6 : TopicOrder[k] = t BY Zenon, <1>1 DEF Alphabetic
  <2> QED BY <2>1, <2>2
<1>4. \A s, t \in Topics : Alphabetic(s) = Alphabetic(t) => s = t
  <2> SUFFICES ASSUME NEW s \in Topics, NEW t \in Topics, Alphabetic(s) = Alphabetic(t) PROVE s = t
    OBVIOUS
  <2>1. TopicOrder[Alphabetic(s)] = s /\ TopicOrder[Alphabetic(t)] = t BY <1>3
  <2> QED BY Zenon, <2>1
<1> QED BY <1>1, <1>3, <1>4

LEMMA TopicsOfHits ==
  ASSUME NEW h \in [Topics -> Nat]
  PROVE  /\ IsFiniteSet(Present(h)) /\ Cardinality(Present(h)) \in 0..6
         /\ Present(h) \in SUBSET Topics
         /\ Range(TopicsBy(h)) = Present(h)
         /\ TopicsBy(h) = <<>> <=> Present(h) = {}
<1> DEFINE S == Present(h)
           a == [t \in S |-> -h[t]]
           b == [t \in S |-> Alphabetic(t)]
           R == LexOrder(S, a, b, b)
           L == TopicsBy(h)
<1>1. S \in SUBSET Topics /\ \A t \in S : h[t] \in Nat BY DEF Present
<1>2. IsFiniteSet(Topics) /\ Cardinality(Topics) <= 6
  <2> DEFINE T == {"churn", "comparison", "evaluation", "pricing", "purchase", "support"}
  <2>1. IsFiniteSet(T) BY FewAreFinite
  <2>2. Topics = T BY TopicKeywords
  <2> HIDE DEF T
  <2>3. IsFiniteSet(Topics) BY <2>1, <2>2
  <2> DEFINE g == [t \in Topics |-> Alphabetic(t)]
  <2>4. g \in Injection(Topics, 1..6)
    <3>1. g \in [Topics -> 1..6] BY PlacesOfTopics
    <3>2. \A s, t \in Topics : g[s] = g[t] => s = t BY PlacesOfTopics
    <3> HIDE DEF g
    <3> QED BY <3>1, <3>2 DEF Injection, IsInjective
  <2> DEFINE D == 1..6
  <2>5. IsFiniteSet(D) /\ Cardinality(D) = 6
    <3>1. PICK m \in Nat : m = 6 OBVIOUS
    <3>2. IsFiniteSet(1..m) /\ Cardinality(1..m) = IF 1 > m THEN 0 ELSE m - 1 + 1 BY FS_Interval
    <3>3. Cardinality(1..m) = 6 BY <3>1, <3>2
    <3> QED BY Zenon, <3>1, <3>2, <3>3
  <2> HIDE DEF g, D
  <2>6. Cardinality(Topics) <= Cardinality(D) BY <2>3, <2>4, <2>5, FS_Injection DEF D
  <2> QED BY <2>3, <2>5, <2>6
<1>3. IsFiniteSet(S) /\ Cardinality(S) \in 0..6
  <2> HIDE DEF S
  <2>1. IsFiniteSet(S) /\ Cardinality(S) <= Cardinality(Topics) BY <1>1, <1>2, FS_Subset
  <2>2. Cardinality(S) \in Nat /\ Cardinality(Topics) \in Nat BY <1>2, <2>1, FS_CardinalityType
  <2> QED BY <1>2, <2>1, <2>2
<1> HIDE DEF S
<1>4. /\ \A t \in S : a[t] = -h[t] /\ b[t] = Alphabetic(t) /\ a[t] \in Int /\ b[t] \in Int
      /\ \A s, t \in S : b[s] = b[t] => s = t
  BY <1>1, PlacesOfTopics
<1>5. a \in [S -> Int] /\ b \in [S -> Int] BY <1>4
<1>6. StrictOrder(R, S)
  <2> HIDE DEF a, b
  <2> QED BY <1>4, <1>5, Lexicographic
<1>7. SortedBy(L, S, R)
  <2> DEFINE before(y, x) == h[y] > h[x] \/ (h[y] = h[x] /\ Alphabetic(y) < Alphabetic(x))
             e(k) == CHOOSE x \in S : Cardinality({y \in S : before(y, x)}) = k - 1
             g(k) == CHOOSE x \in S : Cardinality({y \in S : <<y, x>> \in R}) = k - 1
  <2>1. ASSUME NEW x \in S, NEW y \in S PROVE before(y, x) <=> <<y, x>> \in R
    <3>1. h[x] \in Nat /\ h[y] \in Nat /\ Alphabetic(x) \in Int /\ Alphabetic(y) \in Int
      BY <1>1, <1>4
    <3>2. <<y, x>> \in R <=> a[y] < a[x] \/ (a[y] = a[x] /\ b[y] < b[x]) BY DEF LexOrder
    <3> QED BY <1>4, <3>1, <3>2
  <2> HIDE DEF before, R
  <2>2. \A x \in S : {y \in S : before(y, x)} = {y \in S : <<y, x>> \in R} BY <2>1
  <2>3. \A k \in 1..Cardinality(S) : e(k) = g(k) BY <2>2
  <2>4. L = [k \in 1..Cardinality(S) |-> e(k)] BY Zenon DEF Sorted, TopicsBy, S, before
  <2> HIDE DEF L
  <2>5. SortedBy(L, S, R) <=> L = [k \in 1..Cardinality(S) |-> g(k)] BY Zenon DEF SortedBy
  <2> HIDE DEF e, g
  <2> QED BY <2>3, <2>4, <2>5
<1> HIDE DEF R, L
<1>8. /\ L \in [1..Cardinality(S) -> S]
      /\ \A x \in S : \E k \in 1..Cardinality(S) : L[k] = x
  BY <1>3, <1>6, <1>7, SortedList
<1> DEFINE n == Cardinality(S)
<1> HIDE DEF n
<1>9. n \in Nat BY <1>3 DEF n
<1>10. Range(L) = S BY <1>8 DEF Range, n
<1>11. L = <<>> <=> S = {}
  <2>1. L \in Seq(S) /\ Len(L) = n BY <1>8, <1>9, LengthOf DEF n
  <2>2. L = <<>> <=> n = 0 BY <2>1
  <2>3. S = {} <=> n = 0 BY <1>3, FS_EmptySet DEF n
  <2> QED BY <2>2, <2>3
<1> QED BY <1>1, <1>3, <1>10, <1>11 DEF S, L

-----------------------------------------------------------------------------
(* The score of intent.                                                     *)
LEMMA Quotients ==
  ASSUME NEW x \in Nat, NEW y \in Nat \ {0}
  PROVE  /\ x \div y \in Nat /\ (x \div y) * y <= x
         /\ \A c \in Int : c * y <= x => c <= x \div y
         /\ \A c \in Int : x < c * y => x \div y < c
<1> DEFINE q == x \div y
<1>1. q \in Int /\ q * y <= x /\ x < (q + 1) * y BY SMT
<1> HIDE DEF q
<1>2. ASSUME NEW c \in Int, c * y <= x PROVE c <= q
  <2> SUFFICES ASSUME q + 1 <= c PROVE FALSE
    BY <1>1
  <2>1. (q + 1) * y <= c * y BY <1>1
  <2> QED BY <1>1, <1>2, <2>1
<1>3. ASSUME NEW c \in Int, x < c * y PROVE q < c
  <2> SUFFICES ASSUME c <= q PROVE FALSE
    BY <1>1
  <2>1. c * y <= q * y BY <1>1
  <2> QED BY <1>1, <1>3, <2>1
<1>4. q \in Nat
  <2>1. 0 * y <= x OBVIOUS
  <2> QED BY <1>1, <1>2, <2>1
<1> QED BY <1>1, <1>2, <1>3, <1>4 DEF q

ScoreArgs(p, total, n) == p \in 0..6 /\ total \in Nat /\ n \in Nat \ {0}
ScoreIs(score, total, a, X) ==
  /\ X \in Nat /\ X <= 6 * a
  /\ score = (120 * X + 480 * total + 6 * a) \div (12 * a)

LEMMA ScoreParts ==
  ASSUME NEW p, NEW total, NEW n, ScoreArgs(p, total, n)
  PROVE  ScoreIs(ScoreBy(p, total, n), total, total + n, p * (total + n))
<1> DEFINE a == total + n
           X == p * a
<1>0. p \in 0..6 /\ total \in Nat /\ n \in Nat \ {0} BY DEF ScoreArgs
<1>1. a \in Nat \ {0} /\ total <= a BY <1>0
<1>2. Len(TopicOrder) = 6 BY PlacesOfTopics
<1> HIDE DEF a
<1>3. X \in Nat /\ X <= 6 * a /\ 60 * p * a = 60 * X BY <1>0, <1>1
<1>4. ScoreBy(p, total, n) = (2 * (60 * p * a + 40 * total * 6) + 6 * a) \div (2 * 6 * a)
  BY Zenon, <1>2 DEF ScoreBy, a
<1> DEFINE u == 60 * p * a
           x == 2 * (u + 40 * total * 6) + 6 * a
           z == 120 * X + 480 * total + 6 * a
           y == 2 * 6 * a
           w == 12 * a
<1>5. x = z
  <2>1. u = 60 * X BY <1>3
  <2> HIDE DEF u, X
  <2> QED BY <1>0, <1>1, <1>3, <2>1
<1>6. y = w BY <1>1
<1>7. ScoreBy(p, total, n) = x \div y BY <1>4
<1> HIDE DEF x, y, z, w, u
<1>8. ScoreBy(p, total, n) = z \div w BY Zenon, <1>5, <1>6, <1>7
<1> QED BY Zenon, <1>3, <1>8 DEF z, w, X, a, ScoreIs

LEMMA ScoreInRange ==
  ASSUME NEW p \in 0..6, NEW total \in Nat, NEW n \in Nat \ {0}
  PROVE  ScoreBy(p, total, n) \in 0..100
<1> DEFINE a == total + n
<1>1. a \in Nat \ {0} /\ total <= a OBVIOUS
<1> DEFINE X == p * a
<1>2. /\ X \in Nat /\ X <= 6 * a
      /\ ScoreBy(p, total, n) = (120 * X + 480 * total + 6 * a) \div (12 * a)
  <2>1. ScoreArgs(p, total, n) BY DEF ScoreArgs
  <2>2. ScoreIs(ScoreBy(p, total, n), total, total + n, p * (total + n)) BY Zenon, <2>1, ScoreParts
  <2>3. ScoreIs(ScoreBy(p, total, n), total, a, X) BY <2>2
  <2> HIDE DEF a, X
  <2> QED BY <2>3 DEF ScoreIs
<1>2a. X = p * a OBVIOUS
<1> HIDE DEF X
<1> HIDE DEF a
<1> DEFINE x == 120 * X + 480 * total + 6 * a
           y == 12 * a
<1>3. x \in Nat /\ y \in Nat \ {0} /\ x < 101 * y BY <1>1, <1>2
<1>4. ScoreBy(p, total, n) = x \div y BY <1>2
<1> HIDE DEF x, y
<1>5. x \div y \in Nat /\ x \div y < 101 BY <1>3, Quotients
<1> QED BY <1>4, <1>5

LEMMA ScoreFalls ==
  ASSUME NEW p \in 0..6, NEW total \in Nat, NEW n \in Nat \ {0}
  PROVE  ScoreBy(p, total, n + 1) <= ScoreBy(p, total, n)
<1> DEFINE a == total + n
           b == total + (n + 1)
<1>1. a \in Nat \ {0} /\ b = a + 1 OBVIOUS
<1>0. n + 1 \in Nat \ {0} OBVIOUS
<1> DEFINE X == p * a
<1>2. /\ X \in Nat /\ X <= 6 * a
      /\ ScoreBy(p, total, n) = (120 * X + 480 * total + 6 * a) \div (12 * a)
  <2>1. ScoreArgs(p, total, n) BY DEF ScoreArgs
  <2>2. ScoreIs(ScoreBy(p, total, n), total, total + n, p * (total + n)) BY Zenon, <2>1, ScoreParts
  <2>3. ScoreIs(ScoreBy(p, total, n), total, a, X) BY <2>2
  <2> HIDE DEF a, X
  <2> QED BY <2>3 DEF ScoreIs
<1>2a. X = p * a OBVIOUS
<1> HIDE DEF X
<1> DEFINE Z == p * b
<1>3. /\ Z \in Nat /\ Z <= 6 * b
      /\ ScoreBy(p, total, n + 1) = (120 * Z + 480 * total + 6 * b) \div (12 * b)
  <2>1. ScoreArgs(p, total, n + 1) BY <1>0 DEF ScoreArgs
  <2>2. ScoreIs(ScoreBy(p, total, n + 1), total, total + (n + 1), p * (total + (n + 1)))
    BY Zenon, <2>1, ScoreParts
  <2>3. ScoreIs(ScoreBy(p, total, n + 1), total, b, Z) BY <2>2
  <2> HIDE DEF b, Z
  <2> QED BY <2>3 DEF ScoreIs
<1>3a. Z = p * b OBVIOUS
<1> HIDE DEF Z
<1> HIDE DEF a, b
<1> DEFINE x == 120 * X + 480 * total + 6 * a
           y == 12 * a
           z == 120 * Z + 480 * total + 6 * b
           w == 12 * b
           q == z \div w
           r == x \div y
<1>4. x \in Nat /\ y \in Nat \ {0} /\ z \in Nat /\ w \in Nat \ {0} BY <1>1, <1>2, <1>3
<1>5. q \in Int /\ q * w <= z
  <2> HIDE DEF z, w
  <2> QED BY <1>4, Quotients
<1> HIDE DEF q, r
<1> DEFINE c == 12 * q - 120 * p - 6
<1>6. c * b = q * w - 120 * Z - 6 * b BY <1>1, <1>3, <1>3a, <1>5
<1>7. c * b <= 480 * total BY <1>1, <1>3, <1>5, <1>6
<1>8. c \in Int BY <1>5
<1>9. c * a = q * y - 120 * X - 6 * a BY <1>1, <1>2, <1>2a, <1>5
<1> HIDE DEF c
<1>10. c * a <= 480 * total
  <2>1. CASE c >= 0
    <3>1. c * b = c * a + c BY <1>1, <1>8
    <3>2. c * a \in Int BY <1>1, <1>8
    <3> HIDE DEF w, y
    <3> QED BY <1>7, <1>8, <2>1, <3>1, <3>2
  <2>2. CASE c < 0
    <3>1. c * a <= 0 BY <1>1, <1>8, <2>2
    <3>2. c * a \in Int BY <1>1, <1>8
    <3> QED BY <3>1, <3>2
  <2> QED BY <1>8, <2>1, <2>2
<1>11. q * y <= x BY <1>1, <1>2, <1>5, <1>9, <1>10
<1>12. q <= r
  <2> HIDE DEF x, y
  <2> QED BY <1>4, <1>5, <1>11, Quotients DEF r
<1> QED BY <1>2, <1>3, <1>12 DEF q, r

LEMMA ScoreOfNothing == ScoreBy(0, 0, 1) = 0
<1>1. PICK p \in 0..6 : p = 0 OBVIOUS
<1>2. PICK n \in Nat \ {0} : n = 1 OBVIOUS
<1>3. PICK total \in Nat : total = 0 OBVIOUS
<1> DEFINE X == p * (total + n)
<1>4. ScoreBy(p, total, n) = (120 * X + 480 * total + 6 * (total + n)) \div (12 * (total + n))
  <2>1. ScoreArgs(p, total, n) BY DEF ScoreArgs
  <2>2. ScoreIs(ScoreBy(p, total, n), total, total + n, p * (total + n)) BY Zenon, <2>1, ScoreParts
  <2>3. ScoreIs(ScoreBy(p, total, n), total, total + n, X) BY <2>2
  <2> HIDE DEF X
  <2> QED BY <2>3 DEF ScoreIs
<1>5. X = 0 /\ total + n = 1 BY <1>1, <1>2, <1>3
<1> HIDE DEF X
<1>6. (120 * X + 480 * total + 6 * (total + n)) \div (12 * (total + n)) = 0 BY <1>3, <1>5
<1> QED BY Zenon, <1>1, <1>2, <1>3, <1>4, <1>6

-----------------------------------------------------------------------------
(* The intent of lists of signals.                                          *)
LEMMA HitsOfEach ==
  ASSUME NEW S, \A x \in S : x.text \in Seq(Words), NEW s \in Seq(S), NEW kw \in Keywords
  PROVE  /\ countHits(Corpus(s), kw) \in Nat
         /\ countHits(Corpus(s), kw) > 0 <=> \E k \in 1..Len(s) : countHits(Corpus(<<s[k]>>), kw) > 0
<1> DEFINE D == 1..Len(s)
           v == [k \in D |-> countHits(Corpus(<<s[k]>>), kw)]
<1>1. \A k \in 1..Len(s) : v[k] = countHits(Corpus(<<s[k]>>), kw) OBVIOUS
<1>2. IsFiniteSet(D)
  <2>1. 1 \in Int /\ Len(s) \in Int OBVIOUS
  <2> QED BY Zenon, <2>1, FS_Interval
<1> HIDE DEF v
<1>3. (\A k \in 1..Len(s) : v[k] \in Nat) /\ countHits(Corpus(s), kw) = SumOver(1..Len(s), v)
  BY <1>1, HitsOfOneOf
<1>4. (\A k \in D : v[k] \in Nat) /\ countHits(Corpus(s), kw) = SumOver(D, v) BY <1>3
<1> HIDE DEF D
<1>5. /\ SumOver(D, v) \in Nat /\ \A k \in D : v[k] <= SumOver(D, v)
      /\ (\A k \in D : v[k] = 0) => SumOver(D, v) = 0
  BY <1>2, <1>4, SumOfNaturals
<1>6. SumOver(D, v) > 0 <=> \E k \in D : v[k] > 0 BY <1>4, <1>5
<1>7. \A k \in D : v[k] = countHits(Corpus(<<s[k]>>), kw) BY <1>1 DEF D
<1>8. countHits(Corpus(s), kw) > 0 <=> \E k \in D : countHits(Corpus(<<s[k]>>), kw) > 0
  BY <1>4, <1>6, <1>7
<1> QED BY <1>4, <1>5, <1>8 DEF D

LEMMA SameHits ==
  ASSUME NEW text, NEW other, \A kw \in Keywords : countHits(text, kw) = countHits(other, kw)
  PROVE  HitsIn(text) = HitsIn(other)
<1> DEFINE v(t) == [kw \in KeywordsFor(t) |-> countHits(text, kw)]
           w(t) == [kw \in KeywordsFor(t) |-> countHits(other, kw)]
<1>1. ASSUME NEW t \in Topics PROVE v(t) = w(t)
  <2>1. \A kw \in KeywordsFor(t) : countHits(text, kw) = countHits(other, kw) BY TopicKeywords
  <2> QED BY <2>1
<1>2. HitsIn(text) = [t \in Topics |-> TotalOf(v(t))] BY Zenon DEF HitsIn, Topics, KeywordsFor
<1>3. HitsIn(other) = [t \in Topics |-> TotalOf(w(t))] BY Zenon DEF HitsIn, Topics, KeywordsFor
<1> HIDE DEF v, w
<1>4. \A t \in Topics : TotalOf(v(t)) = TotalOf(w(t)) BY Zenon, <1>1
<1>5. [t \in Topics |-> TotalOf(v(t))] = [t \in Topics |-> TotalOf(w(t))] BY <1>4
<1> QED BY Zenon, <1>2, <1>3, <1>5

LEMMA IntentOfList ==
  ASSUME NEW S, \A x \in S : x.text \in Seq(Words), NEW s \in Seq(S)
  PROVE  /\ HitsIn(Corpus(s)) \in [Topics -> Nat]
         /\ analyzeIntent(s).topics = TopicsBy(HitsIn(Corpus(s)))
         /\ Range(analyzeIntent(s).topics) = Present(HitsIn(Corpus(s)))
         /\ analyzeIntent(s).topics = <<>> <=> Present(HitsIn(Corpus(s))) = {}
         /\ \A t \in Topics : t \in Present(HitsIn(Corpus(s))) <=>
              \E kw \in KeywordsFor(t) : \E k \in 1..Len(s) : countHits(Corpus(<<s[k]>>), kw) > 0
<1> DEFINE h == HitsIn(Corpus(s))
<1>1. \A kw \in Keywords : countHits(Corpus(s), kw) \in Nat BY HitsOfEach
<1>2. /\ h \in [Topics -> Nat]
      /\ \A t \in Topics : h[t] > 0 <=> \E kw \in KeywordsFor(t) : countHits(Corpus(s), kw) > 0
  BY <1>1, HitsOfTopics
<1> HIDE DEF h
<1>3. /\ Range(TopicsBy(h)) = Present(h)
      /\ TopicsBy(h) = <<>> <=> Present(h) = {}
  BY <1>2, TopicsOfHits
<1>4. ASSUME NEW t \in Topics
      PROVE  t \in Present(h) <=>
               \E kw \in KeywordsFor(t) : \E k \in 1..Len(s) : countHits(Corpus(<<s[k]>>), kw) > 0
  <2>1. t \in Present(h) <=> h[t] > 0 BY <1>2 DEF Present
  <2>2. \A kw \in KeywordsFor(t) : kw \in Keywords BY TopicKeywords
  <2>3. \A kw \in KeywordsFor(t) :
          countHits(Corpus(s), kw) > 0 <=> \E k \in 1..Len(s) : countHits(Corpus(<<s[k]>>), kw) > 0
    BY <2>2, HitsOfEach
  <2> QED BY <1>2, <2>1, <2>3
<1>5. analyzeIntent(s).topics = TopicsBy(h)
  <2>1. CASE s = <<>>
    <3>1. Len(s) = 0 BY <2>1
    <3>2. 1..Len(s) = {} BY <3>1
    <3>3. \A t \in Topics : t \notin Present(h)
      <4> HIDE DEF Present
      <4> QED BY <1>4, <3>2
    <3>4. Present(h) = {} BY <1>2, <3>3 DEF Present
    <3>5. analyzeIntent(s).topics = <<>>
      <4>1. analyzeIntent(s) = [topics |-> <<>>, score |-> 0] BY Zenon, <2>1, IntentOf
      <4> QED BY <4>1
    <3> QED BY <1>3, <3>4, <3>5
  <2>2. CASE s # <<>>
    <3> DEFINE score == ScoreBy(Cardinality(Present(h)), SumOver(Present(h), h), Len(s))
    <3>1. analyzeIntent(s) = [topics |-> TopicsBy(h), score |-> score] BY Zenon, <2>2, IntentOf DEF h
    <3> HIDE DEF score
    <3> QED BY <3>1
  <2> QED BY <2>1, <2>2
<1> QED BY Zenon, <1>2, <1>3, <1>4, <1>5 DEF h

LEMMA ScoreOfList ==
  ASSUME NEW S, \A x \in S : x.text \in Seq(Words), NEW s \in Seq(S)
  PROVE  /\ s = <<>> => analyzeIntent(s).score = 0
         /\ s # <<>> => analyzeIntent(s).score =
              ScoreBy(Cardinality(Present(HitsIn(Corpus(s)))),
                      SumOver(Present(HitsIn(Corpus(s))), HitsIn(Corpus(s))), Len(s))
         /\ Cardinality(Present(HitsIn(Corpus(s)))) \in 0..6
         /\ SumOver(Present(HitsIn(Corpus(s))), HitsIn(Corpus(s))) \in Nat
         /\ analyzeIntent(s).score \in 0..100
<1> DEFINE h == HitsIn(Corpus(s))
           P == Present(h)
           p == Cardinality(P)
           total == SumOver(P, h)
           score == ScoreBy(p, total, Len(s))
<1>1. h \in [Topics -> Nat] BY IntentOfList
<1>2. IsFiniteSet(P) /\ p \in 0..6 /\ P \in SUBSET Topics
  <2> HIDE DEF h
  <2> QED BY <1>1, TopicsOfHits
<1>3. total \in Nat
  <2>1. \A t \in P : h[t] \in Nat BY <1>1, <1>2
  <2> HIDE DEF P, h
  <2> QED BY <1>2, <2>1, SumOfNaturals
<1>4. s = <<>> => analyzeIntent(s).score = 0
  <2> SUFFICES ASSUME s = <<>> PROVE analyzeIntent(s).score = 0
    OBVIOUS
  <2>1. analyzeIntent(s) = [topics |-> <<>>, score |-> 0] BY Zenon, IntentOf
  <2> QED BY <2>1
<1>5. s # <<>> => analyzeIntent(s).score = score
  <2> SUFFICES ASSUME s # <<>> PROVE analyzeIntent(s).score = score
    OBVIOUS
  <2>1. analyzeIntent(s) = [topics |-> TopicsBy(h), score |-> score] BY Zenon, IntentOf
  <2> HIDE DEF score, h
  <2> QED BY <2>1
<1>6. s # <<>> => score \in 0..100
  <2> SUFFICES ASSUME s # <<>> PROVE score \in 0..100
    OBVIOUS
  <2>1. Len(s) \in Nat \ {0} OBVIOUS
  <2> HIDE DEF p, total
  <2> QED BY <1>2, <1>3, <2>1, ScoreInRange
<1> HIDE DEF score
<1>7. analyzeIntent(s).score \in 0..100
  <2>1. CASE s = <<>>
    <3>1. 0 \in 0..100 OBVIOUS
    <3> QED BY Zenon, <1>4, <2>1, <3>1
  <2>2. CASE s # <<>> BY Zenon, <1>5, <1>6, <2>2
  <2> QED BY <2>1, <2>2
<1> QED BY Zenon, <1>2, <1>3, <1>4, <1>5, <1>7 DEF score, total, p, P, h

\* The topics of a list are those of its signals.
LEMMA TopicsOfAll ==
  ASSUME NEW S, \A x \in S : x.text \in Seq(Words), NEW s \in Seq(S)
  PROVE  Range(analyzeIntent(s).topics) =
           UNION {Range(analyzeIntent(<<s[k]>>).topics) : k \in 1..Len(s)}
<1> DEFINE D == 1..Len(s)
           one(k) == <<s[k]>>
           PO(k) == Present(HitsIn(Corpus(one(k))))
           P == Present(HitsIn(Corpus(s)))
           Hit(t, k) == \E kw \in KeywordsFor(t) : countHits(Corpus(one(k)), kw) > 0
<1>1. ASSUME NEW k \in D
      PROVE  /\ Range(analyzeIntent(one(k)).topics) = PO(k) /\ PO(k) \in SUBSET Topics
             /\ \A t \in Topics : t \in PO(k) <=> Hit(t, k)
  <2> DEFINE e == s[k]
             o == <<e>>
  <2>1. e \in S OBVIOUS
  <2> HIDE DEF e
  <2>2. o \in Seq(S) /\ Len(o) = 1 /\ o[1] = e BY <2>1
  <2>3. <<o[1]>> = o BY <2>2
  <2>4. 1..Len(o) = {1} BY <2>2
  <2> HIDE DEF o
  <2>5. /\ HitsIn(Corpus(o)) \in [Topics -> Nat]
        /\ Range(analyzeIntent(o).topics) = Present(HitsIn(Corpus(o)))
        /\ \A t \in Topics : t \in Present(HitsIn(Corpus(o))) <=>
              \E kw \in KeywordsFor(t) : \E j \in 1..Len(o) : countHits(Corpus(<<o[j]>>), kw) > 0
    BY <2>2, IntentOfList
  <2>6. Present(HitsIn(Corpus(o))) \in SUBSET Topics BY <2>5 DEF Present
  <2>7. \A t \in Topics : t \in Present(HitsIn(Corpus(o))) <=>
              \E kw \in KeywordsFor(t) : countHits(Corpus(o), kw) > 0
    BY Zenon, <2>3, <2>4, <2>5
  <2> QED BY Zenon, <2>5, <2>6, <2>7 DEF o, e
<1>2. /\ Range(analyzeIntent(s).topics) = P /\ P \in SUBSET Topics
      /\ \A t \in Topics : t \in P <=> \E k \in D : Hit(t, k)
  <2>1. /\ HitsIn(Corpus(s)) \in [Topics -> Nat]
        /\ Range(analyzeIntent(s).topics) = P
        /\ \A t \in Topics : t \in P <=>
              \E kw \in KeywordsFor(t) : \E k \in D : countHits(Corpus(one(k)), kw) > 0
    BY Zenon, IntentOfList
  <2>2. P \in SUBSET Topics BY <2>1 DEF Present
  <2> QED BY Zenon, <2>1, <2>2
<1> DEFINE R(k) == Range(analyzeIntent(one(k)).topics)
           W == Range(analyzeIntent(s).topics)
<1>3. \A k \in D : R(k) = PO(k) BY Zenon, <1>1
<1>4. W = P BY Zenon, <1>2
<1> HIDE DEF D, PO, P, Hit, W, R
<1>5. W = UNION {R(k) : k \in D}
  <2>1. \A t : t \in W <=> t \in Topics /\ \E k \in D : Hit(t, k) BY <1>2, <1>4
  <2>2. \A k \in D : \A t : t \in R(k) <=> t \in Topics /\ Hit(t, k) BY <1>1, <1>3
  <2>3. \A t : t \in UNION {R(k) : k \in D} <=> \E k \in D : t \in R(k) OBVIOUS
  <2> QED BY <2>1, <2>2, <2>3
<1> QED BY Zenon, <1>5 DEF D, R, W

LEMMA TopicsInAnyOrder ==
  ASSUME NEW S, \A x \in S : x.text \in Seq(Words), NEW s \in Seq(S)
  PROVE  analyzeIntent(s).topics = analyzeIntent(Reverse(s)).topics
<1> DEFINE r == Reverse(s)
<1>1. r \in Seq(S)
  <2>1. \A k \in 1..Len(s) : (Len(s) - k) + 1 \in 1..Len(s) OBVIOUS
  <2>2. r = [k \in 1..Len(s) |-> s[(Len(s) - k) + 1]] BY DEF Reverse
  <2>3. r \in [1..Len(s) -> S] BY <2>1, <2>2
  <2>4. Len(s) \in Nat OBVIOUS
  <2> HIDE DEF r
  <2> QED BY <2>3, <2>4, LengthOf
<1>2. HitsIn(Corpus(r)) = HitsIn(Corpus(s))
  <2>1. \A kw \in Keywords : countHits(Corpus(r), kw) = countHits(Corpus(s), kw) BY HitsOfReversed
  <2> HIDE DEF r
  <2> QED BY <2>1, SameHits
<1> HIDE DEF r
<1>3. analyzeIntent(r).topics = TopicsBy(HitsIn(Corpus(r))) BY <1>1, IntentOfList
<1>4. analyzeIntent(s).topics = TopicsBy(HitsIn(Corpus(s))) BY IntentOfList
<1> QED BY Zenon, <1>2, <1>3, <1>4 DEF r

\* A signal of no topic never raises the score.
LEMMA ScoreWithout ==
  ASSUME NEW S, \A x \in S : x.text \in Seq(Words), NEW s \in Seq(S), NEW k \in 1..Len(s),
         analyzeIntent(<<s[k]>>).topics = <<>>
  PROVE  analyzeIntent(s).score <= analyzeIntent(RemoveAt(s, k)).score
<1> DEFINE r == RemoveAt(s, k)
           one == <<s[k]>>
           n == Len(s)
<1>1. one \in Seq(S) /\ n \in Nat /\ n # 0 /\ s # <<>> OBVIOUS
<1>2. r \in Seq(S) /\ Len(r) = n - 1 BY OneRemoved
<1>3. ASSUME NEW t \in Topics, NEW kw \in KeywordsFor(t) PROVE countHits(Corpus(one), kw) = 0
  <2>1. Present(HitsIn(Corpus(one))) = {} BY <1>1, IntentOfList
  <2>2. HitsIn(Corpus(one)) \in [Topics -> Nat] BY <1>1, IntentOfList
  <2>3. \A g \in Keywords : countHits(Corpus(one), g) \in Nat BY <1>1, HitsOfEach
  <2>4. ~(HitsIn(Corpus(one))[t] > 0) BY <2>1, <2>2 DEF Present
  <2> HIDE DEF one
  <2>5. ~ \E g \in KeywordsFor(t) : countHits(Corpus(one), g) > 0 BY <2>3, <2>4, HitsOfTopics
  <2>6. kw \in Keywords BY TopicKeywords
  <2> QED BY <2>3, <2>5, <2>6
<1>4. HitsIn(Corpus(r)) = HitsIn(Corpus(s))
  <2> DEFINE v(t) == [kw \in KeywordsFor(t) |-> countHits(Corpus(r), kw)]
             w(t) == [kw \in KeywordsFor(t) |-> countHits(Corpus(s), kw)]
  <2>1. ASSUME NEW t \in Topics PROVE v(t) = w(t)
    <3>1. ASSUME NEW kw \in KeywordsFor(t) PROVE countHits(Corpus(r), kw) = countHits(Corpus(s), kw)
      <4>1. kw \in Keywords BY TopicKeywords
      <4>2. countHits(Corpus(<<s[k]>>), kw) = 0 BY <1>3
      <4> QED BY Zenon, <4>1, <4>2, HitsWithout
    <3> HIDE DEF r
    <3> QED BY <3>1
  <2>2. HitsIn(Corpus(r)) = [t \in Topics |-> TotalOf(v(t))] BY Zenon DEF HitsIn, Topics, KeywordsFor
  <2>3. HitsIn(Corpus(s)) = [t \in Topics |-> TotalOf(w(t))] BY Zenon DEF HitsIn, Topics, KeywordsFor
  <2> HIDE DEF v, w
  <2>4. \A t \in Topics : TotalOf(v(t)) = TotalOf(w(t)) BY Zenon, <2>1
  <2>5. [t \in Topics |-> TotalOf(v(t))] = [t \in Topics |-> TotalOf(w(t))] BY <2>4
  <2> QED BY Zenon, <2>2, <2>3, <2>5
<1> HIDE DEF r, n
<1> DEFINE h == HitsIn(Corpus(s))
           p == Cardinality(Present(h))
           total == SumOver(Present(h), h)
<1>5. /\ analyzeIntent(s).score = ScoreBy(p, total, Len(s))
      /\ p \in 0..6 /\ total \in Nat
  BY <1>1, ScoreOfList
<1>6. CASE r = <<>>
  <2>1. analyzeIntent(r).score = 0 BY <1>2, <1>6, ScoreOfList
  <2>2. n = 1 BY <1>1, <1>2, <1>6
  <2>3. Present(h) = {}
    <3>1. h \in [Topics -> Nat] BY IntentOfList
    <3>2. HitsIn(Corpus(one)) = h
      <4>1. s = one BY <2>2 DEF n
      <4> HIDE DEF one
      <4> QED BY Zenon, <4>1
    <3>3. Present(HitsIn(Corpus(one))) = {} BY <1>1, IntentOfList
    <3> HIDE DEF one, h
    <3> QED BY Zenon, <3>2, <3>3
  <2> HIDE DEF h
  <2>4. p = 0 /\ total = 0
    <3>1. Cardinality({}) = 0 /\ IsFiniteSet({}) BY FS_EmptySet
    <3>2. SumOver({}, h) = 0 BY <3>1, SumByKey
    <3> QED BY Zenon, <2>3, <3>1, <3>2
  <2> HIDE DEF p, total
  <2>5. ScoreBy(p, total, Len(s)) = 0 BY Zenon, <2>2, <2>4, ScoreOfNothing DEF n
  <2> QED BY <1>5, <2>1, <2>5 DEF r
<1>7. CASE r # <<>>
  <2>1. analyzeIntent(r).score = ScoreBy(p, total, Len(r))
    <3>1. analyzeIntent(r).score =
            ScoreBy(Cardinality(Present(HitsIn(Corpus(r)))),
                    SumOver(Present(HitsIn(Corpus(r))), HitsIn(Corpus(r))), Len(r))
      BY <1>2, <1>7, ScoreOfList
    <3> QED BY Zenon, <1>4, <3>1
  <2> HIDE DEF p, total
  <2>2. PICK m \in Nat \ {0} : m = n - 1
    <3>1. n - 1 # 0 BY <1>1, <1>2, <1>7
    <3> QED BY <1>1, <3>1
  <2>3. ScoreBy(p, total, m + 1) <= ScoreBy(p, total, m) BY <1>5, ScoreFalls
  <2>4. Len(r) = m /\ Len(s) = m + 1 BY <1>1, <1>2, <2>2 DEF n
  <2> QED BY Zenon, <1>5, <2>1, <2>3, <2>4 DEF r
<1> QED BY <1>6, <1>7

LEMMA TheIntentAgrees ==
  ASSUME IntelAssumption, items \in Seq(Items)
  PROVE  IntentAgrees
<1> SUFFICES ASSUME NEW platform \in SOCIAL_PLATFORMS,
                    NEW answer \in {intel("youtube", platform, TRUE)}
             PROVE  IF platform # "youtube" \/ (\E k \in DOMAIN items : ~items[k].url) THEN answer.status = 502
                    ELSE /\ answer.score \in 0..100
                         /\ Range(answer.topics) =
                              UNION {Range(analyzeIntent(<<answer.signals[k]>>).topics) : k \in DOMAIN items}
                         /\ answer.topics = analyzeIntent(Reverse(answer.signals)).topics
                         /\ \A k \in DOMAIN items :
                              LET rest == analyzeIntent(RemoveAt(answer.signals, k)) IN
                              analyzeIntent(<<answer.signals[k]>>).topics = <<>> => answer.score <= rest.score
  BY Zenon DEF IntentAgrees
<1>answer. answer = intel("youtube", platform, TRUE) OBVIOUS
<1> DEFINE Answered == ~(platform # "youtube" \/ (\E k \in DOMAIN items : ~items[k].url))
           signals == UNION {normalizeAll(batch, platform) : batch \in collect("youtube", platform, TRUE)}
           list == [k \in DOMAIN items |-> normalize(items[k], platform)]
           n == Len(items)
           S == {normalize(i, platform) : i \in Items}
<1>1. signals = IF Answered THEN {list} ELSE {}
  <2>1. collect("youtube", platform, TRUE) = IF "youtube" = platform THEN {items} ELSE {}
    BY DEF collect
  <2>2. normalizeAll(items, platform) = IF \E k \in DOMAIN items : ~items[k].url THEN {} ELSE {list}
    BY Zenon DEF normalizeAll
  <2> HIDE DEF list
  <2>3. CASE platform = "youtube"
    <3>1. collect("youtube", platform, TRUE) = {items} BY <2>1, <2>3
    <3>2. signals = normalizeAll(items, platform) BY <3>1
    <3> HIDE DEF signals
    <3> QED BY Zenon, <2>2, <2>3, <3>2
  <2>4. CASE platform # "youtube"
    <3>1. collect("youtube", platform, TRUE) = {} BY <2>1, <2>4
    <3>2. signals = {} BY <3>1
    <3> HIDE DEF signals
    <3> QED BY Zenon, <2>4, <3>2
  <2> QED BY <2>3, <2>4
<1>2. CASE ~Answered
  <2>1. signals = {} BY <1>1, <1>2
  <2>2. answer = [status |-> 502] BY Zenon, <1>answer, <2>1 DEF intel
  <2>3. answer.status = 502 BY <2>2
  <2> QED BY Zenon, <1>2, <2>3
<1>3. CASE Answered
  <2>1. signals = {list} /\ signals # {} BY <1>1, <1>3
  <2> HIDE DEF list, Answered, signals
  <2>2. (CHOOSE s \in signals : TRUE) = list BY <2>1
  <2> DEFINE intent == analyzeIntent(list)
  <2>3. answer = [status |-> 200, signals |-> list, topics |-> intent.topics, score |-> intent.score]
    BY Zenon, <1>answer, <2>1, <2>2 DEF intel, signals
  <2> HIDE DEF intent
  <2>4. answer.signals = list /\ answer.topics = intent.topics /\ answer.score = intent.score BY <2>3
  <2>5. n \in Nat /\ DOMAIN items = 1..n /\ \A k \in 1..n : items[k] \in Items OBVIOUS
  <2>6. list \in Seq(S) /\ Len(list) = n
    <3> HIDE DEF n
    <3>1. list \in [1..n -> S] BY <2>5 DEF list
    <3> HIDE DEF S
    <3> QED BY <2>5, <3>1, LengthOf
  <2>7. \A x \in S : x.text \in Seq(Words)
    <3> SUFFICES ASSUME NEW i \in Items PROVE normalize(i, platform).text \in Seq(Words)
      OBVIOUS
    <3>1. normalize(i, platform).text = i.text BY DEF normalize
    <3>2. i.text \in Seq(STRING) BY DEF IntelAssumption
    <3>3. STRING \subseteq Words BY DEF Words
    <3>4. Seq(STRING) \subseteq Seq(Words)
      <4>1. ASSUME NEW A, NEW B, A \subseteq B PROVE Seq(A) \subseteq Seq(B) BY <4>1
      <4> QED BY <3>3, <4>1
    <3> QED BY <3>1, <3>2, <3>4
  <2> HIDE DEF S
  <2>8. intent.score \in 0..100 BY <2>6, <2>7, ScoreOfList DEF intent
  <2>9. Range(intent.topics) = UNION {Range(analyzeIntent(<<list[k]>>).topics) : k \in DOMAIN items}
    <3>1. Range(intent.topics) = UNION {Range(analyzeIntent(<<list[k]>>).topics) : k \in 1..Len(list)}
      BY Zenon, <2>6, <2>7, TopicsOfAll DEF intent
    <3>2. 1..Len(list) = DOMAIN items BY <2>5, <2>6
    <3> QED BY Zenon, <3>1, <3>2
  <2>10. intent.topics = analyzeIntent(Reverse(list)).topics
    BY Zenon, <2>6, <2>7, TopicsInAnyOrder DEF intent
  <2>11. ASSUME NEW k \in DOMAIN items, analyzeIntent(<<list[k]>>).topics = <<>>
         PROVE  intent.score <= analyzeIntent(RemoveAt(list, k)).score
    <3>1. k \in 1..Len(list) BY <2>5, <2>6
    <3> QED BY Zenon, <2>6, <2>7, <2>11, <3>1, ScoreWithout DEF intent
  <2>12. /\ answer.score \in 0..100
         /\ Range(answer.topics) =
              UNION {Range(analyzeIntent(<<answer.signals[k]>>).topics) : k \in DOMAIN items}
         /\ answer.topics = analyzeIntent(Reverse(answer.signals)).topics
         /\ \A k \in DOMAIN items :
              analyzeIntent(<<answer.signals[k]>>).topics = <<>> =>
                answer.score <= analyzeIntent(RemoveAt(answer.signals, k)).score
    BY Zenon, <2>4, <2>8, <2>9, <2>10, <2>11
  <2> QED BY Zenon, <1>3, <2>12 DEF Answered
<1> QED BY <1>2, <1>3

-----------------------------------------------------------------------------
(* The terms of texts.                                                      *)
Vocabulary == Range(WordOrder)
TermsOf(texts) == UNION {Terms(texts[k]) : k \in DOMAIN texts}
TextsOK(texts, n) == n \in Nat /\ DOMAIN texts = 1..n /\ \A k \in 1..n : Terms(texts[k]) \in SUBSET Vocabulary

LEMMA RanksOfWords ==
  /\ IsFiniteSet(Vocabulary)
  /\ \A w \in Vocabulary : WordRank(w) \in Int
  /\ \A w, u \in Vocabulary : WordRank(w) = WordRank(u) => w = u
<1>1. DOMAIN WordOrder = 1..8 BY DEF WordOrder
<1>2. ASSUME NEW w \in Vocabulary PROVE WordRank(w) \in 1..8 /\ WordOrder[WordRank(w)] = w
  <2>1. \E k \in 1..8 : WordOrder[k] = w BY Zenon, <1>1 DEF Vocabulary, Range
  <2>2. WordRank(w) = CHOOSE k \in 1..8 : WordOrder[k] = w BY Zenon, <1>1 DEF WordRank
  <2> QED BY <2>1, <2>2
<1>3. IsFiniteSet(Vocabulary)
  <2> DEFINE D == 1..8
             f == WordOrder
  <2>1. IsFiniteSet(D)
    <3>1. 1 \in Int /\ 8 \in Int OBVIOUS
    <3> QED BY Zenon, <3>1, FS_Interval
  <2>2. Vocabulary = {f[x] : x \in D} BY Zenon, <1>1 DEF Vocabulary, Range
  <2> HIDE DEF D, f
  <2>3. IsFiniteSet({f[x] : x \in D}) BY <2>1, FiniteImage
  <2> QED BY Zenon, <2>2, <2>3
<1>4. \A w, u \in Vocabulary : WordRank(w) = WordRank(u) => w = u
  <2> SUFFICES ASSUME NEW w \in Vocabulary, NEW u \in Vocabulary, WordRank(w) = WordRank(u) PROVE w = u
    OBVIOUS
  <2>1. WordOrder[WordRank(w)] = w /\ WordOrder[WordRank(u)] = u BY <1>2
  <2> QED BY Zenon, <2>1
<1>5. \A w \in Vocabulary : WordRank(w) \in Int
  <2>1. 1..8 \subseteq Int OBVIOUS
  <2> QED BY <1>2, <2>1
<1> QED BY <1>3, <1>4, <1>5

LEMMA RankedList ==
  ASSUME NEW texts, NEW n \in Nat, TextsOK(texts, n)
  PROVE  \E m \in Nat : /\ Ranked(texts) \in [1..m -> Vocabulary]
                        /\ \A i, j \in 1..m : i # j => Ranked(texts)[i] # Ranked(texts)[j]
<1> DEFINE S == TermsOf(texts)
           a == [t \in S |-> -Frequency(texts, t)]
           b == [t \in S |-> WordRank(t)]
           R == LexOrder(S, a, b, b)
           L == Ranked(texts)
<1>1. S \in SUBSET Vocabulary BY DEF TermsOf, TextsOK
<1>2. ASSUME NEW t PROVE Frequency(texts, t) \in Nat
  <2> DEFINE D == 1..n
             K == {k \in D : t \in Terms(texts[k])}
  <2>1. IsFiniteSet(D)
    <3>1. 1 \in Int /\ n \in Int OBVIOUS
    <3> QED BY Zenon, <3>1, FS_Interval
  <2>2. K \in SUBSET D OBVIOUS
  <2>3. Frequency(texts, t) = Cardinality(K)
    <3>1. DOMAIN texts = D BY DEF TextsOK
    <3> QED BY Zenon, <3>1 DEF Frequency
  <2> HIDE DEF D, K
  <2>4. Cardinality(K) \in Nat BY <2>1, <2>2, FS_Subset, FS_CardinalityType
  <2> QED BY <2>3, <2>4
<1>3. IsFiniteSet(S)
  <2> HIDE DEF S
  <2> QED BY <1>1, RanksOfWords, FS_Subset
<1> HIDE DEF S
<1>4. /\ \A t \in S : a[t] = -Frequency(texts, t) /\ b[t] = WordRank(t) /\ a[t] \in Int /\ b[t] \in Int
      /\ \A s, t \in S : b[s] = b[t] => s = t
  BY <1>1, <1>2, RanksOfWords
<1>5. a \in [S -> Int] /\ b \in [S -> Int] BY <1>4
<1>6. StrictOrder(R, S)
  <2> HIDE DEF a, b
  <2> QED BY <1>4, <1>5, Lexicographic
<1>7. SortedBy(L, S, R)
  <2> DEFINE before(y, x) == \/ Frequency(texts, y) > Frequency(texts, x)
                             \/ Frequency(texts, y) = Frequency(texts, x) /\ WordRank(y) < WordRank(x)
             e(k) == CHOOSE x \in S : Cardinality({y \in S : before(y, x)}) = k - 1
             g(k) == CHOOSE x \in S : Cardinality({y \in S : <<y, x>> \in R}) = k - 1
  <2>1. ASSUME NEW x \in S, NEW y \in S PROVE before(y, x) <=> <<y, x>> \in R
    <3>1. Frequency(texts, x) \in Nat /\ Frequency(texts, y) \in Nat
      BY <1>2
    <3>2. <<y, x>> \in R <=> a[y] < a[x] \/ (a[y] = a[x] /\ b[y] < b[x]) BY DEF LexOrder
    <3> QED BY <1>4, <3>1, <3>2
  <2> HIDE DEF before, R
  <2>2. \A x \in S : {y \in S : before(y, x)} = {y \in S : <<y, x>> \in R} BY <2>1
  <2>3. \A k \in 1..Cardinality(S) : e(k) = g(k) BY <2>2
  <2>4. L = [k \in 1..Cardinality(S) |-> e(k)] BY Zenon DEF Sorted, Ranked, S, TermsOf, before
  <2> HIDE DEF L
  <2>5. SortedBy(L, S, R) <=> L = [k \in 1..Cardinality(S) |-> g(k)] BY Zenon DEF SortedBy
  <2> HIDE DEF e, g
  <2> QED BY <2>3, <2>4, <2>5
<1> HIDE DEF R, L
<1>8. /\ Cardinality(S) \in Nat /\ L \in [1..Cardinality(S) -> S]
      /\ \A i, j \in 1..Cardinality(S) : i # j => L[i] # L[j]
  BY <1>3, <1>6, <1>7, SortedList
<1>9. L \in [1..Cardinality(S) -> Vocabulary] BY <1>1, <1>8
<1> QED BY Zenon, <1>8, <1>9 DEF L

LEMMA SameRanking ==
  ASSUME NEW texts, NEW other, TermsOf(texts) = TermsOf(other),
         \A t \in TermsOf(texts) : Frequency(texts, t) = Frequency(other, t)
  PROVE  Ranked(texts) = Ranked(other)
<1> DEFINE S == TermsOf(texts)
           before(y, x) == \/ Frequency(texts, y) > Frequency(texts, x)
                           \/ Frequency(texts, y) = Frequency(texts, x) /\ WordRank(y) < WordRank(x)
           ahead(y, x) == \/ Frequency(other, y) > Frequency(other, x)
                          \/ Frequency(other, y) = Frequency(other, x) /\ WordRank(y) < WordRank(x)
           e(k) == CHOOSE x \in S : Cardinality({y \in S : before(y, x)}) = k - 1
           g(k) == CHOOSE x \in S : Cardinality({y \in S : ahead(y, x)}) = k - 1
<1>1. \A x, y \in S : before(y, x) <=> ahead(y, x) OBVIOUS
<1>2. Ranked(texts) = [k \in 1..Cardinality(S) |-> e(k)] BY Zenon DEF Sorted, Ranked, TermsOf
<1>3. Ranked(other) = [k \in 1..Cardinality(S) |-> g(k)]
  <2> DEFINE T == TermsOf(other)
  <2>1. Ranked(other) =
          [k \in 1..Cardinality(T) |-> CHOOSE x \in T : Cardinality({y \in T : ahead(y, x)}) = k - 1]
    BY Zenon DEF Sorted, Ranked, TermsOf
  <2>2. T = S OBVIOUS
  <2> HIDE DEF S, T, ahead
  <2> QED BY Zenon, <2>1, <2>2
<1> HIDE DEF S, before, ahead
<1>4. \A x \in S : {y \in S : before(y, x)} = {y \in S : ahead(y, x)} BY <1>1
<1>5. \A k \in 1..Cardinality(S) : e(k) = g(k) BY <1>4
<1> HIDE DEF e, g
<1>6. [k \in 1..Cardinality(S) |-> e(k)] = [k \in 1..Cardinality(S) |-> g(k)] BY <1>5
<1> QED BY Zenon, <1>2, <1>3, <1>6

-----------------------------------------------------------------------------
(* The analysis of comments.                                                *)
LEMMA Reversed ==
  ASSUME NEW S, NEW s \in Seq(S)
  PROVE  /\ Reverse(s) \in Seq(S) /\ Len(Reverse(s)) = Len(s)
         /\ \A k \in 1..Len(s) : Len(s) - k + 1 \in 1..Len(s) /\ Reverse(s)[k] = s[Len(s) - k + 1]
<1> DEFINE n == Len(s)
           r == Reverse(s)
<1>1. n \in Nat /\ \A k \in 1..n : s[k] \in S OBVIOUS
<1> HIDE DEF n
<1>2. r = [k \in 1..n |-> s[(n - k) + 1]] BY DEF Reverse, n
<1>3. \A k \in 1..n : n - k + 1 \in 1..n BY <1>1
<1>4. r \in [1..n -> S] BY <1>1, <1>2, <1>3
<1>5. \A k \in 1..n : r[k] = s[n - k + 1] BY <1>2
<1> HIDE DEF r
<1>6. r \in Seq(S) /\ Len(r) = n BY <1>1, <1>4, LengthOf
<1> QED BY <1>3, <1>5, <1>6 DEF n, r

LEMMA CountReversed ==
  ASSUME NEW n \in Nat, NEW A \in SUBSET (1..n), NEW B \in SUBSET (1..n),
         \A k \in 1..n : k \in A <=> n - k + 1 \in B
  PROVE  Cardinality(A) = Cardinality(B)
<1> DEFINE f == [k \in A |-> n - k + 1]
<1>1. IsFiniteSet(A)
  <2> DEFINE D == 1..n
  <2>1. IsFiniteSet(D)
    <3>1. 1 \in Int /\ n \in Int OBVIOUS
    <3> QED BY Zenon, <3>1, FS_Interval
  <2>2. A \in SUBSET D OBVIOUS
  <2> HIDE DEF D
  <2> QED BY <2>1, <2>2, FS_Subset
<1>2. \A k \in A : k \in 1..n /\ f[k] = n - k + 1 /\ f[k] \in B OBVIOUS
<1>3. \A i, j \in A : f[i] = f[j] => i = j BY <1>2
<1>4. ASSUME NEW j \in B PROVE \E i \in A : f[i] = j
  <2> DEFINE i == n - j + 1
  <2>1. i \in 1..n /\ n - i + 1 = j OBVIOUS
  <2>2. i \in A BY <2>1
  <2>3. f[i] = j BY <2>1, <2>2
  <2> HIDE DEF i
  <2> QED BY <2>2, <2>3
<1>5. f \in [A -> B] BY <1>2
<1> HIDE DEF f
<1>6. f \in Surjection(A, B) /\ f \in Injection(A, B)
  BY <1>3, <1>4, <1>5 DEF Surjection, Injection, IsInjective
<1> QED BY <1>1, <1>6, FS_Surjection

\* The words of a lexicon in a list of texts.
Polarity(texts, lexicon) ==
  TotalOf([k \in DOMAIN texts |-> Cardinality({i \in DOMAIN texts[k] : texts[k][i] \in lexicon})])

LEMMA AnalysisOf ==
  ASSUME NEW texts, NEW m
  PROVE  analyzeComments(texts, m) =
           [topics |-> Slice(Ranked(texts), m),
            sentiment |-> IF Polarity(texts, POSITIVE) + Polarity(texts, NEGATIVE) = 0 THEN <<0, 1>>
                          ELSE <<Polarity(texts, POSITIVE) - Polarity(texts, NEGATIVE),
                                 Polarity(texts, POSITIVE) + Polarity(texts, NEGATIVE)>>]
BY Zenon DEF analyzeComments, Polarity

LEMMA PolarityIsNat ==
  ASSUME NEW S, \A x \in S : x \in Seq(STRING), NEW s \in Seq(S), NEW lexicon
  PROVE  /\ Polarity(s, lexicon) \in Nat
         /\ Polarity(Reverse(s), lexicon) = Polarity(s, lexicon)
<1> DEFINE n == Len(s)
           r == Reverse(s)
           D == 1..n
           words(x) == Cardinality({i \in DOMAIN x : x[i] \in lexicon})
           v == [k \in D |-> words(s[k])]
           w == [k \in D |-> words(r[k])]
           f == [k \in D |-> n - k + 1]
<1>1. n \in Nat /\ DOMAIN s = D /\ \A k \in D : s[k] \in S OBVIOUS
<1>2. /\ r \in Seq(S) /\ Len(r) = n /\ \A k \in D : n - k + 1 \in D /\ r[k] = s[n - k + 1]
  BY Reversed
<1>0. Polarity(r, lexicon) = Polarity(Reverse(s), lexicon) OBVIOUS
<1>3. \A x \in S : words(x) \in Nat
  <2> SUFFICES ASSUME NEW x \in S PROVE words(x) \in Nat
    OBVIOUS
  <2> DEFINE X == 1..Len(x)
             K == {i \in X : x[i] \in lexicon}
  <2>1. x \in Seq(STRING) OBVIOUS
  <2>2. DOMAIN x = X /\ Len(x) \in Int BY <2>1
  <2>3. IsFiniteSet(X)
    <3>1. 1 \in Int /\ Len(x) \in Int BY <2>2
    <3> QED BY Zenon, <3>1, FS_Interval
  <2>4. K \in SUBSET X OBVIOUS
  <2>5. words(x) = Cardinality(K) BY Zenon, <2>2
  <2> HIDE DEF X, K, words
  <2> QED BY <2>3, <2>4, <2>5, FS_Subset, FS_CardinalityType
<1>4. Polarity(s, lexicon) = TotalOf(v) BY Zenon, <1>1 DEF Polarity
<1>5. DOMAIN r = D
  <2> HIDE DEF r
  <2> QED BY <1>2
<1>6. Polarity(r, lexicon) = TotalOf(w) BY Zenon, <1>5 DEF Polarity
<1> HIDE DEF words, n, r
<1>7. \A k \in D : v[k] \in Nat BY <1>1, <1>3
<1>8. \A k \in D : f[k] \in D /\ v[f[k]] = w[k] /\ f[k] = n - k + 1 BY <1>2
<1>9. f \in Surjection(D, D)
  <2>1. f \in [D -> D] BY <1>8
  <2>2. \A k \in D : n - k + 1 \in D /\ f[n - k + 1] = k BY <1>1, <1>2
  <2> HIDE DEF f
  <2> QED BY <2>1, <2>2 DEF Surjection
<1>10. \A i, j \in D : f[i] = f[j] => i = j BY <1>1, <1>8
<1>11. IsFiniteSet(D)
  <2>1. 1 \in Int /\ n \in Int BY <1>1
  <2> QED BY Zenon, <2>1, FS_Interval
<1>12. DOMAIN v = D /\ DOMAIN w = D OBVIOUS
<1> HIDE DEF v, w, f, D
<1>13. \A k \in D : w[k] \in Int BY <1>7, <1>8
<1>14. TotalOf(v) = SumOver(D, v) /\ TotalOf(w) = SumOver(D, w) BY Zenon, <1>12 DEF TotalOf
<1>15. SumOver(D, v) \in Nat BY <1>7, <1>11, SumOfNaturals
<1>16. SumOver(D, v) = SumOver(D, w) BY <1>8, <1>9, <1>10, <1>11, <1>13, SumRenamed
<1> QED BY Zenon, <1>0, <1>4, <1>6, <1>14, <1>15, <1>16

LEMMA RankedInAnyOrder ==
  ASSUME NEW S, NEW s \in Seq(S)
  PROVE  Ranked(Reverse(s)) = Ranked(s)
<1> DEFINE n == Len(s)
           r == Reverse(s)
           D == 1..n
<1>1. n \in Nat /\ DOMAIN s = D OBVIOUS
<1>2. /\ r \in Seq(S) /\ Len(r) = n /\ \A k \in D : n - k + 1 \in D /\ r[k] = s[n - k + 1]
  BY Reversed
<1> HIDE DEF n, r
<1>3. DOMAIN r = D BY <1>2
<1>4. \A k \in D : n - (n - k + 1) + 1 = k BY <1>1
<1>5. \A k \in D : s[k] = r[n - k + 1] BY <1>2, <1>4
<1>6. TermsOf(r) = TermsOf(s)
  <2>1. TermsOf(r) = UNION {Terms(r[k]) : k \in D} BY Zenon, <1>3 DEF TermsOf
  <2>2. TermsOf(s) = UNION {Terms(s[k]) : k \in D} BY Zenon, <1>1 DEF TermsOf
  <2>3. \A t : (\E k \in D : t \in Terms(r[k])) <=> (\E k \in D : t \in Terms(s[k])) BY Zenon, <1>2, <1>5
  <2> HIDE DEF D
  <2>4. UNION {Terms(r[k]) : k \in D} = UNION {Terms(s[k]) : k \in D} BY <2>3
  <2> QED BY Zenon, <2>1, <2>2, <2>4
<1>7. ASSUME NEW t PROVE Frequency(r, t) = Frequency(s, t)
  <2> DEFINE A == {k \in D : t \in Terms(r[k])}
             B == {k \in D : t \in Terms(s[k])}
  <2>1. Frequency(r, t) = Cardinality(A) BY Zenon, <1>3 DEF Frequency
  <2>2. Frequency(s, t) = Cardinality(B) BY Zenon, <1>1 DEF Frequency
  <2>3. A \in SUBSET D /\ B \in SUBSET D OBVIOUS
  <2>4. \A k \in D : k \in A <=> n - k + 1 \in B BY <1>2
  <2> HIDE DEF A, B
  <2>5. Cardinality(A) = Cardinality(B) BY <1>1, <2>3, <2>4, CountReversed
  <2> QED BY Zenon, <2>1, <2>2, <2>5
<1>8. \A t \in TermsOf(r) : Frequency(r, t) = Frequency(s, t) BY <1>7
<1> QED BY Zenon, <1>6, <1>8, SameRanking DEF r

LEMMA Sliced ==
  ASSUME NEW S, NEW s \in Seq(S), NEW m \in Nat
  PROVE  /\ Slice(s, m) \in Seq(S) /\ Len(Slice(s, m)) = (IF m <= Len(s) THEN m ELSE Len(s))
         /\ \A i \in 1..Len(Slice(s, m)) : i \in 1..Len(s) /\ Slice(s, m)[i] = s[i]
<1> DEFINE n == Len(s)
           k == IF m <= n THEN m ELSE n
           r == SubSeq(s, 1, k)
<1>1. n \in Nat /\ \A i \in 1..n : s[i] \in S OBVIOUS
<1>2. Min({m, n}) = k BY <1>1, MinOf
<1>3. Slice(s, m) = r BY Zenon, <1>2 DEF Slice
<1>4. k \in Int /\ 0 <= k /\ k <= n BY <1>1
<1> HIDE DEF k, n
<1>5. 1 \in Int /\ \A i \in 1..k : s[i] \in S BY <1>1, <1>4
<1>6. /\ r \in Seq(S) /\ Len(r) = (IF 1 <= k THEN k - 1 + 1 ELSE 0)
      /\ \A i \in 1..(k - 1 + 1) : r[i] = s[1 + i - 1]
  BY <1>4, <1>5, SubSeqProperties
<1> HIDE DEF r
<1>7. \A i \in 1..k : i \in 1..(k - 1 + 1) /\ 1 + i - 1 = i /\ i \in 1..n BY <1>1, <1>4
<1>8. Len(r) = k BY <1>4, <1>6
<1>9. \A i \in 1..k : i \in 1..n /\ r[i] = s[i] BY <1>6, <1>7
<1>10. r \in Seq(S) /\ Len(r) = k /\ \A i \in 1..Len(r) : i \in 1..n /\ r[i] = s[i] BY <1>6, <1>8, <1>9
<1> QED BY Zenon, <1>3, <1>10 DEF k, n

LEMMA SliceOfSlice ==
  ASSUME NEW S, NEW s \in Seq(S), NEW m \in Nat \ {0}
  PROVE  Slice(Slice(s, m), 1) = Slice(s, 1)
<1> DEFINE r == Slice(s, m)
           a == Slice(r, 1)
           b == Slice(s, 1)
<1>0. 1 \in Nat OBVIOUS
<1>1. /\ r \in Seq(S) /\ Len(r) = (IF m <= Len(s) THEN m ELSE Len(s))
      /\ \A i \in 1..Len(r) : i \in 1..Len(s) /\ r[i] = s[i]
  BY Sliced
<1> HIDE DEF r
<1>2. /\ a \in Seq(S) /\ Len(a) = (IF 1 <= Len(r) THEN 1 ELSE Len(r))
      /\ \A i \in 1..Len(a) : i \in 1..Len(r) /\ a[i] = r[i]
  BY <1>0, <1>1, Sliced
<1>3. /\ b \in Seq(S) /\ Len(b) = (IF 1 <= Len(s) THEN 1 ELSE Len(s))
      /\ \A i \in 1..Len(b) : i \in 1..Len(s) /\ b[i] = s[i]
  BY <1>0, Sliced
<1> HIDE DEF a, b
<1>4. Len(s) \in Nat /\ Len(r) \in Nat BY <1>1
<1>5. Len(a) = Len(b) BY <1>1, <1>2, <1>3, <1>4
<1>6. \A i \in 1..Len(a) : a[i] = b[i] BY <1>1, <1>2, <1>3, <1>5
<1>7. a = b BY <1>2, <1>3, <1>5, <1>6, SeqEqual
<1> QED BY <1>7 DEF a, b, r

-----------------------------------------------------------------------------
(* The ideas.                                                               *)
Different(s) == \A i, j \in 1..Len(s) : i # j => s[i] # s[j]

\* Without repetitions, no element is there twice.
LEMMA DistinctList ==
  ASSUME NEW U, NEW s \in Seq(U)
  PROVE  Distinct(s) \in Seq(U) /\ Different(Distinct(s))
<1> DEFINE n == Len(s)
           V == {t \in Seq(U) : Different(t)}
           add(k, t) == IF s[k] \in Range(t) THEN t ELSE Append(t, s[k])
           step == [x \in (1..n) \X V |-> add(x[1], x[2])]
<1>0. n \in Nat /\ DOMAIN s = 1..n /\ \A k \in 1..n : s[k] \in U OBVIOUS
<1>1. \A k \in 1..n, t \in V : add(k, t) \in V
  <2> SUFFICES ASSUME NEW k \in 1..n, NEW t \in V PROVE add(k, t) \in V
    OBVIOUS
  <2>1. CASE s[k] \in Range(t) BY <2>1
  <2>2. CASE s[k] \notin Range(t)
    <3> DEFINE e == s[k]
               r == Append(t, e)
               m == Len(t)
    <3>1. e \in U /\ t \in Seq(U) /\ Different(t) BY <1>0
    <3>2. \A i \in 1..m : t[i] # e BY <2>2, <3>1 DEF Range
    <3>3. m \in Nat BY <3>1
    <3> HIDE DEF e
    <3>4. /\ r \in Seq(U) /\ Len(r) = m + 1 /\ \A i \in 1..(m + 1) : r[i] = IF i = m + 1 THEN e ELSE t[i]
      BY <3>1
    <3>5. \A i, j \in 1..m : i # j => t[i] # t[j] BY <3>1 DEF Different
    <3> HIDE DEF r, m
    <3>6. ASSUME NEW i \in 1..(m + 1), NEW j \in 1..(m + 1), i # j PROVE r[i] # r[j]
      <4>1. CASE i = m + 1
        <5>1. j \in 1..m /\ j # m + 1 BY <3>3, <3>6, <4>1
        <5> QED BY <3>2, <3>4, <4>1, <5>1
      <4>2. CASE j = m + 1
        <5>1. i \in 1..m /\ i # m + 1 BY <3>3, <3>6, <4>2
        <5> QED BY <3>2, <3>4, <4>2, <5>1
      <4>3. CASE i # m + 1 /\ j # m + 1
        <5>1. i \in 1..m /\ j \in 1..m BY <3>3, <4>3
        <5> QED BY <3>4, <3>5, <3>6, <4>3, <5>1
      <4> QED BY <4>1, <4>2, <4>3
    <3>7. Different(r) BY <3>4, <3>6 DEF Different
    <3>8. add(k, t) = r BY Zenon, <2>2 DEF r, e
    <3> HIDE DEF add
    <3> QED BY <3>4, <3>7, <3>8
  <2> QED BY <2>1, <2>2
<1>3. <<>> \in V BY DEF Different
<1> HIDE DEF add, V, n
<1>2. step \in [(1..n) \X V -> V] BY <1>1
<1>4. PICK h \in [SUBSET (1..n) -> V] : IsListFold(h, n, <<>>, step)
  <2> HIDE DEF step
  <2> QED BY Zenon, <1>0, <1>2, <1>3, FoldingList
<1>5. h = [T \in SUBSET (1..n) |-> IF T = {} THEN <<>> ELSE add(Max(T), h[T \ {Max(T)}])]
  <2>1. ASSUME NEW T \in SUBSET (1..n), T # {}
        PROVE  step[<<Max(T), h[T \ {Max(T)}]>>] = add(Max(T), h[T \ {Max(T)}])
    <3>1. Max(T) \in 1..n /\ h[T \ {Max(T)}] \in V BY <1>0, <1>4, <2>1, GreatestOf
    <3> QED BY <3>1
  <2> DEFINE e(T) == IF T = {} THEN <<>> ELSE step[<<Max(T), h[T \ {Max(T)}]>>]
             f(T) == IF T = {} THEN <<>> ELSE add(Max(T), h[T \ {Max(T)}])
  <2> HIDE DEF step
  <2>2. \A T \in SUBSET (1..n) : e(T) = f(T) BY <2>1
  <2>3. h = [T \in SUBSET (1..n) |-> e(T)] BY <1>4 DEF IsListFold
  <2> HIDE DEF e, f
  <2>4. h = [T \in SUBSET (1..n) |-> f(T)] BY <2>2, <2>3
  <2> QED BY <2>4 DEF f
<1> HIDE DEF step
<1> DEFINE iter == CHOOSE g :
             g = [T \in SUBSET (1..n) |-> IF T = {} THEN <<>> ELSE add(Max(T), g[T \ {Max(T)}])]
<1>6. iter = [T \in SUBSET (1..n) |-> IF T = {} THEN <<>> ELSE add(Max(T), iter[T \ {Max(T)}])]
  BY <1>5
<1>7. Distinct(s) = iter[1..n]
  <2>1. DOMAIN s = 1..n BY <1>0
  <2> HIDE DEF iter
  <2> QED BY Zenon, <2>1 DEF Distinct, FoldLeft, MapThenFoldSet, iter, add
<1> HIDE DEF iter
<1> DEFINE P == [k \in 0..n |-> iter[1..k]]
<1>8. P[0] = <<>> BY <1>0, <1>6
<1>9. ASSUME NEW k \in 1..n PROVE P[k] = add(k, P[k - 1])
  <2>1. 1..k \in SUBSET (1..n) /\ 1..k # {}
    <3>1. n \in Nat /\ k \in 1..n BY <1>0
    <3>2. ASSUME NEW a \in Nat, NEW b \in 1..a PROVE 1..b \in SUBSET (1..a) /\ 1..b # {} OBVIOUS
    <3> QED BY Zenon, <3>1, <3>2
  <2>2. iter[1..k] = add(Max(1..k), iter[(1..k) \ {Max(1..k)}]) BY <1>6, <2>1
  <2>3. Max(1..k) = k /\ (1..k) \ {Max(1..k)} = 1..(k - 1) BY <1>0, Greatest
  <2>4. iter[1..k] = add(k, iter[1..(k - 1)]) BY <2>2, <2>3
  <2>5. k \in 0..n /\ k - 1 \in 0..n BY <1>0
  <2> QED BY <2>4, <2>5
<1>10. Distinct(s) = P[n] BY <1>0, <1>7
<1> HIDE DEF P
<1> DEFINE N == {k \in Nat : k <= n => P[k] \in V}
<1>11. 0 \in N BY <1>3, <1>8
<1>12. ASSUME NEW k \in Nat, k \in N PROVE k + 1 \in N
  <2>1. ASSUME k + 1 <= n PROVE P[k + 1] \in V
    <3>1. k + 1 \in 1..n /\ (k + 1) - 1 = k /\ P[k] \in V BY <1>0, <1>12, <2>1
    <3> QED BY <1>1, <1>9, <3>1
  <2> QED BY <2>1
<1> HIDE DEF N
<1>13. n \in N BY <1>0, <1>11, <1>12, AllNumbers
<1>14. P[n] \in V BY <1>0, <1>13 DEF N
<1> QED BY <1>10, <1>14 DEF V

\* What is different has as many elements as its length.
LEMMA AsManyAsLong ==
  ASSUME NEW U, NEW s \in Seq(U), Different(s)
  PROVE  Cardinality(Range(s)) = Len(s)
<1> DEFINE n == Len(s)
           D == 1..n
           R == Range(s)
<1>1. n \in Nat /\ DOMAIN s = D OBVIOUS
<1>2. R = {s[k] : k \in D} BY <1>1 DEF Range
<1>3. IsFiniteSet(D) /\ Cardinality(D) = n
  <2> HIDE DEF n
  <2>1. IsFiniteSet(1..n) /\ Cardinality(1..n) = IF 1 > n THEN 0 ELSE n - 1 + 1 BY <1>1, FS_Interval
  <2> QED BY <1>1, <2>1
<1>4. s \in [D -> R] BY <1>1, <1>2
<1>5. \A i, j \in D : s[i] = s[j] => i = j BY DEF Different
<1> HIDE DEF D, R, n
<1>6. s \in Surjection(D, R) /\ s \in Injection(D, R)
  BY <1>2, <1>4, <1>5 DEF Surjection, Injection, IsInjective
<1>7. Cardinality(R) = Cardinality(D) BY <1>3, <1>6, FS_Surjection
<1> QED BY <1>3, <1>7 DEF R, n

LEMMA SliceDifferent ==
  ASSUME NEW U, NEW s \in Seq(U), Different(s), NEW m \in Nat
  PROVE  Slice(s, m) \in Seq(U) /\ Different(Slice(s, m))
<1> DEFINE r == Slice(s, m)
<1>1. /\ r \in Seq(U) /\ \A i \in 1..Len(r) : i \in 1..Len(s) /\ r[i] = s[i]
  BY Sliced
<1> HIDE DEF r
<1>2. Different(r) BY <1>1 DEF Different
<1> QED BY <1>1, <1>2 DEF r

\* The videos among the results.
LEMMA VideosFound ==
  ASSUME results \in Seq(Results), NEW n \in Int
  PROVE  \E m \in Nat : search(n) \in [1..m -> Results]
<1> DEFINE c == clampMaxResults(n)
           s == Slice(results, c)
           K == {k \in DOMAIN s : s[k].video}
           L == Up(K)
           m == Cardinality(K)
<1>1. c \in Nat
  <2> DEFINE x == Max({1, n})
  <2>1. Max({1, n}) = IF 1 >= n THEN 1 ELSE n BY MaxOf
  <2>2. x \in Int /\ x >= 1 BY <2>1
  <2>3. clampMaxResults(n) = Min({50, x}) BY Zenon DEF clampMaxResults
  <2> HIDE DEF x
  <2>4. Min({50, x}) = IF 50 <= x THEN 50 ELSE x BY <2>2, MinOf
  <2> QED BY <2>2, <2>3, <2>4
<1> HIDE DEF c
<1>2. s \in Seq(Results) BY <1>1, Sliced
<1> HIDE DEF s
<1>3. Len(s) \in Nat /\ DOMAIN s = 1..Len(s) /\ \A k \in 1..Len(s) : s[k] \in Results BY <1>2
<1>4. K \in SUBSET (1..Len(s)) BY <1>3
<1>5. search(n) = [k \in DOMAIN L |-> s[L[k]]] BY Zenon DEF search, Filter, Up, c, s
<1> HIDE DEF K
<1>6. m \in Nat /\ L \in [1..m -> K] BY <1>3, <1>4, Filtered
<1> HIDE DEF L, m
<1>7. DOMAIN L = 1..m /\ \A k \in 1..m : s[L[k]] \in Results BY <1>3, <1>4, <1>6
<1>8. search(n) \in [1..m -> Results] BY <1>5, <1>7
<1> QED BY <1>6, <1>8

\* An idea is of words, and a pair is of two.
Ideas ==
  {<<"pair", p[1], p[2]>> : p \in {q \in Vocabulary \X Vocabulary : q[1] # q[2]}}
    \cup {<<"explainer", w>> : w \in Vocabulary} \cup {<<"answer", w>> : w \in Vocabulary}
OthersOf(titles, topics) == Filter(topics, LAMBDA t : titles = <<>> \/ t # titles[1])
PairsOf(titles, others) ==
  IF titles = <<>> THEN <<>> ELSE [k \in DOMAIN others |-> <<"pair", titles[1], others[k]>>]
ExplainersOf(titles) == [k \in DOMAIN titles |-> <<"explainer", titles[k]>>]
AnswersOf(topics) == [k \in DOMAIN topics |-> <<"answer", topics[k]>>]

LEMMA TheIdeas ==
  ASSUME NEW titles \in Seq(Vocabulary), NEW topics \in Seq(Vocabulary)
  PROVE  /\ PairsOf(titles, OthersOf(titles, topics)) \in Seq(Ideas)
         /\ ExplainersOf(titles) \in Seq(Ideas) /\ AnswersOf(topics) \in Seq(Ideas)
<1> DEFINE n == Len(titles)
           m == Len(topics)
<1>1. n \in Nat /\ DOMAIN titles = 1..n /\ \A k \in 1..n : titles[k] \in Vocabulary OBVIOUS
<1>2. m \in Nat /\ DOMAIN topics = 1..m /\ \A k \in 1..m : topics[k] \in Vocabulary OBVIOUS
<1> HIDE DEF n, m
<1>3. \A w \in Vocabulary : <<"explainer", w>> \in Ideas /\ <<"answer", w>> \in Ideas BY DEF Ideas
<1>4. ASSUME NEW w \in Vocabulary, NEW u \in Vocabulary, w # u PROVE <<"pair", w, u>> \in Ideas
  <2> DEFINE q == <<w, u>>
  <2>1. q \in {p \in Vocabulary \X Vocabulary : p[1] # p[2]} /\ q[1] = w /\ q[2] = u BY <1>4
  <2> HIDE DEF q
  <2>2. <<"pair", q[1], q[2]>> \in Ideas BY <2>1 DEF Ideas
  <2> QED BY <2>1, <2>2
<1>5. ExplainersOf(titles) \in Seq(Ideas)
  <2> DEFINE e == ExplainersOf(titles)
  <2>1. e = [k \in 1..n |-> <<"explainer", titles[k]>>] BY Zenon, <1>1 DEF ExplainersOf
  <2> HIDE DEF e
  <2>2. \A k \in 1..n : <<"explainer", titles[k]>> \in Ideas BY <1>1, <1>3
  <2> HIDE DEF Ideas
  <2>3. e \in [1..n -> Ideas] BY <2>1, <2>2
  <2> QED BY <1>1, <2>3, LengthOf DEF e
<1>6. AnswersOf(topics) \in Seq(Ideas)
  <2> DEFINE e == AnswersOf(topics)
  <2>1. e = [k \in 1..m |-> <<"answer", topics[k]>>] BY Zenon, <1>2 DEF AnswersOf
  <2> HIDE DEF e
  <2>2. \A k \in 1..m : <<"answer", topics[k]>> \in Ideas BY <1>2, <1>3
  <2> HIDE DEF Ideas
  <2>3. e \in [1..m -> Ideas] BY <2>1, <2>2
  <2> QED BY <1>2, <2>3, LengthOf DEF e
<1> DEFINE others == OthersOf(titles, topics)
           pairs == PairsOf(titles, others)
<1>7. pairs \in Seq(Ideas)
  <2>1. CASE titles = <<>>
    <3>1. pairs = <<>> BY Zenon, <2>1 DEF PairsOf
    <3> HIDE DEF pairs
    <3> QED BY <3>1
  <2>2. CASE titles # <<>>
    <3> DEFINE K == {k \in DOMAIN topics : titles = <<>> \/ topics[k] # titles[1]}
               L == Up(K)
               c == Cardinality(K)
               first == titles[1]
    <3>1. others = [k \in DOMAIN L |-> topics[L[k]]] BY Zenon DEF OthersOf, Filter, Up
    <3>2. first \in Vocabulary
      <4>1. n # 0 BY <2>2 DEF n
      <4> QED BY <1>1, <4>1
    <3>3. K \in SUBSET (1..m) /\ \A k \in K : topics[k] # first BY <1>2, <2>2
    <3>4. pairs = [k \in DOMAIN others |-> <<"pair", first, others[k]>>] BY Zenon, <2>2 DEF PairsOf
    <3> HIDE DEF K, first, others, pairs
    <3>5. c \in Nat /\ L \in [1..c -> K] BY <1>2, <3>3, Filtered
    <3> HIDE DEF L, c
    <3>6. DOMAIN others = 1..c /\ \A k \in 1..c : others[k] = topics[L[k]] BY <3>1, <3>5
    <3>7. \A k \in 1..c : L[k] \in K /\ L[k] \in 1..m BY <3>3, <3>5
    <3>8. \A k \in 1..c : others[k] \in Vocabulary /\ first # others[k] BY <1>2, <3>3, <3>6, <3>7
    <3>9. \A k \in 1..c : <<"pair", first, others[k]>> \in Ideas BY <1>4, <3>2, <3>8
    <3>10. pairs = [k \in 1..c |-> <<"pair", first, others[k]>>] BY Zenon, <3>4, <3>6
    <3> HIDE DEF Ideas
    <3>11. pairs \in [1..c -> Ideas] BY <3>9, <3>10
    <3> QED BY <3>5, <3>11, LengthOf
  <2> QED BY <2>1, <2>2
<1> QED BY Zenon, <1>5, <1>6, <1>7

LEMMA IdeasAreDistinct ==
  ASSUME NEW videos, NEW titles, titles = Ranked([k \in DOMAIN videos |-> videos[k].title]),
         titles \in Seq(Vocabulary), NEW topics \in Seq(Vocabulary)
  PROVE  /\ Cardinality(Range(extractContentIdeas(videos, topics, 10))) = Len(extractContentIdeas(videos, topics, 10))
         /\ \A k \in DOMAIN extractContentIdeas(videos, topics, 10) :
              extractContentIdeas(videos, topics, 10)[k][1] = "pair" =>
                extractContentIdeas(videos, topics, 10)[k][2] # extractContentIdeas(videos, topics, 10)[k][3]
<1> DEFINE pairs == PairsOf(titles, OthersOf(titles, topics))
           explainers == ExplainersOf(titles)
           answers == AnswersOf(topics)
           all == pairs \o explainers \o answers
           ideas == Slice(Distinct(all), 10)
<1>1. extractContentIdeas(videos, topics, 10) = ideas
  <2> DEFINE given(list) ==
               Slice(Distinct(PairsOf(list, OthersOf(list, topics)) \o ExplainersOf(list) \o answers), 10)
  <2>1. extractContentIdeas(videos, topics, 10) = given(Ranked([k \in DOMAIN videos |-> videos[k].title]))
    BY Zenon DEF extractContentIdeas, PairsOf, OthersOf, ExplainersOf, AnswersOf
  <2>2. given(titles) = ideas BY Zenon
  <2> HIDE DEF given, ideas
  <2> QED BY Zenon, <2>1, <2>2
<1>2. all \in Seq(Ideas)
  <2>1. pairs \in Seq(Ideas) /\ explainers \in Seq(Ideas) /\ answers \in Seq(Ideas) BY TheIdeas
  <2> HIDE DEF pairs, explainers, answers
  <2>2. pairs \o explainers \in Seq(Ideas) BY Zenon, <2>1, ConcatProperties
  <2> QED BY Zenon, <2>1, <2>2, ConcatProperties
<1> HIDE DEF all
<1>3. ideas \in Seq(Ideas) /\ Different(ideas)
  <2>1. Distinct(all) \in Seq(Ideas) /\ Different(Distinct(all)) BY <1>2, DistinctList
  <2>2. 10 \in Nat OBVIOUS
  <2> QED BY Zenon, <2>1, <2>2, SliceDifferent
<1> HIDE DEF ideas
<1>4. Cardinality(Range(ideas)) = Len(ideas) BY <1>3, AsManyAsLong
<1>5. ASSUME NEW e \in Ideas, e[1] = "pair" PROVE e[2] # e[3]
  <2>1. CASE e \in {<<"pair", p[1], p[2]>> : p \in {q \in Vocabulary \X Vocabulary : q[1] # q[2]}}
    <3>1. PICK p \in {q \in Vocabulary \X Vocabulary : q[1] # q[2]} : e = <<"pair", p[1], p[2]>> BY <2>1
    <3>2. p[1] # p[2] OBVIOUS
    <3>3. e[2] = p[1] /\ e[3] = p[2] BY <3>1
    <3> QED BY <3>2, <3>3
  <2>2. CASE e \in {<<"explainer", w>> : w \in Vocabulary}
    <3>1. PICK w \in Vocabulary : e = <<"explainer", w>> BY <2>2
    <3>2. e[1] = "explainer" BY <3>1
    <3> QED BY <1>5, <3>2
  <2>3. CASE e \in {<<"answer", w>> : w \in Vocabulary}
    <3>1. PICK w \in Vocabulary : e = <<"answer", w>> BY <2>3
    <3>2. e[1] = "answer" BY <3>1
    <3> QED BY <1>5, <3>2
  <2> QED BY Zenon, <2>1, <2>2, <2>3 DEF Ideas
<1>6. ASSUME NEW k \in DOMAIN ideas, ideas[k][1] = "pair" PROVE ideas[k][2] # ideas[k][3]
  <2>1. ideas[k] \in Ideas
    <3> HIDE DEF Ideas
    <3> QED BY <1>3
  <2> QED BY Zenon, <1>5, <1>6, <2>1
<1> QED BY Zenon, <1>1, <1>4, <1>6

LEMMA TheIdeasAgree ==
  ASSUME IntelAssumption, comments \in Seq(Comments), results \in Seq(Results)
  PROVE  IdeasAgree
<1> DEFINE m == MaxItems + 2
           analysis == analyzeComments(comments, m)
           R == Ranked(comments)
           pos == Polarity(comments, POSITIVE)
           neg == Polarity(comments, NEGATIVE)
           sentiment == IF pos + neg = 0 THEN <<0, 1>> ELSE <<pos - neg, pos + neg>>
<1>1. m \in Nat \ {0} /\ 1 \in Nat /\ Asked \subseteq Int BY DEF IntelAssumption
<1>2. ASSUME NEW c \in Comments PROVE c \in Seq(STRING) /\ Terms(c) \in SUBSET Vocabulary
  <2>1. c \in Comments \cup {r.title : r \in Results} OBVIOUS
  <2>2. c \in Seq(STRING) /\ Terms(c) \subseteq Range(WordOrder) BY Zenon, <2>1 DEF IntelAssumption
  <2> QED BY Zenon, <2>2 DEF Vocabulary
<1>3. ASSUME NEW r \in Results PROVE Terms(r.title) \in SUBSET Vocabulary
  <2>1. r.title \in Comments \cup {q.title : q \in Results} OBVIOUS
  <2>2. Terms(r.title) \subseteq Range(WordOrder) BY Zenon, <2>1 DEF IntelAssumption
  <2> QED BY Zenon, <2>2 DEF Vocabulary
<1>4. R \in Seq(Vocabulary)
  <2> DEFINE n == Len(comments)
  <2>1. n \in Nat /\ DOMAIN comments = 1..n /\ \A k \in 1..n : comments[k] \in Comments OBVIOUS
  <2> HIDE DEF n
  <2>2. TextsOK(comments, n) BY <1>2, <2>1 DEF TextsOK
  <2>3. PICK j \in Nat : R \in [1..j -> Vocabulary] BY <2>1, <2>2, RankedList
  <2> HIDE DEF R
  <2> QED BY <2>3, LengthOf
<1>5. analysis = [topics |-> Slice(R, m), sentiment |-> sentiment] BY Zenon, AnalysisOf
<1>6. analyzeComments(Reverse(comments), m) = analysis
  <2>1. Ranked(Reverse(comments)) = R BY RankedInAnyOrder
  <2>2. ASSUME NEW lexicon PROVE Polarity(Reverse(comments), lexicon) = Polarity(comments, lexicon)
    BY <1>2, PolarityIsNat
  <2>3. Polarity(Reverse(comments), POSITIVE) = pos /\ Polarity(Reverse(comments), NEGATIVE) = neg
    BY Zenon, <2>2
  <2> DEFINE other == Reverse(comments)
  <2>4. analyzeComments(other, m) =
           [topics |-> Slice(Ranked(other), m),
            sentiment |-> IF Polarity(other, POSITIVE) + Polarity(other, NEGATIVE) = 0 THEN <<0, 1>>
                          ELSE <<Polarity(other, POSITIVE) - Polarity(other, NEGATIVE),
                                 Polarity(other, POSITIVE) + Polarity(other, NEGATIVE)>>]
    BY Zenon, AnalysisOf
  <2> HIDE DEF analysis, R, pos, neg, m
  <2>5. analyzeComments(other, m) = [topics |-> Slice(R, m), sentiment |-> sentiment]
    BY Zenon, <2>1, <2>3, <2>4
  <2> QED BY Zenon, <1>5, <2>5
<1>7. pos \in Nat /\ neg \in Nat BY <1>2, PolarityIsNat
<1> HIDE DEF pos, neg
<1>8. -sentiment[2] <= sentiment[1] /\ sentiment[1] <= sentiment[2]
  <2>1. CASE pos + neg = 0
    <3>1. sentiment[1] = 0 /\ sentiment[2] = 1 BY <2>1
    <3> HIDE DEF sentiment
    <3> QED BY <3>1
  <2>2. CASE pos + neg # 0
    <3>1. sentiment[1] = pos - neg /\ sentiment[2] = pos + neg BY <2>2
    <3> HIDE DEF sentiment
    <3> QED BY <1>7, <3>1
  <2> QED BY <2>1, <2>2
<1> HIDE DEF sentiment, R
<1> DEFINE whole == Slice(R, m)
<1>9. analysis.topics = whole /\ analysis.sentiment = sentiment
  <2> HIDE DEF analysis, whole, m
  <2>1. analysis = [topics |-> whole, sentiment |-> sentiment] BY Zenon, <1>5 DEF whole
  <2> QED BY <2>1
<1>10. analyzeComments(comments, 1).topics = Slice(analysis.topics, 1)
  <2> DEFINE short == analyzeComments(comments, 1)
             start == Slice(R, 1)
  <2>1. short =
           [topics |-> start,
            sentiment |-> IF Polarity(comments, POSITIVE) + Polarity(comments, NEGATIVE) = 0 THEN <<0, 1>>
                          ELSE <<Polarity(comments, POSITIVE) - Polarity(comments, NEGATIVE),
                                 Polarity(comments, POSITIVE) + Polarity(comments, NEGATIVE)>>]
    BY Zenon, AnalysisOf DEF R
  <2> HIDE DEF short, start
  <2>2. short.topics = start BY <2>1
  <2>3. Slice(whole, 1) = start
    <3> HIDE DEF m
    <3> QED BY <1>1, <1>4, SliceOfSlice DEF start
  <2> QED BY Zenon, <1>9, <2>2, <2>3 DEF short
<1>11. whole \in Seq(Vocabulary)
  <2>1. m \in Nat BY <1>1
  <2> HIDE DEF m
  <2> QED BY Zenon, <1>4, <2>1, Sliced
<1> HIDE DEF whole, analysis
<1> DEFINE topics == Slice(analysis.topics, 1) \o analysis.topics
<1>12. topics \in Seq(Vocabulary)
  <2>1. Slice(whole, 1) \in Seq(Vocabulary) BY Zenon, <1>1, <1>11, Sliced
  <2>2. Slice(whole, 1) \o whole \in Seq(Vocabulary) BY Zenon, <1>11, <2>1, ConcatProperties
  <2> QED BY Zenon, <1>9, <2>2
<1> HIDE DEF topics
<1>13. ASSUME NEW n \in Asked
       PROVE  LET ideas == extractContentIdeas(search(n), topics, 10) IN
              /\ Cardinality(Range(ideas)) = Len(ideas)
              /\ \A k \in DOMAIN ideas : ideas[k][1] = "pair" => ideas[k][2] # ideas[k][3]
  <2> DEFINE videos == search(n)
             texts == [k \in DOMAIN videos |-> videos[k].title]
             titles == Ranked(texts)
  <2>1. PICK j \in Nat : videos \in [1..j -> Results]
    <3>1. n \in Int BY <1>1
    <3> QED BY <3>1, VideosFound
  <2> HIDE DEF videos
  <2>2. TextsOK(texts, j)
    <3>1. DOMAIN texts = 1..j /\ \A k \in 1..j : texts[k] = videos[k].title /\ videos[k] \in Results
      BY <2>1
    <3> HIDE DEF texts
    <3> QED BY <1>3, <2>1, <3>1 DEF TextsOK
  <2>3. PICK i \in Nat : titles \in [1..i -> Vocabulary]
    <3> HIDE DEF texts
    <3> QED BY <2>1, <2>2, RankedList
  <2>4. titles \in Seq(Vocabulary)
    <3> HIDE DEF titles
    <3> QED BY <2>3, LengthOf
  <2>5. titles = Ranked([k \in DOMAIN videos |-> videos[k].title]) OBVIOUS
  <2> HIDE DEF titles, texts
  <2>6. /\ Cardinality(Range(extractContentIdeas(videos, topics, 10))) = Len(extractContentIdeas(videos, topics, 10))
        /\ \A k \in DOMAIN extractContentIdeas(videos, topics, 10) :
              extractContentIdeas(videos, topics, 10)[k][1] = "pair" =>
                extractContentIdeas(videos, topics, 10)[k][2] # extractContentIdeas(videos, topics, 10)[k][3]
    BY Zenon, <1>12, <2>4, <2>5, IdeasAreDistinct
  <2> QED BY Zenon, <2>6 DEF videos
<1>14. -analysis.sentiment[2] <= analysis.sentiment[1] /\ analysis.sentiment[1] <= analysis.sentiment[2]
  BY Zenon, <1>8, <1>9
<1> QED BY Zenon, <1>6, <1>10, <1>13, <1>14 DEF IdeasAgree, analysis, topics, m

\* What audience research reports is consistent with what was collected, in every
\* state that the providers' answers lead to (modules/social-intel).
THEOREM IntelAgrees == IntelSpec => []IntelAddsUp
<1>1. IntelTypes => IntelAddsUp
  <2> SUFFICES ASSUME IntelTypes PROVE IntelAddsUp
    OBVIOUS
  <2>1. items \in Seq(Items) /\ comments \in Seq(Comments) /\ results \in Seq(Results) BY DEF IntelTypes
  <2>2. IntentAgrees BY <2>1, IntelAssumption, TheIntentAgrees
  <2>3. IdeasAgree BY <2>1, IntelAssumption, TheIdeasAgree
  <2> QED BY <2>2, <2>3 DEF IntelAddsUp
<1> QED BY <1>1, IntelTypesHold, PTL

\* What is reported of the channels and of audience research adds up, whatever is
\* bought, clicked, shown, posted and uploaded (packages/attribution, packages/channel-roi,
\* packages/ab-testing, modules/social-intel).
THEOREM FiguresHold == ReportSpec /\ IntelSpec => []FiguresAddUp
<1>1. ReportsAddUp /\ IntelAddsUp => FiguresAddUp BY DEF FiguresAddUp
<1> QED BY <1>1, ReportsAgree, IntelAgrees, PTL

=============================================================================
