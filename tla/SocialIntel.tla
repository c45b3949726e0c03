------------------------------ MODULE SocialIntel -------------------------------
(***************************************************************************)
(* Audience research (modules/social-intel): a query collects items of a    *)
(* provider, turns each into a signal that names its source, and scores the *)
(* buying intent of all of them (collector.ts, normalize.ts, analyze.ts,    *)
(* routes/intel.ts); the YouTube tools rank the terms of comments and       *)
(* propose content (youtube/).                                              *)
(*                                                                          *)
(* A text is a sequence of words.  Each topic keeps one or two of its       *)
(* keywords, a phrase among them, and each lexicon a few of its words.      *)
(* Fractions are exact where the code has floating point.                   *)
(***************************************************************************)
EXTENDS Integers, Sequences, FiniteSets, SequencesExt, FiniteSetsExt, Arrays

CONSTANTS
  Items,      \* items a provider may return: url, platform, text, likes
  Comments,   \* comments of a video
  Results,    \* results of a video search: whether a video, and its title
  MaxItems,   \* bound: items, comments and results of a provider
  Asked       \* numbers of results a caller may ask for

VARIABLES items, comments, results  \* what the provider has, in its order

intelVars == <<items, comments, results>>

SOCIAL_PLATFORMS == {"youtube", "tiktok", "x", "reddit"}

-----------------------------------------------------------------------------
\* normalize.ts: a negative count stands for one that is absent or no number;
\* counts are in halves, as providers report averages.
toCount(halves) == IF halves < 0 THEN 0 ELSE halves \div 2
normalize(raw, fallback) ==
  [platform |-> IF raw.platform \in SOCIAL_PLATFORMS THEN raw.platform ELSE fallback,
   text |-> raw.text, likes |-> toCount(raw.likes)]

\* One item without a source fails the whole batch.
normalizeAll(raws, fallback) ==
  IF \E k \in DOMAIN raws : ~raws[k].url THEN {}
  ELSE {[k \in DOMAIN raws |-> normalize(raws[k], fallback)]}

\* ProviderSocialCollector.collect: the batches it can answer with, none when it throws.
collect(registeredFor, platform, ok) == IF registeredFor = platform /\ ok THEN {items} ELSE {}

-----------------------------------------------------------------------------
\* analyze.ts: keywords are sequences of words, matched within one signal, since
\* a line break joins the signals.
DEFAULT_INTENT_TOPICS ==
  [churn |-> {<<"cancel">>}, comparison |-> {<<"better", "than">>}, evaluation |-> {<<"recommend">>},
   pricing |-> {<<"price">>, <<"how", "much">>}, purchase |-> {<<"buy">>},
   support |-> {<<"broken">>, <<"help">>}]
TopicOrder == <<"churn", "comparison", "evaluation", "pricing", "purchase", "support">>
Alphabetic(t) == CHOOSE k \in DOMAIN TopicOrder : TopicOrder[k] = t

\* Mutant: the signals are joined without a break.
CorpusUnbroken(signals) == FoldLeft(LAMBDA text, s : text \o s.text, <<>>, signals)
Corpus(signals) == FoldLeft(LAMBDA text, s : text \o <<"\n">> \o s.text, <<>>, signals)
countHits(text, keyword) ==
  Cardinality({k \in 1..(Len(text) - Len(keyword) + 1) : SubSeq(text, k, k + Len(keyword) - 1) = keyword})

analyzeIntent(signals) ==
  LET text == Corpus(signals)
      hits == [t \in DOMAIN DEFAULT_INTENT_TOPICS |->
                 TotalOf([kw \in DEFAULT_INTENT_TOPICS[t] |-> countHits(text, kw)])]
      present == {t \in DOMAIN hits : hits[t] > 0}
      total == SumOver(present, hits)
      names == Len(TopicOrder)
      all == total + Len(signals)
      numerator == 60 * Cardinality(present) * all + 40 * total * names
  IN IF signals = <<>> THEN [topics |-> <<>>, score |-> 0]
     ELSE [topics |-> Sorted(present, LAMBDA s, t :
                        hits[s] > hits[t] \/ (hits[s] = hits[t] /\ Alphabetic(s) < Alphabetic(t))),
           score |-> (2 * numerator + names * all) \div (2 * names * all)]

\* GET /intel, past its guards: what it answers of a query for a platform.
intel(registeredFor, platform, ok) ==
  LET signals == UNION {normalizeAll(batch, platform) : batch \in collect(registeredFor, platform, ok)}
  IN IF signals = {} THEN [status |-> 502]
     ELSE LET s == CHOOSE s \in signals : TRUE
              intent == analyzeIntent(s)
          IN [status |-> 200, signals |-> s, topics |-> intent.topics, score |-> intent.score]

-----------------------------------------------------------------------------
\* youtube/analyze.ts: words that make no topic, and the two lexicons.
STOPWORDS == {"how", "much", "than"}
SHORT == {"tv"}
POSITIVE == {"recommend", "love"}
NEGATIVE == {"broken"}
WordOrder == <<"better", "broken", "buy", "cancel", "help", "love", "price", "recommend">>
WordRank(w) == CHOOSE k \in DOMAIN WordOrder : WordOrder[k] = w

\* The terms of texts, each counted once a text, the most frequent first.
Terms(text) == Range(text) \ (STOPWORDS \cup SHORT)

\* A text is of words, and those that may be terms have their place in the alphabet.
ASSUME IntelAssumption ==
  /\ \A i \in Items : i.text \in Seq(STRING)
  /\ \A text \in Comments \cup {r.title : r \in Results} :
       text \in Seq(STRING) /\ Terms(text) \subseteq Range(WordOrder)
  /\ MaxItems \in Nat /\ Asked \subseteq Int

Frequency(texts, term) == Cardinality({k \in DOMAIN texts : term \in Terms(texts[k])})
Ranked(texts) ==
  LET terms == UNION {Terms(texts[k]) : k \in DOMAIN texts} IN
  Sorted(terms, LAMBDA s, t :
    \/ Frequency(texts, s) > Frequency(texts, t)
    \/ Frequency(texts, s) = Frequency(texts, t) /\ WordRank(s) < WordRank(t))
Slice(s, n) == SubSeq(s, 1, Min({n, Len(s)}))
Distinct(s) == FoldLeft(LAMBDA seen, e : IF e \in Range(seen) THEN seen ELSE Append(seen, e), <<>>, s)

\* analyzeComments: the sentiment is a fraction of the words with a polarity.
analyzeComments(texts, maxTopics) ==
  LET of(lexicon) ==
        TotalOf([k \in DOMAIN texts |->
                  Cardinality({i \in DOMAIN texts[k] : texts[k][i] \in lexicon})])
      polarity == of(POSITIVE) + of(NEGATIVE)
  IN [topics |-> Slice(Ranked(texts), maxTopics),
      sentiment |-> IF polarity = 0 THEN <<0, 1>> ELSE <<of(POSITIVE) - of(NEGATIVE), polarity>>]

\* client.ts and parse.ts: at most as many results as asked, and of those the videos.
clampMaxResults(n) == Min({50, Max({1, n})})
search(n) == Filter(Slice(results, clampMaxResults(n)), LAMBDA r : r.video)

\* extractContentIdeas: pairs of the leading title word with the topics, then an
\* idea for each title word, then one for each topic; without repetitions.
extractContentIdeas(videos, topics, maxIdeas) ==
  LET titles == Ranked([k \in DOMAIN videos |-> videos[k].title])
      others == Filter(topics, LAMBDA t : titles = <<>> \/ t # titles[1])
      pairs == IF titles = <<>> THEN <<>> ELSE [k \in DOMAIN others |-> <<"pair", titles[1], others[k]>>]
      explainers == [k \in DOMAIN titles |-> <<"explainer", titles[k]>>]
      answers == [k \in DOMAIN topics |-> <<"answer", topics[k]>>]
  IN Slice(Distinct(pairs \o explainers \o answers), maxIdeas)

-----------------------------------------------------------------------------
IntelInit == items = <<>> /\ comments = <<>> /\ results = <<>>
Posted ==
  /\ comments = <<>> /\ results = <<>> /\ Len(items) < MaxItems
  /\ \E i \in Items : items' = Append(items, i)
  /\ UNCHANGED <<comments, results>>
Commented ==
  /\ items = <<>> /\ Len(comments) < MaxItems
  /\ \E c \in Comments : comments' = Append(comments, c)
  /\ UNCHANGED <<items, results>>
Uploaded ==
  /\ items = <<>> /\ Len(results) < MaxItems
  /\ \E r \in Results : results' = Append(results, r)
  /\ UNCHANGED <<items, comments>>
IntelNext == Posted \/ Commented \/ Uploaded
IntelSpec == IntelInit /\ [][IntelNext]_intelVars

-----------------------------------------------------------------------------
\* An answer of intent is of whole items that each name a source: it finds the
\* topics its signals have one by one and no other, in whatever order they were
\* collected, and a signal of no topic never raises the score.
IntentAgrees ==
  \A platform \in SOCIAL_PLATFORMS :
    \A answer \in {intel("youtube", platform, TRUE)} :
    IF platform # "youtube" \/ (\E k \in DOMAIN items : ~items[k].url) THEN answer.status = 502
    ELSE /\ answer.score \in 0..100
         /\ Range(answer.topics) =
              UNION {Range(analyzeIntent(<<answer.signals[k]>>).topics) : k \in DOMAIN items}
         /\ answer.topics = analyzeIntent(Reverse(answer.signals)).topics
         /\ \A k \in DOMAIN items :
              LET rest == analyzeIntent(RemoveAt(answer.signals, k)) IN
              analyzeIntent(<<answer.signals[k]>>).topics = <<>> => answer.score <= rest.score

\* The topics of comments do not depend on their order, a shorter list is the
\* start of a longer one, and the sentiment stays between -1 and 1; of the
\* ideas none is given twice, though a topic may be, and no word is paired
\* with itself.
IdeasAgree ==
  LET analysis == analyzeComments(comments, MaxItems + 2) IN
  /\ analyzeComments(Reverse(comments), MaxItems + 2) = analysis
  /\ analyzeComments(comments, 1).topics = Slice(analysis.topics, 1)
  /\ -analysis.sentiment[2] <= analysis.sentiment[1] /\ analysis.sentiment[1] <= analysis.sentiment[2]
  /\ \A n \in Asked :
       LET topics == Slice(analysis.topics, 1) \o analysis.topics IN
       \A ideas \in {extractContentIdeas(search(n), topics, 10)} :
         /\ Cardinality(Range(ideas)) = Len(ideas)
         /\ \A k \in DOMAIN ideas : ideas[k][1] = "pair" => ideas[k][2] # ideas[k][3]

\* What audience research reports is consistent with what was collected, as above
\* (analyzeIntent, normalizeAll, analyzeComments, extractContentIdeas).
IntelAddsUp == IntentAgrees /\ IdeasAgree
=============================================================================
