SPECIFICATION MCSpec
CONSTANTS
  Campaigns = {c1, c2}
  Recipients = {p1, p2}
  Limit = 2
  Periods = 1
  MaxMails = 4
  NoOne = NoOne
  acme = acme
  zenith = zenith
  novel = novel
  Tenants = {acme, zenith, novel}
  Founded <- MCFounded
  Overlapping = {zenith, novel}
  Handlers = {h1, h2}
  None = None
  Pages = {p1, p2}
  FormChoices = {{"sale_or_share"}}
  MaxVisits = 1
  MaxChanges = 2
  stepA = stepA
  stepB = stepB
  stepX = stepX
  Nowhere = Nowhere
  MaxSteps = 3
  Journeys <- MCJourneys
  Writers = {w1, w2}
  Contents <- MCContents
  Home = t1
  Other = t2
  MaxLines = 3
  MaxKeys = 1
  MaxEdits = 1
  Clients = {c1, c2}
  Capacity = 2
  Refill = 1
  WindowLimit = 2
  Window = 2
  MaxTime = 3
  MaxAdmitted = 6
  AuditTenants = {t1, t2}
  Actors = {u1, u2}
  Actions = {1, 2}
  Resources = {1}
  Absent = Absent
  LastSecond = 1
  MaxEntries = 2
  Minutes = 3
  Hours = 2
  Days = 3
  Months = 2
  Weekdays = 4
  Horizon = 40
  MaxRuns = 3
  Exprs <- MCExprs
  Users = {"u1", "u2"}
  Names = {"a", "b"}
  MaxTs = 3
  Windows = {2}
  DayTicks = 2
  WeekDays = 2
  MonthDays = 2
  MaxLog = 3
  Worth <- MCWorth
  Ids = {1, 2}
  ActiveDays = {0, 9}
  ClockDays = {0, 5, 13}
  Drafts <- MCDrafts
  Trimmed <- MCTrimmed
  Tidied <- MCTidied
  Bared <- MCBared
  HostOf <- MCHostOf
  Addresses <- MCAddresses
  HostNames <- MCHostNames
  Phones = {"4155550101"}
  FoundData <- MCFound
  EventTopics <- MCTopics
  RawRows <- MCRawRows
  Touches <- MCTouches
  Exposed <- MCExposed
  MaxRows = 3
  MaxTouchTs = 2
  Underflow = 1
  Items <- MCItems
  Comments <- MCComments
  Results <- MCResults
  MaxItems = 3
  Asked = {0, 2, 51}
  Holders = {acme, zenith}
  WriteKeys = {k1, k2}
  Tokens = {s1}
  People = {i1, i2}
  Cookies = {a1, a2}
  Logins = {u1}
  Spellings <- MCSpellings
  MaxCalls = 4
  Demo = demo
  RouteTenants = {t1, t2}
  Nobody = Nobody
SYMMETRY Sym
INVARIANTS
  OptOutStopsMail
  EveryMailChargedOnce
  OvershootIsBounded
  OnlyEntitled
  ToldTokensWork
  GrantedStays
  RepeatsAreCut
  OnlyAppendedLinesVerify
  LimitersBound
  StoresAgree
  RunsAreTheDueMinutes
  QueriesAgree
  WaitingNeverHelps
  ViewsAgree
  EnrichmentFillsGaps
  FiguresAddUp
  BackendsAgree
  OutsidersLearnOnlyWhatIsPublic
PROPERTIES
  ChoiceOutlivesThePage
CHECK_DEADLOCK FALSE
