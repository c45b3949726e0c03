------------------------- MODULE ConsentGate_proofs -------------------------
(***************************************************************************)
(* What the consent gate promises the subjects whose requests do not       *)
(* overlap, and what is left of it for those whose requests do, for any    *)
(* number of subjects, requests and bodies.                                *)
(***************************************************************************)
EXTENDS ConsentGate, TLAPS

\* What a subject's newest choice comes to.
Expected(s) == IF Unwritten(s) THEN None ELSE Snapshot(ResolveConsent(latest[s]))

\* Only a dead process leaves orphans, and it leaves nothing else.
OrphansOfTheDead ==
  \A r \in Requests :
    /\ handler[r].at = "orphan" => ~up /\ stmt[r] = "sent"
    /\ ~up => handler[r].at \in {"idle", "orphan"}

Serial == Subjects \ Overlapping

OneRequestPerSubject ==
  \A r1, r2 \in Requests :
    (handler[r1].subject = handler[r2].subject /\ handler[r1].subject \in Serial) => r1 = r2

\* Whoever waits for the database wrote the newest choice of its subject.
WriterIsLatest ==
  \A r \in Requests :
    (handler[r].at \in {"put", "orphan"} /\ handler[r].subject \in Serial) =>
      latest[handler[r].subject] = handler[r].body

RefusedIsUnsaved ==
  \A r \in Requests :
    (stmt[r] = "refused" /\ handler[r].subject \in Serial) => handler[r].subject \in unsaved

CacheIsLatest == up => \A s \in Serial \ unsaved : overrides[s] = Expected(s)

\* Once no statement of a subject is on its way, its row is the newest choice.
RowIsLatest ==
  \A s \in Serial \ unsaved :
    (\A r \in Requests : handler[r].subject = s => stmt[r] # "sent") => rows[s] = Expected(s)

IInv ==
  /\ TypeOK
  /\ OrphansOfTheDead
  /\ OneRequestPerSubject
  /\ WriterIsLatest
  /\ RefusedIsUnsaved
  /\ CacheIsLatest
  /\ RowIsLatest

-----------------------------------------------------------------------------
(* Facts about the data.                                                   *)

LEMMA SnapshotType ==
  ASSUME NEW b \in Inputs
  PROVE  Snapshot(ResolveConsent(b)) \in Snapshots
<1>1. b \in Bodies BY InputsAssumption
<1>2. /\ b.analyticsOptOut \in BOOLEAN /\ b.saleOrShareOptOut \in BOOLEAN
      /\ b.marketingEmailOptIn \in BOOLEAN /\ b.messagingTcpaOptIn \in BOOLEAN
      /\ b.gpc \in BOOLEAN
  BY <1>1 DEF Bodies
<1> DEFINE st == ResolveConsent(b)
<1>a. st.analytics \in BOOLEAN       BY <1>2 DEF ResolveConsent
<1>b. st.marketing_email \in BOOLEAN BY <1>2 DEF ResolveConsent
<1>c. st.sale_or_share \in BOOLEAN   BY <1>2 DEF ResolveConsent
<1>d. st.messaging_tcpa \in BOOLEAN  BY <1>2 DEF ResolveConsent
<1> HIDE DEF st
<1>3. \A p \in Purposes : st[p] \in BOOLEAN
  BY <1>a, <1>b, <1>c, <1>d DEF Purposes
<1>4. Snapshot(st) \in Snapshots
  BY <1>3 DEF Snapshot, Snapshots
<1> QED BY <1>4 DEF st

\* The four purposes a snapshot keeps are enough to answer for the CMP: the GPC
\* flag it leaves out is already in the resolved sale_or_share.
LEMMA SnapshotDecidesPurposes ==
  ASSUME NEW b \in Inputs
  PROVE  {p \in Purposes : Snapshot(ResolveConsent(b))[p]} = AllowedPurposes(ResolveConsent(b))
<1> DEFINE st == ResolveConsent(b)
<1>1. b \in Bodies BY InputsAssumption
<1>2. \A p \in Purposes : Snapshot(st)[p] = st[p]
  BY DEF Snapshot
<1>3. st.sale_or_share => ~st.gpc
  BY <1>1 DEF ResolveConsent, Bodies
<1>4. st.sale_or_share = st["sale_or_share"]
  OBVIOUS
<1>5. \A p \in Purposes :
        Snapshot(st)[p] <=> IF p = "sale_or_share" THEN CanSellOrShare(st) ELSE st[p]
  BY <1>2, <1>3, <1>4 DEF CanSellOrShare
<1> QED BY <1>5 DEF AllowedPurposes

LEMMA OpenHandler ==
  ASSUME TypeOK, NEW r \in Requests, handler[r].at # "idle"
  PROVE  /\ handler[r] \in [at : {"tenant", "put", "orphan"}, subject : Subjects, body : Inputs]
         /\ handler[r].subject \in Subjects
         /\ handler[r].body \in Inputs
BY DEF TypeOK, Handlers, Idle

-----------------------------------------------------------------------------
(* Type correctness.                                                       *)

LEMMA TypeInit == Init => TypeOK
BY DEF Init, TypeOK, Handlers, Idle

LEMMA TypeStep == TypeOK /\ [Next]_vars => TypeOK'
<1> SUFFICES ASSUME TypeOK, [Next]_vars PROVE TypeOK'
  OBVIOUS
<1>1. ASSUME NEW r \in Requests, NEW s \in Subjects, NEW b \in Inputs, Arrive(r, s, b)
      PROVE  TypeOK'
  <2> DEFINE h == [at |-> "tenant", subject |-> s, body |-> b]
  <2>1. h \in Handlers /\ h.at = "tenant"
    BY DEF Handlers
  <2>2. handler' = [handler EXCEPT ![r] = h] /\ stmt[r] = "none"
    BY <1>1 DEF Arrive, TypeOK, Idle
  <2> HIDE DEF Handlers, Snapshots, h
  <2> QED BY <1>1, <2>1, <2>2 DEF Arrive, TypeOK
<1>2. ASSUME NEW r \in Requests, Reject(r) PROVE TypeOK'
  BY <1>2 DEF Reject, TypeOK, Handlers, Idle
<1>3. ASSUME NEW r \in Requests, Apply(r) PROVE TypeOK'
  <2>1. handler[r].at # "idle" BY <1>3 DEF Apply
  <2>2. /\ handler[r].subject \in Subjects /\ handler[r].body \in Inputs
        /\ [handler[r] EXCEPT !.at = "put"] \in Handlers
        /\ [handler[r] EXCEPT !.at = "put"].at = "put"
    BY <2>1, OpenHandler DEF Handlers
  <2>3. Snapshot(ResolveConsent(handler[r].body)) \in Snapshots
    BY <2>2, SnapshotType
  <2> HIDE DEF Handlers, Snapshots
  <2>4. handler' = [handler EXCEPT ![r] = [handler[r] EXCEPT !.at = "put"]]
    BY <1>3 DEF Apply
  <2>5. overrides' \in [Subjects -> Snapshots \cup {None}]
    BY <1>3, <2>3 DEF Apply, TypeOK
  <2>6. /\ latest' \in [Subjects -> Inputs \cup {None}]
        /\ recent' \in [Subjects -> SUBSET Inputs]
    BY <1>3, <2>2 DEF Apply, TypeOK
  <2>7. /\ stmt' \in [Requests -> {"none", "sent", "committed", "refused"}]
        /\ stmt' = [stmt EXCEPT ![r] = "sent"]
        /\ unsaved' \subseteq Subjects /\ UNCHANGED <<up, rows>>
    BY <1>3 DEF Apply, TypeOK
  <2> QED BY <2>2, <2>4, <2>5, <2>6, <2>7 DEF TypeOK
<1>4. ASSUME NEW r \in Requests, Commit(r) \/ Refuse(r) PROVE TypeOK'
  <2>1. handler[r].at # "idle" BY <1>4 DEF Commit, Refuse, TypeOK
  <2>2. handler[r].subject \in Subjects /\ handler[r].body \in Inputs
    BY <2>1, OpenHandler
  <2>3. Snapshot(ResolveConsent(handler[r].body)) \in Snapshots
    BY <2>2, SnapshotType
  <2>4. Idle \in Handlers /\ Idle.at = "idle" BY DEF Handlers, Idle
  <2> HIDE DEF Handlers, Snapshots, Idle
  <2>5. rows' \in [Subjects -> Snapshots \cup {None}]
    BY <1>4, <2>3 DEF Commit, Refuse, TypeOK
  <2>6. /\ unsaved' \subseteq Subjects
        /\ UNCHANGED <<up, overrides, latest, recent>>
    BY <1>4, <2>2 DEF Commit, Refuse, TypeOK
  <2>7. CASE handler[r].at = "orphan"
    <3>1. handler' = [handler EXCEPT ![r] = Idle] /\ stmt' = [stmt EXCEPT ![r] = "none"]
      BY <1>4, <2>7 DEF Commit, Refuse
    <3> QED BY <2>4, <2>5, <2>6, <3>1 DEF TypeOK
  <2>8. CASE handler[r].at # "orphan"
    <3>1. /\ handler' = handler
          /\ \/ stmt' = [stmt EXCEPT ![r] = "committed"]
             \/ stmt' = [stmt EXCEPT ![r] = "refused"]
      BY <1>4, <2>8 DEF Commit, Refuse
    <3>2. stmt[r] # "none" BY <1>4 DEF Commit, Refuse
    <3> QED BY <2>5, <2>6, <3>1, <3>2 DEF TypeOK
  <2> QED BY <2>7, <2>8
<1>5. ASSUME NEW r \in Requests, ReplyOk(r) \/ ReplyError(r) PROVE TypeOK'
  BY <1>5 DEF ReplyOk, ReplyError, TypeOK, Handlers, Idle
<1>6. ASSUME Crash PROVE TypeOK'
  <2>1. ASSUME NEW r \in Requests
        PROVE  /\ handler'[r] \in Handlers
               /\ stmt'[r] = "none" <=> handler'[r].at \in {"idle", "tenant"}
    <3>1. CASE stmt[r] = "sent"
      <4>1. handler[r].at # "idle" BY <3>1 DEF TypeOK
      <4> QED BY <1>6, <3>1, <4>1, OpenHandler DEF Crash, Handlers
    <3>2. CASE stmt[r] # "sent"
      BY <1>6, <3>2 DEF Crash, Handlers, Idle
    <3> QED BY <3>1, <3>2
  <2>2. handler' \in [Requests -> Handlers]
    BY <1>6, <2>1 DEF Crash
  <2>3. /\ stmt' \in [Requests -> {"none", "sent", "committed", "refused"}]
        /\ up' \in BOOLEAN /\ overrides' \in [Subjects -> Snapshots \cup {None}]
        /\ UNCHANGED <<rows, latest, unsaved, recent>>
    BY <1>6 DEF Crash
  <2> QED BY <2>1, <2>2, <2>3 DEF TypeOK
<1>7. ASSUME Boot PROVE TypeOK'
  BY <1>7 DEF Boot, TypeOK
<1>8. CASE UNCHANGED vars
  BY <1>8 DEF vars, TypeOK
<1> QED
  BY <1>1, <1>2, <1>3, <1>4, <1>5, <1>6, <1>7, <1>8 DEF Next

\* In every reachable state the cache and the table hold snapshots or nothing,
\* and a request has a statement at the database only while its handler, or
\* what is left of it after a crash, waits for one.
THEOREM TypeCorrect == Spec => []TypeOK
<1>1. Init => TypeOK BY TypeInit
<1>2. TypeOK /\ [Next]_vars => TypeOK' BY TypeStep
<1> QED BY <1>1, <1>2, PTL DEF Spec

-----------------------------------------------------------------------------
(* Safety when the requests of a subject do not overlap.                   *)

LEMMA SerialFacts == Serial \subseteq Subjects /\ None \notin Serial
BY NoneAssumption DEF Serial

LEMMA InvInit == Init => IInv
BY SerialFacts, TypeInit DEF Init, IInv, OrphansOfTheDead, OneRequestPerSubject, WriterIsLatest,
  RefusedIsUnsaved, CacheIsLatest, RowIsLatest, Expected, Unwritten, Idle

\* The step lemmas speak of one action each; all of them use the same facts.
LEMMA InvArrive ==
  ASSUME IInv, TypeOK',
         NEW r \in Requests, NEW s \in Subjects, NEW b \in Inputs, Arrive(r, s, b)
  PROVE  IInv'
<1> DEFINE h == [at |-> "tenant", subject |-> s, body |-> b]
<1>1. handler' = [handler EXCEPT ![r] = h] /\ h.at = "tenant" /\ h.subject = s
  BY DEF Arrive
<1>2. /\ up /\ UNCHANGED <<up, overrides, rows, stmt, latest, unsaved, recent>>
      /\ handler[r].at = "idle" /\ stmt[r] = "none"
      /\ s \in Serial => \A q \in Requests : handler[q].subject # s
  BY DEF Arrive, Open, Idle, IInv, TypeOK, Serial
<1>3. handler \in [Requests -> Handlers] BY DEF IInv, TypeOK
<1> HIDE DEF h
<1>4. OrphansOfTheDead' BY <1>1, <1>2, <1>3 DEF IInv, OrphansOfTheDead
<1>5. OneRequestPerSubject' BY <1>1, <1>2, <1>3 DEF IInv, OneRequestPerSubject
<1>6. WriterIsLatest' BY <1>1, <1>2, <1>3 DEF IInv, WriterIsLatest
<1>7. RefusedIsUnsaved' BY <1>1, <1>2, <1>3 DEF IInv, RefusedIsUnsaved
<1>8. CacheIsLatest' BY <1>2 DEF IInv, CacheIsLatest, Expected, Unwritten
<1>9. RowIsLatest' 
  BY <1>1, <1>2, <1>3 DEF IInv, RowIsLatest, Expected, Unwritten
<1> QED BY <1>4, <1>5, <1>6, <1>7, <1>8, <1>9 DEF IInv

\* Reject, ReplyOk and ReplyError only end a handler with nothing on its way.
LEMMA InvEnd ==
  ASSUME IInv, TypeOK', NEW r \in Requests, Reject(r) \/ ReplyOk(r) \/ ReplyError(r)
  PROVE  IInv'
<1>1. /\ handler' = [handler EXCEPT ![r] = Idle]
      /\ stmt' = [stmt EXCEPT ![r] = "none"]
      /\ UNCHANGED <<up, overrides, rows, latest, unsaved, recent>>
      /\ stmt[r] # "sent"
  BY DEF Reject, ReplyOk, ReplyError, IInv, TypeOK
<1>2. Idle.at = "idle" /\ Idle.subject = None BY DEF Idle
<1>3. /\ handler \in [Requests -> Handlers] /\ None \notin Subjects
      /\ stmt \in [Requests -> {"none", "sent", "committed", "refused"}]
  BY NoneAssumption DEF IInv, TypeOK
<1> HIDE DEF Idle
<1>4. OrphansOfTheDead' BY <1>1, <1>2, <1>3 DEF IInv, OrphansOfTheDead
<1>5. OneRequestPerSubject' BY SerialFacts, <1>1, <1>2, <1>3 DEF IInv, OneRequestPerSubject
<1>6. WriterIsLatest' BY <1>1, <1>2, <1>3 DEF IInv, WriterIsLatest
<1>7. RefusedIsUnsaved' BY <1>1, <1>2, <1>3 DEF IInv, RefusedIsUnsaved
<1>8. CacheIsLatest' BY <1>1 DEF IInv, CacheIsLatest, Expected, Unwritten
<1>9. RowIsLatest'
  BY <1>1, <1>2, <1>3 DEF IInv, RowIsLatest, Expected, Unwritten
<1> QED BY <1>4, <1>5, <1>6, <1>7, <1>8, <1>9 DEF IInv

LEMMA InvApply ==
  ASSUME IInv, TypeOK', NEW r \in Requests, Apply(r)
  PROVE  IInv'
<1> DEFINE s == handler[r].subject
           b == handler[r].body
<1>1. /\ handler' = [handler EXCEPT ![r] = [handler[r] EXCEPT !.at = "put"]]
      /\ stmt' = [stmt EXCEPT ![r] = "sent"]
      /\ overrides' = [overrides EXCEPT ![s] = Snapshot(ResolveConsent(b))]
      /\ latest' = [latest EXCEPT ![s] = b]
      /\ unsaved' = unsaved \ {s}
      /\ UNCHANGED <<up, rows>>
      /\ handler[r].at = "tenant"
  BY DEF Apply
<1>2. s \in Subjects /\ b \in Inputs /\ b # None
  BY <1>1, OpenHandler, InputsAssumption, NoneAssumption DEF IInv
<1>3. handler'[r].at = "put" /\ handler'[r].subject = s /\ handler'[r].body = b
  BY <1>1, OpenHandler DEF IInv, TypeOK
<1>4. \A q \in Requests \ {r} : handler'[q] = handler[q] /\ stmt'[q] = stmt[q]
  BY <1>1 DEF IInv, TypeOK
<1>5. s \in Serial => \A q \in Requests \ {r} : handler[q].subject # s
  BY <1>2, NoneAssumption DEF IInv, OneRequestPerSubject
<1>6. stmt'[r] = "sent" /\ up
  BY <1>1 DEF IInv, TypeOK, OrphansOfTheDead
<1>7. latest'[s] = b /\ overrides'[s] = Snapshot(ResolveConsent(b))
  BY <1>1, <1>2 DEF IInv, TypeOK
<1>8. \A z \in Subjects \ {s} :
        latest'[z] = latest[z] /\ overrides'[z] = overrides[z] /\ (z \in unsaved' <=> z \in unsaved)
  BY <1>1 DEF IInv, TypeOK
<1> HIDE DEF s, b
<1>a. OrphansOfTheDead' BY <1>1, <1>3, <1>4, <1>6 DEF IInv, OrphansOfTheDead
<1>b. OneRequestPerSubject' BY <1>3, <1>4, <1>5 DEF IInv, OneRequestPerSubject
<1>c. WriterIsLatest'
  <2> SUFFICES ASSUME NEW q \in Requests, handler'[q].at \in {"put", "orphan"},
                      handler'[q].subject \in Serial
               PROVE  latest'[handler'[q].subject] = handler'[q].body
    BY DEF WriterIsLatest
  <2>1. CASE q = r BY <2>1, <1>3, <1>7
  <2>2. CASE q # r
    <3>1. handler[q].subject \in Subjects \ {s}
      BY SerialFacts, <2>2, <1>4, <1>5, OpenHandler DEF IInv
    <3> QED BY SerialFacts, <2>2, <3>1, <1>4, <1>8 DEF IInv, WriterIsLatest
  <2> QED BY <2>1, <2>2
<1>d. RefusedIsUnsaved'
  <2> SUFFICES ASSUME NEW q \in Requests, stmt'[q] = "refused",
                      handler'[q].subject \in Serial
               PROVE  handler'[q].subject \in unsaved'
    BY DEF RefusedIsUnsaved
  <2>1. q # r BY <1>6
  <2>2. handler[q].subject \in unsaved BY SerialFacts, <2>1, <1>4 DEF IInv, RefusedIsUnsaved
  <2> QED BY <2>1, <2>2, <1>1, <1>4, <1>5 DEF IInv, TypeOK
<1>e. CacheIsLatest'
  BY SerialFacts, <1>2, <1>7, <1>8, <1>6 DEF IInv, CacheIsLatest, Expected, Unwritten
<1>f. RowIsLatest'
  <2> SUFFICES ASSUME NEW z \in Serial \ unsaved',
                      \A q \in Requests : handler'[q].subject = z => stmt'[q] # "sent"
               PROVE  rows'[z] = Expected(z)'
    BY DEF RowIsLatest
  <2>1. z # s BY <1>3, <1>6
  <2>2. \A q \in Requests : handler[q].subject = z => stmt[q] # "sent"
    BY <2>1, <1>4, <1>1
  <2>3. rows[z] = Expected(z) BY SerialFacts, <2>1, <2>2, <1>8 DEF IInv, RowIsLatest
  <2> QED BY <2>1, <2>3, <1>1, <1>8 DEF Expected, Unwritten
<1> QED BY <1>a, <1>b, <1>c, <1>d, <1>e, <1>f DEF IInv

LEMMA InvDatabase ==
  ASSUME IInv, TypeOK', NEW r \in Requests, Commit(r) \/ Refuse(r)
  PROVE  IInv'
<1> DEFINE s == handler[r].subject
           b == handler[r].body
<1>1. /\ stmt[r] = "sent" /\ handler[r].at \in {"put", "orphan"}
      /\ s \in Subjects /\ b \in Inputs
  <2>1. stmt[r] = "sent" BY DEF Commit, Refuse
  <2>2. handler[r].at \notin {"idle", "tenant"} BY <2>1 DEF IInv, TypeOK
  <2> QED BY <2>1, <2>2, OpenHandler DEF IInv
<1>2. s \in Serial => latest[s] = b /\ b # None /\ Expected(s) = Snapshot(ResolveConsent(b))
  BY SerialFacts, <1>1, InputsAssumption, NoneAssumption DEF IInv, WriterIsLatest, Expected, Unwritten
<1>3. /\ UNCHANGED <<up, overrides, latest>>
      /\ unsaved \subseteq unsaved'
      /\ \A z \in Subjects \ {s} : rows'[z] = rows[z]
      /\ s \in Serial => rows'[s] = Expected(s) \/ s \in unsaved'
  BY <1>1, <1>2 DEF Commit, Refuse, IInv, TypeOK
<1>4. \A q \in Requests \ {r} : handler'[q] = handler[q] /\ stmt'[q] = stmt[q]
  BY DEF Commit, Refuse, IInv, TypeOK
<1>5. \/ handler'[r] = handler[r] /\ stmt'[r] \in {"committed", "refused"} /\ handler[r].at = "put"
      \/ handler'[r].at = "idle" /\ handler'[r].subject = None /\ stmt'[r] = "none"
  BY <1>1 DEF Commit, Refuse, IInv, TypeOK, Idle
<1>6. stmt'[r] = "refused" => s \in unsaved'
  BY <1>1 DEF Commit, Refuse, IInv, TypeOK
<1>7. s \in Serial => \A q \in Requests \ {r} : handler[q].subject # s
  BY <1>1, NoneAssumption DEF IInv, OneRequestPerSubject
<1>8. \A z : Expected(z)' = Expected(z)
  BY <1>3 DEF Expected, Unwritten
<1> HIDE DEF s, b
<1>a. OrphansOfTheDead' BY <1>3, <1>4, <1>5 DEF IInv, OrphansOfTheDead
<1>b. OneRequestPerSubject' BY SerialFacts, <1>4, <1>5 DEF IInv, OneRequestPerSubject
<1>c. WriterIsLatest' BY <1>3, <1>4, <1>5 DEF IInv, WriterIsLatest
<1>d. RefusedIsUnsaved' BY <1>3, <1>4, <1>5, <1>6 DEF IInv, RefusedIsUnsaved, s
<1>e. CacheIsLatest' BY <1>3, <1>8 DEF IInv, CacheIsLatest
<1>f. RowIsLatest'
  <2> SUFFICES ASSUME NEW z \in Serial \ unsaved',
                      \A q \in Requests : handler'[q].subject = z => stmt'[q] # "sent"
               PROVE  rows'[z] = Expected(z)
    BY <1>8 DEF RowIsLatest
  <2>1. CASE z = s BY <2>1, <1>3
  <2>2. CASE z # s
    <3>1. \A q \in Requests : handler[q].subject = z => stmt[q] # "sent"
      BY <2>2, <1>4 DEF s
    <3> QED BY SerialFacts, <2>2, <3>1, <1>3 DEF IInv, RowIsLatest
  <2> QED BY <2>1, <2>2
<1> QED BY <1>a, <1>b, <1>c, <1>d, <1>e, <1>f DEF IInv

LEMMA InvCrash ==
  ASSUME IInv, TypeOK', Crash
  PROVE  IInv'
<1>1. /\ ~up' /\ UNCHANGED <<rows, latest, unsaved>>
      /\ \A z : Expected(z)' = Expected(z)
  BY DEF Crash, Expected, Unwritten
<1>2. ASSUME NEW q \in Requests
      PROVE  \/ /\ stmt[q] = "sent" /\ stmt'[q] = "sent" /\ handler[q].at = "put"
                /\ handler'[q].at = "orphan" /\ handler'[q].subject = handler[q].subject
                /\ handler'[q].body = handler[q].body
             \/ /\ stmt[q] # "sent" /\ stmt'[q] = "none"
                /\ handler'[q].at = "idle" /\ handler'[q].subject = None
  <2>1. CASE stmt[q] = "sent"
    <3>1. handler[q].at = "put"
      <4>1. handler[q].at \notin {"idle", "tenant", "orphan"}
        BY <2>1 DEF IInv, TypeOK, OrphansOfTheDead, Crash
      <4> QED BY <4>1, OpenHandler DEF IInv
    <3>2. handler'[q] = [handler[q] EXCEPT !.at = "orphan"] /\ stmt'[q] = "sent"
      BY <2>1 DEF Crash
    <3> QED BY <2>1, <3>1, <3>2, OpenHandler DEF IInv
  <2>2. CASE stmt[q] # "sent" BY <2>2 DEF Crash, Idle
  <2> QED BY <2>1, <2>2
<1>a. OrphansOfTheDead' BY <1>1, <1>2 DEF OrphansOfTheDead
<1>b. OneRequestPerSubject' BY SerialFacts, <1>2 DEF IInv, OneRequestPerSubject
<1>c. WriterIsLatest' BY <1>1, <1>2 DEF IInv, WriterIsLatest
<1>d. RefusedIsUnsaved' BY <1>2 DEF RefusedIsUnsaved
<1>e. CacheIsLatest' BY <1>1 DEF CacheIsLatest
<1>f. RowIsLatest' BY <1>1, <1>2 DEF IInv, RowIsLatest
<1> QED BY <1>a, <1>b, <1>c, <1>d, <1>e, <1>f DEF IInv

LEMMA InvBoot ==
  ASSUME IInv, TypeOK', Boot
  PROVE  IInv'
<1>1. /\ up' /\ overrides' = rows /\ UNCHANGED <<rows, handler, stmt, latest, unsaved>>
      /\ \A q \in Requests : stmt[q] = "none"
  BY DEF Boot
<1>2. \A z \in Serial \ unsaved : rows[z] = Expected(z)
  BY <1>1 DEF IInv, RowIsLatest
<1>3. \A z : Expected(z)' = Expected(z) BY <1>1 DEF Expected, Unwritten
<1>a. OrphansOfTheDead' BY <1>1 DEF IInv, OrphansOfTheDead
<1>b. OneRequestPerSubject' /\ WriterIsLatest' /\ RefusedIsUnsaved' /\ RowIsLatest'
  BY <1>1, <1>3 DEF IInv, OneRequestPerSubject, WriterIsLatest, RefusedIsUnsaved, RowIsLatest
<1>c. CacheIsLatest' BY <1>1, <1>2, <1>3 DEF CacheIsLatest
<1> QED BY <1>a, <1>b, <1>c DEF IInv

LEMMA InvStep ==
  IInv /\ [Next]_vars => IInv'
<1> SUFFICES ASSUME IInv, [Next]_vars PROVE IInv'
  OBVIOUS
<1>1. TypeOK' BY TypeStep DEF IInv
<1>2. CASE UNCHANGED vars
  BY <1>2 DEF vars, IInv, TypeOK, OrphansOfTheDead, OneRequestPerSubject, WriterIsLatest,
    RefusedIsUnsaved, CacheIsLatest, RowIsLatest, Expected, Unwritten
<1>3. CASE Next
  <2>1. ASSUME NEW r \in Requests, NEW s \in Subjects, NEW b \in Inputs, Arrive(r, s, b)
        PROVE  IInv'
    BY <2>1, <1>1, InvArrive
  <2>2. ASSUME NEW r \in Requests, Reject(r) \/ ReplyOk(r) \/ ReplyError(r) PROVE IInv'
    BY <2>2, <1>1, InvEnd
  <2>3. ASSUME NEW r \in Requests, Apply(r) PROVE IInv'
    BY <2>3, <1>1, InvApply
  <2>4. ASSUME NEW r \in Requests, Commit(r) \/ Refuse(r) PROVE IInv'
    BY <2>4, <1>1, InvDatabase
  <2>5. CASE Crash BY <2>5, <1>1, InvCrash
  <2>6. CASE Boot BY <2>6, <1>1, InvBoot
  <2> QED BY <1>3, <2>1, <2>2, <2>3, <2>4, <2>5, <2>6 DEF Next
<1> QED BY <1>2, <1>3

\* For a subject that waits for each answer, cache and table agree whenever it is
\* settled, whatever crashed or failed before.
THEOREM RestartKeepsSerialConsent ==
  Spec => []SerialConsentSurvivesRestart
<1>1. Init => IInv BY InvInit
<1>2. IInv /\ [Next]_vars => IInv' BY InvStep
<1>3. IInv => SerialConsentSurvivesRestart
  <2> SUFFICES ASSUME IInv, NEW s \in Serial, Settled(s) PROVE overrides[s] = rows[s]
    BY DEF SerialConsentSurvivesRestart, SurvivesRestart, Serial
  <2>1. overrides[s] = Expected(s) BY DEF IInv, CacheIsLatest, Settled
  <2>2. rows[s] = Expected(s) BY DEF IInv, RowIsLatest, Settled, Open
  <2> QED BY <2>1, <2>2
<1> QED BY <1>1, <1>2, <1>3, PTL DEF Spec

\* For the same subjects the gate grants, once settled, exactly the
\* purposes the CMP grants to the newest choice, across any restarts.
THEOREM HonorsLatestChoice ==
  Spec => []GateHonorsLatestChoice
<1>1. Init => IInv BY InvInit
<1>2. IInv /\ [Next]_vars => IInv' BY InvStep
<1>3. IInv => GateHonorsLatestChoice
  <2> SUFFICES ASSUME IInv, NEW s \in Serial, Settled(s), ~Unwritten(s)
               PROVE  {p \in Purposes : IsAllowed(s, p)} =
                        AllowedPurposes(ResolveConsent(latest[s]))
    BY DEF GateHonorsLatestChoice, Serial
  <2>1. latest[s] \in Inputs BY SerialFacts DEF IInv, TypeOK, Unwritten
  <2>2. overrides[s] = Snapshot(ResolveConsent(latest[s]))
    BY DEF IInv, CacheIsLatest, Settled, Expected
  <2>3. overrides[s] # None BY <2>1, <2>2, SnapshotType, NoneAssumption
  <2>4. {p \in Purposes : IsAllowed(s, p)} =
          {p \in Purposes : Snapshot(ResolveConsent(latest[s]))[p]}
    BY <2>2, <2>3 DEF IsAllowed
  <2> QED BY <2>1, <2>4, SnapshotDecidesPurposes
<1> QED BY <1>1, <1>2, <1>3, PTL DEF Spec

-----------------------------------------------------------------------------
(* Safety when the requests of a subject do overlap.                       *)

\* What the newest group of choices of a subject comes to.
Group(s) == {Snapshot(ResolveConsent(b)) : b \in recent[s]}

\* Whoever waits for the database for a subject is of its newest group.
WritersAreRecent ==
  \A r \in Requests :
    handler[r].at \in {"put", "orphan"} =>
      /\ handler[r].body \in recent[handler[r].subject]
      /\ ~Unwritten(handler[r].subject)

\* The row is of the newest group, or a statement that will put it there is on
\* its way, or one was lost.
RowInGroup ==
  \A s \in Subjects :
    \/ Unwritten(s) \/ s \in unsaved \/ rows[s] \in Group(s)
    \/ \E r \in Requests : handler[r].subject = s /\ stmt[r] = "sent"

CacheInGroup ==
  up => \A s \in Subjects : Unwritten(s) \/ s \in unsaved \/ overrides[s] \in Group(s)

UnwrittenIsEmpty ==
  \A s \in Subjects : Unwritten(s) => rows[s] = None /\ overrides[s] = None

RaceInv ==
  /\ WritersAreRecent
  /\ RowInGroup
  /\ CacheInGroup
  /\ UnwrittenIsEmpty

LEMMA RaceInit == Init => RaceInv
BY DEF Init, RaceInv, WritersAreRecent, RowInGroup, CacheInGroup,
  UnwrittenIsEmpty, Unwritten, Idle

\* Steps that write neither the cache nor the table, and start no writer.
LEMMA RaceQuiet ==
  ASSUME RaceInv, IInv, NEW r \in Requests,
         UNCHANGED <<up, overrides, rows, latest, unsaved, recent>>,
         stmt[r] # "sent", handler'[r].at \in {"idle", "tenant"},
         \A q \in Requests \ {r} : handler'[q] = handler[q] /\ stmt'[q] = stmt[q]
  PROVE  RaceInv'
<1>1. WritersAreRecent' BY DEF RaceInv, WritersAreRecent, Unwritten
<1>2. RowInGroup' BY DEF RaceInv, RowInGroup, Unwritten, Group
<1>3. CacheInGroup' /\ UnwrittenIsEmpty'
  BY DEF RaceInv, CacheInGroup, UnwrittenIsEmpty, Unwritten, Group
<1> QED BY <1>1, <1>2, <1>3 DEF RaceInv

LEMMA RaceApply ==
  ASSUME RaceInv, IInv, NEW r \in Requests, Apply(r)
  PROVE  RaceInv'
<1> DEFINE s == handler[r].subject
           b == handler[r].body
<1>1. s \in Subjects /\ b \in Inputs /\ b # None
  BY OpenHandler, InputsAssumption, NoneAssumption DEF IInv, Apply
<1>2. /\ handler'[r].at = "put" /\ handler'[r].subject = s /\ handler'[r].body = b
      /\ stmt'[r] = "sent"
      /\ \A q \in Requests \ {r} : handler'[q] = handler[q] /\ stmt'[q] = stmt[q]
  BY OpenHandler DEF Apply, IInv, TypeOK
<1>3. /\ overrides'[s] = Snapshot(ResolveConsent(b)) /\ latest'[s] = b
      /\ b \in recent'[s]
      /\ Writing(s) # {} => recent[s] \subseteq recent'[s]
      /\ \A z \in Subjects \ {s} :
           /\ overrides'[z] = overrides[z] /\ latest'[z] = latest[z]
           /\ recent'[z] = recent[z] /\ (z \in unsaved' <=> z \in unsaved)
      /\ UNCHANGED <<up, rows>>
  BY <1>1 DEF Apply, IInv, TypeOK
<1>4. \A q \in Requests \ {r} :
        (handler[q].at \in {"put", "orphan"} /\ handler[q].subject = s) => Writing(s) # {}
  BY DEF Writing, Open
<1>5. \A q \in Requests :
        (handler[q].at \in {"put", "orphan"}) => handler[q].subject \in Subjects
  BY OpenHandler DEF IInv
<1> HIDE DEF s, b
<1>a. WritersAreRecent'
  <2> SUFFICES ASSUME NEW q \in Requests, handler'[q].at \in {"put", "orphan"}
               PROVE  /\ handler'[q].body \in recent'[handler'[q].subject]
                      /\ latest'[handler'[q].subject] # None
    BY DEF WritersAreRecent, Unwritten
  <2>1. CASE q = r BY <2>1, <1>1, <1>2, <1>3
  <2>2. CASE q # r
    <3>1. /\ handler[q].body \in recent[handler[q].subject]
          /\ latest[handler[q].subject] # None
      BY <2>2, <1>2 DEF RaceInv, WritersAreRecent, Unwritten
    <3>2. CASE handler[q].subject = s BY <2>2, <3>1, <3>2, <1>1, <1>2, <1>3, <1>4
    <3>3. CASE handler[q].subject # s BY <2>2, <3>1, <3>3, <1>2, <1>3, <1>5
    <3> QED BY <3>2, <3>3
  <2> QED BY <2>1, <2>2
<1>b. RowInGroup'
  <2> SUFFICES ASSUME NEW z \in Subjects, ~Unwritten(z)', z \notin unsaved',
                      \A q \in Requests : ~(handler'[q].subject = z /\ stmt'[q] = "sent")
               PROVE  rows'[z] \in Group(z)'
    BY DEF RowInGroup
  <2>1. z # s BY <1>2
  <2>2. \A q \in Requests : ~(handler[q].subject = z /\ stmt[q] = "sent")
    BY <2>1, <1>2 DEF s
  <2> QED BY <2>1, <2>2, <1>3 DEF RaceInv, RowInGroup, Unwritten, Group
<1>c. CacheInGroup'
  <2> SUFFICES ASSUME up', NEW z \in Subjects, ~Unwritten(z)', z \notin unsaved'
               PROVE  overrides'[z] \in Group(z)'
    BY DEF CacheInGroup
  <2>1. CASE z = s BY <2>1, <1>3 DEF Group
  <2>2. CASE z # s BY <2>2, <1>3 DEF RaceInv, CacheInGroup, Unwritten, Group
  <2> QED BY <2>1, <2>2
<1>d. UnwrittenIsEmpty'
  BY <1>1, <1>3 DEF RaceInv, UnwrittenIsEmpty, Unwritten
<1> QED BY <1>a, <1>b, <1>c, <1>d DEF RaceInv

LEMMA RaceDatabase ==
  ASSUME RaceInv, IInv, NEW r \in Requests, Commit(r) \/ Refuse(r)
  PROVE  RaceInv'
<1> DEFINE s == handler[r].subject
           b == handler[r].body
<1>1. /\ stmt[r] = "sent" /\ handler[r].at \in {"put", "orphan"}
      /\ s \in Subjects /\ b \in Inputs
  <2>1. stmt[r] = "sent" BY DEF Commit, Refuse
  <2>2. handler[r].at \notin {"idle", "tenant"} BY <2>1 DEF IInv, TypeOK
  <2> QED BY <2>1, <2>2, OpenHandler DEF IInv
<1>2. b \in recent[s] /\ ~Unwritten(s)
  BY <1>1 DEF RaceInv, WritersAreRecent
<1>3. /\ UNCHANGED <<up, overrides, latest, recent>>
      /\ unsaved \subseteq unsaved' /\ unsaved' \subseteq unsaved \cup {s}
      /\ \A z \in Subjects \ {s} : rows'[z] = rows[z]
      /\ rows'[s] = Snapshot(ResolveConsent(b)) \/ s \in unsaved'
  BY <1>1 DEF Commit, Refuse, IInv, TypeOK
<1>4. /\ \A q \in Requests \ {r} : handler'[q] = handler[q] /\ stmt'[q] = stmt[q]
      /\ handler'[r] = handler[r] \/ handler'[r].at = "idle"
  BY DEF Commit, Refuse, IInv, TypeOK, Idle
<1> HIDE DEF s, b
<1>a. WritersAreRecent'
  BY <1>3, <1>4 DEF RaceInv, WritersAreRecent, Unwritten
<1>b. RowInGroup'
  <2> SUFFICES ASSUME NEW z \in Subjects, ~Unwritten(z)', z \notin unsaved',
                      \A q \in Requests : ~(handler'[q].subject = z /\ stmt'[q] = "sent")
               PROVE  rows'[z] \in Group(z)'
    BY DEF RowInGroup
  <2>1. CASE z = s BY <2>1, <1>2, <1>3 DEF Group
  <2>2. CASE z # s
    <3>1. \A q \in Requests : ~(handler[q].subject = z /\ stmt[q] = "sent")
      BY <2>2, <1>4 DEF s
    <3> QED BY <2>2, <3>1, <1>3 DEF RaceInv, RowInGroup, Unwritten, Group
  <2> QED BY <2>1, <2>2
<1>c. CacheInGroup' BY <1>3 DEF RaceInv, CacheInGroup, Unwritten, Group
<1>d. UnwrittenIsEmpty' BY <1>2, <1>3 DEF RaceInv, UnwrittenIsEmpty, Unwritten
<1> QED BY <1>a, <1>b, <1>c, <1>d DEF RaceInv

LEMMA RaceCrash ==
  ASSUME RaceInv, IInv, Crash
  PROVE  RaceInv'
<1>1. ~up' /\ UNCHANGED <<rows, latest, unsaved, recent>> /\ \A s \in Subjects : overrides'[s] = None
  BY DEF Crash
<1>2. ASSUME NEW q \in Requests, stmt[q] = "sent"
      PROVE  /\ handler[q].at \in {"put", "orphan"} /\ stmt'[q] = "sent"
             /\ handler'[q].subject = handler[q].subject
             /\ handler'[q].body = handler[q].body
  <2>1. handler[q].at \notin {"idle", "tenant"} BY <1>2 DEF IInv, TypeOK
  <2>2. handler'[q] = [handler[q] EXCEPT !.at = "orphan"] /\ stmt'[q] = "sent"
    BY <1>2 DEF Crash
  <2> QED BY <2>1, <2>2, OpenHandler DEF IInv
<1>3. ASSUME NEW q \in Requests, stmt[q] # "sent" PROVE handler'[q].at = "idle"
  BY <1>3 DEF Crash, Idle
<1>a. WritersAreRecent'
  BY <1>1, <1>2, <1>3 DEF RaceInv, WritersAreRecent, Unwritten
<1>b. RowInGroup' BY <1>1, <1>2 DEF RaceInv, RowInGroup, Unwritten, Group
<1>c. CacheInGroup' /\ UnwrittenIsEmpty'
  BY <1>1 DEF RaceInv, CacheInGroup, UnwrittenIsEmpty, Unwritten
<1> QED BY <1>a, <1>b, <1>c DEF RaceInv

LEMMA RaceBoot ==
  ASSUME RaceInv, IInv, Boot
  PROVE  RaceInv'
<1>1. /\ overrides' = rows /\ UNCHANGED <<rows, handler, stmt, latest, unsaved, recent>>
      /\ \A q \in Requests : stmt[q] # "sent"
  BY DEF Boot
<1>2. \A s \in Subjects : Unwritten(s) \/ s \in unsaved \/ rows[s] \in Group(s)
  BY <1>1 DEF RaceInv, RowInGroup
<1>a. WritersAreRecent' /\ RowInGroup'
  BY <1>1 DEF RaceInv, WritersAreRecent, RowInGroup, Unwritten, Group
<1>b. CacheInGroup' BY <1>1, <1>2 DEF CacheInGroup, Unwritten, Group
<1>c. UnwrittenIsEmpty' BY <1>1 DEF RaceInv, UnwrittenIsEmpty, Unwritten
<1> QED BY <1>a, <1>b, <1>c DEF RaceInv

LEMMA RaceStep ==
  RaceInv /\ IInv /\ [Next]_vars => RaceInv'
<1> SUFFICES ASSUME RaceInv, IInv, [Next]_vars PROVE RaceInv'
  OBVIOUS
<1>1. ASSUME NEW r \in Requests, NEW s \in Subjects, NEW b \in Inputs, Arrive(r, s, b)
      PROVE  RaceInv'
  <2>1. /\ UNCHANGED <<up, overrides, rows, latest, unsaved, recent>>
        /\ stmt[r] # "sent" /\ handler'[r].at = "tenant"
        /\ \A q \in Requests \ {r} : handler'[q] = handler[q] /\ stmt'[q] = stmt[q]
    BY <1>1 DEF Arrive, Idle, IInv, TypeOK
  <2> QED BY <2>1, RaceQuiet
<1>2. ASSUME NEW r \in Requests, Reject(r) \/ ReplyOk(r) \/ ReplyError(r)
      PROVE  RaceInv'
  <2>1. /\ UNCHANGED <<up, overrides, rows, latest, unsaved, recent>>
        /\ stmt[r] # "sent" /\ handler'[r].at = "idle"
        /\ \A q \in Requests \ {r} : handler'[q] = handler[q] /\ stmt'[q] = stmt[q]
    BY <1>2 DEF Reject, ReplyOk, ReplyError, Idle, IInv, TypeOK
  <2> QED BY <2>1, RaceQuiet
<1>3. ASSUME NEW r \in Requests, Apply(r) PROVE RaceInv'
  BY <1>3, RaceApply
<1>4. ASSUME NEW r \in Requests, Commit(r) \/ Refuse(r) PROVE RaceInv'
  BY <1>4, RaceDatabase
<1>5. CASE Crash BY <1>5, RaceCrash
<1>6. CASE Boot BY <1>6, RaceBoot
<1>7. CASE UNCHANGED vars
  BY <1>7 DEF vars, RaceInv, WritersAreRecent, RowInGroup, CacheInGroup, UnwrittenIsEmpty,
    Unwritten, Group
<1> QED BY <1>1, <1>2, <1>3, <1>4, <1>5, <1>6, <1>7 DEF Next

\* A race between two choices of a subject can only exchange choices of its
\* newest group of overlapping requests, whatever crashed or failed, and nobody
\* but the subject ever grants more than analytics.
THEOREM RacesExchangeOnlyNewestChoices ==
  Spec => []RaceStaysWithinGroup
<1>1. Init => IInv /\ RaceInv BY InvInit, RaceInit
<1>2. (IInv /\ RaceInv) /\ [Next]_vars => (IInv /\ RaceInv)' BY InvStep, RaceStep
<1>3. IInv /\ RaceInv => RaceStaysWithinGroup
  <2> SUFFICES ASSUME IInv, RaceInv, NEW s \in Subjects
               PROVE  /\ (Settled(s) /\ ~Unwritten(s)) => {overrides[s], rows[s]} \subseteq Group(s)
                      /\ Unwritten(s) =>
                           /\ rows[s] = None
                           /\ \A p \in Purposes : IsAllowed(s, p) => p = "analytics"
    BY DEF RaceStaysWithinGroup, Group
  <2>1. ASSUME Settled(s), ~Unwritten(s) PROVE overrides[s] \in Group(s) /\ rows[s] \in Group(s)
    BY <2>1 DEF RaceInv, RowInGroup, CacheInGroup, Settled, Open
  <2>2. ASSUME Unwritten(s)
        PROVE  rows[s] = None /\ \A p \in Purposes : IsAllowed(s, p) => p = "analytics"
    BY <2>2 DEF RaceInv, UnwrittenIsEmpty, IsAllowed, DefaultAllow
  <2> QED BY <2>1, <2>2
<1> QED BY <1>1, <1>2, <1>3, PTL DEF Spec
=============================================================================
