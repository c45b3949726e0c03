------------------------------- MODULE Erasure -------------------------------
(***************************************************************************)
(* Erasure of a data subject: POST /v1/tenants/:id/dsar with kind "delete" *)
(* (apps/api/src/routes/data-export.ts), the plan and its execution        *)
(* (packages/data-export/src/deletion.ts, execute.ts, redact.ts) and the   *)
(* readers and eraser the server wires over its stores                     *)
(* (apps/api/src/server.ts), while /v1/track is being served.              *)
(*                                                                         *)
(* The route passes no legal holds, so no target is ever retained.         *)
(***************************************************************************)
EXTENDS Ingest

CONSTANTS
  Erasers,    \* handlers of dsar requests
  Subjects,   \* the subjects that are asked to be erased
  PiiKeys,    \* trait keys that identify a person
  Tombstone,  \* the redaction marker: an ordinary string, so a legal id too
  NoAnon,     \* anonymousId undefined
  Pending     \* a read of the plan that has not answered

\* A subject names a user, a device or both.  A subject that gives an email only
\* matches nothing, since ingest never fills Profile.email.
SubjectForms == [user : Users \cup {NoUser}, anon : Anons \cup {NoAnon}]

ASSUME ErasureAssumption ==
  /\ Subjects \subseteq SubjectForms
  /\ PiiKeys \subseteq Keys
  /\ Tombstone \in Anons /\ Tombstone \in Users /\ Tombstone \in Values
  /\ NoAnon \notin Anons
  /\ Pending \notin Ids \cup Anons \cup {NoRow, NoAnon} \cup BOOLEAN

VARIABLES
  erase,     \* per handler: what it awaits and what it has read
  asked      \* history, per subject: its erasure request, from the first attempt to
             \* the answer 200

erasureVars == <<profiles, work, allowed, events, track, late, erase, asked>>
trackVars == <<work, allowed, track, late>>

\* subject; id of the profile to anonymize; anonymous id by which events are
\* looked for; whether the plan has event targets; the row being redacted.
Free == [at |-> "idle", subject |-> NoRow, id |-> NoRow, anon |-> NoAnon,
         targets |-> FALSE, base |-> NoRow]

\* Whether a track request ran while it was open, or another erasure was already
\* running when it was first asked; the anonymous ids the subject had then.
NotAsked == [open |-> FALSE, overlapped |-> FALSE, anons |-> {}]

ErasureTypeOK ==
  /\ IngestTypeOK
  /\ DOMAIN erase = Erasers
  /\ \A e \in Erasers :
       /\ erase[e].at \in {"idle", "plan", "lookup", "delete", "read", "redact", "audit", "reply"}
       /\ erase[e].subject \in Subjects \cup {NoRow}
       /\ erase[e].id \in Ids \cup {NoRow, Pending}
       /\ erase[e].anon \in Anons \cup {NoAnon, Pending}
       /\ erase[e].targets \in {TRUE, FALSE, Pending}
       /\ erase[e].base \in Rows \cup {NoRow}
       /\ Pending \in {erase[e].id, erase[e].anon, erase[e].targets} => erase[e].at = "plan"
  /\ asked \in [Subjects -> [open : BOOLEAN, overlapped : BOOLEAN, anons : SUBSET Anons]]

ErasureInit ==
  /\ IngestInit
  /\ erase = [e \in Erasers |-> Free]
  /\ asked = [s \in Subjects |-> NotAsked]

\* The first profile of the tenant's list that matches on any field given; the
\* list has no order.
Matching(s) ==
  {i \in Stored :
     \/ s.user # NoUser /\ profiles[i].user = s.user
     \/ s.anon # NoAnon /\ profiles[i].anon = s.anon}

AnonsOf(s) == ({s.anon} \ {NoAnon}) \cup {profiles[i].anon : i \in Matching(s)}

Tracking == \E w \in Workers : track[w] # Quiet

Set(e, job) == erase' = [erase EXCEPT ![e] = job]

\* What awaits the handler once events are out of the way.
AfterEvents(job) == [job EXCEPT !.at = IF job.id # NoRow THEN "read" ELSE "audit"]

\* Authenticated as an admin of the tenant and parsed: the readers of the plan
\* start together.
AskErasure(e, s) ==
  /\ erase[e] = Free
  /\ Set(e, [Free EXCEPT !.at = "plan", !.subject = s, !.id = Pending,
                         !.anon = Pending, !.targets = Pending])
  /\ asked' = [asked EXCEPT ![s] =
       IF @.open THEN @
       ELSE [open |-> TRUE, anons |-> AnonsOf(s),
             overlapped |-> Tracking \/ \E d \in Erasers \ {e} : erase[d] # Free]]
  /\ UNCHANGED <<profiles, events, trackVars>>

\* profiles.getBySubject answers.
PlanProfile(e) ==
  LET job == erase[e] IN
  /\ job.at = "plan" /\ job.id = Pending
  /\ \/ Matching(job.subject) = {} /\ Set(e, [job EXCEPT !.id = NoRow])
     \/ \E i \in Matching(job.subject) : Set(e, [job EXCEPT !.id = i])
  /\ UNCHANGED <<profiles, events, trackVars, asked>>

\* events.listBySubject reads the profiles first ...
PlanEventsProfile(e) ==
  LET job == erase[e] IN
  /\ job.at = "plan" /\ job.anon = Pending
  /\ \/ Matching(job.subject) = {} /\ Set(e, [job EXCEPT !.anon = NoAnon])
     \/ \E i \in Matching(job.subject) : Set(e, [job EXCEPT !.anon = profiles[i].anon])
  /\ UNCHANGED <<profiles, events, trackVars, asked>>

\* ... and then the events.
PlanEvents(e) ==
  LET job == erase[e] IN
  /\ job.at = "plan" /\ job.anon # Pending /\ job.targets = Pending
  /\ Set(e, [job EXCEPT !.targets = events \cap {job.subject.anon, job.anon} # {}])
  /\ UNCHANGED <<profiles, events, trackVars, asked>>

\* Mutant: profiles are anonymized before the events are deleted.
ProfilesFirst(e) ==
  LET job == erase[e] IN
  /\ job.at = "plan" /\ job.id # Pending /\ job.targets # Pending
  /\ Set(e, AfterEvents(job))
  /\ UNCHANGED <<profiles, events, trackVars, asked>>

\* executeDeletion begins: the events first, if the plan has any.
Execute(e) ==
  LET job == erase[e] IN
  /\ job.at = "plan" /\ job.id # Pending /\ job.targets # Pending
  /\ Set(e, IF job.targets THEN [job EXCEPT !.at = "lookup"] ELSE AfterEvents(job))
  /\ UNCHANGED <<profiles, events, trackVars, asked>>

\* eraser.deleteEvents looks the profile up again, for its anonymous id.
DeleteLookup(e) ==
  LET job == erase[e]
      found == {profiles[i].anon : i \in Matching(job.subject)}
      by == IF job.subject.anon # NoAnon THEN {job.subject.anon} ELSE found
  IN
  /\ job.at = "lookup"
  /\ \/ by = {} /\ Set(e, AfterEvents(job))
     \/ \E a \in by : Set(e, [job EXCEPT !.at = "delete", !.anon = a])
  /\ UNCHANGED <<profiles, events, trackVars, asked>>

\* Every event of that one anonymous id is deleted.
DeleteEvents(e) ==
  LET job == erase[e] IN
  /\ job.at = "delete"
  /\ events' = events \ {job.anon}
  /\ Set(e, AfterEvents(job))
  /\ UNCHANGED <<profiles, trackVars, asked>>

\* Mutant: the device is left as it is.
RedactUserOnly(row) ==
  [row EXCEPT !.user = Tombstone,
              !.traits = [k \in Keys |-> IF k \in PiiKeys THEN Unset ELSE @[k]]]

RedactProfile(row) ==
  [anon |-> Tombstone, user |-> Tombstone,
   traits |-> [k \in Keys |->
     IF k \in PiiKeys /\ row.traits[k] # Unset THEN Tombstone ELSE row.traits[k]]]

\* eraser.anonymizeProfile reads the row by id ...
AnonymizeRead(e) ==
  LET job == erase[e] IN
  /\ job.at = "read"
  /\ Set(e, [job EXCEPT !.at = "redact", !.base = profiles[job.id]])
  /\ UNCHANGED <<profiles, events, trackVars, asked>>

\* ... and upserts it redacted.
AnonymizeSave(e) ==
  LET job == erase[e] IN
  /\ job.at = "redact"
  /\ profiles' = [profiles EXCEPT ![job.id] = RedactProfile(job.base)]
  /\ Set(e, [job EXCEPT !.at = "audit"])
  /\ UNCHANGED <<events, trackVars, asked>>

\* The audit entry dsar.delete is appended.
Audit(e) ==
  /\ erase[e].at = "audit"
  /\ Set(e, [erase[e] EXCEPT !.at = "reply"])
  /\ UNCHANGED <<profiles, events, trackVars, asked>>

\* 200; the subject may now be erased anew.
EraseReply(e) ==
  /\ erase[e].at = "reply"
  /\ Set(e, Free)
  /\ asked' = [asked EXCEPT ![erase[e].subject] = NotAsked]
  /\ UNCHANGED <<profiles, events, trackVars>>

\* A statement, the audit entry's included, is refused: 502, and what was done
\* stays done.
EraseFail(e) ==
  /\ erase[e].at \notin {"idle", "reply"}
  /\ Set(e, Free)
  /\ UNCHANGED <<profiles, events, trackVars, asked>>

\* The steps of /v1/track; a request that starts now overlaps the erasures open.
TrackStep ==
  /\ IngestNext
  /\ asked' = [s \in Subjects |->
       IF asked[s].open /\ Tracking' THEN [asked[s] EXCEPT !.overlapped = TRUE] ELSE asked[s]]
  /\ UNCHANGED erase

ErasureNext ==
  \/ TrackStep
  \/ \E e \in Erasers :
       \/ \E s \in Subjects : AskErasure(e, s)
       \/ PlanProfile(e) \/ PlanEventsProfile(e) \/ PlanEvents(e) \/ Execute(e)
       \/ DeleteLookup(e) \/ DeleteEvents(e) \/ AnonymizeRead(e) \/ AnonymizeSave(e)
       \/ Audit(e) \/ EraseReply(e) \/ EraseFail(e)

ErasureSpec == ErasureInit /\ [][ErasureNext]_erasureVars
-----------------------------------------------------------------------------
Redacted(i) == profiles[i].user = Tombstone

\* "Hard-delete all events for a subject", "anonymize profiles": when the trail
\* says that a subject was erased, and nothing ran since its first attempt but
\* erasures asked after it, no profile answers for the subject any more and no event
\* is left under an anonymous id it had, whatever attempts failed half-way before.
\* Redacted profiles identify nobody through their traits, even when a merge or
\* another erasure was on its way when one was redacted.
ErasureIsComplete ==
  /\ \A i \in Stored : Redacted(i) =>
       \A k \in PiiKeys : profiles[i].traits[k] \in {Unset, Tombstone}
  /\ \A e \in Erasers :
       LET s == erase[e].subject IN
       (erase[e].at = "reply" /\ asked[s].open /\ ~asked[s].overlapped) =>
         Matching(s) = {} /\ events \cap asked[s].anons = {}

\* No event ever finds a redacted profile: one comes back to life only when a
\* handler of /v1/track had read it before it was redacted.
OnlyStaleSaveUnredacts ==
  [][\A i \in Stored :
       (Redacted(i) /\ ~Redacted(i)') =>
         \E w \in Workers : work[w].id = i /\ work[w].base.user # Tombstone]_erasureVars
=============================================================================
