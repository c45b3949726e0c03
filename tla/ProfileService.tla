--------------------------- MODULE ProfileService ---------------------------
(***************************************************************************)
(* ProfileService.applyEvent (packages/core-cdp/src/profile-service.ts)    *)
(* over the database store: the lookups of resolveExisting                 *)
(* (identity.ts) and the upsert of DbProfileStore (profile-store.ts) are   *)
(* separate statements, and other handlers run while one is awaited.       *)
(*                                                                         *)
(* Serial = TRUE is the build without DATABASE_URL, where the awaits of a  *)
(* handler are resolved before the event loop takes the next request, or a *)
(* deployment that never receives two overlapping requests.                *)
(***************************************************************************)
EXTENDS ProfileRegistry

CONSTANTS
  Workers,   \* request handlers
  Serial,    \* do handlers run one at a time?
  NoEvent    \* the handler has no event

ASSUME SerialAssumption == Serial \in BOOLEAN
ASSUME NoEventAssumption == NoEvent \notin Events

VARIABLE work   \* per handler: the event, the next statement, the row it found

svcVars == <<profiles, work>>

\* `id` is the row to upsert and `base` what the lookup read: NoRow until a
\* lookup found the profile.
Resting == [at |-> "idle", event |-> NoEvent, id |-> NoRow, base |-> NoRow]

WorkTypeOK ==
  work \in [Workers ->
    [at : {"idle", "byUser", "byAnon", "save"}, event : Events \cup {NoEvent},
     id : Ids \cup {NoRow}, base : Rows \cup {NoRow}]]

\* The type invariant.
SvcTypeOK == TypeOK /\ WorkTypeOK

SvcInit == Init /\ work = [w \in Workers |-> Resting]

\* applyEvent is entered: the first lookup is sent.
Begin(w, ev) ==
  /\ work[w] = Resting
  /\ Serial => \A v \in Workers : work[v] = Resting
  /\ work' = [work EXCEPT ![w] =
       [at |-> IF ev.user \in Users THEN "byUser" ELSE "byAnon",
        event |-> ev, id |-> NoRow, base |-> NoRow]]
  /\ UNCHANGED profiles

\* Mutant: the user id is never looked up.
SkipLookupByUser(w) ==
  /\ work[w].at = "byUser"
  /\ work' = [work EXCEPT ![w].at = "byAnon"]
  /\ UNCHANGED profiles

\* A lookup answers with any one of the rows it matches, or with none.
LookupByUser(w) ==
  LET ev == work[w].event IN
  /\ work[w].at = "byUser"
  /\ \/ /\ ByUser(ev.user) = {}
        /\ work' = [work EXCEPT ![w].at = "byAnon"]
     \/ \E i \in ByUser(ev.user) :
          work' = [work EXCEPT ![w] = [@ EXCEPT !.at = "save", !.id = i, !.base = profiles[i]]]
  /\ UNCHANGED profiles

LookupByAnon(w) ==
  LET ev == work[w].event IN
  /\ work[w].at = "byAnon"
  /\ \/ ByAnon(ev.anon) = {} /\ work' = [work EXCEPT ![w].at = "save"]
     \/ \E i \in ByAnon(ev.anon) :
          work' = [work EXCEPT ![w] = [@ EXCEPT !.at = "save", !.id = i, !.base = profiles[i]]]
  /\ UNCHANGED profiles

\* Mutant: every save inserts.
SaveFresh(w) ==
  LET ev == work[w].event IN
  /\ work[w].at = "save"
  /\ \E i \in Ids \ Stored :
       profiles' = [profiles EXCEPT ![i] = Merged(NewProfile(ev), ev)]
  /\ work' = [work EXCEPT ![w] = Resting]

\* The whole row is upserted by id: a fresh id for a new profile.
Save(w) ==
  LET ev == work[w].event IN
  /\ work[w].at = "save"
  /\ \/ /\ work[w].id = NoRow
        /\ \E i \in Ids \ Stored :
             profiles' = [profiles EXCEPT ![i] = Merged(NewProfile(ev), ev)]
     \/ /\ work[w].id # NoRow
        /\ profiles' = [profiles EXCEPT ![work[w].id] = Merged(work[w].base, ev)]
  /\ work' = [work EXCEPT ![w] = Resting]

\* The statement awaited is refused: applyEvent throws, nothing was written.
Fail(w) ==
  /\ work[w].at # "idle"
  /\ work' = [work EXCEPT ![w] = Resting]
  /\ UNCHANGED profiles

SvcNext ==
  \E w \in Workers :
    \/ \E ev \in Events : Begin(w, ev)
    \/ LookupByUser(w) \/ LookupByAnon(w) \/ Save(w) \/ Fail(w)

SvcSpec == SvcInit /\ [][SvcNext]_svcVars

-----------------------------------------------------------------------------
\* Handlers that run one at a time implement the registry: every event is one
\* indivisible step of it, a failed one none.
ImplementsRegistry == Spec

\* "Merges traits (never overwrites the whole map)": no step loses a profile or
\* one of its traits, nor moves it to another anonymous id.
MergeNeverOverwrites == [][OnlyAccumulates]_svcVars

\* A profile of a known user is taken from that user only by an identify that
\* names another user, or the empty one, on a device the profile was made for.
RelabelledOnlyByOwnDevice ==
  [][\A i \in Stored :
       (profiles[i].user \in Users /\ profiles'[i].user # profiles[i].user) =>
         \E w \in Workers :
           /\ work[w].event # NoEvent
           /\ work[w].event.anon = profiles[i].anon
           /\ work[w].event.user = profiles'[i].user
           /\ work[w].event.user # NoUser]_svcVars

\* "identify with userId stitches anon -> known (one profile, traits merged)":
\* when an identify with a user id has been applied, the anonymous id and the
\* user lead to the same profile.
IdentifyStitches ==
  [][\A w \in Workers :
       LET ev == work[w].event IN
       (Save(w) /\ ev.user \in Users) =>
         \A i, j \in Ids :
           (/\ profiles'[i] # NoRow /\ profiles'[i].anon = ev.anon
            /\ profiles'[j] # NoRow /\ profiles'[j].user = ev.user) => i = j]_svcVars
=============================================================================
