---------------------------- MODULE Erasure_proofs ----------------------------
(***************************************************************************)
(* For any number of handlers, batches, subjects and erasures:             *)
(*                                                                         *)
(* - the registry of profiles keeps identities unique and only             *)
(*   accumulates, and handlers that run one at a time implement it;        *)
(* - the consent gate stops a batch that is already being walked;          *)
(* - a redacted profile comes back to life only through a handler that had *)
(*   read it before;                                                       *)
(* - an erasure that answers 200, with nothing but later erasures at work  *)
(*   since its subject was first asked for, has left no profile that       *)
(*   answers for the subject and no event under an anonymous id it had,    *)
(*   whatever attempts failed half-way.                                    *)
(*                                                                         *)
(* The argument for the last one: rows that are not redacted are unique by *)
(* anonymous id and by user (UniqueInv), so a subject has one profile; and *)
(* while only erasures run (CalmInv) what each has read stays true, and    *)
(* none redacts a profile before the events found through it are gone.     *)
(***************************************************************************)
EXTENDS Erasure, TLAPS

-----------------------------------------------------------------------------
(* The registry.                                                           *)

LEMMA NewProfileType ==
  ASSUME NEW ev \in Events
  PROVE  NewProfile(ev) \in Rows
BY DEF Events, NewProfile, Rows, NoTraits, TraitMaps, UserFields

LEMMA MergedType ==
  ASSUME NEW base \in Rows, NEW ev \in Events
  PROVE  /\ Merged(base, ev) \in Rows
         /\ Merged(base, ev).anon = base.anon
         /\ Merged(base, ev).user = IF ev.user = NoUser THEN base.user ELSE ev.user
         /\ \A k \in Keys : base.traits[k] # Unset => Merged(base, ev).traits[k] # Unset
<1>1. ev.traits \in TraitMaps /\ ev.user \in UserFields
  BY DEF Events, NoTraits, TraitMaps, UserFields
<1>2. base.traits \in TraitMaps /\ base.anon \in Anons /\ base.user \in UserFields
  BY DEF Rows
<1>3. /\ MergeTraits(base.traits, ev.traits) \in TraitMaps
      /\ \A k \in Keys : base.traits[k] # Unset =>
           MergeTraits(base.traits, ev.traits)[k] # Unset
  BY <1>1, <1>2 DEF MergeTraits, TraitMaps
<1> QED BY <1>1, <1>2, <1>3 DEF Merged, Rows

\* What one event does to the table, however it was resolved.
LEMMA RegistryStep ==
  ASSUME TypeOK, UniqueIdentity, NEW ev \in Events, ApplyEvent(ev)
  PROVE  TypeOK' /\ UniqueIdentity' /\ OnlyAccumulates
<1>1. CASE Create(ev)
  <2>1. PICK n \in Ids \ Stored :
          profiles' = [profiles EXCEPT ![n] = Merged(NewProfile(ev), ev)]
    BY <1>1 DEF Create
  <2> DEFINE row == Merged(NewProfile(ev), ev)
  <2>2. row \in Rows /\ row.anon = ev.anon /\ row.user = ev.user
    BY NewProfileType, MergedType DEF NewProfile
  <2>3. /\ ByAnon(ev.anon) = {}
        /\ ev.user \in Users => ByUser(ev.user) = {}
    BY <1>1 DEF Create, Resolved
  <2> HIDE DEF row
  <2>4. profiles'[n] = row /\ \A i \in Ids \ {n} : profiles'[i] = profiles[i]
    BY <2>1 DEF TypeOK, row
  <2>5. TypeOK' BY <2>1, <2>2 DEF TypeOK, row
  <2>6. UniqueIdentity'
    BY <2>2, <2>3, <2>4 DEF UniqueIdentity, Stored, ByAnon, ByUser
  <2>7. OnlyAccumulates BY <2>4 DEF OnlyAccumulates, Stored
  <2> QED BY <2>5, <2>6, <2>7
<1>2. CASE Update(ev)
  <2>1. PICK n \in Resolved(ev) : profiles' = [profiles EXCEPT ![n] = Merged(profiles[n], ev)]
    BY <1>2 DEF Update
  <2>2. n \in Stored /\ n \in Ids /\ profiles[n] \in Rows
    BY <2>1 DEF Resolved, ByUser, ByAnon, Stored, TypeOK
  <2> DEFINE row == Merged(profiles[n], ev)
  <2>3. /\ row \in Rows /\ row.anon = profiles[n].anon
        /\ row.user = IF ev.user = NoUser THEN profiles[n].user ELSE ev.user
        /\ \A k \in Keys : profiles[n].traits[k] # Unset => row.traits[k] # Unset
    BY <2>2, MergedType
  <2>4. ev.user \in Users => \A i \in ByUser(ev.user) : i = n
    BY <2>1, <2>2 DEF Resolved, UniqueIdentity, ByUser
  <2> HIDE DEF row
  <2>5. profiles'[n] = row /\ \A i \in Ids \ {n} : profiles'[i] = profiles[i]
    BY <2>1, <2>2 DEF TypeOK, row
  <2>6. TypeOK' BY <2>1, <2>2, <2>3 DEF TypeOK, row
  <2>7. row # NoRow BY <2>3, SentinelAssumption
  <2>8. UniqueIdentity'
    <3> SUFFICES ASSUME NEW i \in Stored', NEW j \in Stored', i # j,
                        j # n
                 PROVE  /\ profiles'[i].anon # profiles'[j].anon
                        /\ profiles'[i].user = profiles'[j].user => profiles'[i].user \notin Users
      BY DEF UniqueIdentity
    <3>1. i \in Stored /\ j \in Stored /\ profiles'[j] = profiles[j]
      BY <2>2, <2>5 DEF Stored
    <3>2. CASE i # n
      BY <3>1, <3>2, <2>5 DEF UniqueIdentity, Stored
    <3>3. CASE i = n
      BY <3>1, <3>3, <2>2, <2>3, <2>4, <2>5, SentinelAssumption DEF UniqueIdentity, ByUser
    <3> QED BY <3>2, <3>3
  <2>9. OnlyAccumulates BY <2>3, <2>5, <2>7 DEF OnlyAccumulates, Stored
  <2> QED BY <2>6, <2>8, <2>9
<1> QED BY <1>1, <1>2 DEF ApplyEvent

RegistryInv == TypeOK /\ UniqueIdentity

LEMMA RegistryInit == Init => RegistryInv
BY DEF Init, RegistryInv, TypeOK, UniqueIdentity, Stored

LEMMA RegistryNext == RegistryInv /\ [Next]_profiles => RegistryInv'
<1> SUFFICES ASSUME RegistryInv, [Next]_profiles PROVE RegistryInv'
  OBVIOUS
<1>1. CASE Next BY <1>1, RegistryStep DEF RegistryInv, Next
<1>2. CASE UNCHANGED profiles
  BY <1>2 DEF RegistryInv, TypeOK, UniqueIdentity, Stored
<1> QED BY <1>1, <1>2

\* In the registry no two profiles share an anonymous id or a user.
THEOREM RegistryUnique == Spec => []UniqueIdentity
<1>1. Init => RegistryInv BY RegistryInit
<1>2. RegistryInv /\ [Next]_profiles => RegistryInv' BY RegistryNext
<1>3. RegistryInv => UniqueIdentity BY DEF RegistryInv
<1> QED BY <1>1, <1>2, <1>3, PTL DEF Spec

-----------------------------------------------------------------------------
(* Handlers that run one at a time.                                        *)

\* What a handler knows is still true: between its statements nobody else wrote.
Fresh(w) ==
  LET job == work[w] IN
  /\ job.at = "idle" => job = Resting
  /\ job.at # "idle" => job.event \in Events
  /\ job.at = "byUser" => job.event.user \in Users
  /\ job.at \in {"byUser", "byAnon"} => job.id = NoRow
  /\ job.at = "byAnon" => (job.event.user \in Users => ByUser(job.event.user) = {})
  /\ (job.at = "save" /\ job.id = NoRow) => Resolved(job.event) = {}
  /\ (job.at = "save" /\ job.id # NoRow) =>
       job.id \in Resolved(job.event) /\ job.base = profiles[job.id]

TakingTurns == \A v, w \in Workers : (work[v] # Resting /\ work[w] # Resting) => v = w

SerialInv ==
  /\ SvcTypeOK
  /\ UniqueIdentity
  /\ TakingTurns
  /\ \A w \in Workers : Fresh(w)

LEMMA SerialInit == SvcInit => SerialInv
BY RegistryInit DEF SvcInit, SerialInv, RegistryInv, SvcTypeOK, WorkTypeOK, TakingTurns,
  Fresh, Resting

\* A step that touches one handler only, and leaves the table alone, keeps the
\* invariant when it keeps it for that handler.
LEMMA LocalStep ==
  ASSUME SerialInv, NEW w \in Workers, UNCHANGED profiles,
         \A v \in Workers \ {w} : work'[v] = work[v],
         WorkTypeOK', Fresh(w)', TakingTurns'
  PROVE  SerialInv'
<1>1. SvcTypeOK' /\ UniqueIdentity'
  BY DEF SerialInv, SvcTypeOK, TypeOK, UniqueIdentity, Stored
<1>2. ASSUME NEW v \in Workers \ {w} PROVE Fresh(v)'
  <2>1. /\ \A u : ByUser(u)' = ByUser(u)
        /\ \A ev : Resolved(ev)' = Resolved(ev)
    BY DEF Resolved, ByUser, ByAnon, Stored
  <2>2. work'[v] = work[v] /\ Fresh(v) BY DEF SerialInv
  <2> QED BY <2>1, <2>2 DEF Fresh
<1> QED BY <1>1, <1>2 DEF SerialInv

LEMMA BeginStep ==
  ASSUME Serial, SerialInv, NEW w \in Workers, NEW ev \in Events, Begin(w, ev)
  PROVE  SerialInv'
<1> DEFINE job == [at |-> IF ev.user \in Users THEN "byUser" ELSE "byAnon",
                   event |-> ev, id |-> NoRow, base |-> NoRow]
<1>1. /\ UNCHANGED profiles /\ work' = [work EXCEPT ![w] = job]
      /\ \A v \in Workers : work[v] = Resting
  BY DEF Begin
<1>2. /\ job.event = ev /\ job.id = NoRow /\ job.base = NoRow
      /\ job.at = IF ev.user \in Users THEN "byUser" ELSE "byAnon"
      /\ job = [at |-> job.at, event |-> ev, id |-> NoRow, base |-> NoRow]
  OBVIOUS
<1> HIDE DEF job
<1>3. work'[w] = job /\ \A v \in Workers \ {w} : work'[v] = work[v]
  BY <1>1 DEF SerialInv, SvcTypeOK, WorkTypeOK
<1>4. WorkTypeOK' BY <1>1, <1>2 DEF SerialInv, SvcTypeOK, WorkTypeOK
<1>5. Fresh(w)' BY <1>2, <1>3 DEF Fresh
<1>6. TakingTurns' BY <1>1, <1>3 DEF TakingTurns
<1> QED BY <1>1, <1>3, <1>4, <1>5, <1>6, LocalStep

LEMMA LookupStep ==
  ASSUME SerialInv, NEW w \in Workers, LookupByUser(w) \/ LookupByAnon(w)
  PROVE  SerialInv'
<1> DEFINE ev == work[w].event
<1>0. ev \in Events /\ work[w].at \in {"byUser", "byAnon"} /\ UNCHANGED profiles
  BY DEF LookupByUser, LookupByAnon, SerialInv, Fresh
<1>1. \A v \in Workers \ {w} : work'[v] = work[v]
  BY DEF LookupByUser, LookupByAnon, SerialInv, SvcTypeOK, WorkTypeOK
<1>2. work[w] # Resting
  BY <1>0 DEF Resting
<1>3. TakingTurns'
  BY <1>1, <1>2 DEF SerialInv, TakingTurns
<1>4. CASE /\ work[w].at = "byUser" /\ ByUser(ev.user) = {}
           /\ work' = [work EXCEPT ![w].at = "byAnon"]
  <2>1. work'[w] = [work[w] EXCEPT !.at = "byAnon"]
    BY <1>4 DEF SerialInv, SvcTypeOK, WorkTypeOK
  <2>2. /\ work'[w].at = "byAnon" /\ work'[w].event = ev /\ work'[w].id = work[w].id
        /\ work[w].id = NoRow /\ ev.user \in Users
    BY <2>1, <1>4 DEF SerialInv, SvcTypeOK, WorkTypeOK, Fresh
  <2>3. WorkTypeOK' BY <1>4 DEF SerialInv, SvcTypeOK, WorkTypeOK
  <2>4. Fresh(w)' BY <2>2, <1>0, <1>4 DEF Fresh, ByUser, Stored
  <2> QED BY <1>0, <1>1, <1>3, <2>3, <2>4, LocalStep
<1>5. CASE /\ work[w].at = "byAnon" /\ ByAnon(ev.anon) = {}
           /\ work' = [work EXCEPT ![w].at = "save"]
  <2>1. work'[w] = [work[w] EXCEPT !.at = "save"]
    BY <1>5 DEF SerialInv, SvcTypeOK, WorkTypeOK
  <2>2. /\ work'[w].at = "save" /\ work'[w].event = ev /\ work'[w].id = work[w].id
        /\ work[w].id = NoRow
    BY <2>1, <1>5 DEF SerialInv, SvcTypeOK, WorkTypeOK, Fresh
  <2>3. Resolved(ev) = {}
    BY <1>5 DEF SerialInv, Fresh, Resolved
  <2>4. WorkTypeOK' BY <1>5 DEF SerialInv, SvcTypeOK, WorkTypeOK
  <2>5. Fresh(w)' BY <2>2, <2>3, <1>0 DEF Fresh, Resolved, ByUser, ByAnon, Stored
  <2> QED BY <1>0, <1>1, <1>3, <2>4, <2>5, LocalStep
<1>6. ASSUME NEW i \in Resolved(ev),
             work' = [work EXCEPT ![w] = [@ EXCEPT !.at = "save", !.id = i, !.base = profiles[i]]]
      PROVE  SerialInv'
  <2>1. i \in Ids /\ profiles[i] \in Rows
    BY DEF Resolved, ByUser, ByAnon, Stored, SerialInv, SvcTypeOK, TypeOK
  <2>2. work'[w] = [work[w] EXCEPT !.at = "save", !.id = i, !.base = profiles[i]]
    BY <1>6 DEF SerialInv, SvcTypeOK, WorkTypeOK
  <2>3. /\ work'[w].at = "save" /\ work'[w].event = ev /\ work'[w].id = i
        /\ work'[w].base = profiles[i]
    BY <2>2 DEF SerialInv, SvcTypeOK, WorkTypeOK
  <2>4. WorkTypeOK' BY <1>6, <2>1 DEF SerialInv, SvcTypeOK, WorkTypeOK
  <2>5. i # NoRow BY <2>1, SentinelAssumption
  <2>6. Fresh(w)' BY <2>3, <2>5, <1>0 DEF Fresh, Resolved, ByUser, ByAnon, Stored
  <2> QED BY <1>0, <1>1, <1>3, <2>4, <2>6, LocalStep
<1>7. CASE LookupByUser(w)
  <2>1. CASE ByUser(ev.user) = {} BY <1>4, <1>7, <2>1 DEF LookupByUser
  <2>2. CASE ByUser(ev.user) # {}
    <3>1. Resolved(ev) = ByUser(ev.user)
      BY <1>7, <2>2 DEF LookupByUser, SerialInv, Fresh, Resolved
    <3> QED BY <1>6, <1>7, <2>2, <3>1 DEF LookupByUser
  <2> QED BY <2>1, <2>2
<1>8. CASE LookupByAnon(w)
  <2>1. CASE ByAnon(ev.anon) = {} BY <1>5, <1>8, <2>1 DEF LookupByAnon
  <2>2. CASE ByAnon(ev.anon) # {}
    <3>1. Resolved(ev) = ByAnon(ev.anon)
      BY <1>8 DEF LookupByAnon, SerialInv, Fresh, Resolved
    <3> QED BY <1>6, <1>8, <2>2, <3>1 DEF LookupByAnon
  <2> QED BY <2>1, <2>2
<1> QED BY <1>7, <1>8

\* Alone, a handler saves what the registry's step would write.
LEMMA SaveIsApply ==
  ASSUME SerialInv, NEW w \in Workers, Save(w)
  PROVE  work[w].event \in Events /\ ApplyEvent(work[w].event)
<1> DEFINE ev == work[w].event
<1>1. ev \in Events /\ work[w].at = "save" BY DEF Save, SerialInv, Fresh
<1>2. CASE work[w].id = NoRow
  BY <1>1, <1>2 DEF Save, SerialInv, Fresh, ApplyEvent, Create
<1>3. CASE work[w].id # NoRow
  <2>1. work[w].id \in Resolved(ev) /\ work[w].base = profiles[work[w].id]
    BY <1>1, <1>3 DEF SerialInv, Fresh
  <2> QED BY <1>1, <1>3, <2>1 DEF Save, ApplyEvent, Update
<1> QED BY <1>2, <1>3

LEMMA RestStep ==
  ASSUME SerialInv, NEW w \in Workers, Save(w) \/ Fail(w)
  PROVE  SerialInv'
<1>1. /\ work' = [work EXCEPT ![w] = Resting] /\ work[w] # Resting
      /\ work'[w] = Resting /\ \A v \in Workers \ {w} : work'[v] = work[v]
  BY DEF Save, Fail, SerialInv, SvcTypeOK, WorkTypeOK, Resting
<1>2. \A v \in Workers : work'[v] = Resting
  BY <1>1 DEF SerialInv, TakingTurns
<1>3. TakingTurns' /\ \A v \in Workers : Fresh(v)'
  BY <1>2 DEF TakingTurns, Fresh, Resting
<1>4. WorkTypeOK' BY <1>1 DEF SerialInv, SvcTypeOK, WorkTypeOK, Resting
<1>5. TypeOK' /\ UniqueIdentity'
  <2>1. CASE Save(w)
    BY <2>1, SaveIsApply, RegistryStep DEF SerialInv, SvcTypeOK
  <2>2. CASE Fail(w)
    BY <2>2 DEF Fail, SerialInv, SvcTypeOK, TypeOK, UniqueIdentity, Stored
  <2> QED BY <2>1, <2>2
<1> QED BY <1>3, <1>4, <1>5 DEF SerialInv, SvcTypeOK

LEMMA SerialStep ==
  ASSUME Serial
  PROVE  SerialInv /\ [SvcNext]_svcVars => SerialInv'
<1> SUFFICES ASSUME SerialInv, [SvcNext]_svcVars PROVE SerialInv'
  OBVIOUS
<1>1. ASSUME NEW w \in Workers, NEW ev \in Events, Begin(w, ev) PROVE SerialInv'
  BY <1>1, BeginStep
<1>2. ASSUME NEW w \in Workers, LookupByUser(w) \/ LookupByAnon(w) PROVE SerialInv'
  BY <1>2, LookupStep
<1>3. ASSUME NEW w \in Workers, Save(w) \/ Fail(w) PROVE SerialInv'
  BY <1>3, RestStep
<1>4. CASE UNCHANGED svcVars
  BY <1>4 DEF svcVars, SerialInv, SvcTypeOK, TypeOK, WorkTypeOK, UniqueIdentity, TakingTurns,
    Fresh, Resolved, ByUser, ByAnon, Stored
<1> QED BY <1>1, <1>2, <1>3, <1>4 DEF SvcNext

\* One at a time, the handlers of the service implement the registry: each
\* applyEvent is one indivisible step of it.
THEOREM SerialImplementsRegistry ==
  ASSUME Serial
  PROVE  SvcSpec => ImplementsRegistry
<1>1. SvcInit => SerialInv BY SerialInit
<1>2. SerialInv /\ [SvcNext]_svcVars => SerialInv' BY SerialStep
<1>3. SvcInit => Init BY DEF SvcInit
<1>4. SerialInv /\ [SvcNext]_svcVars => [Next]_profiles
  <2> SUFFICES ASSUME SerialInv, [SvcNext]_svcVars PROVE [Next]_profiles
    OBVIOUS
  <2>1. ASSUME NEW w \in Workers, Save(w) PROVE Next
    BY <2>1, SaveIsApply DEF Next
  <2> QED BY <2>1 DEF SvcNext, svcVars, Begin, LookupByUser, LookupByAnon, Fail
<1> QED BY <1>1, <1>2, <1>3, <1>4, PTL DEF SvcSpec, ImplementsRegistry, Spec

\* One at a time, no two profiles share an anonymous id or a user.
THEOREM SerialUnique ==
  ASSUME Serial
  PROVE  SvcSpec => []UniqueIdentity
<1>1. SvcInit => SerialInv BY SerialInit
<1>2. SerialInv /\ [SvcNext]_svcVars => SerialInv' BY SerialStep
<1>3. SerialInv => UniqueIdentity BY DEF SerialInv
<1> QED BY <1>1, <1>2, <1>3, PTL DEF SvcSpec

\* One at a time, no step loses a profile, a trait or an anonymous id.
THEOREM SerialMergeNeverOverwrites ==
  ASSUME Serial
  PROVE  SvcSpec => MergeNeverOverwrites
<1>1. SvcInit => SerialInv BY SerialInit
<1>2. SerialInv /\ [SvcNext]_svcVars => SerialInv' BY SerialStep
<1>3. SerialInv /\ [SvcNext]_svcVars => [OnlyAccumulates]_svcVars
  <2> SUFFICES ASSUME SerialInv, SvcNext PROVE [OnlyAccumulates]_svcVars
    OBVIOUS
  <2>1. ASSUME NEW w \in Workers, Save(w) PROVE OnlyAccumulates
    BY <2>1, SaveIsApply, RegistryStep DEF SerialInv, SvcTypeOK
  <2>2. CASE UNCHANGED profiles
    BY <2>2 DEF OnlyAccumulates, Stored
  <2> QED BY <2>1, <2>2 DEF SvcNext, Begin, LookupByUser, LookupByAnon, Fail
<1> QED BY <1>1, <1>2, <1>3, PTL DEF SvcSpec, MergeNeverOverwrites

\* One at a time, a known user loses a profile only to an identify on the very
\* device the profile was made for: a profile found by its user keeps it.
THEOREM SerialRelabelsOwnDevice ==
  ASSUME Serial
  PROVE  SvcSpec => RelabelledOnlyByOwnDevice
<1> DEFINE Own ==
      \A i \in Stored :
        (profiles[i].user \in Users /\ profiles'[i].user # profiles[i].user) =>
          \E w \in Workers :
            /\ work[w].event # NoEvent
            /\ work[w].event.anon = profiles[i].anon
            /\ work[w].event.user = profiles'[i].user
            /\ work[w].event.user # NoUser
<1>1. SvcInit => SerialInv BY SerialInit
<1>2. SerialInv /\ [SvcNext]_svcVars => SerialInv' BY SerialStep
<1>3. SerialInv /\ [SvcNext]_svcVars => [Own]_svcVars
  <2> SUFFICES ASSUME SerialInv, SvcNext PROVE Own
    OBVIOUS
  <2>1. ASSUME NEW w \in Workers, Save(w) PROVE Own
    <3> DEFINE ev == work[w].event
    <3>1. ev \in Events /\ ev # NoEvent
      BY <2>1, SaveIsApply, NoEventAssumption
    <3>2. CASE Create(ev)
      <4>1. \A i \in Stored : profiles'[i] = profiles[i]
        BY <3>2 DEF Create, Stored, SerialInv, SvcTypeOK, TypeOK
      <4> QED BY <4>1
    <3>3. CASE Update(ev)
      <4>1. PICK n \in Resolved(ev) : profiles' = [profiles EXCEPT ![n] = Merged(profiles[n], ev)]
        BY <3>3 DEF Update
      <4>2. n \in Stored /\ n \in Ids /\ profiles[n] \in Rows
        BY <4>1 DEF Resolved, ByUser, ByAnon, Stored, SerialInv, SvcTypeOK, TypeOK
      <4>3. profiles'[n].user = IF ev.user = NoUser THEN profiles[n].user ELSE ev.user
        BY <3>1, <4>1, <4>2, MergedType DEF SerialInv, SvcTypeOK, TypeOK
      <4>4. profiles[n].user = ev.user \/ profiles[n].anon = ev.anon
        BY <4>1 DEF Resolved, ByUser, ByAnon
      <4>5. \A i \in Stored \ {n} : profiles'[i] = profiles[i]
        BY <4>1, <4>2 DEF Stored, SerialInv, SvcTypeOK, TypeOK
      <4> QED BY <3>1, <4>3, <4>4, <4>5
    <3> QED BY <2>1, <3>2, <3>3, SaveIsApply DEF ApplyEvent
  <2>2. CASE UNCHANGED profiles BY <2>2
  <2> QED BY <2>1, <2>2 DEF SvcNext, Begin, LookupByUser, LookupByAnon, Fail
<1>4. SvcInit /\ [][SvcNext]_svcVars => [][Own]_svcVars
  BY <1>1, <1>2, <1>3, PTL
<1> QED BY <1>4 DEF SvcSpec, RelabelledOnlyByOwnDevice


-----------------------------------------------------------------------------
(* The gate of a batch.                                                    *)

Track == [at : {"idle", "check", "insert", "apply"}, batch : Batches \cup {<<>>},
          next : Nat \ {0}]

\* What the argument needs of the types.
GateTypeOK ==
  /\ allowed \in [Anons -> BOOLEAN]
  /\ track \in [Workers -> Track]
  /\ late \in [Workers -> [Anons -> Nat]]
  /\ \A w \in Workers : track[w].at = "insert" => track[w].next <= Len(track[w].batch)

\* An event counted as late shuts the gate for the rest of its batch: while the
\* count is one the anonymous id is opted out, and no insert of it is on its way.
LateShutsGate ==
  \A w \in Workers, a \in Anons :
    /\ late[w][a] <= 1
    /\ allowed[a] => late[w][a] = 0
    /\ (track[w].at = "insert" /\ Current(w).anon = a) => late[w][a] = 0

GateInv == GateTypeOK /\ LateShutsGate

LEMMA CurrentAnon ==
  ASSUME GateTypeOK, NEW w \in Workers, track[w].next <= Len(track[w].batch)
  PROVE  Current(w).anon \in Anons
<1>1. /\ track[w].batch \in Seq(Events) /\ track[w].next \in Nat \ {0}
  BY BatchesAssumption DEF GateTypeOK, Track
<1>2. Current(w) \in Events
  BY <1>1 DEF Current
<1> QED BY <1>2 DEF Events

LEMMA GateInit == IngestInit => GateInv
BY DEF IngestInit, Quiet, GateInv, GateTypeOK, LateShutsGate, Track

LEMMA SetConsentStep ==
  ASSUME GateInv, NEW b \in Anons, SetConsent(b)
  PROVE  GateInv'
<1>1. GateTypeOK' BY DEF GateInv, GateTypeOK, SetConsent
<1>2. LateShutsGate'
  BY DEF GateInv, GateTypeOK, LateShutsGate, SetConsent, Current
<1> QED BY <1>1, <1>2 DEF GateInv

LEMMA ReceiveStep ==
  ASSUME GateInv, NEW w \in Workers, NEW batch \in Batches, Receive(w, batch)
  PROVE  GateInv'
<1>1. GateTypeOK' BY DEF GateInv, GateTypeOK, Receive, Track
<1>2. LateShutsGate'
  BY DEF GateInv, GateTypeOK, LateShutsGate, Receive, Current, Track
<1> QED BY <1>1, <1>2 DEF GateInv

LEMMA AdmitStep ==
  ASSUME GateInv, NEW w \in Workers, Admit(w)
  PROVE  GateInv'
<1>1. track[w] \in Track /\ track[w].next <= Len(track[w].batch) /\ allowed[Current(w).anon]
  BY DEF Admit, HasNext, GateInv, GateTypeOK
<1>2. /\ UNCHANGED <<allowed, late>> /\ track' \in [Workers -> Track]
      /\ \A v \in Workers \ {w} : track'[v] = track[v]
      /\ track'[w].batch = track[w].batch /\ track'[w].next = track[w].next
  BY <1>1 DEF Admit, GateInv, GateTypeOK, Track
<1>3. \A v \in Workers : Current(v)' = Current(v) BY <1>2 DEF Current
<1>4. GateTypeOK' BY <1>1, <1>2 DEF GateInv, GateTypeOK
<1>5. LateShutsGate' BY <1>1, <1>2, <1>3 DEF GateInv, LateShutsGate
<1> QED BY <1>4, <1>5 DEF GateInv

LEMMA InsertStep ==
  ASSUME GateInv, NEW w \in Workers, Insert(w)
  PROVE  GateInv'
<1> DEFINE b == Current(w).anon
<1>1. b \in Anons /\ track[w] \in Track /\ late[w][b] = 0
  BY CurrentAnon DEF Insert, GateInv, GateTypeOK, LateShutsGate
<1>2. /\ UNCHANGED allowed /\ \A v \in Workers \ {w} : track'[v] = track[v]
      /\ track' = [track EXCEPT ![w].at = "apply"]
      /\ late' = IF allowed[b] THEN late ELSE [late EXCEPT ![w][b] = @ + 1]
  BY DEF Insert, GateInv, GateTypeOK
<1>3. track'[w].at = "apply" /\ track'[w] \in Track
  BY <1>1, <1>2 DEF GateInv, GateTypeOK, Track
<1>4. \A v \in Workers \ {w} : Current(v)' = Current(v) BY <1>2 DEF Current
<1> HIDE DEF b
<1>5. /\ late' \in [Workers -> [Anons -> Nat]]
      /\ \A v \in Workers, a \in Anons :
           late'[v][a] = IF v = w /\ a = b /\ ~allowed[b] THEN 1 ELSE late[v][a]
  BY <1>1, <1>2 DEF GateInv, GateTypeOK
<1>6. GateTypeOK' BY <1>1, <1>2, <1>3, <1>5 DEF GateInv, GateTypeOK
<1>7. LateShutsGate'
  BY <1>1, <1>2, <1>3, <1>4, <1>5 DEF GateInv, LateShutsGate
<1> QED BY <1>6, <1>7 DEF GateInv

\* The steps that neither move the gate nor send an insert.
LEMMA QuietStep ==
  ASSUME GateInv, NEW w \in Workers, UNCHANGED <<allowed, late>>,
         \/ track' = track
         \/ track' = [track EXCEPT ![w] = Quiet]
         \/ track' = [track EXCEPT ![w].next = @ + 1] /\ track[w].at # "insert"
         \/ track' = [track EXCEPT ![w].at = "check", ![w].next = @ + 1]
  PROVE  GateInv'
<1>1. track[w] \in Track /\ Quiet \in Track /\ Quiet.at # "insert"
  BY DEF GateInv, GateTypeOK, Track, Quiet
<1>2. /\ track' \in [Workers -> Track]
      /\ \A v \in Workers : track'[v] = track[v] \/ track'[v].at # "insert"
  <2>1. CASE track' = track
    BY <2>1 DEF GateInv, GateTypeOK
  <2>2. CASE track' = [track EXCEPT ![w] = Quiet]
    BY <2>2, <1>1 DEF GateInv, GateTypeOK
  <2>3. CASE track' = [track EXCEPT ![w].next = @ + 1] /\ track[w].at # "insert"
    <3>1. track'[w] = [track[w] EXCEPT !.next = @ + 1]
      BY <2>3 DEF GateInv, GateTypeOK
    <3>2. track'[w] \in Track /\ track'[w].at # "insert"
      BY <2>3, <3>1, <1>1 DEF Track
    <3>3. track' = [track EXCEPT ![w] = track'[w]]
      BY <2>3 DEF GateInv, GateTypeOK
    <3> QED BY <3>2, <3>3 DEF GateInv, GateTypeOK
  <2>4. CASE track' = [track EXCEPT ![w].at = "check", ![w].next = @ + 1]
    <3>1. track'[w] = [track[w] EXCEPT !.at = "check", !.next = @ + 1]
      BY <2>4 DEF GateInv, GateTypeOK
    <3>2. track'[w] \in Track /\ track'[w].at # "insert"
      <4> DEFINE checked == [track[w] EXCEPT !.at = "check"]
      <4>1. checked \in Track /\ checked.at = "check" BY <1>1 DEF Track
      <4>2. track'[w] = [checked EXCEPT !.next = @ + 1] BY <3>1, <1>1 DEF Track
      <4> HIDE DEF checked
      <4> QED BY <4>1, <4>2 DEF Track
    <3>3. track' = [track EXCEPT ![w] = track'[w]]
      BY <2>4 DEF GateInv, GateTypeOK
    <3> QED BY <3>2, <3>3 DEF GateInv, GateTypeOK
  <2> QED BY <2>1, <2>2, <2>3, <2>4
<1>3. GateTypeOK' BY <1>2 DEF GateInv, GateTypeOK
<1>4. LateShutsGate' BY <1>2 DEF GateInv, LateShutsGate, Current
<1> QED BY <1>3, <1>4 DEF GateInv

LEMMA OtherStep ==
  ASSUME GateInv, NEW w \in Workers,
         Suppress(w) \/ Lookup(w) \/ Applied(w) \/ TrackReply(w) \/ TrackFail(w)
  PROVE  GateInv'
<1>1. CASE Suppress(w) BY <1>1, QuietStep DEF Suppress, HasNext
<1>2. CASE Lookup(w) BY <1>2, QuietStep DEF Lookup
<1>3. CASE Applied(w) BY <1>3, QuietStep DEF Applied
<1>4. CASE TrackReply(w) BY <1>4, QuietStep DEF TrackReply
<1>5. CASE TrackFail(w) BY <1>5, QuietStep DEF TrackFail
<1> QED BY <1>1, <1>2, <1>3, <1>4, <1>5

LEMMA GateStep == GateInv /\ [IngestNext]_ingestVars => GateInv'
<1> SUFFICES ASSUME GateInv, [IngestNext]_ingestVars PROVE GateInv'
  OBVIOUS
<1>1. ASSUME NEW a \in Visitors, SetConsent(a) PROVE GateInv'
  BY <1>1, SetConsentStep DEF Visitors
<1>2. ASSUME NEW w \in Workers, NEW batch \in Batches, Receive(w, batch) PROVE GateInv'
  BY <1>2, ReceiveStep
<1>3. ASSUME NEW w \in Workers, Admit(w) PROVE GateInv'
  BY <1>3, AdmitStep
<1>4. ASSUME NEW w \in Workers, Insert(w) PROVE GateInv'
  BY <1>4, InsertStep
<1>5. ASSUME NEW w \in Workers,
             Suppress(w) \/ Lookup(w) \/ Applied(w) \/ TrackReply(w) \/ TrackFail(w)
      PROVE  GateInv'
  BY <1>5, OtherStep
<1>6. CASE UNCHANGED ingestVars
  BY <1>6 DEF ingestVars, GateInv, GateTypeOK, LateShutsGate, Current
<1> QED BY <1>1, <1>2, <1>3, <1>4, <1>5, <1>6 DEF IngestNext

\* After an opt-out a request stores at most the one event already admitted.
THEOREM OptOutRespected == IngestSpec => []OptOutStopsTheBatch
<1>1. IngestInit => GateInv BY GateInit
<1>2. GateInv /\ [IngestNext]_ingestVars => GateInv' BY GateStep
<1>3. GateInv => OptOutStopsTheBatch
  BY DEF GateInv, LateShutsGate, OptOutStopsTheBatch
<1> QED BY <1>1, <1>2, <1>3, PTL DEF IngestSpec

-----------------------------------------------------------------------------
(* Redacted rows.                                                          *)

\* Events and subjects that do not carry the redaction marker as an id.
Posted == {ev \in Events : ev.anon # Tombstone /\ ev.user # Tombstone}

MarkerIsNobody ==
  /\ Batches \subseteq Seq(Posted)
  /\ \A s \in Subjects : s.anon # Tombstone /\ s.user # Tombstone

\* A row is redacted as a whole, or not at all.
RowsRedactedWhole ==
  \A i \in Stored :
    /\ Redacted(i) <=> profiles[i].anon = Tombstone
    /\ Redacted(i) => \A k \in PiiKeys : profiles[i].traits[k] \in {Unset, Tombstone}

\* No handler of /v1/track has a redacted row at hand.
WorkKnowsNoMarker ==
  \A w \in Workers :
    LET job == work[w] IN
    /\ job.at = "idle" => job = Resting
    /\ job.at # "idle" => job.event \in Posted
    /\ job.at = "byUser" => job.event.user \in Users
    /\ job.at \in {"byUser", "byAnon"} => job.id = NoRow
    /\ job.id # NoRow => /\ job.id \in Stored /\ job.base \in Rows
                         /\ job.base.anon # Tombstone /\ job.base.user # Tombstone

RowsInv == TypeOK /\ WorkTypeOK /\ RowsRedactedWhole /\ WorkKnowsNoMarker

\* A step of ProfileService on an event that was posted.
ServiceStep(w) ==
  \/ \E ev \in Posted : Begin(w, ev)
  \/ LookupByUser(w) \/ LookupByAnon(w) \/ Save(w) \/ Fail(w)

LEMMA PostedCurrent ==
  ASSUME MarkerIsNobody, GateTypeOK, NEW w \in Workers, track[w].at = "insert"
  PROVE  Current(w) \in Posted
<1>1. /\ track[w].batch \in Seq(Posted) /\ track[w].next \in 1 .. Len(track[w].batch)
  BY DEF MarkerIsNobody, GateTypeOK, Track
<1> QED BY <1>1 DEF Current

\* What a request does to the profiles is a step of the service.
LEMMA IngestServes ==
  ASSUME MarkerIsNobody, GateTypeOK, IngestNext
  PROVE  UNCHANGED <<profiles, work>> \/ \E w \in Workers : ServiceStep(w)
<1>1. ASSUME NEW a \in Visitors, SetConsent(a) PROVE UNCHANGED <<profiles, work>>
  BY <1>1 DEF SetConsent
<1>2. ASSUME NEW w \in Workers, NEW batch \in Batches, Receive(w, batch)
      PROVE  UNCHANGED <<profiles, work>>
  BY <1>2 DEF Receive
<1>3. ASSUME NEW w \in Workers, Admit(w) \/ Suppress(w) \/ TrackReply(w)
      PROVE  UNCHANGED <<profiles, work>>
  BY <1>3 DEF Admit, Suppress, TrackReply
<1>4. ASSUME NEW w \in Workers, Insert(w) PROVE ServiceStep(w)
  BY <1>4, PostedCurrent DEF Insert, ServiceStep
<1>5. ASSUME NEW w \in Workers, Lookup(w) \/ Applied(w) PROVE ServiceStep(w)
  BY <1>5 DEF Lookup, Applied, ServiceStep
<1>6. ASSUME NEW w \in Workers, TrackFail(w)
      PROVE  UNCHANGED <<profiles, work>> \/ ServiceStep(w)
  BY <1>6 DEF TrackFail, ServiceStep
<1> QED BY <1>1, <1>2, <1>3, <1>4, <1>5, <1>6 DEF IngestNext

\* A merge into a row that is not redacted leaves one that is not.
LEMMA MergedRow ==
  ASSUME NEW base \in Rows, base.anon # Tombstone, base.user # Tombstone, NEW ev \in Posted
  PROVE  /\ Merged(base, ev) \in Rows /\ Merged(base, ev) # NoRow
         /\ Merged(base, ev).anon = base.anon /\ Merged(base, ev).anon # Tombstone
         /\ Merged(base, ev).user # Tombstone
         /\ Merged(base, ev).user = IF ev.user = NoUser THEN base.user ELSE ev.user
<1>1. ev.traits \in TraitMaps /\ ev.user \in UserFields /\ ev.user # Tombstone
  BY DEF Posted, Events, NoTraits, TraitMaps, UserFields
<1>2. base.traits \in TraitMaps BY DEF Rows
<1>3. MergeTraits(base.traits, ev.traits) \in TraitMaps
  BY <1>1, <1>2 DEF MergeTraits, TraitMaps
<1>4. Merged(base, ev) \in Rows BY <1>1, <1>3 DEF Merged, Rows
<1> QED BY <1>1, <1>4, SentinelAssumption DEF Merged

LEMMA NewRow ==
  ASSUME NEW ev \in Posted
  PROVE  /\ NewProfile(ev) \in Rows /\ NewProfile(ev).anon = ev.anon
         /\ NewProfile(ev).user = ev.user
         /\ ev.anon # Tombstone /\ ev.user # Tombstone
BY DEF Posted, Events, NewProfile, Rows, NoTraits, TraitMaps, UserFields

\* What a save writes, and where.
LEMMA SavedRow ==
  ASSUME RowsInv, NEW w \in Workers, Save(w)
  PROVE  \E i \in Ids, base \in Rows :
           LET ev == work[w].event
               row == Merged(base, ev)
           IN
           /\ ev \in Posted
           /\ profiles' = [profiles EXCEPT ![i] = row]
           /\ work' = [work EXCEPT ![w] = Resting]
           /\ row \in Rows /\ row # NoRow
           /\ row.anon = base.anon /\ row.anon # Tombstone /\ row.user # Tombstone
           /\ row.user = IF ev.user = NoUser THEN base.user ELSE ev.user
           /\ \/ /\ work[w].id = NoRow /\ i \notin Stored
                 /\ base.anon = ev.anon /\ base.user = ev.user
              \/ work[w].id = i /\ i \in Stored /\ base = work[w].base
<1> DEFINE ev == work[w].event
<1>1. ev \in Posted BY DEF Save, RowsInv, WorkKnowsNoMarker
<1>2. CASE work[w].id = NoRow
  <2>1. PICK i \in Ids \ Stored : profiles' = [profiles EXCEPT ![i] = Merged(NewProfile(ev), ev)]
    BY <1>2 DEF Save
  <2> DEFINE base == NewProfile(ev)
  <2>2. /\ base \in Rows /\ base.anon = ev.anon /\ base.user = ev.user
        /\ base.anon # Tombstone /\ base.user # Tombstone
    BY <1>1, NewRow
  <2>3. profiles' = [profiles EXCEPT ![i] = Merged(base, ev)] BY <2>1
  <2>4. work' = [work EXCEPT ![w] = Resting] BY DEF Save
  <2> HIDE DEF base, ev
  <2>5. /\ Merged(base, ev) \in Rows /\ Merged(base, ev) # NoRow
        /\ Merged(base, ev).anon = base.anon /\ Merged(base, ev).anon # Tombstone
        /\ Merged(base, ev).user # Tombstone
        /\ Merged(base, ev).user = IF ev.user = NoUser THEN base.user ELSE ev.user
    BY <1>1, <2>2, MergedRow
  <2> QED BY <1>1, <1>2, <2>1, <2>2, <2>3, <2>4, <2>5 DEF ev
<1>3. CASE work[w].id # NoRow
  <2> DEFINE base == work[w].base
             i == work[w].id
  <2>1. /\ i \in Stored /\ base \in Rows /\ base.anon # Tombstone /\ base.user # Tombstone
    BY <1>3 DEF RowsInv, WorkKnowsNoMarker
  <2>2. profiles' = [profiles EXCEPT ![i] = Merged(base, ev)] /\ i \in Ids
    BY <1>3, <2>1 DEF Save, Stored
  <2>3. work' = [work EXCEPT ![w] = Resting] BY DEF Save
  <2> HIDE DEF ev
  <2>4. /\ Merged(base, ev) \in Rows /\ Merged(base, ev) # NoRow
        /\ Merged(base, ev).anon = base.anon /\ Merged(base, ev).anon # Tombstone
        /\ Merged(base, ev).user # Tombstone
        /\ Merged(base, ev).user = IF ev.user = NoUser THEN base.user ELSE ev.user
    BY <1>1, <2>1, MergedRow
  <2> QED BY <1>1, <2>1, <2>2, <2>3, <2>4 DEF ev
<1> QED BY <1>2, <1>3

LEMMA ServiceKeepsRows ==
  ASSUME RowsInv, NEW w \in Workers, ServiceStep(w)
  PROVE  RowsInv' /\ Stored \subseteq Stored'
<1> DEFINE job == work[w]
<1>0. work \in [Workers -> [at : {"idle", "byUser", "byAnon", "save"}, event : Events \cup {NoEvent},
         id : Ids \cup {NoRow}, base : Rows \cup {NoRow}]]
  BY DEF RowsInv, WorkTypeOK
<1>1. ASSUME NEW ev \in Posted, Begin(w, ev) PROVE RowsInv' /\ Stored \subseteq Stored'
  <2>1. /\ UNCHANGED profiles
        /\ work' = [work EXCEPT ![w] = [at |-> IF ev.user \in Users THEN "byUser" ELSE "byAnon",
                                        event |-> ev, id |-> NoRow, base |-> NoRow]]
    BY <1>1 DEF Begin
  <2>2. TypeOK' /\ RowsRedactedWhole' /\ Stored' = Stored
    BY <2>1 DEF RowsInv, TypeOK, RowsRedactedWhole, Stored, Redacted
  <2>3. WorkTypeOK' BY <1>0, <2>1 DEF WorkTypeOK, Posted
  <2>4. WorkKnowsNoMarker'
    BY <1>0, <2>1, <2>2 DEF RowsInv, WorkKnowsNoMarker
  <2> QED BY <2>2, <2>3, <2>4 DEF RowsInv
<1>2. CASE LookupByUser(w) \/ LookupByAnon(w)
  <2>1. UNCHANGED profiles /\ job.at \in {"byUser", "byAnon"}
    BY <1>2 DEF LookupByUser, LookupByAnon
  <2>2. TypeOK' /\ RowsRedactedWhole' /\ Stored' = Stored
    BY <2>1 DEF RowsInv, TypeOK, RowsRedactedWhole, Stored, Redacted
  <2>3. job.event \in Posted /\ job.id = NoRow
    BY <2>1 DEF RowsInv, WorkKnowsNoMarker
  <2>4. \/ work' = [work EXCEPT ![w].at = "byAnon"]
        \/ work' = [work EXCEPT ![w].at = "save"]
        \/ \E i \in Stored :
             /\ profiles[i].anon # Tombstone
             /\ work' = [work EXCEPT ![w] = [@ EXCEPT !.at = "save", !.id = i, !.base = profiles[i]]]
    <3>1. CASE LookupByUser(w)
      <4>1. job.event.user \in Users /\ job.event.user # Tombstone
        BY <3>1, <2>3 DEF LookupByUser, RowsInv, WorkKnowsNoMarker, Posted
      <4>2. \A i \in ByUser(job.event.user) : i \in Stored /\ profiles[i].anon # Tombstone
        BY <4>1 DEF ByUser, RowsInv, RowsRedactedWhole, Redacted
      <4> QED BY <3>1, <4>2 DEF LookupByUser
    <3>2. CASE LookupByAnon(w)
      <4>1. job.event.anon # Tombstone BY <2>3 DEF Posted
      <4>2. \A i \in ByAnon(job.event.anon) : i \in Stored /\ profiles[i].anon # Tombstone
        BY <4>1 DEF ByAnon
      <4> QED BY <3>2, <4>2 DEF LookupByAnon
    <3> QED BY <1>2, <3>1, <3>2
  <2>5. CASE \E at \in {"byAnon", "save"} : work' = [work EXCEPT ![w].at = at]
    <3>1. PICK at \in {"byAnon", "save"} : work' = [work EXCEPT ![w].at = at] BY <2>5
    <3>2. WorkTypeOK' BY <1>0, <3>1 DEF WorkTypeOK
    <3>3. WorkKnowsNoMarker'
      BY <1>0, <2>2, <2>3, <3>1 DEF RowsInv, WorkKnowsNoMarker
    <3> QED BY <2>2, <3>2, <3>3 DEF RowsInv
  <2>6. ASSUME NEW i \in Stored, profiles[i].anon # Tombstone,
               work' = [work EXCEPT ![w] = [@ EXCEPT !.at = "save", !.id = i, !.base = profiles[i]]]
        PROVE  WorkTypeOK' /\ WorkKnowsNoMarker'
    <3>1. i \in Ids /\ profiles[i] \in Rows /\ i # NoRow /\ profiles[i].user # Tombstone
      BY <2>6, SentinelAssumption DEF RowsInv, TypeOK, Stored, RowsRedactedWhole, Redacted
    <3>2. work'[w] = [job EXCEPT !.at = "save", !.id = i, !.base = profiles[i]]
      BY <1>0, <2>6
    <3>3. /\ work'[w].at = "save" /\ work'[w].event = job.event /\ work'[w].id = i
          /\ work'[w].base = profiles[i]
          /\ work'[w] \in [at : {"idle", "byUser", "byAnon", "save"}, event : Events \cup {NoEvent},
                          id : Ids \cup {NoRow}, base : Rows \cup {NoRow}]
      BY <1>0, <3>1, <3>2
    <3>4. work' = [work EXCEPT ![w] = work'[w]] BY <1>0, <2>6
    <3>5. WorkTypeOK' BY <1>0, <3>3, <3>4 DEF WorkTypeOK
    <3>6. \A v \in Workers \ {w} : work'[v] = work[v] BY <1>0, <3>4
    <3>7. WorkKnowsNoMarker'
      BY <2>2, <2>3, <2>6, <3>1, <3>3, <3>6 DEF RowsInv, WorkKnowsNoMarker
    <3> QED BY <3>5, <3>7
  <2> QED BY <2>2, <2>4, <2>5, <2>6 DEF RowsInv
<1>3. CASE Save(w)
  <2>1. PICK i \in Ids, base \in Rows :
          LET row == Merged(base, job.event) IN
          /\ profiles' = [profiles EXCEPT ![i] = row]
          /\ work' = [work EXCEPT ![w] = Resting]
          /\ row \in Rows /\ row # NoRow /\ row.anon # Tombstone /\ row.user # Tombstone
    BY <1>3, SavedRow
  <2> DEFINE row == Merged(base, job.event)
  <2>2. /\ profiles'[i] = row /\ row \in Rows /\ row # NoRow
        /\ row.anon # Tombstone /\ row.user # Tombstone
        /\ \A j \in Ids \ {i} : profiles'[j] = profiles[j]
    BY <2>1 DEF RowsInv, TypeOK
  <2>3. TypeOK' BY <2>1 DEF RowsInv, TypeOK
  <2>4. WorkTypeOK' BY <1>0, <2>1 DEF WorkTypeOK, Resting
  <2> HIDE DEF row
  <2>5. Stored \subseteq Stored' BY <2>2 DEF Stored
  <2>6. RowsRedactedWhole'
    BY <2>2 DEF RowsInv, RowsRedactedWhole, Stored, Redacted
  <2>7. WorkKnowsNoMarker'
    BY <1>0, <2>1, <2>5 DEF RowsInv, WorkKnowsNoMarker, Resting
  <2> QED BY <2>3, <2>4, <2>5, <2>6, <2>7 DEF RowsInv
<1>4. CASE Fail(w)
  <2>1. UNCHANGED profiles /\ work' = [work EXCEPT ![w] = Resting] BY <1>4 DEF Fail
  <2>2. TypeOK' /\ RowsRedactedWhole' /\ Stored' = Stored
    BY <2>1 DEF RowsInv, TypeOK, RowsRedactedWhole, Stored, Redacted
  <2>3. WorkTypeOK' BY <1>0, <2>1 DEF WorkTypeOK, Resting
  <2>4. WorkKnowsNoMarker'
    BY <1>0, <2>1, <2>2 DEF RowsInv, WorkKnowsNoMarker, Resting
  <2> QED BY <2>2, <2>3, <2>4 DEF RowsInv
<1> QED BY <1>1, <1>2, <1>3, <1>4 DEF ServiceStep

-----------------------------------------------------------------------------
(* What erasures have at hand.                                             *)

Job == [at : {"idle", "plan", "lookup", "delete", "read", "redact", "audit", "reply"},
        subject : Subjects \cup {NoRow}, id : Ids \cup {NoRow, Pending},
        anon : Anons \cup {NoAnon, Pending}, targets : BOOLEAN \cup {Pending},
        base : Rows \cup {NoRow}]

\* A profile an erasure has planned to redact exists.
JobsKnowRows ==
  \A e \in Erasers :
    LET job == erase[e] IN
    /\ job.at # "idle" => job.subject \in Subjects
    /\ job.id \in Ids => job.id \in Stored
    /\ job.at \notin {"idle", "plan"} => job.id # Pending
    /\ job.at \in {"read", "redact"} => job.id # NoRow
    /\ job.at = "redact" => job.base \in Rows

JobsInv == erase \in [Erasers -> Job] /\ JobsKnowRows

EraseStep(e) ==
  \/ \E s \in Subjects : AskErasure(e, s)
  \/ PlanProfile(e) \/ PlanEventsProfile(e) \/ PlanEvents(e) \/ Execute(e)
  \/ DeleteLookup(e) \/ DeleteEvents(e) \/ AnonymizeRead(e) \/ AnonymizeSave(e)
  \/ Audit(e) \/ EraseReply(e) \/ EraseFail(e)

LEMMA PendingApart == /\ Pending \notin Ids /\ Pending # NoRow /\ NoRow \notin Ids
                      /\ Pending \notin Anons /\ Pending # NoAnon /\ NoAnon \notin Anons
                      /\ Pending \notin BOOLEAN
BY ErasureAssumption, SentinelAssumption

\* Redaction takes a stored row to a redacted one.
LEMMA RedactedRow ==
  ASSUME NEW row \in Rows
  PROVE  /\ RedactProfile(row) \in Rows /\ RedactProfile(row) # NoRow
         /\ RedactProfile(row).anon = Tombstone /\ RedactProfile(row).user = Tombstone
         /\ \A k \in PiiKeys : RedactProfile(row).traits[k] \in {Unset, Tombstone}
<1> DEFINE traits == [k \in Keys |->
     IF k \in PiiKeys /\ row.traits[k] # Unset THEN Tombstone ELSE row.traits[k]]
<1>1. row.traits \in [Keys -> Values \cup {Unset}] BY DEF Rows, TraitMaps
<1>2. Tombstone \in Values /\ Tombstone \in Anons /\ Tombstone \in UserFields /\ PiiKeys \subseteq Keys
  BY ErasureAssumption DEF UserFields
<1>3. traits \in TraitMaps BY <1>1, <1>2 DEF TraitMaps
<1>4. \A k \in PiiKeys : traits[k] \in {Unset, Tombstone} BY <1>2
<1> HIDE DEF traits
<1>5. RedactProfile(row) = [anon |-> Tombstone, user |-> Tombstone, traits |-> traits]
  BY DEF RedactProfile, traits
<1>6. RedactProfile(row) \in Rows BY <1>2, <1>3, <1>5 DEF Rows
<1> QED BY <1>4, <1>5, <1>6, SentinelAssumption

\* A step that touches one job only, and only adds rows.
LEMMA JobStep ==
  ASSUME JobsInv, NEW e \in Erasers, NEW job \in Job, Set(e, job), Stored \subseteq Stored',
         /\ job.at # "idle" => job.subject \in Subjects
         /\ job.id \in Ids => job.id \in Stored
         /\ job.at \notin {"idle", "plan"} => job.id # Pending
         /\ job.at \in {"read", "redact"} => job.id # NoRow
         /\ job.at = "redact" => job.base \in Rows
  PROVE  JobsInv'
<1>1. erase' = [erase EXCEPT ![e] = job] BY DEF Set
<1>2. erase' \in [Erasers -> Job] /\ erase'[e] = job /\ \A d \in Erasers \ {e} : erase'[d] = erase[d]
  BY <1>1 DEF JobsInv
<1> QED BY <1>2 DEF JobsInv, JobsKnowRows

LEMMA FreeJob ==
  /\ Free \in Job /\ Free.at = "idle" /\ Free.id = NoRow
BY SentinelAssumption DEF Free, Job

LEMMA AfterEventsJob ==
  ASSUME NEW job \in Job, job.id # Pending
  PROVE  /\ AfterEvents(job) \in Job /\ AfterEvents(job).id = job.id
         /\ AfterEvents(job).subject = job.subject
         /\ AfterEvents(job).at = IF job.id # NoRow THEN "read" ELSE "audit"
BY DEF AfterEvents, Job

LEMMA EraseKeepsJobs ==
  ASSUME JobsInv, TypeOK, NEW e \in Erasers, EraseStep(e), Stored \subseteq Stored'
  PROVE  JobsInv'
<1> DEFINE job == erase[e]
<1>0. /\ job \in Job
      /\ job.at # "idle" => job.subject \in Subjects
      /\ job.id \in Ids => job.id \in Stored
      /\ job.at \notin {"idle", "plan"} => job.id # Pending
      /\ job.at \in {"read", "redact"} => job.id # NoRow
      /\ job.at = "redact" => job.base \in Rows
  BY DEF JobsInv, JobsKnowRows
<1> HIDE DEF job
<1>1. ASSUME NEW s \in Subjects, AskErasure(e, s) PROVE JobsInv'
  <2> DEFINE new == [Free EXCEPT !.at = "plan", !.subject = s, !.id = Pending,
                         !.anon = Pending, !.targets = Pending]
  <2>1. new \in Job /\ new.at = "plan" /\ new.id = Pending /\ new.subject = s
    BY DEF Free, Job
  <2>2. Set(e, new) BY <1>1 DEF AskErasure
  <2> HIDE DEF new
  <2> QED BY <2>1, <2>2, JobStep, PendingApart
<1>2. CASE PlanProfile(e)
  <2>1. PICK i \in Stored \cup {NoRow} : Set(e, [job EXCEPT !.id = i])
    BY <1>2 DEF PlanProfile, Matching, job
  <2> DEFINE new == [job EXCEPT !.id = i]
  <2>2. new \in Job /\ new.at = "plan" /\ new.id = i /\ new.subject = job.subject /\ job.at = "plan"
    BY <1>0, <1>2 DEF Job, Stored, PlanProfile, job
  <2>3. Set(e, new) BY <2>1
  <2> HIDE DEF new
  <2> QED BY <1>0, <2>2, <2>3, JobStep, PendingApart
<1>3. CASE PlanEventsProfile(e)
  <2>1. PICK a \in Anons \cup {NoAnon} : Set(e, [job EXCEPT !.anon = a])
    <3>1. \A i \in Matching(job.subject) : profiles[i].anon \in Anons
      BY DEF Matching, Stored, TypeOK, Rows
    <3> QED BY <3>1, <1>3 DEF PlanEventsProfile, job
  <2> DEFINE new == [job EXCEPT !.anon = a]
  <2>2. new \in Job /\ new.at = job.at /\ new.id = job.id /\ new.subject = job.subject
    BY <1>0 DEF Job
  <2>3. Set(e, new) /\ job.at = "plan" BY <2>1, <1>3 DEF PlanEventsProfile, job
  <2> HIDE DEF new
  <2> QED BY <1>0, <2>2, <2>3, JobStep
<1>4. CASE PlanEvents(e)
  <2> DEFINE t == events \cap {job.subject.anon, job.anon} # {}
             new == [job EXCEPT !.targets = t]
  <2>1. t \in BOOLEAN OBVIOUS
  <2>2. Set(e, new) /\ job.at = "plan" BY <1>4 DEF PlanEvents, job
  <2>3. new \in Job /\ new.at = job.at /\ new.id = job.id /\ new.subject = job.subject
    <3> HIDE DEF t
    <3> QED BY <1>0, <2>1 DEF Job
  <2> HIDE DEF new
  <2> QED BY <1>0, <2>2, <2>3, JobStep
<1>5. CASE Execute(e)
  <2>0. job.id # Pending /\ job.at = "plan" BY <1>5 DEF Execute, job
  <2>1. CASE Set(e, [job EXCEPT !.at = "lookup"])
    <3> DEFINE new == [job EXCEPT !.at = "lookup"]
    <3>1. new \in Job /\ new.at = "lookup" /\ new.id = job.id /\ new.subject = job.subject BY <1>0 DEF Job
    <3>2. Set(e, new) BY <2>1
    <3> HIDE DEF new
    <3> QED BY <1>0, <2>0, <3>1, <3>2, JobStep
  <2>2. CASE Set(e, AfterEvents(job))
    BY <1>0, <2>0, <2>2, JobStep, AfterEventsJob
  <2>3. Set(e, [job EXCEPT !.at = "lookup"]) \/ Set(e, AfterEvents(job))
    BY <1>5 DEF Execute, job
  <2> QED BY <2>1, <2>2, <2>3
<1>6. CASE DeleteLookup(e)
  <2>0. job.at = "lookup" /\ job.id # Pending BY <1>0, <1>6 DEF DeleteLookup, job
  <2>1. CASE Set(e, AfterEvents(job))
    BY <1>0, <2>0, <2>1, JobStep, AfterEventsJob
  <2>2. ASSUME NEW a \in Anons, Set(e, [job EXCEPT !.at = "delete", !.anon = a]) PROVE JobsInv'
    <3> DEFINE new == [job EXCEPT !.at = "delete", !.anon = a]
    <3>1. new \in Job /\ new.at = "delete" /\ new.id = job.id /\ new.subject = job.subject BY <1>0 DEF Job
    <3>2. Set(e, new) BY <2>2
    <3> HIDE DEF new
    <3> QED BY <1>0, <2>0, <3>1, <3>2, JobStep
  <2>3. \/ Set(e, AfterEvents(job))
        \/ \E a \in Anons : Set(e, [job EXCEPT !.at = "delete", !.anon = a])
    <3>1. \A i \in Matching(job.subject) : profiles[i].anon \in Anons
      BY DEF Matching, Stored, TypeOK, Rows
    <3>2. job.subject.anon \in Anons \cup {NoAnon}
      BY <1>0, <2>0, ErasureAssumption DEF SubjectForms
    <3> QED BY <3>1, <3>2, <1>6 DEF DeleteLookup, job
  <2> QED BY <2>1, <2>2, <2>3
<1>7. CASE DeleteEvents(e)
  BY <1>0, <1>7, JobStep, AfterEventsJob DEF DeleteEvents, job
<1>8. CASE AnonymizeRead(e)
  <2> DEFINE new == [job EXCEPT !.at = "redact", !.base = profiles[job.id]]
  <2>1. job.at = "read" /\ Set(e, new) BY <1>8 DEF AnonymizeRead, job
  <2>2. job.id \in Stored BY <1>0, <2>1, PendingApart DEF Job
  <2>3. profiles[job.id] \in Rows BY <2>2 DEF Stored, TypeOK
  <2>4. new \in Job /\ new.at = "redact" /\ new.id = job.id /\ new.subject = job.subject /\ new.base = profiles[job.id]
    BY <1>0, <2>3 DEF Job
  <2> HIDE DEF new
  <2> QED BY <1>0, <2>1, <2>2, <2>3, <2>4, JobStep
<1>9. CASE AnonymizeSave(e) \/ Audit(e)
  <2>1. PICK at \in {"audit", "reply"} : Set(e, [job EXCEPT !.at = at])
    BY <1>9 DEF AnonymizeSave, Audit, job
  <2> DEFINE new == [job EXCEPT !.at = at]
  <2>2. new \in Job /\ new.at = at /\ new.id = job.id /\ new.subject = job.subject BY <1>0 DEF Job
  <2>3. Set(e, new) BY <2>1
  <2>4. job.id # Pending /\ job.at # "idle" BY <1>0, <1>9 DEF AnonymizeSave, Audit, job
  <2> HIDE DEF new
  <2> QED BY <1>0, <2>2, <2>3, <2>4, JobStep
<1>10. CASE EraseReply(e) \/ EraseFail(e)
  BY <1>10, FreeJob, JobStep, PendingApart DEF EraseReply, EraseFail
<1> QED BY <1>1, <1>2, <1>3, <1>4, <1>5, <1>6, <1>7, <1>8, <1>9, <1>10 DEF EraseStep

\* The profiles an erasure step writes: one row, redacted.
LEMMA EraseWrites ==
  ASSUME JobsInv, NEW e \in Erasers, EraseStep(e)
  PROVE  /\ UNCHANGED <<work, allowed, track, late>>
         /\ \/ UNCHANGED profiles
            \/ \E i \in Stored, base \in Rows : /\ profiles' = [profiles EXCEPT ![i] = RedactProfile(base)]
                                               /\ erase[e].id = i /\ AnonymizeSave(e)
<1>1. ASSUME NEW s \in Subjects, AskErasure(e, s) PROVE UNCHANGED <<profiles, work, allowed, track, late>>
  BY <1>1 DEF AskErasure, trackVars
<1>2. CASE PlanProfile(e) \/ PlanEventsProfile(e) \/ PlanEvents(e) \/ Execute(e) \/ DeleteLookup(e)
           \/ AnonymizeRead(e) \/ Audit(e) \/ EraseReply(e) \/ EraseFail(e)
  BY <1>2 DEF PlanProfile, PlanEventsProfile, PlanEvents, Execute, DeleteLookup, AnonymizeRead,
    Audit, EraseReply, EraseFail, trackVars
<1>3. CASE DeleteEvents(e) BY <1>3 DEF DeleteEvents, trackVars
<1>4. CASE AnonymizeSave(e)
  <2>1. /\ erase[e].id \in Stored /\ erase[e].base \in Rows
    BY <1>4, PendingApart DEF AnonymizeSave, JobsInv, JobsKnowRows, Job
  <2> QED BY <1>4, <2>1 DEF AnonymizeSave, trackVars
<1> QED BY <1>1, <1>2, <1>3, <1>4 DEF EraseStep

LEMMA EraseKeepsRows ==
  ASSUME RowsInv, JobsInv, NEW e \in Erasers, EraseStep(e)
  PROVE  RowsInv' /\ Stored' = Stored /\ \A i \in Stored : Redacted(i) => Redacted(i)'
<1>0. UNCHANGED work BY EraseWrites
<1>1. CASE UNCHANGED profiles
  <2>1. Stored' = Stored BY <1>1 DEF Stored
  <2> QED BY <1>0, <1>1, <2>1
    DEF RowsInv, TypeOK, WorkTypeOK, RowsRedactedWhole, WorkKnowsNoMarker, Redacted
<1>2. ASSUME NEW i \in Stored, NEW base \in Rows,
             profiles' = [profiles EXCEPT ![i] = RedactProfile(base)]
      PROVE  RowsInv' /\ Stored' = Stored /\ \A j \in Stored : Redacted(j) => Redacted(j)'
  <2> DEFINE row == RedactProfile(base)
  <2>1. /\ row \in Rows /\ row # NoRow /\ row.anon = Tombstone /\ row.user = Tombstone
        /\ \A k \in PiiKeys : row.traits[k] \in {Unset, Tombstone}
    BY RedactedRow
  <2> HIDE DEF row
  <2>2. /\ i \in Ids /\ profiles' = [profiles EXCEPT ![i] = row]
        /\ profiles'[i] = row /\ \A j \in Ids \ {i} : profiles'[j] = profiles[j]
    BY <1>2 DEF RowsInv, TypeOK, Stored, row
  <2>3. TypeOK' BY <2>1, <2>2 DEF RowsInv, TypeOK
  <2>4. Stored' = Stored BY <2>1, <2>2 DEF Stored
  <2>5. RowsRedactedWhole' /\ \A j \in Stored : Redacted(j) => Redacted(j)'
    BY <2>1, <2>2, <2>4 DEF RowsInv, RowsRedactedWhole, Stored, Redacted
  <2>6. WorkTypeOK' /\ WorkKnowsNoMarker'
    BY <1>0, <2>4 DEF RowsInv, WorkTypeOK, WorkKnowsNoMarker
  <2> QED BY <2>3, <2>4, <2>5, <2>6 DEF RowsInv
<1> QED BY <1>1, <1>2, EraseWrites

-----------------------------------------------------------------------------
(* Handlers of /v1/track that resolve one event at a time leave at most    *)
(* one profile for an anonymous id, and one for a user, that is not        *)
(* redacted.                                                               *)

UniqueUnlessRedacted ==
  \A i, j \in Stored :
    i # j => /\ profiles[i].anon = profiles[j].anon => profiles[i].anon = Tombstone
             /\ profiles[i].user = profiles[j].user =>
                  profiles[i].user \notin Users \ {Tombstone}

OneAtATime == \A v, w \in Workers : (work[v] # Resting /\ work[w] # Resting) => v = w

\* No other row answers for what the handler is about to save.
Unrivalled(w) ==
  LET job == work[w]
      user == job.event.user
  IN
  /\ (job.at \in {"byAnon", "save"} /\ job.id = NoRow /\ user \in Users) => ByUser(user) = {}
  /\ (job.at = "save" /\ job.id = NoRow) => ByAnon(job.event.anon) = {}
  /\ job.id # NoRow => \A j \in Stored \ {job.id} :
       /\ profiles[j].anon # job.base.anon
       /\ job.base.user \in Users => profiles[j].user # job.base.user
       /\ user \in Users => profiles[j].user # user

UniqueInv == UniqueUnlessRedacted /\ OneAtATime /\ \A w \in Workers : Unrivalled(w)

LEMMA ServiceKeepsUnique ==
  ASSUME Serial, RowsInv, UniqueInv, NEW w \in Workers, ServiceStep(w)
  PROVE  UniqueInv'
<1> DEFINE job == work[w]
<1>0. /\ work \in [Workers -> [at : {"idle", "byUser", "byAnon", "save"}, event : Events \cup {NoEvent},
              id : Ids \cup {NoRow}, base : Rows \cup {NoRow}]]
      /\ Resting.at = "idle" /\ Resting.id = NoRow
  BY DEF RowsInv, WorkTypeOK, Resting
\* Whoever takes a step is the one at work.
<1>a. ASSUME work[w] # Resting, \A v \in Workers \ {w} : work'[v] = work[v]
      PROVE  OneAtATime' /\ \A v \in Workers \ {w} : work'[v] = Resting
  BY <1>a DEF UniqueInv, OneAtATime
<1>b. ASSUME UNCHANGED profiles
      PROVE  UniqueUnlessRedacted'
  BY <1>b DEF UniqueInv, UniqueUnlessRedacted, Stored
<1>c. ASSUME NEW v \in Workers, work'[v] = Resting
      PROVE  Unrivalled(v)'
  BY <1>0, <1>c DEF Unrivalled, Resting
<1>1. ASSUME NEW ev \in Posted, Begin(w, ev) PROVE UniqueInv'
  <2>1. /\ UNCHANGED profiles
        /\ \A v \in Workers : work[v] = Resting
        /\ work' = [work EXCEPT ![w] = [at |-> IF ev.user \in Users THEN "byUser" ELSE "byAnon",
                                        event |-> ev, id |-> NoRow, base |-> NoRow]]
    BY <1>1 DEF Begin
  <2>2. /\ \A v \in Workers \ {w} : work'[v] = Resting
        /\ work'[w] = [at |-> IF ev.user \in Users THEN "byUser" ELSE "byAnon",
                       event |-> ev, id |-> NoRow, base |-> NoRow]
    BY <1>0, <2>1
  <2>3. OneAtATime' BY <2>2 DEF OneAtATime
  <2>4. Unrivalled(w)' BY <2>2 DEF Unrivalled
  <2>5. \A v \in Workers : Unrivalled(v)' BY <1>c, <2>2, <2>4
  <2> QED BY <1>b, <2>1, <2>3, <2>5 DEF UniqueInv
<1>2. CASE LookupByUser(w) \/ LookupByAnon(w)
  <2>1. /\ UNCHANGED profiles /\ job.at \in {"byUser", "byAnon"}
        /\ job.id = NoRow /\ job.event \in Posted /\ job # Resting
        /\ \A v \in Workers \ {w} : work'[v] = work[v]
        /\ job.at = "byUser" => job.event.user \in Users
    BY <1>0, <1>2 DEF LookupByUser, LookupByAnon, RowsInv, WorkKnowsNoMarker
  <2>2. /\ Stored' = Stored /\ \A u : ByUser(u)' = ByUser(u) /\ \A a : ByAnon(a)' = ByAnon(a)
    BY <2>1 DEF Stored, ByUser, ByAnon
  <2>3. Unrivalled(w)'
    <3>1. CASE /\ ByUser(job.event.user) = {} /\ job.at = "byUser"
               /\ work' = [work EXCEPT ![w].at = "byAnon"]
      <4>1. /\ work'[w].at = "byAnon" /\ work'[w].event = job.event /\ work'[w].id = NoRow
        BY <1>0, <2>1, <3>1
      <4> QED BY <2>2, <3>1, <4>1 DEF Unrivalled
    <3>2. CASE /\ ByAnon(job.event.anon) = {} /\ job.at = "byAnon"
               /\ work' = [work EXCEPT ![w].at = "save"]
      <4>1. /\ work'[w].at = "save" /\ work'[w].event = job.event /\ work'[w].id = NoRow
        BY <1>0, <2>1, <3>2
      <4>2. job.event.user \in Users => ByUser(job.event.user) = {}
        BY <2>1, <3>2 DEF UniqueInv, Unrivalled
      <4> QED BY <2>2, <3>2, <4>1, <4>2 DEF Unrivalled
    <3>3. ASSUME NEW i \in Stored,
                 \/ job.at = "byUser" /\ i \in ByUser(job.event.user)
                 \/ job.at = "byAnon" /\ i \in ByAnon(job.event.anon),
                 work' = [work EXCEPT ![w] = [@ EXCEPT !.at = "save", !.id = i, !.base = profiles[i]]]
          PROVE  Unrivalled(w)'
      <4>1. /\ work'[w].at = "save" /\ work'[w].event = job.event /\ work'[w].id = i
            /\ work'[w].base = profiles[i]
        BY <1>0, <3>3
      <4>2. /\ i # NoRow /\ profiles[i].anon # Tombstone /\ profiles[i].user # Tombstone
        <5>1. i # NoRow BY SentinelAssumption DEF Stored
        <5>2. profiles[i].anon # Tombstone \/ profiles[i].user # Tombstone
          BY <2>1, <3>3 DEF Posted, ByUser, ByAnon
        <5> QED BY <5>1, <5>2 DEF RowsInv, RowsRedactedWhole, Redacted
      <4>3. ASSUME NEW j \in Stored \ {i}
            PROVE  /\ profiles[j].anon # profiles[i].anon
                   /\ profiles[i].user \in Users => profiles[j].user # profiles[i].user
                   /\ job.event.user \in Users => profiles[j].user # job.event.user
        <5>1. /\ profiles[j].anon # profiles[i].anon
              /\ profiles[i].user \in Users => profiles[j].user # profiles[i].user
          BY <4>2, <4>3 DEF UniqueInv, UniqueUnlessRedacted
        <5>2. CASE job.at = "byUser"
          <6>1. profiles[i].user = job.event.user BY <3>3, <5>2 DEF ByUser
          <6> QED BY <5>1, <6>1
        <5>3. CASE job.at = "byAnon"
          <6>1. job.event.user \in Users => ByUser(job.event.user) = {}
            BY <2>1, <5>3 DEF UniqueInv, Unrivalled
          <6> QED BY <5>1, <6>1 DEF ByUser
        <5> QED BY <2>1, <5>2, <5>3
      <4>4. profiles' = profiles BY <2>1
      <4> QED BY <2>2, <4>1, <4>2, <4>3, <4>4 DEF Unrivalled
    <3> QED BY <1>2, <3>1, <3>2, <3>3 DEF LookupByUser, LookupByAnon, ByUser, ByAnon
  <2>4. \A v \in Workers \ {w} : Unrivalled(v)' BY <1>a, <1>c, <2>1
  <2>5. OneAtATime' BY <1>a, <2>1
  <2> QED BY <1>b, <2>1, <2>3, <2>4, <2>5 DEF UniqueInv
<1>3. CASE Save(w)
  <2>1. PICK i \in Ids, base \in Rows :
           LET ev == job.event
               row == Merged(base, ev)
           IN
           /\ ev \in Posted
           /\ profiles' = [profiles EXCEPT ![i] = row]
           /\ work' = [work EXCEPT ![w] = Resting]
           /\ row \in Rows /\ row # NoRow
           /\ row.anon = base.anon /\ row.anon # Tombstone /\ row.user # Tombstone
           /\ row.user = IF ev.user = NoUser THEN base.user ELSE ev.user
           /\ \/ /\ job.id = NoRow /\ i \notin Stored
                 /\ base.anon = ev.anon /\ base.user = ev.user
              \/ job.id = i /\ i \in Stored /\ base = job.base
    BY <1>3, SavedRow
  <2> DEFINE row == Merged(base, job.event)
  <2>2. /\ job.at = "save" /\ job # Resting /\ Unrivalled(w)
    BY <1>0, <1>3 DEF Save, UniqueInv
  <2>3. /\ profiles'[i] = row /\ row # NoRow
        /\ row.anon = base.anon /\ row.anon # Tombstone
        /\ row.user = IF job.event.user = NoUser THEN base.user ELSE job.event.user
        /\ \A j \in Ids \ {i} : profiles'[j] = profiles[j]
    BY <2>1 DEF RowsInv, TypeOK
  <2>4. \A v \in Workers : work'[v] = IF v = w THEN Resting ELSE work[v] BY <1>0, <2>1
  <2> HIDE DEF row
  <2>5. ASSUME NEW j \in Stored \ {i}
        PROVE  /\ profiles[j].anon # row.anon
               /\ row.user \in Users => profiles[j].user # row.user
    <3>1. CASE job.id = NoRow
      <4>1. base.anon = job.event.anon /\ base.user = job.event.user
        BY <2>1, <3>1, SentinelAssumption
      <4>2. /\ ByAnon(job.event.anon) = {}
            /\ job.event.user \in Users => ByUser(job.event.user) = {}
        BY <2>2, <3>1 DEF Unrivalled
      <4> QED BY <2>3, <4>1, <4>2 DEF ByAnon, ByUser
    <3>2. CASE job.id # NoRow
      <4>1. job.id = i /\ base = job.base BY <2>1, <3>2
      <4> QED BY <2>2, <2>3, <3>2, <4>1 DEF Unrivalled
    <3> QED BY <3>1, <3>2
  <2>6. Stored' = Stored \cup {i} BY <2>3 DEF Stored
  <2>7. UniqueUnlessRedacted'
    <3> SUFFICES ASSUME NEW j \in Stored \cup {i}, NEW k \in Stored \cup {i}, j # k
                 PROVE  /\ profiles'[j].anon = profiles'[k].anon => profiles'[j].anon = Tombstone
                        /\ profiles'[j].user = profiles'[k].user =>
                             profiles'[j].user \notin Users \ {Tombstone}
      BY <2>6 DEF UniqueUnlessRedacted
    <3>1. CASE j = i
      <4>1. k \in Stored \ {i} /\ profiles'[k] = profiles[k] BY <2>3, <3>1 DEF Stored
      <4> QED BY <2>3, <2>5, <3>1, <4>1
    <3>2. CASE k = i
      <4>1. j \in Stored \ {i} /\ profiles'[j] = profiles[j] BY <2>3, <3>2 DEF Stored
      <4> QED BY <2>3, <2>5, <3>2, <4>1
    <3>3. CASE j # i /\ k # i
      <4>1. profiles'[j] = profiles[j] /\ profiles'[k] = profiles[k] BY <2>3, <3>3 DEF Stored
      <4> QED BY <3>3, <4>1 DEF UniqueInv, UniqueUnlessRedacted
    <3> QED BY <3>1, <3>2, <3>3
  <2>8. OneAtATime' /\ \A v \in Workers : work'[v] = Resting
    BY <1>a, <2>2, <2>4
  <2> QED BY <1>c, <2>7, <2>8 DEF UniqueInv
<1>4. CASE Fail(w)
  <2>1. UNCHANGED profiles /\ work' = [work EXCEPT ![w] = Resting] /\ job # Resting
    BY <1>0, <1>4 DEF Fail
  <2>2. \A v \in Workers : work'[v] = IF v = w THEN Resting ELSE work[v] BY <1>0, <2>1
  <2>3. OneAtATime' /\ \A v \in Workers : work'[v] = Resting
    BY <1>a, <2>1, <2>2
  <2> QED BY <1>b, <1>c, <2>1, <2>3 DEF UniqueInv
<1> QED BY <1>1, <1>2, <1>3, <1>4 DEF ServiceStep

\* Redaction takes a row out of the way.
LEMMA EraseKeepsUnique ==
  ASSUME RowsInv, JobsInv, UniqueInv, NEW e \in Erasers, EraseStep(e)
  PROVE  UniqueInv'
<1>0. UNCHANGED work BY EraseWrites
<1>1. CASE UNCHANGED profiles
  <2>1. /\ Stored' = Stored /\ \A u : ByUser(u)' = ByUser(u) /\ \A a : ByAnon(a)' = ByAnon(a)
    BY <1>1 DEF Stored, ByUser, ByAnon
  <2>2. \A w \in Workers : Unrivalled(w)'
    BY <1>0, <1>1, <2>1 DEF UniqueInv, Unrivalled
  <2> QED BY <1>0, <1>1, <2>1, <2>2 DEF UniqueInv, UniqueUnlessRedacted, OneAtATime
<1>2. ASSUME NEW i \in Stored, NEW base \in Rows,
             profiles' = [profiles EXCEPT ![i] = RedactProfile(base)]
      PROVE  UniqueInv'
  <2> DEFINE row == RedactProfile(base)
  <2>1. row # NoRow /\ row.anon = Tombstone /\ row.user = Tombstone BY RedactedRow
  <2> HIDE DEF row
  <2>2. i \in Ids /\ profiles'[i] = row /\ \A j \in Ids \ {i} : profiles'[j] = profiles[j]
    BY <1>2 DEF RowsInv, TypeOK, Stored, row
  <2>3. Stored' = Stored BY <2>1, <2>2 DEF Stored
  <2>4. UniqueUnlessRedacted'
    BY <2>1, <2>2, <2>3 DEF UniqueInv, UniqueUnlessRedacted, Stored
  <2>5. ASSUME NEW w \in Workers PROVE Unrivalled(w)'
    <3>0. /\ work[w].at # "idle" => work[w].event.anon # Tombstone /\ work[w].event.user # Tombstone
          /\ work[w].id # NoRow => /\ work[w].at # "idle"
                                   /\ work[w].base.anon # Tombstone /\ work[w].base.user # Tombstone
      BY DEF RowsInv, WorkKnowsNoMarker, Posted, Resting
    <3>1. /\ \A u : u # Tombstone => ByUser(u)' \subseteq ByUser(u)
          /\ \A a : a # Tombstone => ByAnon(a)' \subseteq ByAnon(a)
      BY <2>1, <2>2, <2>3 DEF ByUser, ByAnon, Stored
    <3>2. Unrivalled(w) BY DEF UniqueInv
    <3>3. \A j \in Stored : profiles'[j] = profiles[j] \/ profiles'[j] = row
      BY <2>2 DEF Stored
    <3> QED BY <1>0, <2>1, <2>3, <3>0, <3>1, <3>2, <3>3 DEF Unrivalled
  <2> QED BY <1>0, <2>4, <2>5 DEF UniqueInv, OneAtATime
<1> QED BY <1>1, <1>2, EraseWrites

-----------------------------------------------------------------------------
(* What is left of a subject while only erasures run.                      *)

\* applyEvent is at work for a handler just when its request waits for it.
TrackWorks == \A w \in Workers : track[w].at = "apply" <=> work[w] # Resting

\* A subject was asked to be erased, and only erasures asked since then ran.
Alone(s) == asked[s].open /\ ~asked[s].overlapped
Calm == \E s \in Subjects : Alone(s)

\* What an erasure has read, and what it has done, is still true.
Accurate(e) ==
  LET job == erase[e]
      s == job.subject
  IN
  job.at # "idle" =>
    /\ job.id # Pending => Matching(s) \subseteq {job.id}
    /\ job.id \in Ids => job.id \in Matching(s) \/ Redacted(job.id)
    /\ (job.at = "plan" /\ job.anon = Pending) => job.targets = Pending
    /\ (job.at = "plan" /\ job.anon # Pending) => AnonsOf(s) \subseteq {s.anon, job.anon}
    /\ (job.at = "plan" /\ job.targets # Pending /\ ~job.targets) =>
         events \cap AnonsOf(s) = {}
    /\ job.at = "delete" => AnonsOf(s) \subseteq {job.anon}
    /\ job.at \in {"read", "redact", "audit", "reply"} => events \cap AnonsOf(s) = {}
    /\ job.at \in {"audit", "reply"} => Matching(s) = {}

\* An event left under an anonymous id the subject had can still be found.
Reachable(s) == events \cap asked[s].anons \subseteq AnonsOf(s)

CalmInv ==
  Calm => /\ ~Tracking
          /\ \A e \in Erasers : Accurate(e)
          /\ \A s \in Subjects : Alone(s) => Reachable(s)

Asked == [open : BOOLEAN, overlapped : BOOLEAN, anons : SUBSET Anons]

\* Subjects given by one field, or by an email only.
OneFieldSubjects == \A s \in Subjects : s.user = NoUser \/ s.anon = NoAnon

-----------------------------------------------------------------------------
\* A lookup of a subject given by one field finds one profile at most, and that
\* one is not redacted.
LEMMA OneMatch ==
  ASSUME MarkerIsNobody, OneFieldSubjects, RowsInv, UniqueInv, NEW s \in Subjects
  PROVE  /\ \A i \in Matching(s) : Matching(s) = {i} /\ ~Redacted(i) /\ i \in Stored
         /\ s.anon # NoAnon => AnonsOf(s) = {s.anon}
         /\ \A i \in Matching(s) : AnonsOf(s) = ({s.anon} \ {NoAnon}) \cup {profiles[i].anon}
         /\ Matching(s) = {} => AnonsOf(s) = {s.anon} \ {NoAnon}
<1>0. /\ s.user \in Users \cup {NoUser} /\ s.anon \in Anons \cup {NoAnon}
      /\ s.anon # Tombstone /\ s.user # Tombstone
      /\ s.user = NoUser \/ s.anon = NoAnon
  BY ErasureAssumption DEF SubjectForms, MarkerIsNobody, OneFieldSubjects
<1>1. CASE s.user # NoUser
  <2>1. s.anon = NoAnon /\ s.user \in Users \ {Tombstone} BY <1>0, <1>1
  <2>2. Matching(s) = {i \in Stored : profiles[i].user = s.user} BY <2>1, <1>1 DEF Matching
  <2>3. \A i \in Matching(s) : Matching(s) = {i} /\ ~Redacted(i) /\ i \in Stored
    BY <2>1, <2>2 DEF UniqueInv, UniqueUnlessRedacted, Redacted
  <2> QED BY <2>1, <2>3 DEF AnonsOf
<1>2. CASE s.user = NoUser /\ s.anon # NoAnon
  <2>1. Matching(s) = {i \in Stored : profiles[i].anon = s.anon} BY <1>2 DEF Matching
  <2>2. \A i \in Matching(s) : Matching(s) = {i} /\ ~Redacted(i) /\ i \in Stored
    BY <1>0, <2>1 DEF UniqueInv, UniqueUnlessRedacted, RowsInv, RowsRedactedWhole
  <2>3. AnonsOf(s) = {s.anon} BY <1>2, <2>1 DEF AnonsOf
  <2> QED BY <2>1, <2>2, <2>3, <1>2
<1>3. CASE s.user = NoUser /\ s.anon = NoAnon
  <2>1. Matching(s) = {} BY <1>3 DEF Matching
  <2> QED BY <2>1, <1>3 DEF AnonsOf
<1> QED BY <1>1, <1>2, <1>3

\* When rows are only redacted and events only deleted, what an erasure knows of
\* its subject stays true; when in addition each redacted row has no event left,
\* every event left is still found.
Shrinks ==
  /\ events' \subseteq events
  /\ \A s \in Subjects : Matching(s)' \subseteq Matching(s) /\ AnonsOf(s)' \subseteq AnonsOf(s)
  /\ \A i \in Stored : Redacted(i) => Redacted(i)'
  /\ \A s \in Subjects : \A i \in Matching(s) : i \in Matching(s)' \/ Redacted(i)'
  /\ \A s \in Subjects : events' \cap AnonsOf(s) \subseteq AnonsOf(s)'

LEMMA StillAccurate ==
  ASSUME Shrinks, JobsInv, NEW e \in Erasers, Accurate(e), erase'[e] = erase[e]
  PROVE  Accurate(e)'
<1> DEFINE job == erase[e]
           s == job.subject
<1>1. job.at # "idle" => s \in Subjects BY DEF JobsInv, JobsKnowRows
<1>2. job.id \in Ids => job.id \in Stored BY DEF JobsInv, JobsKnowRows
<1>3. erase'[e] = job OBVIOUS
<1> HIDE DEF job
<1>4. ASSUME job.at # "idle", job.id \in Ids PROVE job.id \in Matching(s)' \/ Redacted(job.id)'
  BY <1>1, <1>2, <1>4 DEF Shrinks, Accurate, job
<1> QED BY <1>1, <1>3, <1>4 DEF Shrinks, Accurate, job

\* A step of an erasure that leaves the tables alone, or deletes events.
LEMMA TablesShrink ==
  ASSUME UNCHANGED profiles, events' \subseteq events
  PROVE  Shrinks /\ \A s : Matching(s)' = Matching(s) /\ AnonsOf(s)' = AnonsOf(s)
<1>1. Stored' = Stored BY DEF Stored
<1>2. \A s : Matching(s)' = Matching(s) /\ AnonsOf(s)' = AnonsOf(s)
  BY <1>1 DEF Matching, AnonsOf
<1>3. \A i \in Stored : Redacted(i)' = Redacted(i) BY DEF Redacted
<1> QED BY <1>2, <1>3 DEF Shrinks

LEMMA RedactionShrinks ==
  ASSUME MarkerIsNobody, RowsInv, NEW i \in Stored, NEW base \in Rows,
         profiles' = [profiles EXCEPT ![i] = RedactProfile(base)], UNCHANGED events,
         Redacted(i) \/ profiles[i].anon \notin events
  PROVE  Shrinks /\ \A s \in Subjects : Matching(s)' = Matching(s) \ {i}
<1> DEFINE row == RedactProfile(base)
<1>1. row # NoRow /\ row.anon = Tombstone /\ row.user = Tombstone BY RedactedRow
<1> HIDE DEF row
<1>2. i \in Ids /\ profiles'[i] = row /\ \A j \in Ids \ {i} : profiles'[j] = profiles[j]
  BY DEF RowsInv, TypeOK, Stored, row
<1>3. Stored' = Stored BY <1>1, <1>2 DEF Stored
<1>4. \A s \in Subjects : s.anon # Tombstone /\ s.user # Tombstone BY DEF MarkerIsNobody
<1>5. \A s \in Subjects : Matching(s)' = Matching(s) \ {i}
  BY <1>1, <1>2, <1>3, <1>4 DEF Matching, Stored
<1>6. \A j \in Stored : j # i => profiles'[j] = profiles[j] BY <1>2 DEF Stored
<1>7. ASSUME NEW s \in Subjects
      PROVE  AnonsOf(s)' \subseteq AnonsOf(s) /\ AnonsOf(s) \subseteq AnonsOf(s)' \cup {profiles[i].anon}
  <2>1. \A j \in Matching(s)' : profiles'[j] = profiles[j] /\ j \in Matching(s)
    BY <1>5, <1>6 DEF Matching
  <2>2. \A j \in Matching(s) : j # i => profiles'[j] = profiles[j] /\ j \in Matching(s)'
    BY <1>5, <1>6 DEF Matching
  <2> QED BY <2>1, <2>2 DEF AnonsOf
<1>8. Redacted(i)' /\ \A j \in Stored : Redacted(j) => Redacted(j)'
  BY <1>1, <1>2, <1>6 DEF Redacted
<1>9. Redacted(i) => \A s \in Subjects : i \notin Matching(s)
  BY <1>4 DEF Matching, Redacted, RowsInv, RowsRedactedWhole
<1>10. ASSUME NEW s \in Subjects PROVE events' \cap AnonsOf(s) \subseteq AnonsOf(s)'
  <2>1. CASE Redacted(i)
    <3>1. Matching(s)' = Matching(s) /\ \A j \in Matching(s) : profiles'[j] = profiles[j]
      BY <1>5, <1>6, <1>9, <2>1 DEF Matching
    <3> QED BY <3>1 DEF AnonsOf
  <2>2. CASE profiles[i].anon \notin events BY <1>7, <2>2
  <2> QED BY <2>1, <2>2
<1> QED BY <1>5, <1>7, <1>8, <1>10 DEF Shrinks

-----------------------------------------------------------------------------
\* What one erasure does while only erasures run.
LEMMA CalmStep ==
  ASSUME CalmInv, JobsInv, Shrinks, UNCHANGED track, NEW e \in Erasers,
         \A d \in Erasers \ {e} : erase'[d] = erase[d],
         Calm => Accurate(e)',
         \A s \in Subjects : Alone(s)' => Alone(s) /\ asked'[s] = asked[s]
  PROVE  CalmInv'
<1> SUFFICES ASSUME Calm' PROVE /\ ~Tracking'
                                /\ \A d \in Erasers : Accurate(d)'
                                /\ \A s \in Subjects : Alone(s)' => Reachable(s)'
  BY DEF CalmInv
<1>1. Calm BY DEF Calm
<1>2. ~Tracking' BY <1>1 DEF CalmInv, Tracking
<1>3. \A d \in Erasers : Accurate(d)'
  BY <1>1, StillAccurate DEF CalmInv
<1>4. ASSUME NEW s \in Subjects, Alone(s)' PROVE Reachable(s)'
  <2>1. Reachable(s) /\ asked'[s] = asked[s] BY <1>1, <1>4 DEF CalmInv
  <2>2. events' \subseteq events /\ events' \cap AnonsOf(s) \subseteq AnonsOf(s)' BY DEF Shrinks
  <2> QED BY <2>1, <2>2 DEF Reachable
<1> QED BY <1>2, <1>3, <1>4

LEMMA AskKeepsCalm ==
  ASSUME CalmInv, JobsInv, TypeOK, asked \in [Subjects -> Asked],
         NEW e \in Erasers, NEW s \in Subjects, AskErasure(e, s)
  PROVE  CalmInv' /\ asked' \in [Subjects -> Asked]
<1> DEFINE new == [open |-> TRUE, anons |-> AnonsOf(s),
                   overlapped |-> Tracking \/ \E d \in Erasers \ {e} : erase[d] # Free]
<1>1. /\ UNCHANGED <<profiles, events, track>>
      /\ erase' = [erase EXCEPT ![e] = [Free EXCEPT !.at = "plan", !.subject = s, !.id = Pending,
                                                  !.anon = Pending, !.targets = Pending]]
      /\ asked' = [asked EXCEPT ![s] = IF @.open THEN @ ELSE new]
  BY DEF AskErasure, Set, trackVars
<1>2. /\ erase'[e].at = "plan" /\ erase'[e].id = Pending /\ erase'[e].anon = Pending
      /\ erase'[e].targets = Pending /\ erase'[e].subject = s
      /\ \A d \in Erasers \ {e} : erase'[d] = erase[d]
  BY <1>1 DEF JobsInv, Free
<1>3. Accurate(e)' BY <1>2, PendingApart DEF Accurate
<1>4. Shrinks /\ Matching(s)' = Matching(s) /\ AnonsOf(s)' = AnonsOf(s) BY <1>1, TablesShrink
<1>5. /\ \A t \in Subjects \ {s} : asked'[t] = asked[t]
      /\ asked'[s] = IF asked[s].open THEN asked[s] ELSE new
  BY <1>1
<1>6. asked' \in [Subjects -> Asked]
  <2>1. AnonsOf(s) \subseteq Anons
    <3>1. s.anon \in Anons \cup {NoAnon} BY ErasureAssumption DEF SubjectForms
    <3>2. \A i \in Matching(s) : profiles[i].anon \in Anons
      BY DEF Matching, Stored, TypeOK, Rows
    <3> QED BY <3>1, <3>2 DEF AnonsOf
  <2> DEFINE o == new.overlapped
  <2>2. o \in BOOLEAN OBVIOUS
  <2>3. new = [open |-> TRUE, anons |-> AnonsOf(s), overlapped |-> o] OBVIOUS
  <2> HIDE DEF o
  <2>4. [open |-> TRUE, anons |-> AnonsOf(s), overlapped |-> o] \in Asked BY <2>1, <2>2 DEF Asked
  <2> HIDE DEF new
  <2> QED BY <1>1, <2>3, <2>4
<1>7. CASE asked[s].open \/ new.overlapped
  <2>1. \A t \in Subjects : Alone(t)' => Alone(t) /\ asked'[t] = asked[t]
    BY <1>5, <1>7 DEF Alone
  <2>2. CalmInv' BY <1>1, <1>2, <1>3, <1>4, <2>1, CalmStep
  <2> QED BY <1>6, <2>2
<1>8. CASE ~asked[s].open /\ ~new.overlapped
  <2>1. ~Tracking /\ \A d \in Erasers \ {e} : erase[d] = Free BY <1>8
  <2>2. ~Tracking' BY <1>1, <2>1 DEF Tracking
  <2>3. \A d \in Erasers \ {e} : Accurate(d)' BY <1>2, <2>1 DEF Accurate, Free
  <2>4. Reachable(s)' BY <1>4, <1>5, <1>8 DEF Reachable
  <2>5. ASSUME NEW t \in Subjects \ {s}, Alone(t)' PROVE Reachable(t)'
    <3>1. Alone(t) /\ asked'[t] = asked[t] BY <1>5, <2>5 DEF Alone
    <3>2. Reachable(t) BY <3>1 DEF CalmInv, Calm
    <3>3. AnonsOf(t)' = AnonsOf(t) BY <1>1, TablesShrink
    <3> QED BY <1>1, <3>1, <3>2, <3>3 DEF Reachable
  <2> QED BY <1>3, <1>6, <2>2, <2>3, <2>4, <2>5 DEF CalmInv
<1> QED BY <1>7, <1>8

\* What the steps below need of the tables.
SubjectsInv == RowsInv /\ JobsInv /\ UniqueInv

\* A step that reads, or deletes events, changes the job of one erasure only.
LEMMA ReadStep ==
  ASSUME CalmInv, JobsInv, UNCHANGED <<profiles, track, asked>>, events' \subseteq events,
         NEW e \in Erasers, NEW job, Set(e, job), Calm => Accurate(e)'
  PROVE  CalmInv'
<1>1. \A d \in Erasers \ {e} : erase'[d] = erase[d] BY DEF Set, JobsInv
<1>2. Shrinks BY TablesShrink
<1>3. \A s \in Subjects : Alone(s)' => Alone(s) /\ asked'[s] = asked[s] BY DEF Alone
<1> QED BY <1>1, <1>2, <1>3, CalmStep

\* What Accurate asks of a job once events are out of the way.
LEMMA AfterEventsAccurate ==
  ASSUME UNCHANGED profiles, JobsInv, events' \subseteq events,
         NEW e \in Erasers, erase[e].at \notin {"idle", "audit", "reply"},
         erase[e].id # Pending, Accurate(e), Set(e, AfterEvents(erase[e])),
         events' \cap AnonsOf(erase[e].subject) = {}
  PROVE  Accurate(e)'
<1> DEFINE job == erase[e]
<1>0. PICK s \in Subjects : s = job.subject BY DEF JobsInv, JobsKnowRows
<1>1. /\ erase'[e] = AfterEvents(job) /\ job \in Job
  BY DEF Set, JobsInv
<1>2. /\ erase'[e].id = job.id /\ erase'[e].subject = s
      /\ erase'[e].at = IF job.id # NoRow THEN "read" ELSE "audit"
  BY <1>0, <1>1, AfterEventsJob
<1>3. Matching(s)' = Matching(s) /\ AnonsOf(s)' = AnonsOf(s) BY TablesShrink
<1>4. /\ Matching(s) \subseteq {job.id}
      /\ job.id \in Ids => job.id \in Matching(s) \/ Redacted(job.id)
  BY <1>0 DEF Accurate
<1>5. job.id = NoRow => Matching(s) = {} BY <1>4, SentinelAssumption DEF Matching, Stored
<1>6. \A i : Redacted(i)' = Redacted(i) BY DEF Redacted
<1>7. events' \cap AnonsOf(s)' = {} BY <1>0, <1>3
<1> HIDE DEF job
<1> QED BY <1>2, <1>3, <1>7, <1>4, <1>5, <1>6 DEF Accurate

LEMMA PlanKeepsCalm ==
  ASSUME MarkerIsNobody, OneFieldSubjects, SubjectsInv, CalmInv, NEW e \in Erasers,
         PlanProfile(e) \/ PlanEventsProfile(e) \/ PlanEvents(e) \/ Execute(e)
  PROVE  CalmInv'
<1> DEFINE job == erase[e]
<1>s. PICK s \in Subjects : s = job.subject
  BY DEF PlanProfile, PlanEventsProfile, PlanEvents, Execute, DeleteLookup, DeleteEvents,
    AnonymizeRead, AnonymizeSave, Audit, SubjectsInv, JobsInv, JobsKnowRows
<1>0. /\ job \in Job /\ job.at = "plan"
      /\ UNCHANGED <<profiles, events, track, asked>>
  BY DEF PlanProfile, PlanEventsProfile, PlanEvents, Execute, trackVars, SubjectsInv, JobsInv,
    JobsKnowRows
<1>1. /\ \A i \in Matching(s) : Matching(s) = {i} /\ ~Redacted(i) /\ i \in Stored
      /\ s.anon # NoAnon => AnonsOf(s) = {s.anon}
      /\ \A i \in Matching(s) : AnonsOf(s) = ({s.anon} \ {NoAnon}) \cup {profiles[i].anon}
      /\ Matching(s) = {} => AnonsOf(s) = {s.anon} \ {NoAnon}
  BY <1>s, <1>0, OneMatch DEF SubjectsInv
<1>2. Matching(s)' = Matching(s) /\ AnonsOf(s)' = AnonsOf(s) BY <1>s, <1>0, TablesShrink
<1>3. \A i : Redacted(i)' = Redacted(i) BY <1>s, <1>0 DEF Redacted
<1>4. JobsInv /\ (Calm => Accurate(e)) BY DEF SubjectsInv, CalmInv
<1>5. CASE PlanProfile(e)
  <2>1. PICK i \in Ids \cup {NoRow} :
          /\ Set(e, [job EXCEPT !.id = i])
          /\ (Matching(s) = {} /\ i = NoRow) \/ i \in Matching(s)
    BY <1>s, <1>1, <1>5 DEF PlanProfile, Stored
  <2>2. /\ erase'[e].id = i /\ erase'[e].at = "plan" /\ erase'[e].subject = s
        /\ erase'[e].anon = job.anon /\ erase'[e].targets = job.targets
    BY <1>s, <1>0, <1>4, <2>1 DEF Set, JobsInv, Job
  <2> HIDE DEF job
  <2>a. Matching(s) \subseteq {i} /\ (i \in Ids => i \in Matching(s))
    BY <1>1, <2>1, SentinelAssumption
  <2>b. Matching(s)' \subseteq {i} /\ (i \in Ids => i \in Matching(s)')
    BY <1>2, <2>a
  <2>3. Calm => Accurate(e)'
    BY <1>s, <1>0, <1>2, <1>4, <2>b, <2>2 DEF Accurate, job
  <2>4. \E new : Set(e, new) BY <2>1
  <2>5. UNCHANGED <<profiles, track, asked>> /\ events' \subseteq events BY <1>0
  <2> QED BY <1>4, <2>3, <2>4, <2>5, ReadStep
<1>6. CASE PlanEventsProfile(e)
  <2>1. PICK a : /\ Set(e, [job EXCEPT !.anon = a])
                 /\ AnonsOf(s) \subseteq {s.anon, a}
    <3>1. Matching(s) = {} => AnonsOf(s) \subseteq {s.anon, NoAnon} BY <1>s, <1>1
    <3>2. \A i \in Matching(s) : AnonsOf(s) \subseteq {s.anon, profiles[i].anon} BY <1>s, <1>1
    <3> QED BY <1>s, <1>6, <3>1, <3>2 DEF PlanEventsProfile
  <2>2. /\ erase'[e].id = job.id /\ erase'[e].at = "plan" /\ erase'[e].subject = s
        /\ erase'[e].anon = a /\ erase'[e].targets = job.targets
    BY <1>s, <1>0, <1>4, <2>1 DEF Set, JobsInv, Job
  <2>3. Calm => job.targets = Pending /\ job.anon = Pending
    BY <1>s, <1>0, <1>4, <1>6 DEF PlanEventsProfile, Accurate
  <2> HIDE DEF job
  <2>4. Calm => Accurate(e)'
    BY <1>s, <1>0, <1>2, <1>3, <1>4, <2>1, <2>2, <2>3 DEF Accurate, job
  <2> QED BY <1>s, <1>0, <1>4, <2>1, <2>4, ReadStep
<1>7. CASE PlanEvents(e)
  <2> DEFINE t == events \cap {job.subject.anon, job.anon} # {}
  <2>0. t \in BOOLEAN /\ t # Pending BY PendingApart
  <2>1. Set(e, [job EXCEPT !.targets = t]) /\ job.anon # Pending BY <1>s, <1>7 DEF PlanEvents
  <2>2. /\ erase'[e].id = job.id /\ erase'[e].at = "plan" /\ erase'[e].subject = s
        /\ erase'[e].anon = job.anon /\ erase'[e].targets = t
    <3> HIDE DEF t
    <3> QED BY <1>s, <1>0, <1>4, <2>0, <2>1 DEF Set, JobsInv, Job
  <2>3. Calm => AnonsOf(s) \subseteq {s.anon, job.anon}
    BY <1>s, <1>0, <1>4, <2>1 DEF Accurate
  <2>4. (Calm /\ ~t) => events' \cap AnonsOf(s)' = {} BY <1>s, <1>0, <1>2, <2>3
  <2> HIDE DEF t, job
  <2>5. Calm => Accurate(e)'
    BY <1>s, <1>0, <1>2, <1>3, <1>4, <2>0, <2>1, <2>2, <2>3, <2>4 DEF Accurate, job
  <2> QED BY <1>s, <1>0, <1>4, <2>1, <2>5, ReadStep
<1>8. CASE Execute(e)
  <2>0. job.id # Pending /\ job.targets # Pending BY <1>s, <1>8 DEF Execute
  <2>1. CASE job.targets /\ Set(e, [job EXCEPT !.at = "lookup"])
    <3>1. /\ erase'[e].id = job.id /\ erase'[e].at = "lookup" /\ erase'[e].subject = s
      BY <1>s, <1>0, <1>4, <2>1 DEF Set, JobsInv, Job
    <3> HIDE DEF job
    <3>2. Calm => Accurate(e)'
      BY <1>s, <1>0, <1>2, <1>3, <1>4, <2>0, <3>1 DEF Accurate, job
    <3> QED BY <1>s, <1>0, <1>4, <2>1, <3>2, ReadStep
  <2>2. CASE ~job.targets /\ Set(e, AfterEvents(job))
    <3>1. Calm => events' \cap AnonsOf(s) = {}
      BY <1>s, <1>0, <1>4, <2>0, <2>2 DEF Accurate
    <3>2. Calm => Accurate(e)'
      BY <1>s, <1>0, <1>4, <2>0, <2>2, <3>1, AfterEventsAccurate
    <3> QED BY <1>s, <1>0, <1>4, <2>2, <3>2, ReadStep
  <2> QED BY <1>s, <1>8, <2>1, <2>2 DEF Execute
<1> QED BY <1>s, <1>5, <1>6, <1>7, <1>8

LEMMA DeleteKeepsCalm ==
  ASSUME MarkerIsNobody, OneFieldSubjects, SubjectsInv, CalmInv, NEW e \in Erasers,
         DeleteLookup(e) \/ DeleteEvents(e)
  PROVE  CalmInv'
<1> DEFINE job == erase[e]
<1>s. PICK s \in Subjects : s = job.subject
  BY DEF PlanProfile, PlanEventsProfile, PlanEvents, Execute, DeleteLookup, DeleteEvents,
    AnonymizeRead, AnonymizeSave, Audit, SubjectsInv, JobsInv, JobsKnowRows
<1>0. /\ job \in Job /\ job.at \in {"lookup", "delete"} /\ job.id # Pending
      /\ UNCHANGED <<profiles, track, asked>> /\ events' \subseteq events
  BY DEF DeleteLookup, DeleteEvents, trackVars, SubjectsInv, JobsInv, JobsKnowRows
<1>1. /\ \A i \in Matching(s) : Matching(s) = {i} /\ ~Redacted(i) /\ i \in Stored
      /\ s.anon # NoAnon => AnonsOf(s) = {s.anon}
      /\ \A i \in Matching(s) : AnonsOf(s) = ({s.anon} \ {NoAnon}) \cup {profiles[i].anon}
      /\ Matching(s) = {} => AnonsOf(s) = {s.anon} \ {NoAnon}
  BY <1>s, <1>0, OneMatch DEF SubjectsInv
<1>2. Matching(s)' = Matching(s) /\ AnonsOf(s)' = AnonsOf(s) BY <1>s, <1>0, TablesShrink
<1>3. \A i : Redacted(i)' = Redacted(i) BY <1>s, <1>0 DEF Redacted
<1>4. JobsInv /\ (Calm => Accurate(e)) BY DEF SubjectsInv, CalmInv
<1>5. CASE DeleteLookup(e)
  <2> DEFINE found == {profiles[i].anon : i \in Matching(s)}
             by == IF s.anon # NoAnon THEN {s.anon} ELSE found
  <2>0. by = AnonsOf(s) BY <1>s, <1>1 DEF AnonsOf
  <2>1. CASE by = {} /\ Set(e, AfterEvents(job))
    <3>1. Calm => Accurate(e)'
      BY <1>s, <1>0, <1>4, <2>0, <2>1, AfterEventsAccurate
    <3> QED BY <1>s, <1>0, <1>4, <2>1, <3>1, ReadStep
  <2>2. ASSUME NEW a \in by, Set(e, [job EXCEPT !.at = "delete", !.anon = a]) PROVE CalmInv'
    <3>1. /\ erase'[e].id = job.id /\ erase'[e].at = "delete" /\ erase'[e].subject = s
          /\ erase'[e].anon = a
      BY <1>s, <1>0, <1>4, <2>2 DEF Set, JobsInv, Job
    <3>2. AnonsOf(s) = {a} BY <1>s, <1>1, <2>0
    <3> HIDE DEF job
    <3>3. Calm => Accurate(e)'
      BY <1>s, <1>0, <1>2, <1>3, <1>4, <3>1, <3>2 DEF Accurate, job
    <3> QED BY <1>s, <1>0, <1>4, <2>2, <3>3, ReadStep
  <2> QED BY <1>s, <1>5, <2>1, <2>2 DEF DeleteLookup
<1>6. CASE DeleteEvents(e)
  <2>1. events' = events \ {job.anon} /\ Set(e, AfterEvents(job)) /\ job.at = "delete"
    BY <1>s, <1>6 DEF DeleteEvents
  <2>2. Calm => events' \cap AnonsOf(s) = {} BY <1>s, <1>4, <2>1 DEF Accurate
  <2>3. Calm => Accurate(e)'
    BY <1>s, <1>0, <1>4, <2>1, <2>2, AfterEventsAccurate
  <2> QED BY <1>s, <1>0, <1>4, <2>1, <2>3, ReadStep
<1> QED BY <1>s, <1>5, <1>6

LEMMA AnonymizeKeepsCalm ==
  ASSUME MarkerIsNobody, OneFieldSubjects, SubjectsInv, CalmInv, NEW e \in Erasers,
         AnonymizeRead(e) \/ AnonymizeSave(e) \/ Audit(e)
  PROVE  CalmInv'
<1> DEFINE job == erase[e]
<1>s. PICK s \in Subjects : s = job.subject
  BY DEF PlanProfile, PlanEventsProfile, PlanEvents, Execute, DeleteLookup, DeleteEvents,
    AnonymizeRead, AnonymizeSave, Audit, SubjectsInv, JobsInv, JobsKnowRows
<1>0. /\ job \in Job /\ job.at # "idle"
      /\ UNCHANGED <<events, track, asked>>
  BY DEF AnonymizeRead, AnonymizeSave, Audit, trackVars, SubjectsInv, JobsInv, JobsKnowRows
<1>1. JobsInv /\ RowsInv /\ (Calm => Accurate(e)) BY DEF SubjectsInv, CalmInv
<1>2. ASSUME AnonymizeRead(e) \/ Audit(e)
      PROVE  CalmInv'
  <2>0. UNCHANGED profiles BY <1>s, <1>2 DEF AnonymizeRead, Audit
  <2>1. Matching(s)' = Matching(s) /\ AnonsOf(s)' = AnonsOf(s) BY <1>s, <1>0, <2>0, TablesShrink
  <2>2. \A i : Redacted(i)' = Redacted(i) BY <1>s, <2>0 DEF Redacted
  <2>3. \/ /\ job.at = "read" /\ Set(e, [job EXCEPT !.at = "redact", !.base = profiles[job.id]])
           /\ erase'[e].at = "redact"
        \/ /\ job.at = "audit" /\ Set(e, [job EXCEPT !.at = "reply"])
           /\ erase'[e].at = "reply"
    BY <1>s, <1>0, <1>1, <1>2 DEF AnonymizeRead, Audit, Set, JobsInv, Job
  <2>4. erase'[e].id = job.id /\ erase'[e].subject = s
    BY <1>s, <1>0, <1>1, <2>3 DEF Set, JobsInv, Job
  <2>5. \E new : Set(e, new) BY <1>s, <2>3
  <2> HIDE DEF job
  <2>6. Calm => Accurate(e)'
    BY <1>s, <1>0, <1>1, <2>1, <2>2, <2>3, <2>4 DEF Accurate, job
  <2> QED BY <1>s, <1>0, <1>1, <2>0, <2>5, <2>6, ReadStep
<1>3. CASE AnonymizeSave(e)
  <2>0. PICK i \in Stored : i = job.id
    BY <1>1, <1>3, PendingApart DEF AnonymizeSave, JobsInv, JobsKnowRows, Job
  <2>1. /\ job.at = "redact" /\ job.base \in Rows
        /\ profiles' = [profiles EXCEPT ![i] = RedactProfile(job.base)]
        /\ Set(e, [job EXCEPT !.at = "audit"])
    BY <2>0, <1>1, <1>3, PendingApart DEF AnonymizeSave, JobsInv, JobsKnowRows, Job
  <2>2. /\ erase'[e].at = "audit" /\ erase'[e].id = i /\ erase'[e].subject = s
        /\ \A d \in Erasers \ {e} : erase'[d] = erase[d]
    BY <1>s, <1>0, <1>1, <2>0, <2>1 DEF Set, JobsInv, Job
  <2>3. CASE ~Calm
    <3>1. ~Calm' BY <1>s, <1>0, <2>3 DEF Calm, Alone
    <3> QED BY <1>s, <3>1 DEF CalmInv
  <2>4. CASE Calm
    <3>1. /\ Matching(s) \subseteq {i}
          /\ i \in Matching(s) \/ Redacted(i)
          /\ events \cap AnonsOf(s) = {}
      <4>1. i \in Ids BY DEF Stored
      <4>2. i # Pending BY <4>1, PendingApart
      <4>3. Accurate(e) /\ job.at = "redact" BY <1>1, <2>1, <2>4
      <4> QED BY <1>s, <2>0, <4>1, <4>2, <4>3 DEF Accurate
    <3>2. Redacted(i) \/ profiles[i].anon \notin events BY <1>s, <3>1 DEF AnonsOf
    <3>3. Shrinks /\ Matching(s)' = Matching(s) \ {i}
      BY <1>s, <1>0, <1>1, <2>0, <2>1, <3>2, RedactionShrinks
    <3>4. AnonsOf(s)' \subseteq AnonsOf(s) /\ Redacted(i)'
      <4>1. RedactProfile(job.base).user = Tombstone BY <1>s, <2>0, <2>1, RedactedRow
      <4>2. i \in Ids /\ profiles' = [profiles EXCEPT ![i] = RedactProfile(job.base)]
        BY <1>s, <2>0, <2>1 DEF Stored
      <4>3. Redacted(i)' BY <1>s, <1>1, <4>1, <4>2 DEF Redacted, RowsInv, TypeOK
      <4> QED BY <1>s, <1>0, <3>3, <4>3 DEF Shrinks
    <3>5. Accurate(e)'
      <4>1. Matching(s)' = {} /\ events' \cap AnonsOf(s)' = {} BY <1>s, <1>0, <3>1, <3>3, <3>4
      <4> HIDE DEF job
      <4> QED BY <1>s, <2>2, <3>4, <4>1 DEF Accurate
    <3>6. \A t \in Subjects : Alone(t)' => Alone(t) /\ asked'[t] = asked[t] BY <1>s, <1>0 DEF Alone
    <3> QED BY <1>s, <1>0, <1>1, <2>2, <3>3, <3>5, <3>6, CalmStep
  <2> QED BY <1>s, <2>3, <2>4
<1> QED BY <1>s, <1>2, <1>3

LEMMA EndKeepsCalm ==
  ASSUME CalmInv, JobsInv, NEW e \in Erasers, asked \in [Subjects -> Asked],
         EraseReply(e) \/ EraseFail(e)
  PROVE  CalmInv' /\ asked' \in [Subjects -> Asked]
<1>1. /\ UNCHANGED <<profiles, events, track>> /\ erase' = [erase EXCEPT ![e] = Free]
      /\ \/ asked' = asked
         \/ asked' = [asked EXCEPT ![erase[e].subject] = NotAsked]
  BY DEF EraseReply, EraseFail, Set, trackVars
<1>2. NotAsked \in Asked /\ ~NotAsked.open BY DEF NotAsked, Asked
<1>3. /\ asked' \in [Subjects -> Asked]
      /\ \A t \in Subjects : asked'[t] = asked[t] \/ asked'[t] = NotAsked
  BY <1>1, <1>2
<1>4. \A t \in Subjects : Alone(t)' => Alone(t) /\ asked'[t] = asked[t]
  BY <1>2, <1>3 DEF Alone
<1>5. /\ erase'[e] = Free /\ \A d \in Erasers \ {e} : erase'[d] = erase[d]
  BY <1>1 DEF JobsInv
<1>6. Accurate(e)' BY <1>5, FreeJob DEF Accurate
<1>7. Shrinks BY <1>1, TablesShrink
<1>8. CalmInv' BY <1>1, <1>4, <1>5, <1>6, <1>7, CalmStep
<1> QED BY <1>3, <1>8

LEMMA EraseKeepsCalm ==
  ASSUME MarkerIsNobody, OneFieldSubjects, SubjectsInv, CalmInv, asked \in [Subjects -> Asked],
         NEW e \in Erasers, EraseStep(e)
  PROVE  CalmInv' /\ asked' \in [Subjects -> Asked]
<1>0. JobsInv /\ TypeOK BY DEF SubjectsInv, RowsInv
<1>1. ASSUME NEW s \in Subjects, AskErasure(e, s) PROVE CalmInv' /\ asked' \in [Subjects -> Asked]
  BY <1>0, <1>1, AskKeepsCalm
<1>2. CASE PlanProfile(e) \/ PlanEventsProfile(e) \/ PlanEvents(e) \/ Execute(e)
  <2>1. asked' = asked BY <1>2 DEF PlanProfile, PlanEventsProfile, PlanEvents, Execute
  <2> QED BY <1>2, <2>1, PlanKeepsCalm
<1>3. CASE DeleteLookup(e) \/ DeleteEvents(e)
  <2>1. asked' = asked BY <1>3 DEF DeleteLookup, DeleteEvents
  <2> QED BY <1>3, <2>1, DeleteKeepsCalm
<1>4. CASE AnonymizeRead(e) \/ AnonymizeSave(e) \/ Audit(e)
  <2>1. asked' = asked BY <1>4 DEF AnonymizeRead, AnonymizeSave, Audit
  <2> QED BY <1>4, <2>1, AnonymizeKeepsCalm
<1>5. CASE EraseReply(e) \/ EraseFail(e) BY <1>0, <1>5, EndKeepsCalm
<1> QED BY <1>1, <1>2, <1>3, <1>4, <1>5 DEF EraseStep

\* A handler's place in its batch and its place in applyEvent go together.
LEMMA IngestKeepsTrackWorks ==
  ASSUME GateTypeOK, WorkTypeOK, TrackWorks, IngestNext
  PROVE  TrackWorks'
<1>0. /\ track \in [Workers -> Track] /\ Quiet.at = "idle" /\ Resting.at = "idle"
      /\ work \in [Workers -> [at : {"idle", "byUser", "byAnon", "save"}, event : Events \cup {NoEvent},
              id : Ids \cup {NoRow}, base : Rows \cup {NoRow}]]
  BY DEF GateTypeOK, WorkTypeOK, Quiet, Resting
\* A step is one of one request at most.
<1>a. ASSUME NEW w \in Workers,
             \A v \in Workers \ {w} : track'[v] = track[v] /\ work'[v] = work[v],
             track'[w].at = "apply" <=> work'[w] # Resting
      PROVE  TrackWorks'
  BY <1>a DEF TrackWorks
<1>1. ASSUME NEW b \in Visitors, SetConsent(b) PROVE TrackWorks'
  BY <1>1 DEF SetConsent, TrackWorks
<1>2. ASSUME NEW w \in Workers, NEW batch \in Batches, Receive(w, batch) PROVE TrackWorks'
  <2>1. /\ work' = work /\ track[w] = Quiet /\ track'[w].at = "check"
        /\ \A v \in Workers \ {w} : track'[v] = track[v]
    BY <1>0, <1>2 DEF Receive
  <2> QED BY <1>0, <1>a, <2>1 DEF TrackWorks
<1>3. ASSUME NEW w \in Workers, Admit(w) \/ Suppress(w) \/ TrackReply(w) PROVE TrackWorks'
  <2>1. work' = work /\ track[w].at = "check"
    BY <1>3 DEF Admit, Suppress, TrackReply, HasNext
  <2>2. /\ track'[w].at # "apply"
        /\ \A v \in Workers \ {w} : track'[v] = track[v]
    <3>1. CASE Admit(w) BY <1>0, <3>1 DEF Admit, Track
    <3>2. CASE Suppress(w) BY <1>0, <2>1, <3>2 DEF Suppress, Track
    <3>3. CASE TrackReply(w) BY <1>0, <3>3 DEF TrackReply, Track
    <3> QED BY <1>3, <3>1, <3>2, <3>3
  <2> QED BY <1>0, <1>a, <2>1, <2>2 DEF TrackWorks
<1>4. ASSUME NEW w \in Workers, Insert(w) PROVE TrackWorks'
  <2>1. /\ track'[w].at = "apply" /\ \A v \in Workers \ {w} : track'[v] = track[v]
    BY <1>0, <1>4 DEF Insert, Track
  <2>2. work'[w] # Resting /\ \A v \in Workers \ {w} : work'[v] = work[v]
    BY <1>0, <1>4 DEF Insert, Begin
  <2> QED BY <1>a, <2>1, <2>2
<1>5. ASSUME NEW w \in Workers, Lookup(w) PROVE TrackWorks'
  <2>1. track' = track /\ work[w] # Resting BY <1>0, <1>5 DEF Lookup, LookupByUser, LookupByAnon
  <2>2. work'[w] # Resting /\ \A v \in Workers \ {w} : work'[v] = work[v]
    <3>1. CASE LookupByUser(w) BY <1>0, <3>1 DEF LookupByUser
    <3>2. CASE LookupByAnon(w) BY <1>0, <3>2 DEF LookupByAnon
    <3> QED BY <1>5, <3>1, <3>2 DEF Lookup
  <2> QED BY <1>a, <2>1, <2>2 DEF TrackWorks
<1>6. ASSUME NEW w \in Workers, Applied(w) PROVE TrackWorks'
  <2>1. /\ track'[w].at = "check" /\ \A v \in Workers \ {w} : track'[v] = track[v]
    BY <1>0, <1>6 DEF Applied, Track
  <2>2. work'[w] = Resting /\ \A v \in Workers \ {w} : work'[v] = work[v]
    BY <1>0, <1>6 DEF Applied, Save
  <2> QED BY <1>a, <2>1, <2>2
<1>7. ASSUME NEW w \in Workers, TrackFail(w) PROVE TrackWorks'
  <2>1. /\ track'[w].at = "idle" /\ \A v \in Workers \ {w} : track'[v] = track[v]
    BY <1>0, <1>7 DEF TrackFail
  <2>2. work'[w] = Resting /\ \A v \in Workers \ {w} : work'[v] = work[v]
    BY <1>0, <1>7 DEF TrackFail, Fail, TrackWorks
  <2> QED BY <1>a, <2>1, <2>2
<1> QED BY <1>1, <1>2, <1>3, <1>4, <1>5, <1>6, <1>7 DEF IngestNext

\* A track request that runs ends the calm; one that does not leaves everything.
LEMMA TrackKeepsCalm ==
  ASSUME CalmInv, TrackWorks, GateTypeOK, WorkTypeOK, TrackStep,
         asked \in [Subjects -> Asked]
  PROVE  CalmInv' /\ asked' \in [Subjects -> Asked]
<1>0. /\ IngestNext /\ UNCHANGED erase
      /\ asked' = [s \in Subjects |->
       IF asked[s].open /\ Tracking' THEN [asked[s] EXCEPT !.overlapped = TRUE] ELSE asked[s]]
  BY DEF TrackStep
<1>1. asked' \in [Subjects -> Asked]
  <2>1. \A s \in Subjects : [asked[s] EXCEPT !.overlapped = TRUE] \in Asked BY DEF Asked
  <2> QED BY <1>0, <2>1
<1>2. ASSUME Calm' PROVE UNCHANGED <<profiles, events, track, asked>> /\ Calm
  <2>1. PICK s \in Subjects : Alone(s)' BY <1>2 DEF Calm
  <2>2. ~Tracking' /\ Alone(s)
    <3>1. asked[s] \in Asked OBVIOUS
    <3>2. CASE asked[s].open /\ Tracking'
      <4>1. asked'[s] = [asked[s] EXCEPT !.overlapped = TRUE] BY <1>0, <3>2
      <4>2. asked'[s].overlapped BY <3>1, <4>1 DEF Asked
      <4> QED BY <2>1, <4>2 DEF Alone
    <3>3. CASE ~(asked[s].open /\ Tracking')
      <4>1. asked'[s] = asked[s] BY <1>0, <3>3
      <4> QED BY <2>1, <3>3, <4>1 DEF Alone
    <3> QED BY <3>2, <3>3
  <2>3. Calm /\ ~Tracking BY <2>2 DEF Calm, CalmInv
  <2>4. \A w \in Workers : track[w] = Quiet /\ track[w].at = "idle" /\ work[w] = Resting
    BY <2>3 DEF Tracking, Quiet, TrackWorks
  <2>5. ASSUME NEW w \in Workers, NEW batch \in Batches PROVE ~Receive(w, batch)
    BY <2>2 DEF Receive, Tracking, Quiet, GateTypeOK
  <2>6. ASSUME NEW w \in Workers
        PROVE  ~(Admit(w) \/ Suppress(w) \/ Insert(w) \/ Lookup(w) \/ Applied(w) \/ TrackReply(w)
                 \/ TrackFail(w))
    <3>1. track[w].at = "idle" /\ work[w].at = "idle" BY <2>4 DEF Resting
    <3>2. ~(Admit(w) \/ Suppress(w) \/ TrackReply(w))
      BY <3>1 DEF Admit, Suppress, HasNext, TrackReply
    <3>3. ~(Insert(w) \/ Applied(w) \/ TrackFail(w)) BY <3>1 DEF Insert, Applied, TrackFail
    <3>4. ~Lookup(w) BY <3>1 DEF Lookup, LookupByUser, LookupByAnon
    <3> QED BY <3>2, <3>3, <3>4
  <2>7. PICK b \in Visitors : SetConsent(b) BY <1>0, <2>5, <2>6 DEF IngestNext
  <2>8. UNCHANGED <<profiles, events, track>> BY <2>7 DEF SetConsent
  <2>9. asked' = asked BY <1>0, <2>2
  <2> QED BY <2>3, <2>8, <2>9
<1>3. CalmInv'
  <2> SUFFICES ASSUME Calm' PROVE CalmInv' BY DEF CalmInv
  <2>1. UNCHANGED <<profiles, events, track, asked, erase>> /\ Calm BY <1>0, <1>2
  <2>2. Stored' = Stored BY <2>1 DEF Stored
  <2>3. \A s : Matching(s)' = Matching(s) BY <2>1, <2>2 DEF Matching
  <2>4. \A s : AnonsOf(s)' = AnonsOf(s) BY <2>1, <2>3 DEF AnonsOf
  <2>5. \A e \in Erasers : Accurate(e)' = Accurate(e)
    BY <2>1, <2>3, <2>4 DEF Accurate, Redacted
  <2>6. \A s \in Subjects : Reachable(s)' = Reachable(s) /\ Alone(s)' = Alone(s)
    BY <2>1, <2>4 DEF Reachable, Alone
  <2>7. Tracking' = Tracking BY <2>1 DEF Tracking
  <2> QED BY <2>1, <2>5, <2>6, <2>7 DEF CalmInv
<1> QED BY <1>1, <1>3

-----------------------------------------------------------------------------
(* The theorems.                                                           *)

\* Together with the gate's invariant, for its types.
RedactionInv == GateInv /\ RowsInv /\ JobsInv

LEMMA RedactionInit == ErasureInit => RedactionInv
<1> SUFFICES ASSUME ErasureInit PROVE RedactionInv OBVIOUS
<1>1. GateInv BY GateInit DEF ErasureInit
<1>2. profiles = [i \in Ids |-> NoRow] /\ work = [w \in Workers |-> Resting]
  BY DEF ErasureInit, IngestInit, SvcInit, Init
<1>3. Stored = {} BY <1>2 DEF Stored
<1>4. TypeOK /\ WorkTypeOK BY <1>2 DEF TypeOK, WorkTypeOK, Resting
<1>5. RowsRedactedWhole /\ WorkKnowsNoMarker
  BY <1>2, <1>3 DEF RowsRedactedWhole, WorkKnowsNoMarker, Resting
<1>6. erase = [e \in Erasers |-> Free] BY DEF ErasureInit
<1>7. JobsInv BY <1>6, FreeJob, PendingApart DEF JobsInv, JobsKnowRows
<1> QED BY <1>1, <1>4, <1>5, <1>7 DEF RedactionInv, RowsInv

LEMMA RedactionStep ==
  ASSUME MarkerIsNobody, RedactionInv, [ErasureNext]_erasureVars
  PROVE  RedactionInv'
<1>0. GateInv /\ GateTypeOK /\ RowsInv /\ JobsInv BY DEF RedactionInv, GateInv
<1>1. CASE TrackStep
  <2>1. GateInv' BY <1>0, <1>1, GateStep DEF TrackStep
  <2>2. UNCHANGED erase BY <1>1 DEF TrackStep
  <2>3. RowsInv' /\ Stored \subseteq Stored'
    <3>1. CASE UNCHANGED <<profiles, work>>
      <4>1. Stored' = Stored BY <3>1 DEF Stored
      <4> QED BY <1>0, <3>1, <4>1
        DEF RowsInv, TypeOK, WorkTypeOK, RowsRedactedWhole, WorkKnowsNoMarker, Redacted
    <3>2. CASE \E w \in Workers : ServiceStep(w) BY <1>0, <3>2, ServiceKeepsRows
    <3> QED BY <1>0, <1>1, <3>1, <3>2, IngestServes DEF TrackStep
  <2>4. JobsInv' BY <1>0, <2>2, <2>3 DEF JobsInv, JobsKnowRows
  <2> QED BY <2>1, <2>3, <2>4 DEF RedactionInv
<1>2. ASSUME NEW e \in Erasers, EraseStep(e) PROVE RedactionInv'
  <2>1. RowsInv' /\ Stored' = Stored BY <1>0, <1>2, EraseKeepsRows
  <2>2. JobsInv' BY <1>0, <1>2, <2>1, EraseKeepsJobs DEF RowsInv
  <2>3. GateInv'
    <3>1. UNCHANGED <<allowed, track, late>> BY <1>0, <1>2, EraseWrites
    <3> QED BY <1>0, <3>1 DEF GateInv, GateTypeOK, LateShutsGate, Current
  <2> QED BY <2>1, <2>2, <2>3 DEF RedactionInv
<1>3. CASE UNCHANGED erasureVars
  <2>1. UNCHANGED <<profiles, work, allowed, track, late, erase>> BY <1>3 DEF erasureVars
  <2>2. Stored' = Stored BY <2>1 DEF Stored
  <2>3. GateInv' BY <1>0, <2>1 DEF GateInv, GateTypeOK, LateShutsGate, Current
  <2>4. RowsInv' BY <1>0, <2>1, <2>2
        DEF RowsInv, TypeOK, WorkTypeOK, RowsRedactedWhole, WorkKnowsNoMarker, Redacted
  <2>5. JobsInv' BY <1>0, <2>1, <2>2 DEF JobsInv, JobsKnowRows
  <2> QED BY <2>3, <2>4, <2>5 DEF RedactionInv
<1> QED BY <1>1, <1>2, <1>3 DEF ErasureNext, EraseStep

\* The only step that takes the redaction off a row.
LEMMA UnredactingStep ==
  ASSUME MarkerIsNobody, RedactionInv, ErasureNext,
         NEW i \in Stored, Redacted(i), ~Redacted(i)'
  PROVE  \E w \in Workers : work[w].id = i /\ work[w].base.user # Tombstone
<1>0. GateTypeOK /\ RowsInv /\ JobsInv BY DEF RedactionInv, GateInv
<1>1. ASSUME NEW e \in Erasers, EraseStep(e) PROVE FALSE BY <1>0, <1>1, EraseKeepsRows
<1>2. TrackStep BY <1>1 DEF ErasureNext, EraseStep
<1>3. PICK w \in Workers : ServiceStep(w)
  <2>1. profiles' # profiles BY DEF Redacted
  <2> QED BY <1>0, <1>2, <2>1, IngestServes DEF TrackStep
<1>4. Save(w)
  <2>1. profiles' # profiles BY DEF Redacted
  <2> QED BY <1>3, <2>1 DEF ServiceStep, Begin, LookupByUser, LookupByAnon, Fail
<1>5. PICK n \in Ids :
        /\ \E row : profiles' = [profiles EXCEPT ![n] = row]
        /\ n \notin Stored \/ work[w].id = n
  BY <1>0, <1>4, SavedRow
<1>6. n = i
  <2> PICK row : profiles' = [profiles EXCEPT ![n] = row]
    BY <1>5
  <2>1. i \in Ids /\ (n # i => profiles'[i] = profiles[i])
    BY <1>0, <1>5 DEF Stored, RowsInv, TypeOK
  <2> QED BY <2>1 DEF Redacted
<1>7. work[w].id = i /\ i # NoRow BY <1>5, <1>6, SentinelAssumption DEF Stored
<1> QED BY <1>0, <1>7 DEF RowsInv, WorkKnowsNoMarker

\* No event finds a redacted profile: one comes back to life only when a handler of
\* /v1/track had read it before it was redacted.  Handlers may run in any order,
\* but nobody posts the redaction marker itself as an id.
THEOREM RedactionLasts ==
  ASSUME MarkerIsNobody
  PROVE  ErasureSpec => OnlyStaleSaveUnredacts
<1>1. ErasureInit => RedactionInv BY RedactionInit
<1>2. RedactionInv /\ [ErasureNext]_erasureVars => RedactionInv' BY RedactionStep
<1>3. RedactionInv /\ [ErasureNext]_erasureVars =>
        [\A i \in Stored : (Redacted(i) /\ ~Redacted(i)') =>
           \E w \in Workers : work[w].id = i /\ work[w].base.user # Tombstone]_erasureVars
  <2> SUFFICES ASSUME RedactionInv, ErasureNext
               PROVE  \A i \in Stored : (Redacted(i) /\ ~Redacted(i)') =>
                        \E w \in Workers : work[w].id = i /\ work[w].base.user # Tombstone
    OBVIOUS
  <2> QED BY UnredactingStep
<1> QED BY <1>1, <1>2, <1>3, PTL DEF ErasureSpec, OnlyStaleSaveUnredacts

\* The inductive invariant.
ErasureInv ==
  /\ RedactionInv /\ UniqueInv /\ TrackWorks
  /\ asked \in [Subjects -> Asked] /\ CalmInv

LEMMA ErasureInitInv == ErasureInit => ErasureInv
<1> SUFFICES ASSUME ErasureInit PROVE ErasureInv OBVIOUS
<1>1. RedactionInv BY RedactionInit
<1>2. /\ profiles = [i \in Ids |-> NoRow] /\ work = [w \in Workers |-> Resting]
      /\ track = [w \in Workers |-> Quiet] /\ asked = [s \in Subjects |-> NotAsked]
  BY DEF ErasureInit, IngestInit, SvcInit, Init
<1>3. UniqueInv
  BY <1>2 DEF UniqueInv, UniqueUnlessRedacted, OneAtATime, Unrivalled, Stored, Resting
<1>4. TrackWorks BY <1>2 DEF TrackWorks, Quiet
<1>5. asked \in [Subjects -> Asked] BY <1>2 DEF NotAsked, Asked
<1>6. CalmInv BY <1>2 DEF CalmInv, Calm, Alone, NotAsked
<1> QED BY <1>1, <1>3, <1>4, <1>5, <1>6 DEF ErasureInv

LEMMA ErasureStepInv ==
  ASSUME MarkerIsNobody, OneFieldSubjects, Serial, ErasureInv, [ErasureNext]_erasureVars
  PROVE  ErasureInv'
<1>0. /\ RedactionInv /\ GateTypeOK /\ RowsInv /\ JobsInv /\ UniqueInv /\ TrackWorks /\ CalmInv
      /\ asked \in [Subjects -> Asked] /\ WorkTypeOK
  BY DEF ErasureInv, RedactionInv, GateInv, RowsInv
<1>1. RedactionInv' BY <1>0, RedactionStep
<1>2. CASE TrackStep
  <2>1. UniqueInv'
    <3>1. CASE UNCHANGED <<profiles, work>>
      <4>1. /\ Stored' = Stored /\ \A u : ByUser(u)' = ByUser(u) /\ \A a : ByAnon(a)' = ByAnon(a)
        BY <3>1 DEF Stored, ByUser, ByAnon
      <4>2. \A w \in Workers : Unrivalled(w)' BY <1>0, <3>1, <4>1 DEF UniqueInv, Unrivalled
      <4> QED BY <1>0, <3>1, <4>1, <4>2 DEF UniqueInv, UniqueUnlessRedacted, OneAtATime
    <3>2. CASE \E w \in Workers : ServiceStep(w) BY <1>0, <3>2, ServiceKeepsUnique
    <3> QED BY <1>0, <1>2, <3>1, <3>2, IngestServes DEF TrackStep
  <2>2. TrackWorks' BY <1>0, <1>2, IngestKeepsTrackWorks DEF TrackStep
  <2>3. CalmInv' /\ asked' \in [Subjects -> Asked] BY <1>0, <1>2, TrackKeepsCalm
  <2> QED BY <1>1, <2>1, <2>2, <2>3 DEF ErasureInv
<1>3. ASSUME NEW e \in Erasers, EraseStep(e) PROVE ErasureInv'
  <2>1. UniqueInv' BY <1>0, <1>3, EraseKeepsUnique
  <2>2. TrackWorks'
    <3>1. UNCHANGED <<track, work>> BY <1>0, <1>3, EraseWrites
    <3> QED BY <1>0, <3>1 DEF TrackWorks
  <2>3. CalmInv' /\ asked' \in [Subjects -> Asked]
    BY <1>0, <1>3, EraseKeepsCalm DEF SubjectsInv
  <2> QED BY <1>1, <2>1, <2>2, <2>3 DEF ErasureInv
<1>4. CASE UNCHANGED erasureVars
  <2>1. UNCHANGED <<profiles, work, events, track, erase, asked>> BY <1>4 DEF erasureVars
  <2>2. /\ Stored' = Stored /\ \A u : ByUser(u)' = ByUser(u) /\ \A a : ByAnon(a)' = ByAnon(a)
    BY <2>1 DEF Stored, ByUser, ByAnon
  <2>3. \A w \in Workers : Unrivalled(w)' BY <1>0, <2>1, <2>2 DEF UniqueInv, Unrivalled
  <2>4. UniqueInv' BY <1>0, <2>1, <2>2, <2>3 DEF UniqueInv, UniqueUnlessRedacted, OneAtATime
  <2>5. TrackWorks' BY <1>0, <2>1 DEF TrackWorks
  <2>6. \A s : Matching(s)' = Matching(s) BY <2>1, <2>2 DEF Matching
  <2>7. \A s : AnonsOf(s)' = AnonsOf(s) BY <2>1, <2>6 DEF AnonsOf
  <2>8. \A e \in Erasers : Accurate(e)' = Accurate(e)
    BY <2>1, <2>6, <2>7 DEF Accurate, Redacted
  <2>9. \A s \in Subjects : Reachable(s)' = Reachable(s) /\ Alone(s)' = Alone(s)
    BY <2>1, <2>7 DEF Reachable, Alone
  <2>10. CalmInv' BY <1>0, <2>1, <2>8, <2>9 DEF CalmInv, Calm, Tracking
  <2> QED BY <1>0, <1>1, <2>1, <2>4, <2>5, <2>10 DEF ErasureInv
<1> QED BY <1>2, <1>3, <1>4 DEF ErasureNext, EraseStep

\* An erasure is complete when it says so, for subjects given by one field and a
\* service that resolves one event at a time: with two fields a subject can have
\* two profiles, of which one is redacted, and so it can when two identifies of a
\* user interleave.
THEOREM ErasureCompletes ==
  ASSUME MarkerIsNobody, OneFieldSubjects, Serial
  PROVE  ErasureSpec => []ErasureIsComplete
<1>1. ErasureInit => ErasureInv BY ErasureInitInv
<1>2. ErasureInv /\ [ErasureNext]_erasureVars => ErasureInv' BY ErasureStepInv
<1>3. ErasureInv => ErasureIsComplete
  <2> SUFFICES ASSUME ErasureInv PROVE ErasureIsComplete OBVIOUS
  <2>1. \A i \in Stored : Redacted(i) =>
          \A k \in PiiKeys : profiles[i].traits[k] \in {Unset, Tombstone}
    BY DEF ErasureInv, RedactionInv, RowsInv, RowsRedactedWhole
  <2>2. ASSUME NEW e \in Erasers, NEW s \in Subjects, s = erase[e].subject,
               erase[e].at = "reply", Alone(s)
        PROVE  Matching(s) = {} /\ events \cap asked[s].anons = {}
    <3>1. Accurate(e) /\ Reachable(s) BY <2>2 DEF ErasureInv, CalmInv, Calm
    <3>2. Matching(s) = {} /\ events \cap AnonsOf(s) = {} BY <2>2, <3>1 DEF Accurate
    <3> QED BY <3>1, <3>2 DEF Reachable
  <2>3. \A e \in Erasers : erase[e].at = "reply" => erase[e].subject \in Subjects
    BY DEF ErasureInv, RedactionInv, JobsInv, JobsKnowRows
  <2> QED BY <2>1, <2>2, <2>3 DEF ErasureIsComplete, Alone
<1> QED BY <1>1, <1>2, <1>3, PTL DEF ErasureSpec
=============================================================================
