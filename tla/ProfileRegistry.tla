--------------------------- MODULE ProfileRegistry ---------------------------
(***************************************************************************)
(* What ProfileService.applyEvent promises its callers: one event resolves *)
(* a profile and merges into it, in one indivisible step.  The store is    *)
(* that of one tenant; every lookup of the code is scoped to the tenant.   *)
(*                                                                         *)
(* Traits stand for every map the service accumulates on a profile: the    *)
(* traits themselves, the intent topics and the firmographics lifted from  *)
(* the traits are all merged key by key, the incoming value winning.       *)
(***************************************************************************)
CONSTANTS
  Ids,      \* profile ids, drawn at random by the code: any unused one
  Anons,    \* anonymous ids
  Users,    \* user ids
  Keys,     \* trait keys
  Values,   \* trait values
  NoUser,   \* userId undefined
  EmptyUser,  \* userId "", which the schema lets through
  Unset,    \* key absent from the traits
  NoRow     \* no profile with this id

TraitMaps == [Keys -> Values \cup {Unset}]
NoTraits == [k \in Keys |-> Unset]

UserFields == Users \cup {NoUser, EmptyUser}

Rows == [anon : Anons, user : UserFields, traits : TraitMaps]

\* A track event carries neither user nor traits; identify may carry both.
Events ==
  [type : {"track"}, anon : Anons, user : {NoUser}, traits : {NoTraits}]
  \cup [type : {"identify"}, anon : Anons, user : UserFields, traits : TraitMaps]

ASSUME SentinelAssumption ==
  /\ NoUser \notin Users /\ EmptyUser \notin Users /\ NoUser # EmptyUser
  /\ Unset \notin Values /\ NoRow \notin Rows /\ NoRow \notin Ids

VARIABLE profiles   \* the table: a row or NoRow per id

TypeOK == profiles \in [Ids -> Rows \cup {NoRow}]

Init == profiles = [i \in Ids |-> NoRow]

Stored == {i \in Ids : profiles[i] # NoRow}
ByUser(u) == {i \in Stored : profiles[i].user = u}
ByAnon(a) == {i \in Stored : profiles[i].anon = a}

\* The profiles an event may resolve to: a known user first, then the anonymous
\* id; `if (userId)` skips an empty user id too.  A lookup that matches several
\* rows returns any one of them.
Resolved(ev) ==
  IF ev.user \in Users /\ ByUser(ev.user) # {} THEN ByUser(ev.user) ELSE ByAnon(ev.anon)

NewProfile(ev) == [anon |-> ev.anon, user |-> ev.user, traits |-> NoTraits]

\* Mutant: the incoming map replaces the stored one.
ReplaceTraits(old, new) == new

MergeTraits(old, new) == [k \in Keys |-> IF new[k] = Unset THEN old[k] ELSE new[k]]

\* Mutant: userId without its `?? base.userId`.
MergedWithoutFallback(base, ev) ==
  [anon |-> base.anon, user |-> ev.user, traits |-> MergeTraits(base.traits, ev.traits)]

\* The row written back: the first anonymous id stays; a user id the event
\* gives, the empty one included, replaces the one there.
Merged(base, ev) ==
  [anon   |-> base.anon,
   user   |-> IF ev.user = NoUser THEN base.user ELSE ev.user,
   traits |-> MergeTraits(base.traits, ev.traits)]

Create(ev) ==
  /\ Resolved(ev) = {}
  /\ \E i \in Ids \ Stored :
       profiles' = [profiles EXCEPT ![i] = Merged(NewProfile(ev), ev)]

Update(ev) ==
  \E i \in Resolved(ev) :
    profiles' = [profiles EXCEPT ![i] = Merged(profiles[i], ev)]

ApplyEvent(ev) == Create(ev) \/ Update(ev)

Next == \E ev \in Events : ApplyEvent(ev)

Spec == Init /\ [][Next]_profiles

-----------------------------------------------------------------------------
\* At most one profile answers for an anonymous id, and at most one for a user.
UniqueIdentity ==
  \A i, j \in Stored :
    i # j => /\ profiles[i].anon # profiles[j].anon
             /\ profiles[i].user = profiles[j].user => profiles[i].user \notin Users

\* A step never removes a profile, never changes the anonymous id it was created
\* for, and never drops a trait it has.
OnlyAccumulates ==
  \A i \in Stored :
    /\ profiles'[i] # NoRow
    /\ profiles'[i].anon = profiles[i].anon
    /\ \A k \in Keys : profiles[i].traits[k] # Unset => profiles'[i].traits[k] # Unset

=============================================================================
