------------------------------ MODULE ConsentSdk ------------------------------
(***************************************************************************)
(* The consent manager of packages/consent-sdk in the pages of one         *)
(* visitor: the choice kept in localStorage with a cookie as the fallback, *)
(* the banner and the preference center, the GPC signal of the browser,    *)
(* and the post to POST /v1/consent that nobody waits for.                 *)
(*                                                                         *)
(* Subjects are numbered as they are made up.  Layout, labels, focus and   *)
(* the source of a choice are left out, and so are foreign stored values.  *)
(***************************************************************************)
EXTENDS Naturals, FiniteSets

CONSTANTS
  Pages,         \* tabs
  FormChoices,   \* what a visitor may tick: subset of SUBSET Purposes
  MaxVisits,     \* bound: subjects made up
  MaxChanges     \* bound: choices made

Purposes == {"analytics", "marketing_email", "sale_or_share", "messaging_tcpa"}

ASSUME FormAssumption == FormChoices \subseteq SUBSET Purposes

VARIABLES
  storage,   \* localStorage: "works", "full" (reads only), "blocked" (throws)
  local,     \* its entry under persistKey
  cookie,    \* the cookie of that name
  signal,    \* navigator.globalPrivacyControl
  subjects,  \* history: subjects made up so far
  changes,   \* history: choices made so far
  page,      \* per tab: the manager and its widget
  posts,     \* consent posts on their way
  recorded,  \* subjects whose choice the API recorded
  refusals,  \* history: subjects of whom the API got a choice and answered 400
  last       \* history: the latest choice, and whether a reload must find it

consentSdkVars ==
  <<storage, local, cookie, signal, subjects, changes, page, posts, recorded, refusals, last>>

Nothing == [subject |-> 0]

\* A ConsentState: the purposes that are true, and gpc.
WithGpc(s) == IF s.gpc THEN [s EXCEPT !.allowed = @ \ {"sale_or_share"}] ELSE s
DefaultConsent(gpc) == WithGpc([allowed |-> {"analytics"}, gpc |-> gpc])
AcceptAllConsent(gpc) == WithGpc([allowed |-> Purposes, gpc |-> gpc])
RejectNonEssentialConsent(gpc) == WithGpc([allowed |-> {"analytics"}, gpc |-> gpc])
IsAllowed(s, purpose) == purpose \in s.allowed /\ ~(purpose = "sale_or_share" /\ s.gpc)

Closed == [widget |-> "closed"]

ConsentSdkInit ==
  /\ storage \in {"works", "blocked"}
  /\ local = Nothing /\ cookie = Nothing
  /\ signal \in BOOLEAN
  /\ subjects = 0 /\ changes = 0
  /\ page = [p \in Pages |-> Closed]
  /\ posts = {} /\ recorded = {} /\ refusals = {}
  /\ last = Nothing

ReadLocal == IF storage = "blocked" THEN Nothing ELSE local
ReadCookie == cookie

\* Mutant: the stored gpc is kept.
LoadStoredGpc(gpc) ==
  LET found == IF ReadLocal # Nothing THEN ReadLocal ELSE ReadCookie
  IN  found
LoadStoredConsent(gpc) ==
  LET found == IF ReadLocal # Nothing THEN ReadLocal ELSE ReadCookie
  IN  IF found = Nothing THEN Nothing
      ELSE [found EXCEPT !.state = WithGpc([found.state EXCEPT !.gpc = gpc])]

Page(subject, state, widget) ==
  [subject |-> subject, state |-> state, gpc |-> signal, widget |-> widget]

\* A page is loaded and creates its manager: with the stored choice, or with a new
\* subject, the default and the banner.
CreateStored(p) ==
  /\ page[p] = Closed
  /\ LoadStoredConsent(signal) # Nothing
  /\ page' = [page EXCEPT ![p] = Page(LoadStoredConsent(signal).subject,
                                      LoadStoredConsent(signal).state, "none")]
  /\ UNCHANGED <<storage, local, cookie, signal, subjects, changes, posts, recorded, refusals, last>>
CreateInitial(p) ==
  /\ page[p] = Closed /\ subjects < MaxVisits
  /\ LoadStoredConsent(signal) = Nothing
  /\ subjects' = subjects + 1
  /\ page' = [page EXCEPT ![p] = Page(subjects + 1, DefaultConsent(signal), "banner")]
  /\ UNCHANGED <<storage, local, cookie, signal, changes, posts, recorded, refusals, last>>

ClosePage(p) ==
  /\ page[p] # Closed
  /\ page' = [page EXCEPT ![p] = Closed]
  /\ UNCHANGED <<storage, local, cookie, signal, subjects, changes, posts, recorded, refusals, last>>

OpenPreferences(p) ==
  /\ page[p].widget \in {"none", "banner"}
  /\ page' = [page EXCEPT ![p].widget = "preferences"]
  /\ UNCHANGED <<storage, local, cookie, signal, subjects, changes, posts, recorded, refusals, last>>

DestroyWidget(p) ==
  /\ page[p].widget \in {"banner", "preferences"}
  /\ page' = [page EXCEPT ![p].widget = "none"]
  /\ UNCHANGED <<storage, local, cookie, signal, subjects, changes, posts, recorded, refusals, last>>

\* localStorage and the cookie are written, a failure of the first is swallowed.
SaveStoredConsent(change) ==
  /\ local' = IF storage = "works" THEN [subject |-> change.subject, state |-> change.state] ELSE local
  /\ cookie' = [subject |-> change.subject, state |-> change.state]
  /\ last' = [subject |-> change.subject, state |-> change.state,
              kept |-> storage = "full" => local = Nothing]

SyncConsent(change) == posts' = posts \cup {change}

Commit(p, next) ==
  /\ changes < MaxChanges
  /\ changes' = changes + 1
  /\ LET state == WithGpc([next EXCEPT !.gpc = page[p].gpc])
         change == [subject |-> page[p].subject, state |-> state]
     IN  /\ page' = [page EXCEPT ![p].state = state, ![p].widget = "none"]
         /\ SaveStoredConsent(change)
         /\ SyncConsent(change)
  /\ UNCHANGED <<storage, signal, subjects, recorded, refusals>>

\* The buttons of the banner, which a page may also call without it.
AcceptAll(p) == page[p] # Closed /\ Commit(p, AcceptAllConsent(page[p].gpc))
RejectNonEssential(p) ==
  page[p] # Closed /\ Commit(p, RejectNonEssentialConsent(page[p].gpc))

\* The form leaves out the disabled box of sale_or_share, and takes gpc from it.
ReadForm(p, ticked) ==
  WithGpc([allowed |-> IF page[p].state.gpc THEN ticked \ {"sale_or_share"} ELSE ticked,
           gpc |-> page[p].state.gpc])
SavePreferences(p, ticked) ==
  page[p].widget = "preferences" /\ Commit(p, ReadForm(p, ticked))

\* The browser: localStorage fills up, the visitor switches GPC on or off.
FillStorage ==
  /\ storage = "works"
  /\ storage' = "full"
  /\ UNCHANGED <<local, cookie, signal, subjects, changes, page, posts, recorded, refusals, last>>
SwitchSignal ==
  /\ signal' = ~signal
  /\ UNCHANGED <<storage, local, cookie, subjects, changes, page, posts, recorded, refusals, last>>

\* What consentSchema asks for.
Parses(body) == {"writeKey", "subject"} \subseteq DOMAIN body

\* The post arrives; a body that does not parse is answered 400.
Receive(post) ==
  /\ posts' = posts \ {post}
  /\ recorded' = IF Parses(post) THEN recorded \cup {post.subject} ELSE recorded
  /\ refusals' = IF Parses(post) THEN refusals ELSE refusals \cup {post.subject}
  /\ UNCHANGED <<storage, local, cookie, signal, subjects, changes, page, last>>

\* It does not; the rejection is swallowed.
PostLost(post) ==
  /\ posts' = posts \ {post}
  /\ UNCHANGED <<storage, local, cookie, signal, subjects, changes, page, recorded, refusals, last>>

ConsentSdkNext ==
  \/ \E p \in Pages :
       CreateStored(p) \/ CreateInitial(p) \/ ClosePage(p) \/ OpenPreferences(p) \/ DestroyWidget(p)
         \/ AcceptAll(p) \/ RejectNonEssential(p)
  \/ \E p \in Pages, ticked \in FormChoices : SavePreferences(p, ticked)
  \/ FillStorage \/ SwitchSignal
  \/ \E post \in posts : Receive(post) \/ PostLost(post)

ConsentSdkSpec == ConsentSdkInit /\ [][ConsentSdkNext]_consentSdkVars

-----------------------------------------------------------------------------
\* A page loaded after a choice shows that choice under its subject, only stripped
\* of the sale under GPC, whichever tab it was made in; unless localStorage was
\* full and held an older choice, which comes back.  The signal at load or at the
\* choice denies the sale, and nothing but a choice allows it again.
ChoiceOutlivesThePage ==
  [][\A p \in Pages :
       (page[p] = Closed /\ page'[p] # Closed /\ last # Nothing /\ last.kept) =>
         /\ page'[p].subject = last.subject
         /\ \A purpose \in Purposes :
              IsAllowed(page'[p].state, purpose) <=>
                (IsAllowed(last.state, purpose) /\ ~(purpose = "sale_or_share" /\ signal))
    ]_consentSdkVars

\* "The on-site consent SDK posts a subject's banner choice", and the route records
\* it: no choice the API gets is refused.
ConsentIsRecorded == refusals = {}
=============================================================================
