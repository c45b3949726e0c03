------------------------------- MODULE Tracker --------------------------------
(***************************************************************************)
(* The browser tracker (packages/sdk): per page a queue that is handed to  *)
(* sendBeacon or fetch when it is long enough or flushed, and forgotten,   *)
(* while identify() is handed over at once.  The anonymous id is kept in   *)
(* localStorage where the browser has one.                                 *)
(*                                                                         *)
(* Events and ids are numbered as they are made; bodies are left out.      *)
(***************************************************************************)
EXTENDS Naturals, Sequences, FiniteSets

CONSTANTS
  Tabs,
  QueueLimit,     \* flushAt
  MaxSeen,        \* bound: events made
  MaxIds          \* bound: ids made up; later ones share the last number

VARIABLES
  remembers,  \* does localStorage work?
  anonKey,    \* its entry cdp_us_anon, 0 if there is none
  ids,        \* history: anonymous ids made up so far
  seen,       \* history: events made so far
  tab,        \* per tab: its tracker, or no page
  handed,     \* posts handed to the browser
  arrived,    \* history: events the API got, in the order of their arrival
  vanished    \* history: events that will never arrive

trackerVars == <<remembers, anonKey, ids, seen, tab, handed, arrived, vanished>>

NoPage == [id |-> 0, queue |-> <<>>]

TrackerInit ==
  /\ remembers \in BOOLEAN
  /\ anonKey = 0 /\ ids = 0 /\ seen = 0
  /\ tab = [t \in Tabs |-> NoPage]
  /\ handed = {}
  /\ arrived = <<>>
  /\ vanished = {}

Elements(list) == {list[i] : i \in 1..Len(list)}

\* getAnonymousId and an empty queue.
CreateKnown(t) ==
  /\ tab[t] = NoPage /\ remembers /\ anonKey # 0
  /\ tab' = [tab EXCEPT ![t].id = anonKey]
  /\ UNCHANGED <<remembers, anonKey, ids, seen, handed, arrived, vanished>>
CreateUnknown(t) ==
  /\ tab[t] = NoPage /\ ~(remembers /\ anonKey # 0)
  /\ ids' = IF ids < MaxIds THEN ids + 1 ELSE ids
  /\ tab' = [tab EXCEPT ![t].id = ids']
  /\ anonKey' = IF remembers THEN ids' ELSE anonKey
  /\ UNCHANGED <<remembers, seen, handed, arrived, vanished>>

\* The tab goes away, its queue with it.
Unload(t) ==
  /\ tab[t] # NoPage
  /\ tab' = [tab EXCEPT ![t] = NoPage]
  /\ vanished' = vanished \cup Elements(tab[t].queue)
  /\ UNCHANGED <<remembers, anonKey, ids, seen, handed, arrived>>

\* Mutant: the queue that is handed over stays.
SendKept(t, list) ==
  /\ handed' = IF list = <<>> THEN handed ELSE handed \cup {[id |-> tab[t].id, events |-> list]}
  /\ tab' = [tab EXCEPT ![t].queue = list]
\* The queue is drained and sent, unless it is empty.
SendDrained(t, list) ==
  /\ handed' = IF list = <<>> THEN handed ELSE handed \cup {[id |-> tab[t].id, events |-> list]}
  /\ tab' = [tab EXCEPT ![t].queue = <<>>]

Track(t) ==
  /\ tab[t] # NoPage /\ seen < MaxSeen
  /\ seen' = seen + 1
  /\ LET queue == Append(tab[t].queue, seen + 1)
     IN  IF Len(queue) >= QueueLimit THEN SendDrained(t, queue)
         ELSE tab' = [tab EXCEPT ![t].queue = queue] /\ UNCHANGED handed
  /\ UNCHANGED <<remembers, anonKey, ids, arrived, vanished>>

FlushQueue(t) ==
  /\ tab[t] # NoPage
  /\ SendDrained(t, tab[t].queue)
  /\ UNCHANGED <<remembers, anonKey, ids, seen, arrived, vanished>>

\* identify() overtakes what is queued.
Identify(t) ==
  /\ tab[t] # NoPage /\ seen < MaxSeen
  /\ seen' = seen + 1
  /\ handed' = handed \cup {[id |-> tab[t].id, events |-> <<seen + 1>>]}
  /\ UNCHANGED <<remembers, anonKey, ids, tab, arrived, vanished>>

\* sendBeacon and fetch return at once; the post arrives later, in any order.
Arrive(post) ==
  /\ handed' = handed \ {post}
  /\ arrived' = arrived \o post.events
  /\ UNCHANGED <<remembers, anonKey, ids, seen, tab, vanished>>
Miss(post) ==
  /\ handed' = handed \ {post}
  /\ vanished' = vanished \cup Elements(post.events)
  /\ UNCHANGED <<remembers, anonKey, ids, seen, tab, arrived>>

TrackerNext ==
  \/ \E t \in Tabs :
       CreateKnown(t) \/ CreateUnknown(t) \/ Unload(t) \/ Track(t) \/ FlushQueue(t) \/ Identify(t)
  \/ \E post \in handed : Arrive(post) \/ Miss(post)

TrackerSpec == TrackerInit /\ [][TrackerNext]_trackerVars

-----------------------------------------------------------------------------
\* How often an event is in a queue, handed over, arrived or lost.
Copies(n) ==
  Cardinality({t \in Tabs : n \in Elements(tab[t].queue)})
    + Cardinality({post \in handed : n \in Elements(post.events)})
    + Cardinality({i \in 1..Len(arrived) : arrived[i] = n})
    + IF n \in vanished THEN 1 ELSE 0

\* Nothing is repeated, for nothing is retried: an event arrives once or never,
\* whatever the tabs and the network do.  Events of one page may overtake each
\* other on the way only from one post to another, never within one.
NoEventTwice ==
  /\ \A n \in 1..seen : Copies(n) = 1
  /\ \A post \in handed : \A i, j \in 1..Len(post.events) :
       i < j => post.events[i] < post.events[j]
=============================================================================
