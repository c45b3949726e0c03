------------------------------- MODULE Ingest -------------------------------
(***************************************************************************)
(* POST /v1/track (apps/api/src/routes/ingest.ts): a batch of events is    *)
(* walked one by one; each event is checked against the consent gate,      *)
(* inserted into the events table (apps/api/src/ingest-store.ts) and       *)
(* applied to its profile by ProfileService, whose steps are those of the  *)
(* module extended here.  The gate moves under the handler's feet: between *)
(* the statements it awaits, POST /v1/consent may be served.               *)
(*                                                                         *)
(* The events table is the set of anonymous ids that have a stored event:  *)
(* every query of it is by anonymous id, and a second event of the same id *)
(* answers no query differently.  The counters of /health are left out.    *)
(***************************************************************************)
EXTENDS ProfileService, Sequences, Naturals

CONSTANT Batches   \* the sequences of events that clients post

ASSUME BatchesAssumption == Batches \subseteq Seq(Events)

VARIABLES
  allowed,   \* the gate: may analytics be collected for this anonymous id?
  events,    \* the events table
  track,     \* per handler: what it awaits, its batch and its place in it
  late       \* history: events stored by the request of a handler although the
             \* anonymous id had opted out, and not opted in again, meanwhile

ingestVars == <<profiles, work, allowed, events, track, late>>

Quiet == [at |-> "idle", batch |-> <<>>, next |-> 1]

IngestTypeOK ==
  /\ SvcTypeOK
  /\ allowed \in [Anons -> BOOLEAN]
  /\ events \subseteq Anons
  /\ track \in [Workers -> [at : {"idle", "check", "insert", "apply"},
                           batch : Batches \cup {<<>>}, next : Nat \ {0}]]
  /\ \A w \in Workers :
       /\ track[w].next <= Len(track[w].batch) + 1
       /\ track[w].at \in {"insert", "apply"} => track[w].next <= Len(track[w].batch)
       /\ track[w].at = "apply" <=> work[w] # Resting
  /\ late \in [Workers -> [Anons -> Nat]]

\* Analytics is allowed by default.
IngestInit ==
  /\ SvcInit
  /\ allowed = [a \in Anons |-> TRUE]
  /\ events = {}
  /\ track = [w \in Workers |-> Quiet]
  /\ late = [w \in Workers |-> [a \in Anons |-> 0]]

Current(w) == track[w].batch[track[w].next]

\* The devices in use.
Visitors == {a \in Anons : \E batch \in Batches : \E n \in DOMAIN batch : batch[n].anon = a}

\* POST /v1/consent changes the gate.
SetConsent(a) ==
  /\ allowed' = [allowed EXCEPT ![a] = ~@]
  /\ late' = [w \in Workers |-> [late[w] EXCEPT ![a] = 0]]
  /\ UNCHANGED <<profiles, work, events, track>>

\* A batch has been parsed and its write key resolved.
Receive(w, batch) ==
  /\ track[w] = Quiet
  /\ track' = [track EXCEPT ![w] = [at |-> "check", batch |-> batch, next |-> 1]]
  /\ late' = [late EXCEPT ![w] = [a \in Anons |-> 0]]
  /\ UNCHANGED <<profiles, work, allowed, events>>

HasNext(w) == track[w].at = "check" /\ track[w].next <= Len(track[w].batch)

\* Mutant: the gate is asked for the first event of a batch only.
AdmitAfterFirst(w) ==
  /\ HasNext(w)
  /\ allowed[Current(w).anon] \/ track[w].next > 1
  /\ track' = [track EXCEPT ![w].at = "insert"]
  /\ UNCHANGED <<profiles, work, allowed, events, late>>

\* The gate admits the event at hand: its insert is sent.
Admit(w) ==
  /\ HasNext(w)
  /\ allowed[Current(w).anon]
  /\ track' = [track EXCEPT ![w].at = "insert"]
  /\ UNCHANGED <<profiles, work, allowed, events, late>>

\* The gate refuses the event at hand: it is skipped.
Suppress(w) ==
  /\ HasNext(w)
  /\ ~allowed[Current(w).anon]
  /\ track' = [track EXCEPT ![w].next = @ + 1]
  /\ UNCHANGED <<profiles, work, allowed, events, late>>

\* The insert commits and applyEvent is entered.
Insert(w) ==
  LET ev == Current(w) IN
  /\ track[w].at = "insert"
  /\ events' = events \cup {ev.anon}
  /\ late' = IF allowed[ev.anon] THEN late ELSE [late EXCEPT ![w][ev.anon] = @ + 1]
  /\ Begin(w, ev)
  /\ track' = [track EXCEPT ![w].at = "apply"]
  /\ UNCHANGED allowed

\* A lookup of applyEvent answers.
Lookup(w) ==
  /\ LookupByUser(w) \/ LookupByAnon(w)
  /\ UNCHANGED <<allowed, events, track, late>>

\* applyEvent saves the profile; the loop goes on.
Applied(w) ==
  /\ track[w].at = "apply"
  /\ Save(w)
  /\ track' = [track EXCEPT ![w].at = "check", ![w].next = @ + 1]
  /\ UNCHANGED <<allowed, events, late>>

\* The batch is done: 200 with the counts.
TrackReply(w) ==
  /\ track[w].at = "check"
  /\ track[w].next > Len(track[w].batch)
  /\ track' = [track EXCEPT ![w] = Quiet]
  /\ UNCHANGED <<profiles, work, allowed, events, late>>

\* A statement is refused, or the process dies: the rest of the batch is
\* dropped, what was stored stays.  The client may post the batch again.
TrackFail(w) ==
  /\ \/ track[w].at = "insert" /\ UNCHANGED <<profiles, work>>
     \/ track[w].at = "apply" /\ Fail(w)
  /\ track' = [track EXCEPT ![w] = Quiet]
  /\ UNCHANGED <<allowed, events, late>>

IngestNext ==
  \/ \E a \in Visitors : SetConsent(a)
  \/ \E w \in Workers :
       \/ \E batch \in Batches : Receive(w, batch)
       \/ Admit(w) \/ Suppress(w) \/ Insert(w) \/ Lookup(w) \/ Applied(w)
       \/ TrackReply(w) \/ TrackFail(w)

IngestSpec == IngestInit /\ [][IngestNext]_ingestVars

-----------------------------------------------------------------------------
\* "Consent-gating: analytics purpose required before we persist anything": after
\* an opt-out a request stores at most the one event whose check it had passed,
\* however long its batch is.
OptOutStopsTheBatch == \A w \in Workers, a \in Anons : late[w][a] <= 1

=============================================================================
