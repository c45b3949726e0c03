-------------------------------- MODULE Outbox --------------------------------
(***************************************************************************)
(* What every outbound job of the API promises to the one who asked for    *)
(* it, whatever it delivers and to whom: each of its items gets one final  *)
(* outcome, an item reported as delivered was accepted by its receiver, an *)
(* item reported as not sent never reached it, and the answer names all    *)
(* outcomes.  A lenient job promises less: of what it reports as delivered *)
(* some was only redirected, and whether it was accepted is open.  A job   *)
(* may also fail, and then reports nothing.                                *)
(***************************************************************************)
EXTENDS Naturals

CONSTANTS Handlers, MaxItems

VARIABLES
  outcome,   \* per handler and item of its job: the final outcome, or "open"
  accepted,  \* per handler and item: how often the receiver accepted it
  lenient    \* per handler: does its job take a redirect for a delivery

Sent == {"delivered", "redirected", "failed"}
NotSent == {"skipped", "duplicate", "dropped"}
NoItems == <<>>

Init ==
  /\ outcome = [h \in Handlers |-> NoItems]
  /\ accepted = [h \in Handlers |-> NoItems]
  /\ lenient = [h \in Handlers |-> FALSE]

Begin(h) ==
  /\ outcome[h] = NoItems
  /\ \E n \in 1..MaxItems :
       /\ outcome' = [outcome EXCEPT ![h] = [i \in 1..n |-> "open"]]
       /\ accepted' = [accepted EXCEPT ![h] = [i \in 1..n |-> 0]]
  /\ \E kind \in BOOLEAN : lenient' = [lenient EXCEPT ![h] = kind]

\* The receiver takes the item; whether the job learns of it is another matter.
Accept(h) ==
  \E i \in DOMAIN outcome[h] :
    /\ outcome[h][i] = "open"
    /\ accepted' = [accepted EXCEPT ![h][i] = @ + 1]
    /\ UNCHANGED <<outcome, lenient>>

Settle(h) ==
  \E i \in DOMAIN outcome[h], more \in 0..1 :
    /\ outcome[h][i] = "open"
    /\ \/ /\ accepted[h][i] + more > 0
          /\ outcome' = [outcome EXCEPT ![h][i] = "delivered"]
       \/ lenient[h] /\ outcome' = [outcome EXCEPT ![h][i] = "redirected"]
       \/ outcome' = [outcome EXCEPT ![h][i] = "failed"]
       \/ /\ accepted[h][i] + more = 0
          /\ \E o \in NotSent : outcome' = [outcome EXCEPT ![h][i] = o]
    /\ accepted' = [accepted EXCEPT ![h][i] = @ + more]
    /\ UNCHANGED lenient

\* The answer, and the end of a job that fails without one.
Reply(h) ==
  /\ \A i \in DOMAIN outcome[h] : outcome[h][i] # "open"
  /\ outcome' = [outcome EXCEPT ![h] = NoItems]
  /\ accepted' = [accepted EXCEPT ![h] = NoItems]
  /\ lenient' = [lenient EXCEPT ![h] = FALSE]

Fail(h) ==
  /\ \E i \in DOMAIN outcome[h] : outcome[h][i] = "open"
  /\ outcome' = [outcome EXCEPT ![h] = NoItems]
  /\ accepted' = [accepted EXCEPT ![h] = NoItems]
  /\ lenient' = [lenient EXCEPT ![h] = FALSE]

\* The process stops, and every job with it.
Crash ==
  /\ outcome' = [h \in Handlers |-> NoItems]
  /\ accepted' = [h \in Handlers |-> NoItems]
  /\ lenient' = [h \in Handlers |-> FALSE]

Next ==
  \/ \E h \in Handlers : Begin(h) \/ Accept(h) \/ Settle(h) \/ Reply(h) \/ Fail(h)
  \/ Crash

Spec == Init /\ [][Next]_<<outcome, accepted, lenient>>
=============================================================================
