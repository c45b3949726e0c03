------------------------------ MODULE NodeClient ------------------------------
(***************************************************************************)
(* CdpServer, the buffering client of the Node SDK                         *)
(* (packages/sdk-node/src/client.ts).  Calls are turns of one event loop;  *)
(* a call that flushes waits for the one flush in flight, which posts the  *)
(* buffer batch by batch, retries, and puts a batch that failed back.      *)
(*                                                                         *)
(* Events are numbered in the order they are tracked, so a list of events  *)
(* also tells their order.  Payloads are left out.                         *)
(***************************************************************************)
EXTENDS Integers, Sequences

CONSTANTS
  Callers,     \* calls that may be waiting at the same time
  FlushAt,     \* buffer length at which track() flushes
  MaxBatch,    \* MAX_BATCH_SIZE
  RetryLimits, \* values given for maxRetries: nothing clamps a negative one
  MaxEvents    \* bound: events tracked in a behaviour

ASSUME ClientAssumption ==
  /\ MaxBatch \in Nat \ {0}
  /\ FlushAt \in 1..MaxBatch     \* clamp
  /\ RetryLimits \subseteq Int
  /\ MaxEvents \in Nat

VARIABLES
  retryLimit, \* this.maxRetries: attempts after the first
  tracked,   \* history: events tracked so far
  acked,     \* history: events whose post was answered below 400
  unposted,  \* history: events of batches sent off without a post
  buffer,    \* this.buffer
  loop,      \* this.inFlight: the flush loop, its batch and attempt
  waiting,   \* per call: the flush it awaits
  open       \* is the interval timer still set?

vars == <<retryLimit, tracked, acked, unposted, buffer, loop, waiting, open>>

\* A loop that has ended stays in flight until its `finally` runs: "settle".
NoLoop == [at |-> "none", batch |-> <<>>, attempt |-> 0, ok |-> TRUE]
Ended(ok) == [at |-> "settle", batch |-> <<>>, attempt |-> 0, ok |-> ok]
Posting(batch) == [at |-> "post", batch |-> batch, attempt |-> 0, ok |-> TRUE]

\* What a call waits for: the events tracked when it was made, and whether the
\* flush it joined had already ended.
Returned == [upto |-> 0, late |-> FALSE, at |-> "returned"]
Awaiting(upto) == [upto |-> upto, late |-> loop.at = "settle", at |-> "awaiting"]

Lists == Seq(Nat \ {0})

\* The type invariant.
TypeOK ==
  /\ retryLimit \in RetryLimits
  /\ tracked \in 0..MaxEvents
  /\ acked \in Nat /\ unposted \in Nat
  /\ buffer \in Lists
  /\ loop \in [at : {"none", "post", "sleep", "settle"}, batch : Lists,
               attempt : Nat, ok : BOOLEAN]
  /\ waiting \in [Callers -> [upto : Nat, late : BOOLEAN, at : {"returned", "awaiting"}]]
  /\ open \in BOOLEAN
  /\ loop.at \in {"post", "sleep"} <=> loop.batch # <<>>
  /\ Len(loop.batch) <= MaxBatch
  /\ loop.attempt > 0 => loop.attempt <= retryLimit

Init ==
  /\ retryLimit \in RetryLimits
  /\ tracked = 0
  /\ acked = 0 /\ unposted = 0
  /\ buffer = <<>>
  /\ loop = NoLoop
  /\ waiting = [c \in Callers |-> Returned]
  /\ open = TRUE

Taken(list) == IF Len(list) < MaxBatch THEN Len(list) ELSE MaxBatch

\* One turn of the loop: the head of the list is spliced off and posted, or the
\* list is empty and the loop ends.
NextBatch(list) ==
  /\ loop' = IF list = <<>> THEN Ended(TRUE) ELSE Posting(SubSeq(list, 1, Taken(list)))
  /\ buffer' = SubSeq(list, Taken(list) + 1, Len(list))

\* flush(): join the flush in flight, or begin one.
JoinFlush(list) ==
  IF loop.at = "none" THEN NextBatch(list) ELSE buffer' = list /\ UNCHANGED loop

\* track() and identify() below the limit return at once.
Enqueue(c) ==
  /\ waiting[c] = Returned /\ tracked < MaxEvents
  /\ Len(buffer) + 1 < FlushAt
  /\ tracked' = tracked + 1
  /\ buffer' = Append(buffer, tracked + 1)
  /\ UNCHANGED <<retryLimit, acked, unposted, loop, waiting, open>>

EnqueueAndFlush(c) ==
  /\ waiting[c] = Returned /\ tracked < MaxEvents
  /\ Len(buffer) + 1 >= FlushAt
  /\ tracked' = tracked + 1
  /\ JoinFlush(Append(buffer, tracked + 1))
  /\ waiting' = [waiting EXCEPT ![c] = Awaiting(tracked + 1)]
  /\ UNCHANGED <<retryLimit, acked, unposted, open>>

Flush(c) ==
  /\ waiting[c] = Returned
  /\ JoinFlush(buffer)
  /\ waiting' = [waiting EXCEPT ![c] = Awaiting(tracked)]
  /\ UNCHANGED <<retryLimit, tracked, acked, unposted, open>>

Close(c) ==
  /\ waiting[c] = Returned
  /\ open' = FALSE
  /\ JoinFlush(buffer)
  /\ waiting' = [waiting EXCEPT ![c] = Awaiting(tracked)]
  /\ UNCHANGED <<retryLimit, tracked, acked, unposted>>

\* The interval timer fires; while a flush is in flight it changes nothing.
Tick ==
  /\ open
  /\ loop.at = "none"
  /\ NextBatch(buffer)
  /\ UNCHANGED <<retryLimit, tracked, acked, unposted, waiting, open>>

\* Mutant: one batch per flush.
PostOkOnce ==
  /\ loop.at = "post" /\ retryLimit >= 0
  /\ acked' = acked + Len(loop.batch)
  /\ loop' = Ended(TRUE)
  /\ UNCHANGED <<retryLimit, tracked, unposted, buffer, waiting, open>>

\* The post is answered below 400; the loop goes on with what is buffered now.
PostOk ==
  /\ loop.at = "post" /\ retryLimit >= 0
  /\ acked' = acked + Len(loop.batch)
  /\ NextBatch(buffer)
  /\ UNCHANGED <<retryLimit, tracked, unposted, waiting, open>>

\* With a negative limit postBatch makes no attempt and returns, and the loop goes on
\* as if the batch had been posted.
PostNothing ==
  /\ loop.at = "post" /\ retryLimit < 0
  /\ unposted' = unposted + Len(loop.batch)
  /\ NextBatch(buffer)
  /\ UNCHANGED <<retryLimit, tracked, acked, waiting, open>>

\* It is answered 5xx or the connection breaks: the batch waits for a retry.
PostRetry ==
  /\ loop.at = "post"
  /\ loop.attempt < retryLimit
  /\ loop' = [loop EXCEPT !.at = "sleep"]
  /\ UNCHANGED <<retryLimit, tracked, acked, unposted, buffer, waiting, open>>

Wake ==
  /\ loop.at = "sleep"
  /\ loop' = [loop EXCEPT !.at = "post", !.attempt = @ + 1]
  /\ UNCHANGED <<retryLimit, tracked, acked, unposted, buffer, waiting, open>>

\* Mutants: the batch goes to the back of the buffer; it is dropped.
PostFailToBack ==
  /\ loop.at = "post" /\ retryLimit >= 0
  /\ buffer' = buffer \o loop.batch
  /\ loop' = Ended(FALSE)
  /\ UNCHANGED <<retryLimit, tracked, acked, unposted, waiting, open>>
PostFailDrops ==
  /\ loop.at = "post" /\ retryLimit >= 0
  /\ loop' = Ended(FALSE)
  /\ UNCHANGED <<retryLimit, tracked, acked, unposted, buffer, waiting, open>>

\* The attempts are used up, or the answer is a 4xx, which is never retried: the
\* batch goes back to the head of the buffer and the flush rejects.
PostFail ==
  /\ loop.at = "post" /\ retryLimit >= 0
  /\ buffer' = loop.batch \o buffer
  /\ loop' = Ended(FALSE)
  /\ UNCHANGED <<retryLimit, tracked, acked, unposted, waiting, open>>

\* `finally` clears the flush in flight; all who awaited it return or reject.
Settle ==
  /\ loop.at = "settle"
  /\ loop' = NoLoop
  /\ waiting' = [c \in Callers |-> Returned]
  /\ UNCHANGED <<retryLimit, tracked, acked, unposted, buffer, open>>

Next ==
  \/ \E c \in Callers : Enqueue(c) \/ EnqueueAndFlush(c) \/ Flush(c) \/ Close(c)
  \/ Tick \/ PostOk \/ PostNothing \/ PostRetry \/ Wake \/ PostFail \/ Settle

\* Timers fire and promises settle; a fetch does, for the runtime times it out.
Fairness ==
  /\ WF_vars(Tick) /\ WF_vars(Wake) /\ WF_vars(Settle)
  /\ WF_vars(PostOk \/ PostNothing \/ PostRetry \/ PostFail)

SafeSpec == Init /\ [][Next]_vars
Spec == SafeSpec /\ Fairness

-----------------------------------------------------------------------------
\* What is acknowledged, in the batch and in the buffer are, in this order, all
\* events tracked: none is lost, none is posted again after its answer, and none
\* overtakes another, whatever failed.  Only a negative limit loses events, and then
\* the first ones.
NothingLostNorReordered ==
  LET pending == loop.batch \o buffer
      gone == acked + unposted
  IN
  /\ gone + Len(pending) = tracked
  /\ \A i \in 1..Len(pending) : pending[i] = gone + i
  /\ unposted > 0 => retryLimit < 0

\* A call that awaited a flush which had not ended when the call was made, and
\* did not reject, leaves no event behind that was tracked before the call, unless
\* the limit is negative.
FlushDelivers ==
  [][\A c \in Callers :
       (/\ waiting[c].at = "awaiting" /\ ~waiting[c].late /\ retryLimit >= 0
        /\ Settle /\ loop.ok)
         => acked >= waiting[c].upto]_vars

\* "No loss of data on close(): send the rest of the buffer": the same for every
\* call, those that joined a flush which had ended included.
CloseDelivers ==
  [][\A c \in Callers :
       (waiting[c].at = "awaiting" /\ Settle /\ loop.ok) => acked >= waiting[c].upto]_vars

\* A service that is asked again and again answers below 400 at last.
ServiceRecovers == SF_vars(PostOk)

\* If so, and posts are made at all, every event tracked while the timer stays set is
\* delivered in the end, also the events put back by flushes that failed.  Every call
\* returns or rejects, even when the service never recovers.
DeliveredInTheEnd ==
  /\ ServiceRecovers =>
       \A n \in 1..MaxEvents :
         (tracked >= n /\ retryLimit >= 0) ~> (acked >= n \/ ~open)
  /\ \A c \in Callers : waiting[c].at = "awaiting" ~> waiting[c].at = "returned"
=============================================================================
