----------------------------- MODULE Clients_proofs -----------------------------
(***************************************************************************)
(* The clients that send events.  The Node client keeps every event, in    *)
(* order, for any batch size, any number of retries and any number of      *)
(* concurrent calls; the blocking clients of the other servers keep the    *)
(* order too, and lose events only where the source shows it; the browser  *)
(* tracker, which never retries, repeats none.                             *)
(***************************************************************************)
EXTENDS NodeClient, ServerSdks, Tracker, SequenceTheorems, FiniteSetTheorems, TLAPS

-----------------------------------------------------------------------------
(* Lists.                                                                  *)

\* A list is the run of the events a+1, a+2, ...
Run(list, a) == \A i \in 1..Len(list) : list[i] = a + i

LEMMA AppendRun ==
  ASSUME NEW list \in Lists, NEW a \in Nat, Run(list, a)
  PROVE  LET longer == Append(list, a + Len(list) + 1) IN
         /\ longer \in Lists /\ Len(longer) = Len(list) + 1 /\ Run(longer, a)
BY DEF Lists, Run

LEMMA ConcatRun ==
  ASSUME NEW head \in Lists, NEW tail \in Lists, NEW a \in Nat,
         Run(head, a), Run(tail, a + Len(head))
  PROVE  LET both == head \o tail IN
         /\ both \in Lists /\ Len(both) = Len(head) + Len(tail) /\ Run(both, a)
BY DEF Lists, Run

LEMMA TakenBounds ==
  ASSUME NEW list \in Lists, list # <<>>
  PROVE  Taken(list) \in 1..Len(list) /\ Taken(list) <= MaxBatch
BY ClientAssumption DEF Lists, Taken

\* The head spliced off and what remains are runs that follow one another.
LEMMA SpliceRun ==
  ASSUME NEW list \in Lists, NEW a \in Nat, Run(list, a), list # <<>>
  PROVE  LET head == SubSeq(list, 1, Taken(list))
             tail == SubSeq(list, Taken(list) + 1, Len(list)) IN
         /\ head \in Lists /\ Len(head) = Taken(list) /\ head # <<>>
         /\ tail \in Lists /\ Len(tail) = Len(list) - Taken(list)
         /\ Run(head, a) /\ Run(tail, a + Len(head))
<1>1. Taken(list) \in 1..Len(list) BY TakenBounds
<1> DEFINE n == Taken(list)
<1> HIDE DEF n
<1>2. n \in 1..Len(list) BY <1>1 DEF n
<1>3. /\ SubSeq(list, 1, n) \in Lists /\ Len(SubSeq(list, 1, n)) = n
      /\ \A i \in 1..n : SubSeq(list, 1, n)[i] = list[i]
  BY <1>2 DEF Lists
<1>4. /\ SubSeq(list, n + 1, Len(list)) \in Lists
      /\ Len(SubSeq(list, n + 1, Len(list))) = Len(list) - n
      /\ \A i \in 1..Len(list) - n : SubSeq(list, n + 1, Len(list))[i] = list[n + i]
  BY <1>2 DEF Lists
<1>5. SubSeq(list, 1, n) # <<>> BY <1>2, <1>3
<1>6. Run(SubSeq(list, 1, n), a) BY <1>2, <1>3 DEF Run, Lists
<1>7. Run(SubSeq(list, n + 1, Len(list)), a + n) BY <1>2, <1>4 DEF Run, Lists
<1> QED BY <1>2, <1>3, <1>4, <1>5, <1>6, <1>7 DEF n

-----------------------------------------------------------------------------
(* The inductive invariant.                                                *)

\* How many events the client holds no longer.
Behind == acked + unposted

\* The batch and the buffer continue what it holds no longer.
InOrder ==
  /\ Behind + Len(loop.batch) + Len(buffer) = tracked
  /\ Run(loop.batch, Behind)
  /\ Run(buffer, Behind + Len(loop.batch))

\* A call awaits a flush in flight; once that has ended well, all a call waited
\* for that joined it in time is acknowledged.
WaitersServed ==
  \A c \in Callers :
    waiting[c].at = "awaiting" =>
      /\ waiting[c].upto <= tracked
      /\ loop.at # "none"
      /\ (loop.at = "settle" /\ loop.ok /\ ~waiting[c].late) => waiting[c].upto <= Behind

\* A retry is left whenever the loop sleeps.
RetriesLeft == loop.at = "sleep" => loop.attempt < retryLimit

\* Only a negative limit lets a batch go without a post.
PostsMade == unposted > 0 => retryLimit < 0

IInv == TypeOK /\ InOrder /\ WaitersServed /\ RetriesLeft /\ PostsMade

\* What the steps below know of the counters.
LEMMA Counted ==
  ASSUME IInv
  PROVE  /\ acked \in Nat /\ unposted \in Nat /\ tracked \in Nat /\ Behind \in Nat
         /\ buffer \in Lists /\ loop.batch \in Lists
         /\ Len(buffer) \in Nat /\ Len(loop.batch) \in Nat
         /\ Behind + Len(loop.batch) \in Nat
         /\ Behind + Len(loop.batch) + Len(buffer) = tracked
         /\ Run(loop.batch, Behind) /\ Run(buffer, Behind + Len(loop.batch))
<1>1. /\ acked \in Nat /\ unposted \in Nat /\ buffer \in Lists /\ loop.batch \in Lists
      /\ tracked \in 0..MaxEvents
  BY DEF IInv, TypeOK
<1>2. tracked \in Nat BY <1>1, ClientAssumption
<1>3. Behind \in Nat BY <1>1 DEF Behind
<1>4. Len(buffer) \in Nat /\ Len(loop.batch) \in Nat BY <1>1 DEF Lists
<1> QED BY <1>1, <1>2, <1>3, <1>4 DEF IInv, InOrder

LEMMA InitEstablishes == Init => IInv
<1> SUFFICES ASSUME Init PROVE IInv
  OBVIOUS
<1>1. Behind = 0 BY DEF Init, Behind
<1> QED BY <1>1, ClientAssumption DEF Init, NoLoop, Returned, IInv, TypeOK, InOrder,
   WaitersServed, RetriesLeft, PostsMade, Lists, Run

\* One turn of the loop, from a list that continues what the client holds no longer.
LEMMA NextBatchKeeps ==
  ASSUME NEW list \in Lists, NEW a \in Nat, NEW t \in Nat,
         Run(list, a), a + Len(list) = t, NextBatch(list)
  PROVE  /\ buffer' \in Lists /\ loop'.batch \in Lists
         /\ loop' \in [at : {"none", "post", "sleep", "settle"}, batch : Lists,
                       attempt : Nat, ok : BOOLEAN]
         /\ loop'.at \in {"post", "settle"} /\ loop'.attempt = 0
         /\ loop'.at = "post" <=> loop'.batch # <<>>
         /\ Len(loop'.batch) <= MaxBatch
         /\ a + Len(loop'.batch) + Len(buffer') = t
         /\ Run(loop'.batch, a) /\ Run(buffer', a + Len(loop'.batch))
         /\ loop'.at = "settle" => a = t
<1>1. CASE list = <<>>
  <2>1. loop' = Ended(TRUE) /\ Len(list) = 0 BY <1>1 DEF NextBatch
  <2>2. buffer' = <<>> BY <1>1, ClientAssumption DEF NextBatch, Taken
  <2> QED BY <2>1, <2>2, ClientAssumption DEF Ended, Run, Lists
<1>2. CASE list # <<>>
  <2> DEFINE head == SubSeq(list, 1, Taken(list))
             tail == SubSeq(list, Taken(list) + 1, Len(list))
  <2>1. /\ head \in Lists /\ Len(head) = Taken(list) /\ head # <<>>
        /\ tail \in Lists /\ Len(tail) = Len(list) - Taken(list)
        /\ Run(head, a) /\ Run(tail, a + Len(head))
    BY <1>2, SpliceRun
  <2>2. loop' = Posting(head) /\ buffer' = tail BY <1>2 DEF NextBatch
  <2>3. Taken(list) \in 1..Len(list) /\ Taken(list) <= MaxBatch BY <1>2, TakenBounds
  <2>4. Len(list) \in Nat BY DEF Lists
  <2> HIDE DEF head, tail
  <2> QED BY <2>1, <2>2, <2>3, <2>4, ClientAssumption DEF Posting
<1> QED BY <1>1, <1>2

-----------------------------------------------------------------------------
(* Every step preserves it.                                                *)

\* The steps that post nothing and lose nothing.
LEMMA SameBehind ==
  ASSUME IInv, acked' = acked, unposted' = unposted, retryLimit' = retryLimit
  PROVE  /\ Behind' = Behind /\ PostsMade'
         /\ acked' \in Nat /\ unposted' \in Nat /\ retryLimit' \in RetryLimits
BY DEF IInv, TypeOK, PostsMade, Behind

LEMMA EnqueueStep ==
  ASSUME IInv, NEW c \in Callers, Enqueue(c)
  PROVE  IInv'
<1> DEFINE a == Behind + Len(loop.batch)
<1>1. /\ a \in Nat /\ buffer \in Lists /\ Run(buffer, a) /\ Len(buffer) \in Nat
      /\ tracked + 1 = a + Len(buffer) + 1
  BY Counted
<1>2. buffer' = Append(buffer, a + Len(buffer) + 1)
  BY <1>1 DEF Enqueue
<1>3. /\ UNCHANGED <<retryLimit, acked, unposted, loop, waiting, open>>
      /\ tracked' = tracked + 1 /\ tracked < MaxEvents
  BY DEF Enqueue
<1>4. Behind' = Behind /\ PostsMade' BY <1>3, SameBehind
<1> HIDE DEF a
<1>5. buffer' \in Lists /\ Len(buffer') = Len(buffer) + 1 /\ Run(buffer', a)
  BY <1>1, <1>2, AppendRun
<1>6. TypeOK' BY <1>3, <1>5, ClientAssumption DEF IInv, TypeOK
<1>7. InOrder'
  <2>1. a' = a BY <1>3, <1>4 DEF a
  <2>2. a + Len(buffer') = tracked' BY <1>1, <1>3, <1>5
  <2>3. Run(loop.batch, Behind) BY Counted
  <2>4. loop' = loop /\ Behind' = Behind BY <1>3, <1>4
  <2>5. a = Behind + Len(loop.batch) BY DEF a
  <2> QED BY <2>2, <2>3, <2>4, <2>5, <1>5 DEF InOrder
<1>8. WaitersServed' BY <1>3, <1>4 DEF IInv, TypeOK, WaitersServed
<1>9. RetriesLeft' BY <1>3 DEF IInv, RetriesLeft
<1> QED BY <1>4, <1>6, <1>7, <1>8, <1>9 DEF IInv

\* A flush is joined or begun, with a list that holds the buffer and, perhaps, one
\* event more.
LEMMA JoinKeeps ==
  ASSUME IInv, NEW list \in Lists, NEW t \in Nat, t >= tracked, t <= MaxEvents,
         Run(list, Behind + Len(loop.batch)), Behind + Len(loop.batch) + Len(list) = t,
         JoinFlush(list), tracked' = t, UNCHANGED <<retryLimit, acked, unposted>>,
         open' \in BOOLEAN,
         \/ waiting' = waiting
         \/ \E c \in Callers : waiting' = [waiting EXCEPT ![c] = Awaiting(t)]
  PROVE  IInv'
<1> DEFINE Waits == [upto : Nat, late : BOOLEAN, at : {"returned", "awaiting"}]
<1>1. Awaiting(t) \in Waits BY DEF Awaiting
<1>2. waiting' \in [Callers -> Waits]
  BY <1>1 DEF IInv, TypeOK
<1>3. \A c \in Callers : waiting'[c] = waiting[c] \/ waiting'[c] = Awaiting(t)
  BY DEF IInv, TypeOK
<1>4. /\ t \in 0..MaxEvents /\ tracked' \in 0..MaxEvents
      /\ acked' \in Nat /\ unposted' \in Nat /\ retryLimit' \in RetryLimits
      /\ Behind' = Behind /\ PostsMade'
  BY SameBehind, ClientAssumption
<1>5. \A c \in Callers : waiting'[c].at = "awaiting" => waiting'[c].upto <= t
  <2>1. \A c \in Callers : waiting[c].upto \in Nat /\ tracked \in Nat
    BY DEF IInv, TypeOK
  <2> QED BY <2>1, <1>3 DEF Awaiting, IInv, WaitersServed
<1>6. CASE loop.at # "none"
  <2>1. buffer' = list /\ loop' = loop BY <1>6 DEF JoinFlush
  <2>2. TypeOK' BY <2>1, <1>2, <1>4 DEF IInv, TypeOK
  <2>3. InOrder' BY <2>1, <1>4 DEF IInv, InOrder
  <2>4. WaitersServed'
    <3> SUFFICES ASSUME NEW c \in Callers, waiting'[c].at = "awaiting"
                 PROVE  /\ waiting'[c].upto <= t
                        /\ (loop.at = "settle" /\ loop.ok /\ ~waiting'[c].late)
                             => waiting'[c].upto <= Behind
      BY <1>4, <1>6, <2>1 DEF WaitersServed
    <3>1. CASE waiting'[c] = waiting[c]
      BY <1>5, <3>1 DEF IInv, WaitersServed
    <3>2. CASE waiting'[c] = Awaiting(t)
      <4>1. Awaiting(t).late = (loop.at = "settle") BY Zenon DEF Awaiting
      <4> QED BY <1>5, <3>2, <4>1
    <3> QED BY <1>3, <3>1, <3>2
  <2>5. RetriesLeft' BY <2>1 DEF IInv, RetriesLeft
  <2> QED BY <1>4, <2>2, <2>3, <2>4, <2>5 DEF IInv
<1>7. CASE loop.at = "none"
  <2>1. loop.batch = <<>> /\ Len(loop.batch) = 0 /\ Behind \in Nat
    BY <1>7, Counted DEF IInv, TypeOK
  <2>2. NextBatch(list) BY <1>7 DEF JoinFlush
  <2>3. Run(list, Behind) /\ Behind + Len(list) = t BY <2>1
  <2>4. /\ buffer' \in Lists /\ loop'.batch \in Lists
        /\ loop' \in [at : {"none", "post", "sleep", "settle"}, batch : Lists,
                      attempt : Nat, ok : BOOLEAN]
        /\ loop'.at \in {"post", "settle"} /\ loop'.attempt = 0
        /\ loop'.at = "post" <=> loop'.batch # <<>>
        /\ Len(loop'.batch) <= MaxBatch
        /\ Behind + Len(loop'.batch) + Len(buffer') = t
        /\ Run(loop'.batch, Behind) /\ Run(buffer', Behind + Len(loop'.batch))
        /\ loop'.at = "settle" => Behind = t
    BY <2>1, <2>2, <2>3, NextBatchKeeps
  <2>5. TypeOK' BY <2>4, <1>2, <1>4 DEF TypeOK
  <2>6. InOrder' BY <1>4, <2>4 DEF InOrder
  <2>7. WaitersServed' BY <1>4, <1>5, <2>4 DEF WaitersServed
  <2>8. RetriesLeft' BY <2>4 DEF RetriesLeft
  <2> QED BY <1>4, <2>5, <2>6, <2>7, <2>8 DEF IInv
<1> QED BY <1>6, <1>7

LEMMA EnqueueAndFlushStep ==
  ASSUME IInv, NEW c \in Callers, EnqueueAndFlush(c)
  PROVE  IInv'
<1> DEFINE a == Behind + Len(loop.batch)
           list == Append(buffer, a + Len(buffer) + 1)
<1>1. /\ a \in Nat /\ buffer \in Lists /\ Run(buffer, a) /\ Len(buffer) \in Nat
      /\ tracked = a + Len(buffer) /\ tracked \in Nat
  BY Counted
<1>2. list \in Lists /\ Len(list) = Len(buffer) + 1 /\ Run(list, a)
  BY <1>1, AppendRun
<1>3. /\ JoinFlush(list) /\ tracked' = tracked + 1 /\ tracked + 1 <= MaxEvents
      /\ UNCHANGED <<retryLimit, acked, unposted>> /\ open' = open
      /\ waiting' = [waiting EXCEPT ![c] = Awaiting(tracked + 1)]
  BY <1>1, ClientAssumption DEF EnqueueAndFlush
<1>4. open' \in BOOLEAN BY <1>3 DEF IInv, TypeOK
<1> HIDE DEF list
<1>5. /\ tracked + 1 \in Nat /\ tracked + 1 >= tracked
      /\ Behind + Len(loop.batch) + Len(list) = tracked + 1
      /\ Run(list, Behind + Len(loop.batch))
  BY <1>1, <1>2
<1>6. \E d \in Callers : waiting' = [waiting EXCEPT ![d] = Awaiting(tracked + 1)] BY <1>3
<1> QED BY <1>2, <1>3, <1>4, <1>5, <1>6, JoinKeeps

LEMMA FlushStep ==
  ASSUME IInv, NEW c \in Callers, Flush(c) \/ Close(c)
  PROVE  IInv'
<1>1. /\ buffer \in Lists /\ Run(buffer, Behind + Len(loop.batch)) /\ tracked \in Nat
      /\ Behind + Len(loop.batch) + Len(buffer) = tracked /\ tracked <= MaxEvents
  BY Counted, ClientAssumption DEF IInv, TypeOK
<1>2. /\ JoinFlush(buffer) /\ tracked' = tracked /\ open' \in BOOLEAN
      /\ UNCHANGED <<retryLimit, acked, unposted>>
      /\ waiting' = [waiting EXCEPT ![c] = Awaiting(tracked)] /\ tracked >= tracked
  <2>1. CASE Flush(c) BY <2>1, <1>1 DEF Flush, IInv, TypeOK
  <2>2. CASE Close(c)
    <3>1. open' \in BOOLEAN BY <2>2, Zenon DEF Close
    <3> QED BY <2>2, <3>1, <1>1 DEF Close
  <2> QED BY <2>1, <2>2
<1>3. \E d \in Callers : waiting' = [waiting EXCEPT ![d] = Awaiting(tracked)] BY <1>2
<1> QED BY <1>1, <1>2, <1>3, JoinKeeps

LEMMA TickStep ==
  ASSUME IInv, Tick
  PROVE  IInv'
<1>1. /\ buffer \in Lists /\ Run(buffer, Behind + Len(loop.batch)) /\ tracked \in Nat
      /\ Behind + Len(loop.batch) + Len(buffer) = tracked /\ tracked <= MaxEvents
  BY Counted, ClientAssumption DEF IInv, TypeOK
<1>2. /\ JoinFlush(buffer) /\ tracked' = tracked /\ waiting' = waiting
      /\ UNCHANGED <<retryLimit, acked, unposted>> /\ open' \in BOOLEAN /\ tracked >= tracked
  BY <1>1 DEF Tick, JoinFlush, IInv, TypeOK
<1> QED BY <1>1, <1>2, JoinKeeps

\* A batch posted, or taken for posted: the loop goes on behind it.
LEMMA PostOkStep ==
  ASSUME IInv, PostOk \/ PostNothing
  PROVE  IInv'
<1> DEFINE a == Behind + Len(loop.batch)
<1>1. /\ a \in Nat /\ a >= Behind /\ Behind \in Nat /\ tracked \in Nat
      /\ acked \in Nat /\ unposted \in Nat /\ Len(loop.batch) \in Nat
      /\ buffer \in Lists /\ Run(buffer, a) /\ a + Len(buffer) = tracked
  BY Counted
<1>2. /\ NextBatch(buffer) /\ UNCHANGED <<retryLimit, tracked, waiting, open>>
      /\ loop.at = "post"
      /\ acked' \in Nat /\ unposted' \in Nat /\ Behind' = a /\ PostsMade'
  <2> DEFINE n == Len(loop.batch)
  <2>0. n \in Nat /\ a = (acked + unposted) + n BY <1>1 DEF Behind
  <2> HIDE DEF a, n
  <2>1. CASE PostOk
    <3>1. acked' = acked + n /\ unposted' = unposted /\ retryLimit' = retryLimit
      BY <2>1 DEF PostOk, n
    <3>2. acked' + unposted' = a BY <3>1, <2>0, <1>1
    <3>3. PostsMade' BY <3>1 DEF IInv, PostsMade
    <3> QED BY <2>1, <2>0, <1>1, <3>1, <3>2, <3>3 DEF PostOk, Behind
  <2>2. CASE PostNothing
    <3>1. acked' = acked /\ unposted' = unposted + n /\ retryLimit' < 0
      BY <2>2 DEF PostNothing, n
    <3>2. acked' + unposted' = a BY <3>1, <2>0, <1>1
    <3>3. PostsMade' BY <3>1 DEF PostsMade
    <3> QED BY <2>2, <2>0, <1>1, <3>1, <3>2, <3>3 DEF PostNothing, Behind
  <2> QED BY <2>1, <2>2
<1> HIDE DEF a
<1>3. /\ buffer' \in Lists /\ loop'.batch \in Lists
      /\ loop' \in [at : {"none", "post", "sleep", "settle"}, batch : Lists,
                    attempt : Nat, ok : BOOLEAN]
      /\ loop'.at \in {"post", "settle"} /\ loop'.attempt = 0
      /\ loop'.at = "post" <=> loop'.batch # <<>>
      /\ Len(loop'.batch) <= MaxBatch
      /\ a + Len(loop'.batch) + Len(buffer') = tracked
      /\ Run(loop'.batch, a) /\ Run(buffer', a + Len(loop'.batch))
      /\ loop'.at = "settle" => a = tracked
  BY <1>1, <1>2, NextBatchKeeps
<1>4. TypeOK' BY <1>1, <1>2, <1>3 DEF IInv, TypeOK
<1>5. InOrder' BY <1>2, <1>3 DEF InOrder
<1>6. WaitersServed' BY <1>1, <1>2, <1>3 DEF IInv, WaitersServed
<1>7. RetriesLeft' BY <1>3 DEF RetriesLeft
<1> QED BY <1>2, <1>4, <1>5, <1>6, <1>7 DEF IInv

\* The attempts are numbered up to the limit.
LEMMA RetryStep ==
  ASSUME IInv, PostRetry \/ Wake
  PROVE  IInv'
<1>1. /\ loop.at \in {"post", "sleep"} /\ loop'.at \in {"post", "sleep"}
      /\ loop'.batch = loop.batch
      /\ UNCHANGED <<retryLimit, tracked, acked, unposted, buffer, waiting, open>>
      /\ loop' \in [at : {"none", "post", "sleep", "settle"}, batch : Lists,
                    attempt : Nat, ok : BOOLEAN]
      /\ loop'.attempt > 0 => loop'.attempt <= retryLimit
      /\ RetriesLeft'
  <2>1. CASE PostRetry
    BY <2>1 DEF PostRetry, IInv, TypeOK, RetriesLeft
  <2>2. CASE Wake
    <3>1. loop.attempt + 1 \in Nat /\ loop.attempt + 1 <= retryLimit
      BY <2>2, ClientAssumption DEF Wake, IInv, TypeOK, RetriesLeft
    <3>2. loop' = [at |-> "post", batch |-> loop.batch, attempt |-> loop.attempt + 1,
                   ok |-> loop.ok]
      BY <2>2 DEF Wake, IInv, TypeOK
    <3> QED BY <2>2, <3>1, <3>2 DEF Wake, IInv, TypeOK, RetriesLeft
  <2> QED BY <2>1, <2>2
<1>2. Behind' = Behind /\ PostsMade' BY <1>1, SameBehind
<1>3. TypeOK' BY <1>1 DEF IInv, TypeOK
<1>4. InOrder' BY <1>1, <1>2 DEF IInv, InOrder
<1>5. WaitersServed' BY <1>1, <1>2 DEF IInv, WaitersServed
<1> QED BY <1>1, <1>2, <1>3, <1>4, <1>5 DEF IInv

LEMMA PostFailStep ==
  ASSUME IInv, PostFail
  PROVE  IInv'
<1>1. /\ loop.batch \in Lists /\ buffer \in Lists /\ Behind \in Nat
      /\ Run(loop.batch, Behind) /\ Run(buffer, Behind + Len(loop.batch))
  BY Counted
<1>2. /\ buffer' = loop.batch \o buffer /\ loop' = Ended(FALSE)
      /\ UNCHANGED <<retryLimit, tracked, acked, unposted, waiting, open>>
      /\ loop.at = "post"
  BY DEF PostFail
<1>3. /\ buffer' \in Lists /\ Len(buffer') = Len(loop.batch) + Len(buffer)
      /\ Run(buffer', Behind)
  BY <1>1, <1>2, ConcatRun
<1>4. /\ loop'.at = "settle" /\ loop'.batch = <<>> /\ Len(loop'.batch) = 0 /\ ~loop'.ok
      /\ loop'.attempt = 0
      /\ loop' \in [at : {"none", "post", "sleep", "settle"}, batch : Lists,
                    attempt : Nat, ok : BOOLEAN]
  BY <1>2, ClientAssumption DEF Ended, Lists
<1>5. Behind' = Behind /\ PostsMade' BY <1>2, SameBehind
<1>6. TypeOK'
  <2>1. Len(loop'.batch) <= MaxBatch BY <1>4, ClientAssumption
  <2>2. loop'.at \in {"post", "sleep"} <=> loop'.batch # <<>> BY <1>4
  <2>3. /\ tracked' \in 0..MaxEvents /\ acked' \in Nat /\ unposted' \in Nat
        /\ retryLimit' \in RetryLimits /\ open' \in BOOLEAN
        /\ waiting' \in [Callers -> [upto : Nat, late : BOOLEAN, at : {"returned", "awaiting"}]]
    BY <1>2 DEF IInv, TypeOK
  <2> QED BY <2>1, <2>2, <2>3, <1>3, <1>4 DEF TypeOK
<1>7. InOrder'
  <2>1. Behind + Len(buffer') = tracked /\ Len(buffer') \in Nat
    BY <1>3, Counted DEF Lists
  <2>2. Run(loop'.batch, Behind') BY <1>4 DEF Run
  <2>3. Behind' + Len(loop'.batch) = Behind BY <1>1, <1>4, <1>5
  <2> QED BY <2>1, <2>2, <2>3, <1>2, <1>3 DEF InOrder
<1>8. WaitersServed' BY <1>2, <1>4 DEF IInv, WaitersServed
<1>9. RetriesLeft' BY <1>4 DEF RetriesLeft
<1> QED BY <1>5, <1>6, <1>7, <1>8, <1>9 DEF IInv

LEMMA SettleStep ==
  ASSUME IInv, Settle
  PROVE  IInv'
<1>1. /\ loop.batch = <<>> /\ loop' = NoLoop /\ waiting' = [c \in Callers |-> Returned]
      /\ UNCHANGED <<retryLimit, tracked, acked, unposted, buffer, open>>
  BY DEF Settle, IInv, TypeOK
<1>2. Behind' = Behind /\ PostsMade' BY <1>1, SameBehind
<1>3. TypeOK' BY <1>1, ClientAssumption DEF IInv, TypeOK, NoLoop, Returned, Lists
<1>4. InOrder' BY <1>1, <1>2 DEF IInv, InOrder, NoLoop
<1>5. WaitersServed' /\ RetriesLeft' BY <1>1 DEF WaitersServed, RetriesLeft, NoLoop, Returned
<1> QED BY <1>2, <1>3, <1>4, <1>5 DEF IInv

LEMMA StepKeeps == IInv /\ [Next]_vars => IInv'
<1> SUFFICES ASSUME IInv, [Next]_vars PROVE IInv'
  OBVIOUS
<1>1. ASSUME NEW c \in Callers, Enqueue(c) PROVE IInv'
  BY <1>1, EnqueueStep
<1>2. ASSUME NEW c \in Callers, EnqueueAndFlush(c) PROVE IInv'
  BY <1>2, EnqueueAndFlushStep
<1>3. ASSUME NEW c \in Callers, Flush(c) \/ Close(c) PROVE IInv'
  BY <1>3, FlushStep
<1>4. CASE Tick BY <1>4, TickStep
<1>5. CASE PostOk \/ PostNothing BY <1>5, PostOkStep
<1>6. CASE PostRetry \/ Wake BY <1>6, RetryStep
<1>7. CASE PostFail BY <1>7, PostFailStep
<1>8. CASE Settle BY <1>8, SettleStep
<1>9. CASE UNCHANGED vars
  BY <1>9 DEF vars, IInv, TypeOK, InOrder, WaitersServed, RetriesLeft, PostsMade, Behind
<1> QED BY <1>1, <1>2, <1>3, <1>4, <1>5, <1>6, <1>7, <1>8, <1>9 DEF Next

LEMMA IInvHolds == SafeSpec => []IInv
BY InitEstablishes, StepKeeps, PTL DEF SafeSpec

-----------------------------------------------------------------------------
(* The theorems.                                                           *)

\* The client's state always has its types; in particular no batch outgrows
\* MAX_BATCH_SIZE and no attempt exceeds maxRetries.
THEOREM TypeCorrect == SafeSpec => []TypeOK
BY IInvHolds, PTL DEF IInv

\* However posts fail and calls interleave, the client holds every event that is
\* not acknowledged, in the order it was tracked, and none that is; but with a
\* negative limit, which lets the first ones go.
THEOREM NothingLost == SafeSpec => []NothingLostNorReordered
<1>1. IInv => NothingLostNorReordered
  <2> SUFFICES ASSUME IInv PROVE NothingLostNorReordered
    OBVIOUS
  <2>1. /\ loop.batch \in Lists /\ buffer \in Lists /\ Behind \in Nat
        /\ Run(loop.batch, Behind) /\ Run(buffer, Behind + Len(loop.batch))
        /\ Behind + Len(loop.batch) + Len(buffer) = tracked
        /\ Len(loop.batch) \in Nat /\ Len(buffer) \in Nat
    BY Counted
  <2>2. LET both == loop.batch \o buffer IN
        Len(both) = Len(loop.batch) + Len(buffer) /\ Run(both, Behind)
    BY <2>1, ConcatRun
  <2>3. PostsMade BY DEF IInv
  <2> QED BY <2>1, <2>2, <2>3 DEF NothingLostNorReordered, Run, PostsMade, Behind
<1> QED BY <1>1, IInvHolds, PTL

\* A call that joined its flush in time and returned leaves nothing behind, if
\* batches are posted at all.
THEOREM FlushesDeliver == SafeSpec => FlushDelivers
<1>1. IInv /\ retryLimit >= 0 => Behind = acked
  BY Counted, ClientAssumption DEF IInv, TypeOK, PostsMade, Behind
<1>2. IInv /\ [Next]_vars =>
        [\A c \in Callers :
           (/\ waiting[c].at = "awaiting" /\ ~waiting[c].late /\ retryLimit >= 0
            /\ Settle /\ loop.ok)
             => acked >= waiting[c].upto]_vars
  BY <1>1 DEF IInv, TypeOK, WaitersServed, Settle
<1> QED BY <1>2, IInvHolds, PTL DEF SafeSpec, FlushDelivers

-----------------------------------------------------------------------------
(* The clients of the servers, which block.                                *)

Numbers == Seq(Nat)

\* A list of numbers that grow, none above m.
Rising(list, m) ==
  /\ \A i, j \in 1..Len(list) : i < j => list[i] < list[j]
  /\ \A i \in 1..Len(list) : list[i] <= m

LEMMA AppendRises ==
  ASSUME NEW list \in Numbers, NEW m \in Nat, Rising(list, m)
  PROVE  /\ Append(list, m + 1) \in Numbers /\ Rising(Append(list, m + 1), m + 1)
         /\ Len(Append(list, m + 1)) = Len(list) + 1
BY DEF Numbers, Rising

\* Lists are joined in any order; a list without its middle still rises.
LEMMA JoinFacts ==
  ASSUME NEW a \in Numbers, NEW b \in Numbers, NEW c \in Numbers
  PROVE  /\ a \o b \in Numbers /\ Len(a \o b) = Len(a) + Len(b)
         /\ (a \o b) \o c = a \o (b \o c)
         /\ a \o <<>> = a /\ <<>> \o a = a
BY DEF Numbers

LEMMA Joined ==
  \A a, b, c \in Numbers : (a \o b) \o c = a \o (b \o c)
BY DEF Numbers

LEMMA AppendJoined ==
  ASSUME NEW a \in Numbers, NEW b \in Numbers, NEW n \in Nat
  PROVE  a \o Append(b, n) = Append(a \o b, n)
BY DEF Numbers

LEMMA WithoutMiddle ==
  ASSUME NEW a \in Numbers, NEW b \in Numbers, NEW c \in Numbers, NEW m \in Nat,
         Rising(a \o b \o c, m)
  PROVE  Rising(a \o c, m)
<1> DEFINE full == a \o b \o c
           rest == a \o c
           place(i) == IF i <= Len(a) THEN i ELSE i + Len(b)
<1>1. /\ full \in Numbers /\ rest \in Numbers
      /\ Len(full) = Len(a) + Len(b) + Len(c) /\ Len(rest) = Len(a) + Len(c)
      /\ Len(a) \in Nat /\ Len(b) \in Nat /\ Len(c) \in Nat
  BY DEF Numbers
<1>2. ASSUME NEW i \in 1..Len(rest)
      PROVE  place(i) \in 1..Len(full) /\ rest[i] = full[place(i)]
  BY <1>1, <1>2 DEF Numbers
<1>3. \A i, j \in 1..Len(rest) : i < j => place(i) < place(j) BY <1>1
<1>4. Rising(full, m) OBVIOUS
<1> HIDE DEF full, rest, place
<1>5. Rising(rest, m) BY <1>2, <1>3, <1>4 DEF Rising
<1> QED BY <1>5 DEF rest

\* The batch spliced off and what remains make up the buffer.
LEMMA Spliced ==
  ASSUME NEW list \in Numbers, list # <<>>
  PROVE  LET n == IF Len(list) < SdkMaxBatch THEN Len(list) ELSE SdkMaxBatch
             batch == SubSeq(list, 1, n)
             tail == SubSeq(list, SdkMaxBatch + 1, Len(list))
         IN  /\ batch \in Numbers /\ tail \in Numbers
             /\ batch \o tail = list
<1> DEFINE n == IF Len(list) < SdkMaxBatch THEN Len(list) ELSE SdkMaxBatch
           batch == SubSeq(list, 1, n)
           tail == SubSeq(list, SdkMaxBatch + 1, Len(list))
<1>1. SdkMaxBatch \in Nat \ {0} /\ Len(list) \in Nat BY SdkAssumption DEF Numbers
<1>2. ASSUME Len(list) <= SdkMaxBatch PROVE batch \in Numbers /\ tail \in Numbers /\ batch \o tail = list
  <2>1. n = Len(list) BY <1>1, <1>2
  <2>2. batch = list BY <2>1, SubSeqFull DEF Numbers
  <2>3. tail = <<>> BY <1>1, <1>2, SubSeqEmpty
  <2> HIDE DEF batch, tail
  <2>4. batch \in Numbers /\ tail \in Numbers /\ batch \o tail = list BY <2>2, <2>3 DEF Numbers
  <2> QED BY <2>4 DEF batch, tail
<1>3. ASSUME Len(list) > SdkMaxBatch PROVE batch \in Numbers /\ tail \in Numbers /\ batch \o tail = list
  <2>1. n = SdkMaxBatch /\ n \in 1..Len(list) BY <1>1, <1>3
  <2>2. batch \in Numbers /\ tail \in Numbers BY <1>1, <2>1 DEF Numbers
  <2> HIDE DEF n
  <2>3. SubSeq(list, 1, n) \o SubSeq(list, n + 1, Len(list)) = SubSeq(list, 1, Len(list))
    BY <1>1, <2>1, ConcatAdjacentSubSeq DEF Numbers
  <2>4. SubSeq(list, 1, Len(list)) = list BY SubSeqFull DEF Numbers
  <2>5. batch \o tail = list BY <2>1, <2>3, <2>4
  <2> QED BY <2>2, <2>5 DEF n
<1> HIDE DEF batch, tail, n
<1>4. batch \in Numbers /\ tail \in Numbers /\ batch \o tail = list BY <1>1, <1>2, <1>3
<1> QED BY Zenon, <1>4 DEF batch, tail, n

-----------------------------------------------------------------------------
Busy == {"take", "post"}

Call == [at : {"away", "lock", "take", "post"}, batch : Numbers, attempt : Nat, upto : Nat]

SdkTypes ==
  /\ lang \in Languages /\ maxRetries \in RetryOptions
  /\ made \in Nat /\ unsent \in Numbers /\ confirmed \in Numbers /\ promised \in Nat
  /\ call \in [Threads -> Call]

\* One flush at a time: in Go by the lock, elsewhere because one thread calls.
OneFlush ==
  /\ lang = "go" => \A t \in Threads : call[t].at \in Busy => flushMu = t
  /\ lang # "go" => \A t, u \in Threads : (call[t] # Away /\ call[u] # Away) => t = u

Lossless == lang = "go" \/ (lang # "ruby" /\ maxRetries >= 0)

SdkInv ==
  /\ SdkTypes /\ OneFlush
  /\ \A t \in Threads : call[t].upto <= made
  /\ Rising(Line, made)
  /\ Lossless => Len(Line) = made /\ promised <= Len(confirmed)

LEMMA OneBusy ==
  ASSUME OneFlush, NEW t \in Threads, call[t].at \in Busy
  PROVE  \A u \in Threads : call[u].at \in Busy => u = t
BY DEF OneFlush, Away, Busy

\* What is held: the batch of the one flush, if it is posting.
LEMMA HeldIs ==
  ASSUME \A t, u \in Threads : (call[t].at \in Busy /\ call[u].at \in Busy) => t = u
  PROVE  /\ \A t \in Threads : call[t].at = "post" => Held = call[t].batch
         /\ \A t \in Threads : call[t].at = "take" => Held = <<>>
         /\ (\A t \in Threads : call[t].at # "post") => Held = <<>>
<1>1. ASSUME NEW t \in Threads, call[t].at = "post" PROVE Held = call[t].batch
  <2>1. \A u \in InPost : u = t BY <1>1 DEF InPost, Busy
  <2>2. t \in InPost BY <1>1 DEF InPost
  <2>3. (CHOOSE u \in InPost : TRUE) \in InPost BY <2>2
  <2> QED BY <2>1, <2>2, <2>3 DEF Held
<1>2. ASSUME NEW t \in Threads, call[t].at = "take" PROVE Held = <<>>
  <2>1. InPost = {} BY <1>2 DEF InPost, Busy
  <2> QED BY <2>1 DEF Held
<1>3. ASSUME \A t \in Threads : call[t].at # "post" PROVE Held = <<>>
  <2>1. InPost = {} BY <1>3 DEF InPost
  <2> QED BY <2>1 DEF Held
<1> QED BY <1>1, <1>2, <1>3

LEMMA HeldType ==
  ASSUME SdkTypes, OneFlush
  PROVE  Held \in Numbers
<1>1. <<>> \in Numbers BY DEF Numbers
<1>2. InPost # {} => (CHOOSE u \in InPost : TRUE) \in InPost OBVIOUS
<1> QED BY <1>1, <1>2 DEF Held, InPost, SdkTypes, Call

LEMMA SdkInit == ServerSdksInit => SdkInv
<1> SUFFICES ASSUME ServerSdksInit PROVE SdkInv OBVIOUS
<1>1. /\ made = 0 /\ unsent = <<>> /\ confirmed = <<>> /\ promised = 0
      /\ call = [t \in Threads |-> Away] /\ lang \in Languages /\ maxRetries \in RetryOptions
  BY DEF ServerSdksInit
<1>2. Away \in Call /\ Away.at = "away" /\ Away.upto = 0 BY DEF Away, Call, Numbers
<1>3. SdkTypes BY <1>1, <1>2 DEF SdkTypes, Numbers
<1>4. OneFlush BY <1>1, <1>2 DEF OneFlush, Busy
<1>5. Held = <<>> BY <1>1, <1>2 DEF Held, InPost
<1>6. Line = <<>> BY <1>1, <1>5 DEF Line
<1> QED BY <1>1, <1>2, <1>3, <1>4, <1>6 DEF SdkInv, Rising

\* A step that moves one thread, into, out of or past a flush.
LEMMA HeldAfter ==
  ASSUME SdkTypes, NEW t \in Threads, NEW c, call' = [call EXCEPT ![t] = c]
  PROVE  /\ (call[t].at # "post" /\ c.at # "post") => Held' = Held
         /\ (c.at = "post" /\ \A u \in Threads \ {t} : call[u].at # "post") => Held' = c.batch
         /\ (c.at # "post" /\ \A u \in Threads \ {t} : call[u].at # "post") => Held' = <<>>
<1>1. call'[t] = c /\ \A u \in Threads \ {t} : call'[u] = call[u] BY DEF SdkTypes
<1>2. ASSUME call[t].at # "post", c.at # "post" PROVE Held' = Held
  <2>1. InPost' = InPost /\ t \notin InPost /\ InPost \subseteq Threads
    BY <1>1, <1>2 DEF InPost
  <2>2. InPost # {} => (CHOOSE u \in InPost : TRUE) \in InPost OBVIOUS
  <2>3. \A u \in InPost : call'[u] = call[u] BY <1>1, <2>1
  <2> QED BY <2>1, <2>2, <2>3 DEF Held
<1>3. ASSUME c.at = "post", \A u \in Threads \ {t} : call[u].at # "post" PROVE Held' = c.batch
  <2>1. InPost' = {t} BY <1>1, <1>3 DEF InPost
  <2>2. (CHOOSE u \in {t} : TRUE) = t OBVIOUS
  <2> QED BY <1>1, <2>1, <2>2 DEF Held
<1>4. ASSUME c.at # "post", \A u \in Threads \ {t} : call[u].at # "post" PROVE Held' = <<>>
  <2>1. InPost' = {} BY <1>1, <1>4 DEF InPost
  <2> QED BY <2>1 DEF Held
<1> QED BY <1>2, <1>3, <1>4

LEMMA CallTypes ==
  ASSUME SdkTypes
  PROVE  /\ Away \in Call /\ Away.at = "away" /\ Away.upto = 0
         /\ \A at \in {"lock", "take"} :
              Entering(at) \in Call /\ Entering(at).at = at /\ Entering(at).upto = made
<1>1. <<>> \in Numbers /\ made \in Nat BY DEF Numbers, SdkTypes
<1>2. Away \in Call /\ Away.at = "away" /\ Away.upto = 0 BY <1>1 DEF Away, Call
<1>3. ASSUME NEW at \in {"lock", "take"}
      PROVE  Entering(at) \in Call /\ Entering(at).at = at /\ Entering(at).upto = made
  BY <1>1, <1>2 DEF Entering, Call
<1> QED BY <1>2, <1>3

LEMMA LineType ==
  ASSUME SdkTypes, OneFlush
  PROVE  /\ Held \in Numbers /\ unsent \in Numbers /\ confirmed \in Numbers
         /\ Line \in Numbers /\ Len(Line) = Len(confirmed) + Len(Held) + Len(unsent)
         /\ confirmed \o Held \in Numbers
         /\ Len(confirmed) \in Nat
BY HeldType, JoinFacts DEF Line, SdkTypes, Numbers

\* The line may keep its events, or lose some where some may be lost.
LEMMA LineKept ==
  ASSUME SdkInv, SdkTypes', OneFlush', UNCHANGED <<lang, maxRetries>>,
         \A t \in Threads : call'[t].upto <= made',
         Rising(Line', made'), Lossless => Len(Line') = made' /\ promised' <= Len(confirmed')
  PROVE  SdkInv'
BY DEF SdkInv, Lossless

\* A thread begins a call, or makes an event.
LEMMA MadeStep ==
  ASSUME SdkInv, NEW t \in Threads, NEW entry \in {"lock", "take"}, Made(t, entry),
         lang = "go" <=> entry = "lock"
  PROVE  SdkInv'
<1> DEFINE c == IF Len(unsent) + 1 >= SdkFlushAt
                THEN [Entering(entry) EXCEPT !.upto = made + 1] ELSE Away
<1>0. SdkTypes /\ OneFlush BY DEF SdkInv
<1>1. /\ call[t] = Away /\ made' = made + 1 /\ unsent' = Append(unsent, made + 1)
      /\ UNCHANGED <<lang, maxRetries, flushMu, confirmed, promised>>
      /\ lang # "go" => \A u \in Threads : call[u] = Away
      /\ made \in Nat /\ unsent \in Numbers
  BY <1>0 DEF Made, MayCall, SdkTypes
<1>2. c \in Call /\ (c.at = entry \/ c = Away) /\ c.upto <= made + 1
  <2>1. /\ Entering(entry) \in Call /\ Entering(entry).at = entry
        /\ Away \in Call /\ Away.upto = 0
    BY <1>0, CallTypes
  <2> DEFINE d == [Entering(entry) EXCEPT !.upto = made + 1]
  <2>2. d \in Call /\ d.at = entry /\ d.upto = made + 1 BY <1>1, <2>1 DEF Call
  <2>3. c = d \/ c = Away OBVIOUS
  <2> HIDE DEF d, c
  <2> QED BY <1>1, <2>1, <2>2, <2>3
<1>3. call' = [call EXCEPT ![t] = c]
  <2>1. call = [call EXCEPT ![t] = Away] BY <1>0, <1>1 DEF SdkTypes
  <2> QED BY <2>1 DEF Made
<1> HIDE DEF c
<1>4. Away.at = "away" BY DEF Away
<1>5. SdkTypes'
  BY <1>0, <1>1, <1>2, <1>3 DEF SdkTypes, Numbers
<1>6. OneFlush'
  BY <1>0, <1>1, <1>2, <1>3, <1>4 DEF OneFlush, SdkTypes, Busy
<1>7. \A u \in Threads : call'[u].upto <= made'
  <2>1. \A u \in Threads : call[u].upto \in Nat /\ call[u].upto <= made
    BY <1>0 DEF SdkInv, SdkTypes, Call
  <2>2. \A u \in Threads : call'[u] = IF u = t THEN c ELSE call[u] BY <1>0, <1>3 DEF SdkTypes
  <2> QED BY <1>1, <1>2, <2>1, <2>2
<1>8. Held' = Held BY <1>0, <1>1, <1>2, <1>3, <1>4, HeldAfter
<1>9. Line' = Append(Line, made + 1)
  BY <1>0, <1>1, <1>8, LineType, AppendJoined DEF Line
<1>10. /\ Rising(Line', made') /\ Len(Line') = Len(Line) + 1
  BY <1>0, <1>1, <1>9, LineType, AppendRises DEF SdkInv
<1>11. Lossless => Len(Line') = made' /\ promised' <= Len(confirmed')
  BY <1>1, <1>10 DEF SdkInv
<1> QED BY <1>1, <1>5, <1>6, <1>7, <1>10, <1>11, LineKept

\* A step of a thread that leaves the line alone.
LEMMA SameLine ==
  ASSUME SdkInv, NEW t \in Threads, NEW c \in Call, call' = [call EXCEPT ![t] = c],
         c.upto <= made, OneFlush',
         UNCHANGED <<lang, maxRetries, made>>, unsent' \in Numbers, confirmed' \in Numbers,
         Line' = Line, promised' \in Nat,
         Lossless => promised' <= Len(confirmed')
  PROVE  SdkInv'
<1>1. SdkTypes' BY DEF SdkInv, SdkTypes
<1>2. \A u \in Threads : call'[u].upto <= made' BY DEF SdkInv, SdkTypes
<1> QED BY <1>1, <1>2, LineKept DEF SdkInv

LEMMA FlushCallStep ==
  ASSUME SdkInv, NEW t \in Threads, NEW entry \in {"lock", "take"}, FlushCall(t, entry),
         lang = "go" <=> entry = "lock"
  PROVE  SdkInv'
<1>0. SdkTypes /\ OneFlush BY DEF SdkInv
<1>1. /\ call[t] = Away /\ call' = [call EXCEPT ![t] = Entering(entry)]
      /\ UNCHANGED <<lang, maxRetries, made, unsent, flushMu, confirmed, promised>>
      /\ lang # "go" => \A u \in Threads : call[u] = Away
  BY DEF FlushCall, MayCall
<1>2. /\ Entering(entry) \in Call /\ Entering(entry).at = entry
      /\ Entering(entry).upto = made /\ made \in Nat /\ Away.at = "away"
  BY <1>0, CallTypes DEF SdkTypes
<1>3. OneFlush' BY <1>0, <1>1, <1>2 DEF OneFlush, SdkTypes, Busy
<1>4. Held' = Held BY <1>0, <1>1, <1>2, HeldAfter
<1>5. Line' = Line BY <1>1, <1>4 DEF Line
<1>6. /\ unsent' \in Numbers /\ confirmed' \in Numbers /\ promised' \in Nat
      /\ Lossless => promised' <= Len(confirmed')
  BY <1>0, <1>1 DEF SdkInv, SdkTypes
<1> HIDE DEF Entering
<1>7. Entering(entry).upto <= made BY <1>2
<1> QED BY <1>1, <1>2, <1>3, <1>5, <1>6, <1>7, SameLine

LEMMA GoLockStep ==
  ASSUME SdkInv, NEW t \in Threads, lang = "go", GoLock(t)
  PROVE  SdkInv'
<1> DEFINE c == [call[t] EXCEPT !.at = "take"]
<1>0. SdkTypes /\ OneFlush BY DEF SdkInv
<1>1. /\ call[t].at = "lock" /\ flushMu = None /\ flushMu' = t
      /\ UNCHANGED <<lang, maxRetries, made, unsent, confirmed, promised>>
  BY DEF GoLock
<1>2. c \in Call /\ c.at = "take" /\ c.upto <= made /\ call' = [call EXCEPT ![t] = c]
  BY <1>0, <1>1 DEF SdkInv, SdkTypes, Call, GoLock
<1> HIDE DEF c
<1>3. \A u \in Threads : call[u].at \notin Busy BY <1>0, <1>1, SdkAssumption DEF OneFlush
<1>4. OneFlush' BY <1>0, <1>1, <1>2, <1>3 DEF OneFlush, SdkTypes
<1>5. Held' = Held BY <1>0, <1>1, <1>2, HeldAfter
<1>6. Line' = Line BY <1>1, <1>5 DEF Line
<1> QED BY <1>0, <1>1, <1>2, <1>4, <1>6, SameLine DEF SdkInv, SdkTypes

\* While a thread flushes nobody else does, and nobody else posts.
LEMMA Flusher ==
  ASSUME SdkInv, NEW t \in Threads, call[t].at \in Busy
  PROVE  /\ SdkTypes /\ OneFlush /\ call[t] \in Call /\ call[t].upto <= made
         /\ \A u \in Threads \ {t} : call[u].at # "post"
         /\ lang = "go" => flushMu = t
         /\ Held = IF call[t].at = "post" THEN call[t].batch ELSE <<>>
<1>1. SdkTypes /\ OneFlush /\ call[t] \in Call /\ call[t].upto <= made
  BY DEF SdkInv, SdkTypes
<1>2. ASSUME NEW u \in Threads, call[u].at \in Busy PROVE u = t
  BY <1>1, <1>2, OneBusy
<1>3. ASSUME NEW u \in Threads, NEW v \in Threads, call[u].at \in Busy, call[v].at \in Busy
      PROVE  u = v
  BY <1>2, <1>3
<1>4. Held = IF call[t].at = "post" THEN call[t].batch ELSE <<>>
  BY <1>3, HeldIs DEF Busy
<1>5. \A u \in Threads \ {t} : call[u].at # "post" BY <1>2 DEF Busy
<1> QED BY <1>1, <1>4, <1>5 DEF OneFlush

\* The flushing thread goes on, or is done.
LEMMA FlushGoesOn ==
  ASSUME SdkInv, NEW t \in Threads, call[t].at \in Busy, NEW c \in Call,
         call' = [call EXCEPT ![t] = c], UNCHANGED lang,
         \/ c.at \in Busy /\ UNCHANGED flushMu
         \/ c = Away
  PROVE  OneFlush'
<1>1. Away.at = "away" BY DEF Away
<1>2. \A u \in Threads : call'[u] = IF u = t THEN c ELSE call[u] BY DEF SdkInv, SdkTypes
<1>3. \A u \in Threads \ {t} : call[u].at \notin Busy BY OneBusy DEF SdkInv
<1> QED BY <1>1, <1>2, <1>3 DEF OneFlush, SdkInv, Busy

LEMMA TakeBatchStep ==
  ASSUME SdkInv, NEW t \in Threads, TakeBatch(t)
  PROVE  SdkInv'
<1> DEFINE n == IF Len(unsent) < SdkMaxBatch THEN Len(unsent) ELSE SdkMaxBatch
           batch == SubSeq(unsent, 1, n)
           tail == SubSeq(unsent, SdkMaxBatch + 1, Len(unsent))
           c == [call[t] EXCEPT !.at = "post", !.attempt = 1, !.batch = batch]
<1>1. /\ call[t].at = "take" /\ unsent # <<>> /\ unsent' = tail
      /\ UNCHANGED <<lang, maxRetries, made, flushMu, confirmed, promised>>
  BY DEF TakeBatch
<1>2. /\ SdkTypes /\ OneFlush /\ call[t] \in Call /\ call[t].upto <= made
      /\ \A u \in Threads \ {t} : call[u].at # "post" /\ Held = <<>>
  BY <1>1, Flusher DEF Busy
<1>a. Held = <<>> BY <1>1, Flusher DEF Busy
<1>3. batch \in Numbers /\ tail \in Numbers /\ batch \o tail = unsent
  BY <1>1, <1>2, Spliced DEF SdkTypes
<1>4. call' = [call EXCEPT ![t] = c] BY <1>2 DEF TakeBatch, SdkTypes
<1> HIDE DEF batch, tail, n
<1>5. c \in Call /\ c.at = "post" /\ c.batch = batch /\ c.upto = call[t].upto
  BY <1>2, <1>3 DEF Call
<1> HIDE DEF c
<1>6. Held' = batch BY <1>2, <1>4, <1>5, HeldAfter
<1>7. Line' = Line
  <2>1. Line = confirmed \o unsent BY <1>2, <1>a, LineType, JoinFacts DEF Line, SdkTypes
  <2>2. Line' = (confirmed \o batch) \o tail BY <1>1, <1>6 DEF Line
  <2>3. (confirmed \o batch) \o tail = confirmed \o (batch \o tail)
    <3>1. confirmed \in Numbers /\ batch \in Numbers /\ tail \in Numbers
      BY <1>2, <1>3 DEF SdkTypes
    <3> QED BY Zenon, <3>1, Joined
  <2> QED BY Zenon, <1>3, <2>1, <2>2, <2>3
<1>8. OneFlush' BY <1>1, <1>2, <1>4, <1>5, FlushGoesOn DEF Busy
<1>9. /\ unsent' \in Numbers /\ confirmed' \in Numbers /\ promised' \in Nat
      /\ Lossless => promised' <= Len(confirmed')
  BY <1>1, <1>2, <1>3 DEF SdkInv, SdkTypes
<1> QED BY <1>1, <1>2, <1>4, <1>5, <1>7, <1>8, <1>9, SameLine

\* The batch of a loop without attempts is lost, but only where it may be.
LEMMA TakeUnattemptedStep ==
  ASSUME SdkInv, NEW t \in Threads, TakeUnattempted(t)
  PROVE  SdkInv'
<1> DEFINE n == IF Len(unsent) < SdkMaxBatch THEN Len(unsent) ELSE SdkMaxBatch
           batch == SubSeq(unsent, 1, n)
           tail == SubSeq(unsent, SdkMaxBatch + 1, Len(unsent))
<1>1. /\ call[t].at = "take" /\ unsent # <<>> /\ unsent' = tail /\ Attempts(maxRetries) <= 0
      /\ UNCHANGED <<lang, maxRetries, made, flushMu, call, confirmed, promised>>
  BY DEF TakeUnattempted
<1>2. SdkTypes /\ OneFlush BY DEF SdkInv
<1>a. Held = <<>> BY <1>1, Flusher DEF Busy
<1>3. batch \in Numbers /\ tail \in Numbers /\ batch \o tail = unsent
  BY <1>1, <1>2, Spliced DEF SdkTypes
<1> HIDE DEF batch, tail, n
<1>4. Held' = Held BY <1>1 DEF Held, InPost
<1>5. Rising(Line', made')
  <2>1. Line = confirmed \o batch \o tail
    <3>1. Line = confirmed \o unsent BY <1>2, <1>a, JoinFacts DEF Line, SdkTypes
    <3>2. (confirmed \o batch) \o tail = confirmed \o (batch \o tail)
      <4>1. confirmed \in Numbers /\ batch \in Numbers /\ tail \in Numbers
        BY <1>2, <1>3 DEF SdkTypes
      <4> QED BY Zenon, <4>1, Joined
    <3> QED BY Zenon, <1>3, <3>1, <3>2
  <2>2. Line' = confirmed \o tail BY <1>1, <1>2, <1>a, <1>4, JoinFacts DEF Line, SdkTypes
  <2>3. Rising(confirmed \o batch \o tail, made) BY <2>1 DEF SdkInv
  <2> QED BY <1>1, <1>2, <1>3, <2>2, <2>3, WithoutMiddle DEF SdkTypes
<1>6. ~Lossless
  <2>1. maxRetries \in Int BY <1>2, SdkAssumption DEF SdkTypes
  <2> QED BY <1>1, <2>1 DEF Lossless, Attempts, GoLimit
<1>7. SdkTypes' /\ OneFlush' BY <1>1, <1>2, <1>3 DEF SdkTypes, OneFlush
<1>8. \A u \in Threads : call'[u].upto <= made' BY <1>1 DEF SdkInv
<1> QED BY <1>1, <1>5, <1>6, <1>7, <1>8, LineKept

LEMMA FlushReturnsStep ==
  ASSUME SdkInv, NEW t \in Threads, FlushReturns(t)
  PROVE  SdkInv'
<1>1. /\ call[t].at = "take" /\ unsent = <<>> /\ call' = [call EXCEPT ![t] = Away]
      /\ UNCHANGED <<lang, maxRetries, made, unsent, confirmed>>
      /\ promised' = IF call[t].upto > promised THEN call[t].upto ELSE promised
  BY DEF FlushReturns
<1>2. /\ SdkTypes /\ OneFlush /\ call[t] \in Call /\ call[t].upto <= made
      /\ \A u \in Threads \ {t} : call[u].at # "post"
  BY <1>1, Flusher DEF Busy
<1>3. Held = <<>> BY <1>1, Flusher DEF Busy
<1>4. Away \in Call /\ Away.at = "away" /\ Away.upto <= made
  BY <1>2, CallTypes DEF SdkTypes
<1>5. Held' = Held BY <1>1, <1>2, <1>4, HeldAfter
<1>6. Line' = Line BY <1>1, <1>5 DEF Line
<1>7. Line = confirmed BY <1>1, <1>2, <1>3, JoinFacts DEF Line, SdkTypes
<1>8. promised' \in Nat /\ promised \in Nat /\ call[t].upto \in Nat
  BY <1>1, <1>2 DEF SdkTypes, Call
<1>9. Lossless => promised' <= Len(confirmed')
  <2>1. Lossless => Len(confirmed) = made /\ promised <= Len(confirmed) BY <1>7 DEF SdkInv
  <2> QED BY <1>1, <1>2, <2>1
<1>10. OneFlush' BY <1>1, <1>2, <1>4, FlushGoesOn DEF Busy
<1>11. unsent' \in Numbers /\ confirmed' \in Numbers BY <1>1, <1>2 DEF SdkTypes
<1> QED BY <1>1, <1>4, <1>6, <1>8, <1>9, <1>10, <1>11, SameLine

LEMMA PostConfirmedStep ==
  ASSUME SdkInv, NEW t \in Threads, PostConfirmed(t)
  PROVE  SdkInv'
<1> DEFINE batch == call[t].batch
           c == [call[t] EXCEPT !.at = "take", !.batch = <<>>]
<1>1. /\ call[t].at = "post" /\ confirmed' = confirmed \o batch
      /\ UNCHANGED <<lang, maxRetries, made, unsent, flushMu, promised>>
  BY DEF PostConfirmed
<1>2. /\ SdkTypes /\ OneFlush /\ call[t] \in Call /\ call[t].upto <= made
      /\ \A u \in Threads \ {t} : call[u].at # "post"
  BY <1>1, Flusher DEF Busy
<1>3. Held = batch BY <1>1, Flusher DEF Busy
<1>4. call' = [call EXCEPT ![t] = c] BY <1>2 DEF PostConfirmed, SdkTypes
<1>5. c \in Call /\ c.at = "take" /\ c.upto = call[t].upto
  <2>1. <<>> \in Numbers BY DEF Numbers
  <2> QED BY <1>2, <2>1 DEF Call
<1>6. batch \in Numbers BY <1>2 DEF Call
<1> HIDE DEF c, batch
<1>7. Held' = <<>> BY <1>2, <1>4, <1>5, HeldAfter
<1>8. /\ confirmed \in Numbers /\ unsent \in Numbers /\ confirmed' \in Numbers
      /\ Len(confirmed') = Len(confirmed) + Len(batch) /\ promised \in Nat
  BY <1>1, <1>2, <1>6, JoinFacts DEF SdkTypes
<1>9. Line' = Line
  <2>1. Line = (confirmed \o batch) \o unsent BY <1>3 DEF Line
  <2>2. Line' = (confirmed \o batch) \o <<>> \o unsent BY <1>1, <1>7 DEF Line
  <2> QED BY <1>1, <1>8, <2>1, <2>2, JoinFacts
<1>10. Lossless => promised' <= Len(confirmed')
  <2>1. Len(confirmed) \in Nat /\ Len(batch) \in Nat BY <1>6, <1>8 DEF Numbers
  <2> QED BY <1>1, <1>8, <2>1 DEF SdkInv
<1>11. OneFlush' BY <1>1, <1>2, <1>4, <1>5, FlushGoesOn DEF Busy
<1> QED BY <1>1, <1>2, <1>4, <1>5, <1>8, <1>9, <1>10, <1>11, SameLine

LEMMA PostAgainStep ==
  ASSUME SdkInv, NEW t \in Threads, PostAgain(t)
  PROVE  SdkInv'
<1> DEFINE c == [call[t] EXCEPT !.attempt = @ + 1]
<1>1. /\ call[t].at = "post"
      /\ UNCHANGED <<lang, maxRetries, made, unsent, flushMu, confirmed, promised>>
  BY DEF PostAgain
<1>2. /\ SdkTypes /\ OneFlush /\ call[t] \in Call /\ call[t].upto <= made
      /\ \A u \in Threads \ {t} : call[u].at # "post"
  BY <1>1, Flusher DEF Busy
<1>3. Held = call[t].batch BY <1>1, Flusher DEF Busy
<1>4. call' = [call EXCEPT ![t] = c] BY <1>2 DEF PostAgain, SdkTypes
<1>5. c \in Call /\ c.at = "post" /\ c.upto = call[t].upto /\ c.batch = call[t].batch
  BY <1>1, <1>2 DEF Call
<1> HIDE DEF c
<1>6. Held' = Held BY <1>2, <1>3, <1>4, <1>5, HeldAfter
<1>7. Line' = Line BY <1>1, <1>6 DEF Line
<1>8. OneFlush' BY <1>1, <1>2, <1>4, <1>5, FlushGoesOn DEF Busy
<1>9. /\ unsent' \in Numbers /\ confirmed' \in Numbers /\ promised' \in Nat
      /\ Lossless => promised' <= Len(confirmed')
  BY <1>1, <1>2 DEF SdkInv, SdkTypes
<1> QED BY <1>1, <1>2, <1>4, <1>5, <1>7, <1>8, <1>9, SameLine

\* The batch goes back to the head of the buffer, but for Ruby's, which is gone.
LEMMA PostFailsStep ==
  ASSUME SdkInv, NEW t \in Threads, PostFails(t)
  PROVE  SdkInv'
<1> DEFINE batch == call[t].batch
<1>1. /\ call[t].at = "post" /\ unsent' = AfterFailure(batch)
      /\ call' = [call EXCEPT ![t] = Away]
      /\ UNCHANGED <<lang, maxRetries, made, confirmed, promised>>
  BY DEF PostFails
<1>2. /\ SdkTypes /\ OneFlush /\ call[t] \in Call
      /\ \A u \in Threads \ {t} : call[u].at # "post"
  BY <1>1, Flusher DEF Busy
<1>3. Held = batch BY <1>1, Flusher DEF Busy
<1>4. Away \in Call /\ Away.at = "away" /\ Away.upto <= made
  BY <1>2, CallTypes DEF SdkTypes
<1>5. batch \in Numbers BY <1>2 DEF Call
<1> HIDE DEF batch
<1>6. Held' = <<>> BY <1>1, <1>2, <1>4, HeldAfter
<1>7. confirmed \in Numbers /\ unsent \in Numbers /\ promised \in Nat BY <1>2 DEF SdkTypes
<1>8. OneFlush' BY <1>1, <1>2, <1>4, FlushGoesOn DEF Busy
<1>9. Line' = confirmed \o unsent'
  <2>1. Line' = confirmed \o <<>> \o unsent' BY <1>1, <1>6 DEF Line
  <2> QED BY <1>7, <2>1, JoinFacts
<1>10. CASE lang = "ruby"
  <2>1. unsent' = unsent BY <1>1, <1>10 DEF AfterFailure, RubyLeft
  <2>2. Rising(Line', made')
    <3>1. Rising(confirmed \o batch \o unsent, made) BY <1>3 DEF SdkInv, Line
    <3> QED BY <1>1, <1>2, <1>5, <1>7, <1>9, <2>1, <3>1, WithoutMiddle DEF SdkTypes
  <2>3. ~Lossless BY <1>10 DEF Lossless
  <2>4. SdkTypes' BY <1>1, <1>2, <1>4, <2>1 DEF SdkTypes
  <2>5. \A u \in Threads : call'[u].upto <= made' BY <1>1, <1>4 DEF SdkInv, SdkTypes
  <2> QED BY <1>1, <1>8, <2>2, <2>3, <2>4, <2>5, LineKept
<1>11. CASE lang # "ruby"
  <2>1. unsent' = batch \o unsent
    <3>1. lang \in {"go", "python", "php", "java"}
      BY <1>2, <1>11, SdkAssumption DEF SdkTypes
    <3> QED BY <1>1, <3>1 DEF AfterFailure, GoRestored, PythonRestored, PhpRestored, JavaRestored
  <2>2. unsent' \in Numbers /\ confirmed' \in Numbers BY <1>1, <1>5, <1>7, <2>1, JoinFacts
  <2>3. Line' = Line
    <3>1. Line = (confirmed \o batch) \o unsent BY <1>3 DEF Line
    <3>2. (confirmed \o batch) \o unsent = confirmed \o (batch \o unsent)
      BY Zenon, <1>5, <1>7, Joined
    <3> QED BY Zenon, <1>9, <2>1, <3>1, <3>2
  <2>4. Lossless => promised' <= Len(confirmed') BY <1>1 DEF SdkInv
  <2> QED BY <1>1, <1>4, <1>7, <1>8, <2>2, <2>3, <2>4, SameLine
<1> QED BY <1>10, <1>11

LEMMA FlushingStep ==
  ASSUME SdkInv, NEW t \in Threads, Flushing(t)
  PROVE  SdkInv'
BY TakeBatchStep, TakeUnattemptedStep, FlushReturnsStep, PostConfirmedStep, PostAgainStep,
  PostFailsStep DEF Flushing

LEMMA SdkStep == SdkInv /\ [ServerSdksNext]_sdkVars => SdkInv'
<1> SUFFICES ASSUME SdkInv, [ServerSdksNext]_sdkVars PROVE SdkInv'
  OBVIOUS
<1>1. ASSUME NEW t \in Threads, GoClient(t) PROVE SdkInv'
  <2>1. lang = "go" BY <1>1 DEF GoClient
  <2>2. CASE GoEnqueue(t) BY <2>1, <2>2, MadeStep DEF GoEnqueue
  <2>3. CASE GoFlush(t) BY <2>1, <2>3, FlushCallStep DEF GoFlush
  <2>4. CASE GoClose(t) BY <2>1, <2>4, FlushCallStep DEF GoClose
  <2>5. CASE GoLock(t) BY <2>1, <2>5, GoLockStep
  <2>6. CASE Flushing(t) BY <2>6, FlushingStep
  <2> QED BY <1>1, <2>2, <2>3, <2>4, <2>5, <2>6 DEF GoClient
<1>2. ASSUME NEW t \in Threads,
             PythonClient(t) \/ RubyClient(t) \/ PhpClient(t) \/ JavaClient(t)
      PROVE  SdkInv'
  <2>1. lang # "go" /\ Blocking(t)
    BY <1>2 DEF PythonClient, RubyClient, PhpClient, JavaClient
  <2>2. CASE Made(t, "take") BY <2>1, <2>2, MadeStep
  <2>3. CASE FlushCall(t, "take") BY <2>1, <2>3, FlushCallStep
  <2>4. CASE Flushing(t) BY <2>4, FlushingStep
  <2> QED BY <2>1, <2>2, <2>3, <2>4 DEF Blocking
<1>3. CASE UNCHANGED sdkVars
  <2>1. UNCHANGED <<lang, maxRetries, made, unsent, flushMu, call, confirmed, promised>>
    BY <1>3 DEF sdkVars
  <2>2. Held' = Held BY <2>1 DEF Held, InPost
  <2>3. Line' = Line BY <2>1, <2>2 DEF Line
  <2> QED BY <2>1, <2>3 DEF SdkInv, SdkTypes, OneFlush, Lossless
<1> QED BY <1>1, <1>2, <1>3 DEF ServerSdksNext

\* In no language does an event overtake an older one, whatever fails; without a
\* negative maxRetries, and but for Ruby, none is lost, and a flush that returned
\* has delivered every event made before it, for any number of threads.
THEOREM SdksDeliverInOrder == ServerSdksSpec => []SdksKeepTheLine
<1>1. SdkInv => SdksKeepTheLine
  BY DEF SdkInv, Rising, SdksKeepTheLine, Lossless, NoEventLost
<1> QED BY <1>1, SdkInit, SdkStep, PTL DEF ServerSdksSpec

-----------------------------------------------------------------------------
(* The browser tracker.                                                    *)

\* No number comes twice in a list.
Single(list) == \A i, j \in 1..Len(list) : list[i] = list[j] => i = j

LEMMA ElementsOf ==
  ASSUME NEW a \in Numbers, NEW b \in Numbers, NEW x \in Nat
  PROVE  /\ Elements(<<>>) = {}
         /\ Elements(<<x>>) = {x}
         /\ Elements(Append(a, x)) = Elements(a) \cup {x}
         /\ Elements(a \o b) = Elements(a) \cup Elements(b)
<1>1. Elements(<<>>) = {} BY DEF Elements
<1>2. Elements(<<x>>) = {x} BY DEF Elements
<1>3. Elements(Append(a, x)) = Elements(a) \cup {x}
  <2>1. /\ Len(Append(a, x)) = Len(a) + 1 /\ Len(a) \in Nat
        /\ Append(a, x)[Len(a) + 1] = x
        /\ \A i \in 1..Len(a) : Append(a, x)[i] = a[i]
    BY DEF Numbers
  <2> QED BY <2>1 DEF Elements
<1>4. Elements(a \o b) = Elements(a) \cup Elements(b)
  <2>1. /\ Len(a \o b) = Len(a) + Len(b) /\ Len(a) \in Nat /\ Len(b) \in Nat
        /\ \A i \in 1..Len(a) : (a \o b)[i] = a[i]
        /\ \A i \in 1..Len(b) : (a \o b)[Len(a) + i] = b[i]
    BY DEF Numbers
  <2>2. \A i \in 1..Len(a \o b) : (a \o b)[i] \in Elements(a) \cup Elements(b)
    <3> SUFFICES ASSUME NEW i \in 1..Len(a \o b) PROVE (a \o b)[i] \in Elements(a) \cup Elements(b)
      OBVIOUS
    <3>1. CASE i <= Len(a) BY <2>1, <3>1 DEF Elements
    <3>2. CASE i > Len(a)
      <4>1. i - Len(a) \in 1..Len(b) /\ i = Len(a) + (i - Len(a)) BY <2>1, <3>2
      <4>2. (a \o b)[i] = b[i - Len(a)] BY <2>1, <4>1
      <4> QED BY <4>1, <4>2 DEF Elements
    <3> QED BY <2>1, <3>1, <3>2
  <2>3. \A i \in 1..Len(a) : a[i] \in Elements(a \o b)
    <3>1. \A i \in 1..Len(a) : i \in 1..Len(a \o b) BY <2>1
    <3> QED BY <2>1, <3>1 DEF Elements
  <2>4. \A i \in 1..Len(b) : b[i] \in Elements(a \o b)
    <3>1. \A i \in 1..Len(b) : Len(a) + i \in 1..Len(a \o b) BY <2>1
    <3> QED BY <2>1, <3>1 DEF Elements
  <2>5. Elements(a \o b) \subseteq Elements(a) \cup Elements(b)
    BY <2>2 DEF Elements
  <2>6. Elements(a) \subseteq Elements(a \o b) /\ Elements(b) \subseteq Elements(a \o b)
    <3>1. \A n \in Elements(a) : \E i \in 1..Len(a) : n = a[i] BY DEF Elements
    <3>2. \A n \in Elements(b) : \E i \in 1..Len(b) : n = b[i] BY DEF Elements
    <3> QED BY <2>3, <2>4, <3>1, <3>2
  <2> QED BY <2>5, <2>6
<1> QED BY <1>1, <1>2, <1>3, <1>4

LEMMA ElementsAppended ==
  ASSUME NEW a \in Numbers, NEW x \in Nat
  PROVE  Elements(Append(a, x)) = Elements(a) \cup {x}
BY ElementsOf

LEMMA RisingIsSingle ==
  ASSUME NEW a \in Numbers, NEW m \in Nat, Rising(a, m)
  PROVE  Single(a) /\ \A n \in Elements(a) : n \in Nat /\ n <= m
BY DEF Rising, Single, Elements, Numbers

LEMMA JoinedSingle ==
  ASSUME NEW a \in Numbers, NEW b \in Numbers, Single(a), Single(b),
         Elements(a) \cap Elements(b) = {}
  PROVE  Single(a \o b)
<1>1. /\ Len(a \o b) = Len(a) + Len(b) /\ Len(a) \in Nat /\ Len(b) \in Nat
      /\ \A i \in 1..Len(a) : (a \o b)[i] = a[i]
      /\ \A i \in 1..Len(b) : (a \o b)[Len(a) + i] = b[i]
  BY DEF Numbers
<1>2. ASSUME NEW i \in 1..Len(a \o b), i > Len(a)
      PROVE  i - Len(a) \in 1..Len(b) /\ (a \o b)[i] = b[i - Len(a)]
  <2>1. i - Len(a) \in 1..Len(b) /\ i = Len(a) + (i - Len(a)) BY <1>1, <1>2
  <2> QED BY <1>1, <2>1
<1>3. ASSUME NEW i \in 1..Len(a \o b), NEW j \in 1..Len(a \o b), i <= Len(a), j > Len(a)
      PROVE  (a \o b)[i] # (a \o b)[j]
  <2>1. (a \o b)[j] \in Elements(b) BY <1>2, <1>3 DEF Elements
  <2>2. i \in 1..Len(a) BY <1>1, <1>3
  <2>3. (a \o b)[i] \in Elements(a) BY <1>1, <2>2 DEF Elements
  <2> QED BY <2>1, <2>3
<1> SUFFICES ASSUME NEW i \in 1..Len(a \o b), NEW j \in 1..Len(a \o b), (a \o b)[i] = (a \o b)[j]
             PROVE  i = j
  BY DEF Single
<1>4. CASE i <= Len(a) /\ j <= Len(a)
  <2>1. i \in 1..Len(a) /\ j \in 1..Len(a) BY <1>1, <1>4
  <2> QED BY <1>1, <2>1 DEF Single
<1>5. CASE i > Len(a) /\ j > Len(a)
  <2>1. i - Len(a) = j - Len(a) BY <1>2, <1>5 DEF Single
  <2> QED BY <1>1, <2>1
<1> QED BY <1>1, <1>3, <1>4, <1>5

Page == [id : Nat, queue : Numbers]
Post == [id : Nat, events : Numbers]

TrackerTypes ==
  /\ anonKey \in Nat /\ ids \in Nat /\ seen \in Nat
  /\ tab \in [Tabs -> Page] /\ handed \subseteq Post
  /\ arrived \in Numbers /\ vanished \subseteq Nat

\* What the page of t, and what a post, holds.
Queued(t) == Elements(tab[t].queue)
Sent(post) == Elements(post.events)
Gone == Elements(arrived) \cup vanished

\* Each list grows, and knows no event that was not made.
ListsRise ==
  /\ \A t \in Tabs : Rising(tab[t].queue, seen)
  /\ \A post \in handed : Rising(post.events, seen)
  /\ Single(arrived) /\ \A n \in Gone : n <= seen

\* An event is in one place ...
Apart ==
  /\ \A t, u \in Tabs, n \in Nat : n \in Queued(t) /\ n \in Queued(u) => t = u
  /\ \A p, q \in handed, n \in Nat : n \in Sent(p) /\ n \in Sent(q) => p = q
  /\ \A t \in Tabs, p \in handed, n \in Nat : ~(n \in Queued(t) /\ n \in Sent(p))
  /\ \A t \in Tabs, n \in Gone : n \notin Queued(t)
  /\ \A p \in handed, n \in Gone : n \notin Sent(p)
  /\ \A n \in vanished : n \notin Elements(arrived)

\* ... and in one at least.
Kept ==
  \A n \in 1..seen :
    (\E t \in Tabs : n \in Queued(t)) \/ (\E p \in handed : n \in Sent(p)) \/ n \in Gone

TrackerInv == TrackerTypes /\ ListsRise /\ Apart /\ Kept

LEMMA PageTypes ==
  NoPage \in Page /\ NoPage.queue = <<>> /\ Elements(<<>>) = {} /\ <<>> \in Numbers
BY DEF NoPage, Page, Numbers, Elements

LEMMA Bounded ==
  ASSUME TrackerInv
  PROVE  /\ \A t \in Tabs : tab[t].queue \in Numbers /\ tab[t].id \in Nat
         /\ \A p \in handed : p.events \in Numbers /\ p.id \in Nat
         /\ \A t \in Tabs : \A n \in Queued(t) : n \in Nat /\ n <= seen
         /\ \A p \in handed : \A n \in Sent(p) : n \in Nat /\ n <= seen
         /\ \A n \in Gone : n \in Nat /\ n <= seen
<1>1. /\ \A t \in Tabs : tab[t].queue \in Numbers /\ tab[t].id \in Nat
      /\ \A p \in handed : p.events \in Numbers /\ p.id \in Nat
  BY DEF TrackerInv, TrackerTypes, Page, Post
<1>2. seen \in Nat /\ vanished \subseteq Nat /\ arrived \in Numbers
  BY DEF TrackerInv, TrackerTypes
<1>3. \A t \in Tabs : \A n \in Queued(t) : n \in Nat /\ n <= seen
  BY <1>1, <1>2, RisingIsSingle DEF TrackerInv, ListsRise, Queued
<1>4. \A p \in handed : \A n \in Sent(p) : n \in Nat /\ n <= seen
  BY <1>1, <1>2, RisingIsSingle DEF TrackerInv, ListsRise, Sent
<1>5. Elements(arrived) \subseteq Nat BY <1>2 DEF Elements, Numbers
<1> QED BY <1>1, <1>2, <1>3, <1>4, <1>5 DEF TrackerInv, ListsRise, Gone

LEMMA TrackerStart == TrackerInit => TrackerInv
<1> SUFFICES ASSUME TrackerInit PROVE TrackerInv
  OBVIOUS
<1>1. TrackerTypes BY PageTypes DEF TrackerInit, TrackerTypes
<1>2. Gone = {} BY PageTypes DEF TrackerInit, Gone
<1>3. \A t \in Tabs : Queued(t) = {} /\ tab[t].queue = <<>> BY PageTypes DEF TrackerInit, Queued
<1>4. ListsRise BY <1>2, <1>3 DEF TrackerInit, ListsRise, Rising, Single
<1>5. Apart BY <1>2, <1>3 DEF TrackerInit, Apart
<1>6. Kept BY DEF TrackerInit, Kept
<1> QED BY <1>1, <1>4, <1>5, <1>6 DEF TrackerInv

\* Only the queues move: nothing else has changed.
LEMMA PageOpens ==
  ASSUME TrackerInv, NEW t \in Tabs, tab[t] = NoPage, NEW k \in Nat,
         tab' = [tab EXCEPT ![t].id = k],
         UNCHANGED <<seen, handed, arrived, vanished>>, ids' \in Nat, anonKey' \in Nat
  PROVE  TrackerInv'
<1>1. /\ tab \in [Tabs -> Page] /\ tab' \in [Tabs -> Page]
      /\ \A u \in Tabs : tab'[u].queue = tab[u].queue
  BY DEF TrackerInv, TrackerTypes, Page
<1>2. \A u \in Tabs : Queued(u)' = Queued(u) BY <1>1 DEF Queued
<1>3. Gone' = Gone BY DEF Gone
<1>4. TrackerTypes' BY <1>1 DEF TrackerInv, TrackerTypes
<1>5. ListsRise' BY <1>1, <1>3 DEF TrackerInv, ListsRise
<1>6. Apart' /\ Kept' BY <1>2, <1>3 DEF TrackerInv, Apart, Kept
<1> QED BY <1>4, <1>5, <1>6 DEF TrackerInv

LEMMA CreateStep ==
  ASSUME TrackerInv, NEW t \in Tabs, CreateKnown(t) \/ CreateUnknown(t)
  PROVE  TrackerInv'
<1>1. anonKey \in Nat /\ ids \in Nat BY DEF TrackerInv, TrackerTypes
<1>2. CASE CreateKnown(t)
  BY <1>1, <1>2, PageOpens DEF CreateKnown
<1>3. CASE CreateUnknown(t)
  <2>1. ids' \in Nat BY <1>1, <1>3 DEF CreateUnknown
  <2>2. anonKey' \in Nat BY <1>1, <1>3, <2>1 DEF CreateUnknown
  <2> QED BY <1>3, <2>1, <2>2, PageOpens DEF CreateUnknown
<1> QED BY <1>2, <1>3

\* The queue of a page vanishes.
LEMMA UnloadStep ==
  ASSUME TrackerInv, NEW t \in Tabs, Unload(t)
  PROVE  TrackerInv'
<1>1. /\ tab' = [tab EXCEPT ![t] = NoPage]
      /\ vanished' = vanished \cup Queued(t)
      /\ UNCHANGED <<anonKey, ids, seen, handed, arrived>>
  BY DEF Unload, Queued
<1>2. tab \in [Tabs -> Page] /\ seen \in Nat BY DEF TrackerInv, TrackerTypes
<1>3. /\ \A u \in Tabs \ {t} : tab'[u].queue = tab[u].queue /\ Queued(u)' = Queued(u)
      /\ tab'[t].queue = <<>> /\ Queued(t)' = {}
  BY <1>1, <1>2, PageTypes DEF Queued
<1>4. Gone' = Gone \cup Queued(t) BY <1>1 DEF Gone
<1>5. TrackerTypes' BY <1>1, <1>2, Bounded, PageTypes DEF TrackerInv, TrackerTypes
<1>6. ListsRise'
  <2>1. Rising(<<>>, seen) BY DEF Rising
  <2>2. \A u \in Tabs : Rising(tab'[u].queue, seen) BY <1>3, <2>1 DEF TrackerInv, ListsRise
  <2> QED BY <1>1, <1>4, <2>2, Bounded DEF TrackerInv, ListsRise
<1>7. Apart'
  <2>1. \A u \in Tabs : Queued(u)' \subseteq Queued(u) BY <1>3
  <2>2. \A n \in Queued(t) : n \notin Elements(arrived) /\ n \in Nat
    BY Bounded DEF TrackerInv, Apart, Gone
  <2>3. \A u \in Tabs, n \in Gone' : n \notin Queued(u)'
    BY <1>3, <1>4, <2>2 DEF TrackerInv, Apart
  <2>4. \A p \in handed, n \in Gone' : n \notin Sent(p)
    BY <1>4, <2>2 DEF TrackerInv, Apart
  <2>5. \A n \in vanished' : n \notin Elements(arrived) BY <1>1, <2>2 DEF TrackerInv, Apart
  <2> QED BY <1>1, <2>1, <2>3, <2>4, <2>5 DEF TrackerInv, Apart
<1>8. Kept'
  <2>1. \A n \in 1..seen : (\E u \in Tabs : n \in Queued(u)) => n \in Gone' \/ \E u \in Tabs : n \in Queued(u)'
    BY <1>3, <1>4
  <2> QED BY <1>1, <1>4, <2>1 DEF TrackerInv, Kept
<1> QED BY <1>5, <1>6, <1>7, <1>8 DEF TrackerInv

\* A post is made of what was queued or is new, and a part of it is queued still.
LEMMA PostMade ==
  ASSUME TrackerInv, NEW t \in Tabs, NEW list \in Numbers, NEW rest \in Numbers,
         seen' \in {seen, seen + 1}, Rising(list, seen'), Rising(rest, seen'),
         Elements(list) \cup Elements(rest) = Queued(t) \cup {n \in Nat : seen < n /\ n <= seen'},
         Elements(list) \cap Elements(rest) = {},
         tab' = [tab EXCEPT ![t].queue = rest],
         handed' = handed \cup {[id |-> tab[t].id, events |-> list]},
         UNCHANGED <<anonKey, ids, arrived, vanished>>
  PROVE  TrackerInv'
<1> DEFINE new == [id |-> tab[t].id, events |-> list]
<1>1. tab \in [Tabs -> Page] /\ seen \in Nat /\ seen' \in Nat BY DEF TrackerInv, TrackerTypes
<1>2. /\ \A u \in Tabs \ {t} : tab'[u].queue = tab[u].queue /\ Queued(u)' = Queued(u)
      /\ tab'[t].queue = rest /\ Queued(t)' = Elements(rest) /\ tab' \in [Tabs -> Page]
  BY <1>1 DEF Queued, Page
<1>3. Gone' = Gone BY DEF Gone
<1>4. new \in Post /\ new.events = list /\ Sent(new) = Elements(list)
  BY <1>1 DEF Post, Page, Sent
<1>5. handed' = handed \cup {new} OBVIOUS
<1> HIDE DEF new
<1>6. TrackerTypes' BY <1>1, <1>2, <1>4, <1>5 DEF TrackerInv, TrackerTypes
<1>7. ListsRise'
  <2>1. \A a \in Numbers : Rising(a, seen) => Rising(a, seen')
    BY <1>1 DEF Rising, Numbers
  <2>2. \A u \in Tabs : Rising(tab'[u].queue, seen')
    BY <1>2, <2>1, Bounded DEF TrackerInv, ListsRise
  <2>3. \A p \in handed' : Rising(p.events, seen')
    BY <1>4, <1>5, <2>1, Bounded DEF TrackerInv, ListsRise
  <2>4. \A n \in Gone' : n <= seen' BY <1>1, <1>3, Bounded
  <2> QED BY <2>2, <2>3, <2>4 DEF TrackerInv, ListsRise
<1>8. /\ \A u \in Tabs \ {t}, n \in Nat : n \in Queued(u) =>
           n \notin Elements(list) /\ n \notin Elements(rest)
      /\ \A p \in handed, n \in Nat : n \in Sent(p) =>
           n \notin Elements(list) /\ n \notin Elements(rest)
      /\ \A n \in Gone : n \notin Elements(list) /\ n \notin Elements(rest)
  <2>1. \A n : n \in Elements(list) \/ n \in Elements(rest) =>
               n \in Queued(t) \/ (n \in Nat /\ seen < n)
    OBVIOUS
  <2>2. /\ \A u \in Tabs \ {t}, n \in Nat : n \in Queued(u) => n \notin Queued(t) /\ n <= seen
        /\ \A p \in handed, n \in Nat : n \in Sent(p) => n \notin Queued(t) /\ n <= seen
        /\ \A n \in Gone : n \notin Queued(t) /\ n <= seen /\ n \in Nat
    BY Bounded DEF TrackerInv, Apart
  <2> QED BY <1>1, <2>1, <2>2
<1>9. Apart'
  <2>1. \A u, v \in Tabs, n \in Nat : n \in Queued(u)' /\ n \in Queued(v)' => u = v
    BY <1>2, <1>8 DEF TrackerInv, Apart
  <2>2. \A p, q \in handed', n \in Nat : n \in Sent(p) /\ n \in Sent(q) => p = q
    BY <1>4, <1>5, <1>8 DEF TrackerInv, Apart
  <2>3. \A u \in Tabs, p \in handed', n \in Nat : ~(n \in Queued(u)' /\ n \in Sent(p))
    BY <1>2, <1>4, <1>5, <1>8 DEF TrackerInv, Apart
  <2>4. \A u \in Tabs : \A n \in Gone' : n \notin Queued(u)'
    BY <1>2, <1>3, <1>8 DEF TrackerInv, Apart
  <2>5. \A p \in handed' : \A n \in Gone' : n \notin Sent(p)
    BY <1>3, <1>4, <1>5, <1>8 DEF TrackerInv, Apart
  <2>6. \A n \in vanished' : n \notin Elements(arrived') BY DEF TrackerInv, Apart
  <2> QED BY <2>1, <2>2, <2>3, <2>4, <2>5, <2>6 DEF Apart, Sent
<1>10. Kept'
  <2> SUFFICES ASSUME NEW n \in 1..seen'
               PROVE  \/ \E u \in Tabs : n \in Queued(u)'
                      \/ \E p \in handed' : n \in Sent(p)
                      \/ n \in Gone'
    BY DEF Kept, Sent
  <2>1. CASE n \in Elements(list) BY <1>4, <1>5, <2>1
  <2>2. CASE n \in Elements(rest) BY <1>2, <2>2
  <2>3. CASE n \notin Elements(list) /\ n \notin Elements(rest)
    <3>1. n \in 1..seen /\ n \notin Queued(t) BY <1>1, <2>3
    <3>2. (\E u \in Tabs : n \in Queued(u)) \/ (\E p \in handed : n \in Sent(p)) \/ n \in Gone
      BY <3>1 DEF TrackerInv, Kept
    <3> QED BY <1>2, <1>3, <1>5, <3>1, <3>2
  <2> QED BY <2>1, <2>2, <2>3
<1> QED BY <1>6, <1>7, <1>9, <1>10 DEF TrackerInv

LEMMA QueueGrows ==
  ASSUME TrackerInv, NEW t \in Tabs, seen' = seen + 1,
         tab' = [tab EXCEPT ![t].queue = Append(tab[t].queue, seen + 1)],
         UNCHANGED <<anonKey, ids, handed, arrived, vanished>>
  PROVE  TrackerInv'
<1> DEFINE queue == Append(tab[t].queue, seen + 1)
<1>1. tab \in [Tabs -> Page] /\ seen \in Nat BY DEF TrackerInv, TrackerTypes
<1>a. tab[t].queue \in Numbers BY Bounded
<1>b. queue \in Numbers /\ Rising(queue, seen + 1)
  BY <1>1, <1>a, AppendRises DEF TrackerInv, ListsRise
<1>c. Elements(queue) = Queued(t) \cup {seen + 1}
  <2>1. seen + 1 \in Nat BY <1>1
  <2> QED BY <1>a, <2>1, ElementsAppended DEF Queued
<1> HIDE DEF queue
<1>d. tab' = [tab EXCEPT ![t].queue = queue] BY DEF queue
<1>2. /\ \A u \in Tabs \ {t} : tab'[u].queue = tab[u].queue /\ Queued(u)' = Queued(u)
      /\ tab'[t].queue = queue /\ Queued(t)' = Queued(t) \cup {seen + 1} /\ tab' \in [Tabs -> Page]
  BY <1>1, <1>b, <1>c, <1>d DEF Queued, Page
<1>3. Gone' = Gone BY DEF Gone
<1>6. TrackerTypes' BY <1>1, <1>2 DEF TrackerInv, TrackerTypes
<1>7. ListsRise'
  <2>1. \A a \in Numbers : Rising(a, seen) => Rising(a, seen')
    BY <1>1 DEF Rising, Numbers
  <2>2. \A u \in Tabs : Rising(tab'[u].queue, seen')
    BY <1>2, <1>b, <2>1, Bounded DEF TrackerInv, ListsRise
  <2>3. \A p \in handed' : Rising(p.events, seen')
    BY <2>1, Bounded DEF TrackerInv, ListsRise
  <2>4. \A n \in Gone' : n <= seen' BY <1>1, <1>3, Bounded
  <2> QED BY <2>2, <2>3, <2>4 DEF TrackerInv, ListsRise
<1>8. /\ \A u \in Tabs : seen + 1 \notin Queued(u)
      /\ \A p \in handed : seen + 1 \notin Sent(p)
      /\ seen + 1 \notin Gone
  <2>1. ~(seen + 1 <= seen) BY <1>1
  <2> QED BY <2>1, Bounded
<1>9. Apart'
  <2>1. \A u, v \in Tabs, n \in Nat : n \in Queued(u)' /\ n \in Queued(v)' => u = v
    BY <1>2, <1>8 DEF TrackerInv, Apart
  <2>2. \A u \in Tabs, p \in handed, n \in Nat : ~(n \in Queued(u)' /\ n \in Sent(p))
    BY <1>2, <1>8 DEF TrackerInv, Apart
  <2>3. \A u \in Tabs : \A n \in Gone' : n \notin Queued(u)'
    BY <1>2, <1>3, <1>8 DEF TrackerInv, Apart
  <2> QED BY <1>3, <2>1, <2>2, <2>3 DEF TrackerInv, Apart, Sent
<1>10. Kept'
  <2> SUFFICES ASSUME NEW n \in 1..seen'
               PROVE  \/ \E u \in Tabs : n \in Queued(u)'
                      \/ \E p \in handed : n \in Sent(p)
                      \/ n \in Gone
    BY <1>3 DEF Kept, Sent
  <2>1. CASE n = seen + 1 BY <1>2, <2>1
  <2>2. CASE n # seen + 1
    <3>1. n \in 1..seen BY <1>1, <2>2
    <3> QED BY <1>2, <3>1 DEF TrackerInv, Kept
  <2> QED BY <2>1, <2>2
<1> QED BY <1>6, <1>7, <1>9, <1>10 DEF TrackerInv

LEMMA TrackStep ==
  ASSUME TrackerInv, NEW t \in Tabs, Track(t)
  PROVE  TrackerInv'
<1> DEFINE queue == Append(tab[t].queue, seen + 1)
<1>1. seen \in Nat /\ tab[t].queue \in Numbers BY Bounded DEF TrackerInv, TrackerTypes
<1>2. /\ queue \in Numbers /\ Rising(queue, seen + 1)
      /\ Elements(queue) = Queued(t) \cup {seen + 1} /\ Len(queue) = Len(tab[t].queue) + 1
  <2>1. seen + 1 \in Nat BY <1>1
  <2>2. Elements(queue) = Queued(t) \cup {seen + 1}
    BY <1>1, <2>1, ElementsAppended DEF Queued
  <2> QED BY <1>1, <2>2, AppendRises DEF TrackerInv, ListsRise
<1>3. /\ seen' = seen + 1 /\ UNCHANGED <<anonKey, ids, arrived, vanished>>
      /\ IF Len(queue) >= QueueLimit THEN SendDrained(t, queue)
         ELSE tab' = [tab EXCEPT ![t].queue = queue] /\ UNCHANGED handed
  BY DEF Track
<1>4. CASE Len(queue) >= QueueLimit
  <2>1. queue # <<>>
    <3>1. Len(queue) # 0 BY <1>1, <1>2 DEF Numbers
    <3> QED BY <3>1
  <2> HIDE DEF queue
  <2>2. /\ handed' = handed \cup {[id |-> tab[t].id, events |-> queue]}
        /\ tab' = [tab EXCEPT ![t].queue = <<>>]
    BY <1>3, <1>4, <2>1 DEF SendDrained
  <2>3. {n \in Nat : seen < n /\ n <= seen'} = {seen + 1} BY <1>1, <1>3
  <2>4. Rising(<<>>, seen') /\ Elements(<<>>) = {} /\ <<>> \in Numbers
    BY PageTypes DEF Rising
  <2> QED BY <1>2, <1>3, <2>2, <2>3, <2>4, PostMade
<1>5. CASE ~(Len(queue) >= QueueLimit)
  BY <1>3, <1>5, QueueGrows
<1> QED BY <1>4, <1>5

LEMMA FlushQueueStep ==
  ASSUME TrackerInv, NEW t \in Tabs, FlushQueue(t)
  PROVE  TrackerInv'
<1>1. seen \in Nat /\ tab[t].queue \in Numbers BY Bounded DEF TrackerInv, TrackerTypes
<1>2. UNCHANGED <<anonKey, ids, seen, arrived, vanished>> /\ SendDrained(t, tab[t].queue)
  BY DEF FlushQueue
<1>3. tab' = [tab EXCEPT ![t].queue = <<>>] BY <1>2 DEF SendDrained
<1>4. CASE tab[t].queue = <<>>
  <2>1. tab \in [Tabs -> Page] BY DEF TrackerInv, TrackerTypes
  <2>2. tab' = tab BY <1>3, <1>4, <2>1 DEF Page
  <2>3. handed' = handed BY <1>2, <1>4 DEF SendDrained
  <2> QED BY <1>2, <2>2, <2>3
       DEF TrackerInv, TrackerTypes, ListsRise, Apart, Kept, Queued, Sent, Gone
<1>5. CASE tab[t].queue # <<>>
  <2>1. handed' = handed \cup {[id |-> tab[t].id, events |-> tab[t].queue]}
    BY <1>2, <1>5 DEF SendDrained
  <2>2. {n \in Nat : seen < n /\ n <= seen'} = {} BY <1>1, <1>2
  <2>3. Rising(<<>>, seen') /\ Elements(<<>>) = {} /\ <<>> \in Numbers
    BY PageTypes DEF Rising
  <2>4. Rising(tab[t].queue, seen') /\ Elements(tab[t].queue) = Queued(t)
    BY <1>2 DEF TrackerInv, ListsRise, Queued
  <2> QED BY <1>1, <1>2, <1>3, <2>1, <2>2, <2>3, <2>4, PostMade
<1> QED BY <1>4, <1>5

LEMMA IdentifyStep ==
  ASSUME TrackerInv, NEW t \in Tabs, Identify(t)
  PROVE  TrackerInv'
<1>1. /\ seen \in Nat /\ tab[t].queue \in Numbers /\ tab \in [Tabs -> Page]
  BY Bounded DEF TrackerInv, TrackerTypes
<1>2. /\ seen' = seen + 1 /\ UNCHANGED <<anonKey, ids, tab, arrived, vanished>>
      /\ handed' = handed \cup {[id |-> tab[t].id, events |-> <<seen + 1>>]}
  BY DEF Identify
<1>3. tab' = [tab EXCEPT ![t].queue = tab[t].queue] BY <1>1, <1>2 DEF Page
<1>4. {n \in Nat : seen < n /\ n <= seen'} = {seen + 1} BY <1>1, <1>2
<1>5. /\ <<seen + 1>> \in Numbers /\ Rising(<<seen + 1>>, seen')
      /\ Elements(<<seen + 1>>) = {seen + 1}
  BY <1>1, <1>2, ElementsOf DEF Numbers, Rising
<1>6. Rising(tab[t].queue, seen') /\ Elements(tab[t].queue) = Queued(t)
  <2>1. Rising(tab[t].queue, seen) BY DEF TrackerInv, ListsRise
  <2> QED BY <1>1, <1>2, <2>1 DEF Queued, Rising, Numbers
<1>7. seen + 1 \notin Queued(t)
  <2>1. ~(seen + 1 <= seen) BY <1>1
  <2> QED BY <2>1, Bounded
<1> DEFINE list == <<seen + 1>>
           rest == tab[t].queue
<1>8. /\ list \in Numbers /\ rest \in Numbers /\ Rising(list, seen') /\ Rising(rest, seen')
      /\ Elements(list) = {seen + 1} /\ Elements(rest) = Queued(t)
      /\ tab' = [tab EXCEPT ![t].queue = rest]
      /\ handed' = handed \cup {[id |-> tab[t].id, events |-> list]}
  BY <1>1, <1>2, <1>3, <1>5, <1>6
<1> HIDE DEF list, rest
<1>9. /\ Elements(list) \cap Elements(rest) = {}
      /\ Elements(list) \cup Elements(rest) = Queued(t) \cup {n \in Nat : seen < n /\ n <= seen'}
  BY <1>4, <1>7, <1>8
<1> QED BY <1>2, <1>8, <1>9, PostMade

\* A post leaves, what it holds arrives or is lost.
LEMMA PostLeaves ==
  ASSUME TrackerInv, NEW post \in handed, handed' = handed \ {post},
         arrived' \in Numbers, Single(arrived'), vanished' \subseteq Nat,
         Gone' = Gone \cup Sent(post),
         \A n \in vanished' : n \notin Elements(arrived'),
         UNCHANGED <<anonKey, ids, seen, tab>>
  PROVE  TrackerInv'
<1>1. TrackerTypes' BY DEF TrackerInv, TrackerTypes
<1>2. ListsRise' BY Bounded DEF TrackerInv, ListsRise
<1>3. Apart'
  <2>1. \A u \in Tabs : \A n \in Gone' : n \notin Queued(u)
    <3>1. \A u \in Tabs : \A n \in Sent(post) : n \notin Queued(u)
      BY Bounded DEF TrackerInv, Apart
    <3> QED BY <3>1 DEF TrackerInv, Apart
  <2>2. \A p \in handed' : \A n \in Gone' : n \notin Sent(p)
    <3>1. \A p \in handed' : \A n \in Sent(post) : n \notin Sent(p)
      BY Bounded DEF TrackerInv, Apart
    <3> QED BY <3>1 DEF TrackerInv, Apart
  <2> QED BY <2>1, <2>2 DEF TrackerInv, Apart, Queued, Sent
<1>4. Kept'
  <2>1. \A n \in 1..seen : (\E p \in handed : n \in Sent(p)) =>
                            n \in Gone' \/ \E p \in handed' : n \in Sent(p)
    OBVIOUS
  <2> QED BY <2>1 DEF TrackerInv, Kept, Queued, Sent
<1> QED BY <1>1, <1>2, <1>3, <1>4 DEF TrackerInv

LEMMA ArriveStep ==
  ASSUME TrackerInv, NEW post \in handed, Arrive(post)
  PROVE  TrackerInv'
<1>1. /\ handed' = handed \ {post} /\ arrived' = arrived \o post.events
      /\ UNCHANGED <<anonKey, ids, seen, tab, vanished>>
  BY DEF Arrive
<1>2. /\ arrived \in Numbers /\ post.events \in Numbers /\ vanished \subseteq Nat /\ seen \in Nat
  BY Bounded DEF TrackerInv, TrackerTypes
<1>3. arrived' \in Numbers BY <1>1, <1>2 DEF Numbers
<1>4. Elements(arrived') = Elements(arrived) \cup Sent(post)
  <2>1. 0 \in Nat OBVIOUS
  <2> QED BY <1>1, <1>2, <2>1, ElementsOf DEF Sent
<1>5. Gone' = Gone \cup Sent(post) BY <1>1, <1>4 DEF Gone
<1>6. \A n \in Sent(post) : n \notin Elements(arrived) /\ n \notin vanished
  BY Bounded DEF TrackerInv, Apart, Gone
<1>7. Single(arrived')
  <2>1. Single(post.events) BY <1>2, RisingIsSingle DEF TrackerInv, ListsRise
  <2>2. Single(arrived) BY DEF TrackerInv, ListsRise
  <2>3. Elements(arrived) \cap Elements(post.events) = {} BY <1>6 DEF Sent
  <2> QED BY <1>1, <1>2, <2>1, <2>2, <2>3, JoinedSingle
<1>8. \A n \in vanished' : n \notin Elements(arrived')
  BY <1>1, <1>4, <1>6 DEF TrackerInv, Apart
<1> QED BY <1>1, <1>2, <1>3, <1>5, <1>7, <1>8, PostLeaves

LEMMA MissStep ==
  ASSUME TrackerInv, NEW post \in handed, Miss(post)
  PROVE  TrackerInv'
<1>1. /\ handed' = handed \ {post} /\ vanished' = vanished \cup Sent(post)
      /\ UNCHANGED <<anonKey, ids, seen, tab, arrived>>
  BY DEF Miss, Sent
<1>2. vanished' \subseteq Nat /\ arrived' \in Numbers /\ Single(arrived')
  BY <1>1, Bounded DEF TrackerInv, TrackerTypes, ListsRise
<1>3. Gone' = Gone \cup Sent(post) BY <1>1 DEF Gone
<1>4. \A n \in vanished' : n \notin Elements(arrived')
  <2>1. \A n \in Sent(post) : n \notin Elements(arrived)
    BY Bounded DEF TrackerInv, Apart, Gone
  <2> QED BY <1>1, <2>1 DEF TrackerInv, Apart
<1> QED BY <1>1, <1>2, <1>3, <1>4, PostLeaves

LEMMA TrackerStep == TrackerInv /\ [TrackerNext]_trackerVars => TrackerInv'
<1> SUFFICES ASSUME TrackerInv, [TrackerNext]_trackerVars PROVE TrackerInv'
  OBVIOUS
<1>1. ASSUME NEW t \in Tabs,
             CreateKnown(t) \/ CreateUnknown(t) \/ Unload(t) \/ Track(t) \/ FlushQueue(t) \/ Identify(t)
      PROVE  TrackerInv'
  BY <1>1, CreateStep, UnloadStep, TrackStep, FlushQueueStep, IdentifyStep
<1>2. ASSUME NEW post \in handed, Arrive(post) \/ Miss(post) PROVE TrackerInv'
  BY <1>2, ArriveStep, MissStep
<1>3. CASE UNCHANGED trackerVars
  BY <1>3 DEF trackerVars, TrackerInv, TrackerTypes, ListsRise, Apart, Kept, Queued, Sent, Gone
<1> QED BY <1>1, <1>2, <1>3 DEF TrackerNext

\* A set that has no two members has at most one, and one if it is not empty.
LEMMA AtMostOne ==
  ASSUME NEW S, \A x, y \in S : x = y
  PROVE  Cardinality(S) = IF S = {} THEN 0 ELSE 1
<1>1. CASE S = {} BY <1>1, FS_EmptySet
<1>2. CASE S # {}
  <2>1. PICK x : x \in S BY <1>2
  <2>2. S = {x} BY <2>1
  <2> QED BY <2>2, FS_Singleton
<1> QED BY <1>1, <1>2

LEMMA OneCopy ==
  ASSUME TrackerInv, NEW n \in 1..seen
  PROVE  Copies(n) = 1
<1> DEFINE Q == {t \in Tabs : n \in Elements(tab[t].queue)}
           P == {post \in handed : n \in Elements(post.events)}
           A == {i \in 1..Len(arrived) : arrived[i] = n}
           V == IF n \in vanished THEN 1 ELSE 0
<1>1. n \in Nat OBVIOUS
<1>2. Cardinality(Q) = IF Q = {} THEN 0 ELSE 1
  <2>1. \A x, y \in Q : x = y BY <1>1 DEF TrackerInv, Apart, Queued
  <2> QED BY <2>1, AtMostOne
<1>3. Cardinality(P) = IF P = {} THEN 0 ELSE 1
  <2>1. \A x, y \in P : x = y BY <1>1 DEF TrackerInv, Apart, Sent
  <2> QED BY <2>1, AtMostOne
<1>4. Cardinality(A) = IF A = {} THEN 0 ELSE 1
  <2>1. \A x, y \in A : x = y BY DEF TrackerInv, ListsRise, Single
  <2> QED BY <2>1, AtMostOne
<1>5. /\ Q # {} <=> \E t \in Tabs : n \in Queued(t)
      /\ P # {} <=> \E p \in handed : n \in Sent(p)
      /\ A # {} <=> n \in Elements(arrived)
  BY DEF Queued, Sent, Elements
<1>6. Copies(n) = Cardinality(Q) + Cardinality(P) + Cardinality(A) + V
  BY DEF Copies
<1> HIDE DEF Q, P, A
<1>7. /\ Q # {} \/ P # {} \/ A # {} \/ n \in vanished
      /\ ~(Q # {} /\ P # {}) /\ ~(Q # {} /\ A # {}) /\ ~(P # {} /\ A # {})
      /\ n \in vanished => Q = {} /\ P = {} /\ A = {}
  BY <1>1, <1>5 DEF TrackerInv, Apart, Kept, Gone
<1> QED BY <1>2, <1>3, <1>4, <1>6, <1>7

\* An event of the browser tracker is queued, on its way, arrived or lost, and in
\* one of these places only, however tabs come and go; within a post the events
\* keep their order.  For any number of tabs and any flushAt.
THEOREM TrackerRepeatsNothing == TrackerSpec => []NoEventTwice
<1>1. TrackerInv => NoEventTwice
  BY OneCopy DEF NoEventTwice, TrackerInv, ListsRise, Rising
<1> QED BY <1>1, TrackerStart, TrackerStep, PTL DEF TrackerSpec
=============================================================================
