------------------------------ MODULE ServerSdks ------------------------------
(***************************************************************************)
(* The five blocking siblings of the Node SDK: packages/sdk-go, sdk-python,*)
(* sdk-ruby, sdk-php and sdk-java.  Each keeps a buffer, posts it batch by *)
(* batch inside the call that flushes, and retries; they differ in what    *)
(* they retry, in what becomes of a batch that failed, and in locking.     *)
(* Only the Go client has locks, so only it is shared by several threads.  *)
(*                                                                         *)
(* Events are numbered as they are made, payloads are left out.            *)
(***************************************************************************)
EXTENDS Integers, Sequences

CONSTANTS
  Languages,      \* subset of {"go", "python", "ruby", "php", "java"}
  Threads,        \* threads that use a Go client
  SdkFlushAt,     \* flushAt after clamping
  SdkMaxBatch,    \* MAX_BATCH_SIZE
  RetryOptions,   \* values given for maxRetries, a negative one among them
  SdkMaxEvents    \* bound: events made in a behaviour

\* flushMu when nobody holds it.
None == "none"

ASSUME SdkAssumption ==
  /\ Languages \subseteq {"go", "python", "ruby", "php", "java"}
  /\ None \notin Threads
  /\ SdkFlushAt \in Nat \ {0} /\ SdkMaxBatch \in Nat \ {0} /\ SdkMaxEvents \in Nat
  /\ RetryOptions \subseteq Int

VARIABLES
  lang,        \* the client at hand
  maxRetries,
  made,        \* history: events handed to the client
  unsent,      \* the buffer
  flushMu,     \* Go: the thread in Flush, or None
  ended,       \* Go: closed
  call,        \* per thread: the call it is in
  confirmed,   \* history: events of posts answered below 400, in that order
  promised     \* history: events made before a flush that returned without error

sdkVars == <<lang, maxRetries, made, unsent, flushMu, ended, call, confirmed, promised>>

Away == [at |-> "away", batch |-> <<>>, attempt |-> 0, upto |-> 0]
Entering(at) == [Away EXCEPT !.at = at, !.upto = made]

\* How a post can fail: 5xx, 4xx, a broken connection, a timeout; in Java also by
\* an interrupt of the sleep before the retry.
Failures ==
  {"error", "rejected", "broken", "silent"} \cup (IF lang = "java" THEN {"interrupted"} ELSE {})

\* Which answers a client tries again.  Ruby's timeouts are no IOError.
GoRetries(a) == a \in {"error", "broken", "silent"}
PythonRetries(a) == a \in {"error", "broken", "silent"}
RubyRetries(a) == a \in {"error", "broken"}
PhpRetries(a) == a \in {"error", "broken", "silent"}
JavaRetries(a) == a \in {"error", "broken", "silent"}
Retries(a) ==
  \/ lang = "go" /\ GoRetries(a)
  \/ lang = "python" /\ PythonRetries(a)
  \/ lang = "ruby" /\ RubyRetries(a)
  \/ lang = "php" /\ PhpRetries(a)
  \/ lang = "java" /\ JavaRetries(a)

\* Only Go clamps maxRetries.
GoLimit(n) == IF n < 0 THEN 0 ELSE n

\* The attempts a batch gets.  With a negative limit the loops of Python, PHP and
\* Java make none; Ruby's makes one.
Attempts(n) ==
  CASE lang = "go" -> GoLimit(n) + 1
    [] lang = "ruby" -> IF n < 0 THEN 1 ELSE n + 1
    [] OTHER -> n + 1

\* What is buffered after the flush of a batch failed.
GoRestored(batch) == batch \o unsent
PythonRestored(batch) == batch \o unsent
PhpRestored(batch) == batch \o unsent
JavaRestored(batch) == batch \o unsent
\* Ruby's flush has shifted the batch off and has no rescue.
RubyLeft(batch) == unsent
AfterFailure(batch) ==
  CASE lang = "go" -> GoRestored(batch)
    [] lang = "python" -> PythonRestored(batch)
    [] lang = "php" -> PhpRestored(batch)
    [] lang = "java" -> JavaRestored(batch)
    [] lang = "ruby" -> RubyLeft(batch)

ServerSdksInit ==
  /\ lang \in Languages
  /\ maxRetries \in RetryOptions
  /\ made = 0
  /\ unsent = <<>>
  /\ flushMu = None
  /\ ended = FALSE
  /\ call = [t \in Threads |-> Away]
  /\ confirmed = <<>>
  /\ promised = 0

\* A thread can make a call; a client without locks is used by one at a time.
MayCall(t) ==
  /\ call[t] = Away
  /\ lang # "go" => \A u \in Threads : call[u] = Away

\* track() and identify(): the buffer grows, and at the threshold is flushed.
Made(t, entry) ==
  /\ MayCall(t) /\ made < SdkMaxEvents
  /\ made' = made + 1
  /\ unsent' = Append(unsent, made + 1)
  /\ call' = IF Len(unsent) + 1 >= SdkFlushAt
             THEN [call EXCEPT ![t] = [Entering(entry) EXCEPT !.upto = made + 1]]
             ELSE call
  /\ UNCHANGED <<lang, maxRetries, flushMu, ended, confirmed, promised>>

\* Once closed, Go's track() answers ErrClosed and changes nothing.
GoEnqueue(t) == ~ended /\ Made(t, "lock")

FlushCall(t, entry) ==
  /\ MayCall(t)
  /\ call' = [call EXCEPT ![t] = Entering(entry)]
  /\ UNCHANGED <<lang, maxRetries, made, unsent, flushMu, confirmed, promised>>

GoFlush(t) == FlushCall(t, "lock") /\ UNCHANGED ended
GoClose(t) == ended' = TRUE /\ FlushCall(t, "lock")

\* Mutant: Flush does not take flushMu.
GoLockSkipped(t) ==
  /\ call[t].at = "lock"
  /\ flushMu' = t
  /\ call' = [call EXCEPT ![t].at = "take"]
  /\ UNCHANGED <<lang, maxRetries, made, unsent, ended, confirmed, promised>>
GoLock(t) ==
  /\ call[t].at = "lock" /\ flushMu = None
  /\ flushMu' = t
  /\ call' = [call EXCEPT ![t].at = "take"]
  /\ UNCHANGED <<lang, maxRetries, made, unsent, ended, confirmed, promised>>

\* The head of the buffer becomes the next batch.
TakeBatch(t) ==
  /\ call[t].at = "take" /\ unsent # <<>> /\ Attempts(maxRetries) > 0
  /\ unsent' = SubSeq(unsent, SdkMaxBatch + 1, Len(unsent))
  /\ call' = [call EXCEPT ![t].at = "post", ![t].attempt = 1,
                          ![t].batch = SubSeq(unsent, 1, IF Len(unsent) < SdkMaxBatch
                                                         THEN Len(unsent) ELSE SdkMaxBatch)]
  /\ UNCHANGED <<lang, maxRetries, made, flushMu, ended, confirmed, promised>>

\* The batch is spliced off, the loop over its attempts is empty, and the flush
\* goes on as if it had been sent.
TakeUnattempted(t) ==
  /\ call[t].at = "take" /\ unsent # <<>> /\ Attempts(maxRetries) <= 0
  /\ unsent' = SubSeq(unsent, SdkMaxBatch + 1, Len(unsent))
  /\ UNCHANGED <<lang, maxRetries, made, flushMu, ended, call, confirmed, promised>>

\* The buffer is empty: the flush returns without an error.
FlushReturns(t) ==
  /\ call[t].at = "take" /\ unsent = <<>>
  /\ call' = [call EXCEPT ![t] = Away]
  /\ flushMu' = None
  /\ promised' = IF call[t].upto > promised THEN call[t].upto ELSE promised
  /\ UNCHANGED <<lang, maxRetries, made, unsent, ended, confirmed>>

PostConfirmed(t) ==
  /\ call[t].at = "post"
  /\ confirmed' = confirmed \o call[t].batch
  /\ call' = [call EXCEPT ![t].at = "take", ![t].batch = <<>>]
  /\ UNCHANGED <<lang, maxRetries, made, unsent, flushMu, ended, promised>>

PostAgain(t) ==
  /\ call[t].at = "post" /\ call[t].attempt < Attempts(maxRetries)
  /\ \E a \in Failures : Retries(a)
  /\ call' = [call EXCEPT ![t].attempt = @ + 1]
  /\ UNCHANGED <<lang, maxRetries, made, unsent, flushMu, ended, confirmed, promised>>

\* Attempts used up, or an answer that is not tried again: the error is raised.
PostFails(t) ==
  /\ call[t].at = "post"
  /\ \E a \in Failures : Retries(a) => call[t].attempt >= Attempts(maxRetries)
  /\ unsent' = AfterFailure(call[t].batch)
  /\ call' = [call EXCEPT ![t] = Away]
  /\ flushMu' = None
  /\ UNCHANGED <<lang, maxRetries, made, ended, confirmed, promised>>

\* The loops of flush() and of the attempts.
Flushing(t) ==
  TakeBatch(t) \/ TakeUnattempted(t) \/ FlushReturns(t) \/ PostConfirmed(t) \/ PostAgain(t) \/ PostFails(t)

\* The calls of a client without a lock; its close() is flush().
Blocking(t) == Made(t, "take") \/ (FlushCall(t, "take") /\ UNCHANGED ended) \/ Flushing(t)

GoClient(t) == lang = "go" /\ (GoEnqueue(t) \/ GoFlush(t) \/ GoClose(t) \/ GoLock(t) \/ Flushing(t))
PythonClient(t) == lang = "python" /\ Blocking(t)
RubyClient(t) == lang = "ruby" /\ Blocking(t)
PhpClient(t) == lang = "php" /\ Blocking(t)
JavaClient(t) == lang = "java" /\ Blocking(t)

ServerSdksNext ==
  \E t \in Threads :
    GoClient(t) \/ PythonClient(t) \/ RubyClient(t) \/ PhpClient(t) \/ JavaClient(t)

ServerSdksSpec == ServerSdksInit /\ [][ServerSdksNext]_sdkVars

-----------------------------------------------------------------------------
InPost == {t \in Threads : call[t].at = "post"}
Held == IF InPost = {} THEN <<>> ELSE call[CHOOSE t \in InPost : TRUE].batch

\* Confirmed events, the batch in hand and the buffer, in this order.
Line == confirmed \o Held \o unsent

\* "close sends the rest of the buffer, without loss of data": every event made is
\* somewhere in the line.
NoEventLost == Len(Line) = made

\* No client lets an event overtake an older one, whatever fails and however many
\* threads share it.  But for Ruby, and for a negative maxRetries outside Go, none
\* loses an event either, and a flush that returned without an error has delivered
\* every event made before it.
SdksKeepTheLine ==
  /\ \A i, j \in 1..Len(Line) : i < j => Line[i] < Line[j]
  /\ lang = "go" \/ (lang # "ruby" /\ maxRetries >= 0) =>
       NoEventLost /\ promised <= Len(confirmed)
=============================================================================
