------------------------------ MODULE RateLimiter ------------------------------
(***************************************************************************)
(* The two limiters of packages/rate-limiter/src/index.ts over a store     *)
(* that several callers share.  A call reads the counter of its key, and   *)
(* in a later turn writes the one it computed.  One key of each kind.      *)
(*                                                                         *)
(* Time is counted in the units in which a bucket gains Refill tokens.     *)
(***************************************************************************)
EXTENDS Integers, FiniteSets, FiniteSetsExt

CONSTANTS
  Clients,   \* calls under way at the same time
  Capacity,  \* capacity of the bucket
  Refill,    \* tokens it gains per unit of time
  WindowLimit,     \* limit of the window
  Window,    \* windowMs, in units of time
  MaxTime,   \* bound: the last instant
  MaxAdmitted  \* bound: no call is made once so many were admitted

ASSUME LimiterAssumption ==
  {Capacity, Refill, WindowLimit, MaxTime, MaxAdmitted} \subseteq Nat /\ Window \in Nat \ {0}

VARIABLES
  now,       \* the clock the callers pass
  bucket,    \* tokens and updatedAtMs; none before the first call
  window,    \* count and windowStartMs
  asking,    \* per client: which limiter, the time it passed and what it read
  admitted,  \* history, per limiter and instant: calls admitted
  lost       \* history, per limiter: admissions a write wiped out, for the call
             \* had read the counter before them

limiterVars == <<now, bucket, window, asking, admitted, lost>>

Limiters == {"bucket", "window"}
Fresh == [tokens |-> Capacity, at |-> -1]
Unopened == [count |-> 0, start |-> -1]
NoRecord == [limiter |-> "none", now |-> 0, read |-> Unopened, before |-> 0]

LimiterInit ==
  /\ now = 0 /\ bucket = Fresh /\ window = Unopened
  /\ asking = [c \in Clients |-> NoRecord]
  /\ admitted = [l \in Limiters |-> [t \in 0..MaxTime |-> 0]]
  /\ lost = [l \in Limiters |-> 0]

\* The calls admitted between two instants, each with its number.
AdmittedCalls(l, from, to) == UNION {{t} \X (1..admitted[l][t]) : t \in from..to}
Within(l, from, to) == Cardinality(AdmittedCalls(l, from, to))
Total(l) == Within(l, 0, MaxTime)

Elapse == now < MaxTime /\ now' = now + 1 /\ UNCHANGED <<bucket, window, asking, admitted, lost>>

\* consume() and hit() first await the store's get.
Get(c, l) ==
  /\ asking[c] = NoRecord /\ Total(l) < MaxAdmitted
  /\ asking' = [asking EXCEPT ![c] = [limiter |-> l, now |-> now, before |-> Total(l),
                                      read |-> IF l = "bucket" THEN bucket ELSE window]]
  /\ UNCHANGED <<now, bucket, window, admitted, lost>>

\* Mutant: a clock that stands still or goes back refills the bucket all the same.
refillAnyway(current, at) ==
  IF current.at = -1 THEN Capacity
  ELSE Min({Capacity, current.tokens + Max({1, at - current.at}) * Refill})

refill(current, at) ==
  IF current.at = -1 THEN Capacity
  ELSE Min({Capacity, current.tokens + Max({0, at - current.at}) * Refill})

Grant(c, allowed) ==
  LET l == asking[c].limiter IN
  /\ admitted' = [admitted EXCEPT ![l][asking[c].now] = @ + IF allowed THEN 1 ELSE 0]
  /\ lost' = [lost EXCEPT ![l] = @ + Total(l) - asking[c].before]
  /\ asking' = [asking EXCEPT ![c] = NoRecord]
  /\ UNCHANGED now

\* The rest of consumeBucket, for one token.
ConsumeBucket(c) ==
  LET tokens == refill(asking[c].read, asking[c].now)
      allowed == tokens >= 1
  IN
  /\ asking[c].limiter = "bucket"
  /\ bucket' = [tokens |-> IF allowed THEN tokens - 1 ELSE tokens, at |-> asking[c].now]
  /\ Grant(c, allowed)
  /\ UNCHANGED window

\* The rest of hitWindow.  The window is not a sliding one: it begins with a call
\* and is over, count and all, after windowMs.
HitWindow(c) ==
  LET current == asking[c].read
      at == asking[c].now
      expired == current.start = -1 \/ at - current.start >= Window
      count == IF expired THEN 0 ELSE current.count
      allowed == count < WindowLimit
  IN
  /\ asking[c].limiter = "window"
  /\ window' = [count |-> IF allowed THEN count + 1 ELSE count,
                start |-> IF expired THEN at ELSE current.start]
  /\ Grant(c, allowed)
  /\ UNCHANGED bucket

LimiterNext ==
  \/ Elapse
  \/ \E c \in Clients : (\E l \in Limiters : Get(c, l)) \/ ConsumeBucket(c) \/ HitWindow(c)

LimiterSpec == LimiterInit /\ [][LimiterNext]_limiterVars

-----------------------------------------------------------------------------
\* A bucket admits what it holds and what it gained; a window admits less than twice
\* its limit in any span as long as it, not the limit; and calls that overlap admit
\* in addition at most what their writes wiped out.
LimitersBound ==
  \A from, to \in 0..MaxTime : from <= to =>
    /\ Within("bucket", from, to) <= Capacity + Refill * (to - from) + lost["bucket"]
    /\ to - from < Window =>
         Within("window", from, to) <= Max({0, 2 * WindowLimit - 1}) + lost["window"]
=============================================================================
