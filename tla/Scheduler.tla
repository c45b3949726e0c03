------------------------------- MODULE Scheduler -------------------------------
(***************************************************************************)
(* Cron schedules (packages/scheduler/src/index.ts), on a calendar with    *)
(* fewer minutes, hours, days, months and weekdays than the real one, and  *)
(* no leap days.  A caller asks for the next run, and for the next one     *)
(* from there, as nextRuns does; the search tries minute after minute.     *)
(*                                                                         *)
(* Time is counted in minutes from the first one of the calendar; nextRun  *)
(* cuts the seconds of `from` off.                                         *)
(***************************************************************************)
EXTENDS Integers, Sequences

CONSTANTS
  Minutes, Hours, Days, Months, Weekdays,  \* how many there are
  Horizon,   \* candidates tried before nextRun throws
  Exprs,     \* the cron expressions: five fields, each a sequence of parts
  MaxRuns    \* bound: runs asked for

\* A part of a field, from numbers written in digits.
Parts == [star : BOOLEAN, from : Nat, to : Nat, step : Nat]
ASSUME CronAssumption ==
  /\ {Minutes, Hours, Days, Months, Weekdays} \subseteq Nat \ {0} /\ Horizon \in Nat
  /\ \A e \in Exprs : e # <<>> /\ \A i \in 1..5 : \A k \in DOMAIN e[i] : e[i][k] \in Parts

VARIABLES
  expr,    \* the expression, <<>> before one was chosen
  start,   \* the minute of the first `from`
  cursor,  \* the `from` of the search under way
  tried,   \* candidates tried since
  runs,    \* the runs found
  gaveUp   \* did a search throw?

cronVars == <<expr, start, cursor, tried, runs, gaveUp>>

\* RANGES.
Low == <<0, 0, 1, 1, 0>>
High == <<Minutes - 1, Hours - 1, Days, Months, Weekdays - 1>>

\* A part "a-b/s" of a field, or "*/s": its bounds must lie in the field's range.
FieldBounds(part, i) == IF part.star THEN <<Low[i], High[i]>> ELSE <<part.from, part.to>>
GoodPart(part, i) ==
  /\ part.step > 0
  /\ Low[i] <= FieldBounds(part, i)[1] /\ FieldBounds(part, i)[1] <= FieldBounds(part, i)[2]
  /\ FieldBounds(part, i)[2] <= High[i]
addPart(part, i) ==
  {v \in FieldBounds(part, i)[1]..FieldBounds(part, i)[2] : (v - FieldBounds(part, i)[1]) % part.step = 0}

\* parseField and parseCron: a field collects the values of its parts.
parseField(parts, i) == UNION {addPart(parts[k], i) : k \in {k \in DOMAIN parts : GoodPart(parts[k], i)}}
Valid(e) == \A i \in 1..5 : \A k \in DOMAIN e[i] : GoodPart(e[i][k], i)

\* The calendar fields of a minute.
Day(t) == t \div (Minutes * Hours)
Clock(t) ==
  <<t % Minutes, (t \div Minutes) % Hours, 1 + (Day(t) % Days),
    1 + ((Day(t) \div Days) % Months), Day(t) % Weekdays>>

\* Mutant: the day of the month or the day of the week, as other crons have it.
matchesEitherDay(e, t) ==
  /\ Valid(e)
  /\ \A i \in {1, 2, 4} : Clock(t)[i] \in parseField(e[i], i)
  /\ \E i \in {3, 5} : Clock(t)[i] \in parseField(e[i], i)

\* matchesMinute and isDue: every field, the days of month and week both.
matchesMinute(e, t) == Valid(e) /\ \A i \in 1..5 : Clock(t)[i] \in parseField(e[i], i)

CronInit ==
  /\ expr = <<>> /\ start = 0 /\ cursor = 0 /\ tried = 0
  /\ runs = <<>> /\ gaveUp = FALSE

Schedule(e, at) ==
  /\ expr = <<>>
  /\ expr' = e /\ start' = at /\ cursor' = at
  /\ UNCHANGED <<tried, runs, gaveUp>>

\* The minute of `from` itself is never a candidate.
Searching == expr # <<>> /\ ~gaveUp /\ Len(runs) < MaxRuns
Candidate == cursor + tried + 1

Found ==
  /\ Searching /\ tried < Horizon /\ matchesMinute(expr, Candidate)
  /\ runs' = Append(runs, Candidate)
  /\ cursor' = Candidate
  /\ tried' = 0
  /\ UNCHANGED <<expr, start, gaveUp>>

TryNext ==
  /\ Searching /\ tried < Horizon /\ ~matchesMinute(expr, Candidate)
  /\ tried' = tried + 1
  /\ UNCHANGED <<expr, start, cursor, runs, gaveUp>>

GiveUp ==
  /\ Searching /\ tried = Horizon
  /\ gaveUp' = TRUE
  /\ UNCHANGED <<expr, start, cursor, tried, runs>>

CronNext ==
  \/ \E e \in Exprs, at \in 0..(Minutes * Hours) : Schedule(e, at)
  \/ Found \/ TryNext \/ GiveUp

CronSpec == CronInit /\ [][CronNext]_cronVars

-----------------------------------------------------------------------------
\* What the expression means, without the sets it is parsed into.
Due(e, t) ==
  \A i \in 1..5 :
    /\ \A k \in DOMAIN e[i] : GoodPart(e[i][k], i)
    /\ \E k \in DOMAIN e[i] :
         LET v == Clock(t)[i] IN
         IF e[i][k].star THEN (v - Low[i]) % e[i][k].step = 0
         ELSE e[i][k].from <= v /\ v <= e[i][k].to /\ (v - e[i][k].from) % e[i][k].step = 0

\* A chain of nextRun calls finds every due minute after its start, each once and in
\* order, and throws only where no minute is due within the horizon.
RunsAreTheDueMinutes ==
  LET done == IF gaveUp THEN Candidate - 1 ELSE cursor
      due == {t \in (start + 1)..done : Due(expr, t)}
  IN
  /\ {runs[k] : k \in DOMAIN runs} = due
  /\ \A k \in 2..Len(runs) : runs[k - 1] < runs[k]
=============================================================================
