------------------------------- MODULE Journeys -------------------------------
(***************************************************************************)
(* A run of a journey (packages/journeys/src/index.ts), as the route       *)
(* /v1/tenants/:id/journeys/run makes it: from step to step, until an exit *)
(* step, an entry that rejects, a key that leads nowhere, or maxSteps.     *)
(*                                                                         *)
(* A journey never changes its context, so a predicate holds or not for    *)
(* the whole run; it is the field `holds` of its step.                     *)
(***************************************************************************)
EXTENDS Naturals, Sequences

CONSTANTS
  Journeys,   \* the definitions asked for: sequences of steps
  MaxSteps,   \* maxSteps of the request
  Nowhere     \* no key: `next`, trueStep or falseStep left out

ASSUME JourneyAssumption == MaxSteps \in Nat \ {0} /\ <<>> \notin Journeys

VARIABLES
  journey,  \* the definition being run, <<>> before the request
  current,  \* key of the step to execute
  path,     \* results: the keys executed, in order
  status    \* "none", "running", or how the run ended

journeyVars == <<journey, current, path, status>>

JourneyInit == journey = <<>> /\ current = Nowhere /\ path = <<>> /\ status = "none"

Keys == {journey[i].key : i \in DOMAIN journey}

\* byKey: of two steps with one key the last is executed ...
Step(key) ==
  journey[CHOOSE i \in DOMAIN journey : journey[i].key = key /\
            \A j \in DOMAIN journey : journey[j].key = key => j <= i]

\* ... but the one after the first is the next in sequence.
NextSequential(key) ==
  LET first == CHOOSE i \in DOMAIN journey : journey[i].key = key /\
                 \A j \in DOMAIN journey : journey[j].key = key => i <= j
  IN IF first < Len(journey) THEN journey[first + 1].key ELSE Nowhere

\* What a step asks to be executed next; without an answer, the next in sequence.
Jump(step) == IF step.type = "branch" /\ ~step.holds THEN step.otherwise ELSE step.next
Following(step) == IF Jump(step) # Nowhere THEN Jump(step) ELSE NextSequential(step.key)

Run(j) ==
  /\ status = "none"
  /\ journey' = j
  /\ current' = j[1].key
  /\ status' = "running"
  /\ UNCHANGED path

Complete(outcome) == status' = outcome /\ UNCHANGED <<journey, current>>

\* Mutant: one step too many.
LeftOneMore == current # Nowhere /\ Len(path) <= MaxSteps

\* The loop's condition.
Left == current # Nowhere /\ Len(path) < MaxSteps

Halt ==
  /\ status = "running"
  /\ Left => current \notin Keys
  /\ Complete("halted")
  /\ UNCHANGED path

Executing(step) ==
  /\ status = "running" /\ Left
  /\ current \in Keys
  /\ step = Step(current)

Execute ==
  \E step \in {journey[i] : i \in DOMAIN journey} :
    /\ Executing(step)
    /\ path' = Append(path, current)
    /\ CASE step.type = "enter" /\ ~step.holds -> Complete("rejected")
         [] step.type = "exit" -> Complete("completed")
         [] OTHER -> current' = Following(step) /\ UNCHANGED <<journey, status>>

\* The executor of an action rejects: the run is lost with its results.
ExecutorThrows ==
  \E step \in {journey[i] : i \in DOMAIN journey} :
    /\ Executing(step)
    /\ step.type = "action" /\ step.known
    /\ Complete("thrown")
    /\ path' = <<>>

JourneyNext == (\E j \in Journeys : Run(j)) \/ Halt \/ Execute \/ ExecutorThrows

JourneySpec == JourneyInit /\ [][JourneyNext]_journeyVars

-----------------------------------------------------------------------------
\* A step is executed twice only in a run that goes round for ever and is cut after
\* MaxSteps steps: a journey that completes, or rejects, did every step once.
RepeatsAreCut ==
  /\ Len(path) <= MaxSteps
  /\ status \in {"completed", "rejected", "halted"} =>
       \/ \A i, j \in DOMAIN path : path[i] = path[j] => i = j
       \/ status = "halted" /\ Len(path) = MaxSteps
=============================================================================
