------------------------------ MODULE ApiProcess -------------------------------
(***************************************************************************)
(* One process of the API from its first request to its exit: the hooks of *)
(* apps/api/src/observability.ts around every request, and the shutdown    *)
(* handlers of server.ts.                                                  *)
(*                                                                         *)
(* Fastify itself (external) is what the code relies on: the onError hooks *)
(* are awaited before the failure is answered, the onResponse hooks run    *)
(* after the answer, close() refuses new requests and resolves when those  *)
(* already accepted are answered.                                          *)
(***************************************************************************)
EXTENDS Naturals, FiniteSets

CONSTANTS
  Requests,    \* requests clients send
  Env,         \* the variables that name a target: those set, and not to blanks
  DsnParses    \* whether SENTRY_DSN is a URL with a project

ASSUME ApiProcessAssumption == Env \subseteq {"SENTRY_DSN", "OTEL_EXPORTER_OTLP_ENDPOINT"} /\ DsnParses \in BOOLEAN

VARIABLES
  phase,      \* of each request: "none", "handling", "failing" or "answered"
  status,     \* the status code answered: 0, 200 or 500
  sending,    \* posts under way: <<request, what is told, target, does it tell a failure>>
  told,       \* posts a target acknowledged
  listening,  \* signals that still have their handler
  process     \* "up", "closing", "exit0", "exit1" or "killed"

processVars == <<phase, status, sending, told, listening, process>>

Signals == {"SIGTERM", "SIGINT"}
Running == process \in {"up", "closing"}

-----------------------------------------------------------------------------
\* resolveObservabilityConfig: the sinks the environment switches on.
targets ==
  (IF "SENTRY_DSN" \in Env THEN {"sentry"} ELSE {})
    \cup (IF "OTEL_EXPORTER_OTLP_ENDPOINT" \in Env THEN {"otel"} ELSE {})

\* A DSN without a project sends nothing, and says so to nobody.
sendSentryError(r) == IF DsnParses THEN {<<r, "error", "sentry", TRUE>>} ELSE {}
sendOtelSpan(r, what, failed) == {<<r, what, "otel", failed>>}

\* networkSink: errors go to every target at once, requests to otel alone.
captureError(r) ==
  (IF "sentry" \in targets THEN sendSentryError(r) ELSE {})
    \cup (IF "otel" \in targets THEN sendOtelSpan(r, "error", TRUE) ELSE {})
captureRequest(r, code) ==
  IF "otel" \in targets THEN sendOtelSpan(r, "request", code >= 500) ELSE {}

ProcessInit ==
  /\ phase = [r \in Requests |-> "none"]
  /\ status = [r \in Requests |-> 0]
  /\ sending = {} /\ told = {}
  /\ listening = Signals
  /\ process = "up"

\* The onRequest hook; a closing server takes no request.
onRequest(r) ==
  /\ process = "up" /\ phase[r] = "none"
  /\ phase' = [phase EXCEPT ![r] = "handling"]
  /\ UNCHANGED <<status, sending, told, listening, process>>

\* The answer, after which the onResponse hook tells of the request.
Answer(r, code) ==
  /\ phase' = [phase EXCEPT ![r] = "answered"]
  /\ status' = [status EXCEPT ![r] = code]
  /\ sending' = sending \cup captureRequest(r, code)

\* The handler answers.
onResponse(r) ==
  /\ Running /\ phase[r] = "handling"
  /\ Answer(r, 200)
  /\ UNCHANGED <<told, listening, process>>

\* Mutant: the error is told without waiting for the sinks.
onErrorUnawaited(r) ==
  /\ Running /\ phase[r] = "handling"
  /\ phase' = [phase EXCEPT ![r] = "answered"]
  /\ status' = [status EXCEPT ![r] = 500]
  /\ sending' = sending \cup captureError(r) \cup captureRequest(r, 500)
  /\ UNCHANGED <<told, listening, process>>
\* The handler throws: the answer waits for the onError hook.
onError(r) ==
  /\ Running /\ phase[r] = "handling"
  /\ phase' = [phase EXCEPT ![r] = "failing"]
  /\ sending' = sending \cup captureError(r)
  /\ UNCHANGED <<status, told, listening, process>>

errorsOf(r) == {p \in sending : p[1] = r /\ p[2] = "error"}
AnswerFailure(r) ==
  /\ Running /\ phase[r] = "failing" /\ errorsOf(r) = {}
  /\ Answer(r, 500)
  /\ UNCHANGED <<told, listening, process>>

\* Mutant: a post has no limit of time, and Sentry hangs.
postJsonUnlimited(p) ==
  /\ Running /\ p \in sending /\ p[3] = "otel"
  /\ sending' = sending \ {p}
  /\ told' \in {told, told \cup {p}}
  /\ UNCHANGED <<phase, status, listening, process>>
\* A post settles: acknowledged, refused or aborted after 1.5 s; the failure is
\* only logged (sendBestEffort, capture).
postJson(p) ==
  /\ Running /\ p \in sending
  /\ sending' = sending \ {p}
  /\ told' \in {told, told \cup {p}}
  /\ UNCHANGED <<phase, status, listening, process>>

\* A signal: `once` leaves no handler for a second of the same kind, which then
\* has the default effect.
signal(s) ==
  /\ Running
  /\ listening' = listening \ {s}
  /\ process' = IF s \in listening THEN "closing" ELSE "killed"
  /\ UNCHANGED <<phase, status, sending, told>>

\* app.close() resolves, or fails.
shutdown ==
  /\ process = "closing"
  /\ \/ /\ \A r \in Requests : phase[r] \in {"none", "answered"}
        /\ process' = "exit0"
     \/ process' = "exit1"
  /\ UNCHANGED <<phase, status, sending, told, listening>>

ProcessNext ==
  \/ \E r \in Requests : onRequest(r) \/ onResponse(r) \/ onError(r) \/ AnswerFailure(r)
  \/ \E p \in sending : postJson(p)
  \/ \E s \in Signals : signal(s)
  \/ shutdown

\* A handler that runs ends, a post settles in time and close() comes to an end;
\* nothing makes a request or a signal come.
ProcessFairness ==
  /\ \A r \in Requests : WF_processVars(onResponse(r) \/ onError(r)) /\ WF_processVars(AnswerFailure(r))
  /\ \A r \in Requests : WF_processVars(\E p \in errorsOf(r) : postJson(p))
  /\ WF_processVars(shutdown)
ProcessSpec == ProcessInit /\ [][ProcessNext]_processVars /\ ProcessFairness

-----------------------------------------------------------------------------
\* A stop in good order cuts no error report short: at exit 0 whoever was
\* accepted has an answer, and no report of an error is still under way. (The
\* span of an ordinary request may be, see the README.)
StopLosesNoErrorReport ==
  process = "exit0" =>
    /\ \A r \in Requests : phase[r] \in {"none", "answered"}
    /\ \A p \in sending : p[2] = "request"

\* A sink that hangs holds nobody up for ever: every request accepted is
\* answered, unless the process is killed or its close fails.
AcceptedIsAnswered ==
  \A r \in Requests :
    phase[r] = "handling" ~> (phase[r] = "answered" \/ process \in {"killed", "exit1"})
=============================================================================
