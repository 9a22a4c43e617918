----------------------------- MODULE McpClient -----------------------------
(***************************************************************************)
(* mcp/client.py and mcp/health.py: every tool call of the bot goes        *)
(* through one client.  call() asks the circuit breaker once, sends up to  *)
(* MaxAttempts requests with pauses in between, and records the result; a  *)
(* background task pings oMLX and records its results in the same breaker. *)
(* oMLX serves both the pings and the tools of dm20.                       *)
(*                                                                         *)
(* A request whose answer the bot no longer waits for may still be carried *)
(* out.  A 4xx answer is taken to have changed nothing.  The HTTP library  *)
(* (external) raises a timeout, a network error or something else; only    *)
(* the first two are retried, and only MCP errors reach the breaker.       *)
(* How long things take is left out: each wait ends or is cut off.         *)
(***************************************************************************)
EXTENDS Naturals, FiniteSets

CONSTANTS Call,          \* calls of call() in the life of the process
          MaxAttempts,   \* stop_after_attempt
          Threshold,     \* omlx_circuit_breaker_threshold
          MaxFailures    \* bound: failures are not counted beyond

ASSUME McpClientAssumption ==
    /\ MaxAttempts \in Nat \ {0}
    /\ Threshold \in Nat \ {0}
    /\ MaxFailures \in Nat
    /\ Threshold <= MaxFailures

VARIABLES phase,      \* phase[c]: where call c is
          attempt,    \* attempt[c]: attempt_n, requests sent so far
          request,    \* request[c]: the request c waits for, at the server
          stray,      \* stray[c]: requests of c nobody waits for, not carried out
          done,       \* done[c]: times dm20 carried out c
          outcome,    \* outcome[c]: what call() returned or raised
          failures,   \* _failures
          circuit,    \* _state
          openedAt,   \* opened_at: "set" or "none"
          health,     \* HealthCheck._run: what it is doing
          client,     \* _client: none, open, or being closed
          omlx        \* oMLX answers ("up") or not ("down")

calls == <<phase, attempt, request, stray, done, outcome>>
breaker == <<failures, circuit, openedAt>>
vars == <<calls, breaker, health, client, omlx>>

-----------------------------------------------------------------------------
Phases == {"idle", "sending", "pausing", "done"}
Requests == {"none", "sent", "carriedOut"}
Errors == {"tool", "timeout", "network", "other", "cancelled"}
Outcomes == {"none", "open", "ok"} \cup Errors

\* The errors call() turns into failures of the breaker.
Recorded == {"tool", "timeout", "network"}

TypeOK ==
    /\ phase \in [Call -> Phases]
    /\ attempt \in [Call -> 0..MaxAttempts]
    /\ request \in [Call -> Requests]
    /\ stray \in [Call -> 0..MaxAttempts]
    /\ done \in [Call -> 0..MaxAttempts]
    /\ outcome \in [Call -> Outcomes]
    /\ failures \in 0..MaxFailures
    /\ circuit \in {"CLOSED", "OPEN"}
    /\ openedAt \in {"none", "set"}
    /\ health \in {"sleeping", "pinging", "failing", "stopped"}
    /\ client \in {"none", "open", "closing"}
    /\ omlx \in {"up", "down"}

Init ==
    /\ phase = [c \in Call |-> "idle"]
    /\ attempt = [c \in Call |-> 0]
    /\ request = [c \in Call |-> "none"]
    /\ stray = [c \in Call |-> 0]
    /\ done = [c \in Call |-> 0]
    /\ outcome = [c \in Call |-> "none"]
    /\ failures = 0
    /\ circuit = "CLOSED"
    /\ openedAt = "none"
    /\ health = "sleeping"
    /\ client = "none"
    /\ omlx = "up"

-----------------------------------------------------------------------------
(* The breaker. *)

RecordSuccess == /\ failures' = 0
                 /\ circuit' = "CLOSED"
                 /\ openedAt' = "none"

Counted == IF failures < MaxFailures THEN failures + 1 ELSE failures

\* Variant: one failure too late.
TripsLate == Counted > Threshold /\ circuit = "CLOSED"

Trips == Counted >= Threshold /\ circuit = "CLOSED"

RecordFailure == /\ failures' = Counted
                 /\ IF Trips
                    THEN circuit' = "OPEN" /\ openedAt' = "set"
                    ELSE UNCHANGED <<circuit, openedAt>>

Record(o) == CASE o = "ok" -> RecordSuccess
               [] o \in Recorded -> RecordFailure
               [] OTHER -> UNCHANGED breaker

-----------------------------------------------------------------------------
(* The requests of a call, and the server. *)

\* call() ends: the caller gets o and nothing waits for its request.
Return(c, o) ==
    /\ phase' = [phase EXCEPT ![c] = "done"]
    /\ outcome' = [outcome EXCEPT ![c] = o]
    /\ request' = [request EXCEPT ![c] = "none"]
    /\ Record(o)

\* client.post with what _ensure_client returns; a client that is being
\* closed refuses with an exception that is not of httpx's families.
Post(c) ==
    /\ IF client = "closing"
       THEN /\ Return(c, "other")
            /\ UNCHANGED <<attempt, client>>
       ELSE /\ phase' = [phase EXCEPT ![c] = "sending"]
            /\ attempt' = [attempt EXCEPT ![c] = @ + 1]
            /\ request' = [request EXCEPT ![c] = "sent"]
            /\ client' = "open"
            /\ UNCHANGED <<outcome, breaker>>
    /\ UNCHANGED <<stray, done, health, omlx>>

\* The request is given up; the server may have it and carry it out later.
Abandon(c) ==
    \/ UNCHANGED stray
    \/ /\ request[c] = "sent"
       /\ stray' = [stray EXCEPT ![c] = @ + 1]

AttemptsLeft(c) == attempt[c] < MaxAttempts

\* An attempt failed in a way that is retried: a pause, or the last error.
Retry(c, o) ==
    /\ IF AttemptsLeft(c)
       THEN /\ phase' = [phase EXCEPT ![c] = "pausing"]
            /\ request' = [request EXCEPT ![c] = "none"]
            /\ UNCHANGED <<outcome, breaker>>
       ELSE Return(c, o)
    /\ UNCHANGED <<attempt, done, health, client, omlx>>

-----------------------------------------------------------------------------
(* call() and _invoke_with_retry. *)

\* The circuit is open: MCPCircuitOpen before any I/O.
Refuse(c) ==
    /\ phase[c] = "idle"
    /\ circuit = "OPEN"
    /\ Return(c, "open")
    /\ UNCHANGED <<attempt, stray, done, health, client, omlx>>

Begin(c) ==
    /\ phase[c] = "idle"
    /\ circuit = "CLOSED"
    /\ Post(c)

\* Variant: the breaker is asked before every attempt.
ResendOrRefuse(c) ==
    /\ phase[c] = "pausing"
    /\ \/ circuit = "CLOSED" /\ Post(c)
       \/ /\ circuit = "OPEN"
          /\ Return(c, "open")
          /\ UNCHANGED <<attempt, stray, done, health, client, omlx>>

\* Variant: the pause lasts until the circuit has closed.
ResendWhenClosed(c) ==
    /\ phase[c] = "pausing"
    /\ circuit = "CLOSED"
    /\ Post(c)

\* The pause is over; the breaker is not asked again.
Resend(c) ==
    /\ phase[c] = "pausing"
    /\ Post(c)

\* TimeoutException or NetworkError from httpx.
AttemptLost(c) ==
    /\ phase[c] = "sending"
    /\ Abandon(c)
    /\ \E o \in {"timeout", "network"} : Retry(c, o)

\* 5xx, whether or not dm20 had got through.
ServerError(c) ==
    /\ phase[c] = "sending"
    /\ omlx = "up"
    /\ Retry(c, "network")
    /\ UNCHANGED stray

\* 4xx: no retry.
ToolError(c) ==
    /\ phase[c] = "sending"
    /\ omlx = "up"
    /\ request[c] = "sent"
    /\ Return(c, "tool")
    /\ UNCHANGED <<attempt, stray, done, health, client, omlx>>

\* 2xx, with a body that is JSON ("ok") or not.
Answer(c) ==
    /\ phase[c] = "sending"
    /\ omlx = "up"
    /\ request[c] = "carriedOut"
    /\ \E o \in {"ok", "other"} : Return(c, o)
    /\ UNCHANGED <<attempt, stray, done, health, client, omlx>>

\* Any other exception of the library: neither retried nor recorded.
AttemptRaises(c) ==
    /\ phase[c] = "sending"
    /\ Abandon(c)
    /\ Return(c, "other")
    /\ UNCHANGED <<attempt, done, health, client, omlx>>

\* The task that called is cancelled (bot.close, a stopped loop).
Cancel(c) ==
    /\ phase[c] \in {"sending", "pausing"}
    /\ Abandon(c)
    /\ Return(c, "cancelled")
    /\ UNCHANGED <<attempt, done, health, client, omlx>>

-----------------------------------------------------------------------------
(* dm20 and oMLX. *)

CarryOut(c) ==
    /\ omlx = "up"
    /\ request[c] = "sent"
    /\ request' = [request EXCEPT ![c] = "carriedOut"]
    /\ done' = [done EXCEPT ![c] = @ + 1]
    /\ UNCHANGED <<phase, attempt, stray, outcome, breaker, health, client, omlx>>

CarryOutStray(c) ==
    /\ omlx = "up"
    /\ stray[c] > 0
    /\ stray' = [stray EXCEPT ![c] = @ - 1]
    /\ done' = [done EXCEPT ![c] = @ + 1]
    /\ UNCHANGED <<phase, attempt, request, outcome, breaker, health, client, omlx>>

Toggle ==
    /\ omlx' = IF omlx = "up" THEN "down" ELSE "up"
    /\ UNCHANGED <<calls, breaker, health, client>>

-----------------------------------------------------------------------------
(* HealthCheck, and the end of the process. *)

Ping ==
    /\ health = "sleeping"
    /\ health' = "pinging"
    /\ UNCHANGED <<calls, breaker, client, omlx>>

\* Variant: a ping clears the count, only a call closes the circuit.
PingOkClears ==
    /\ health = "pinging"
    /\ omlx = "up"
    /\ health' = "sleeping"
    /\ failures' = 0
    /\ UNCHANGED <<calls, circuit, openedAt, client, omlx>>

PingOk ==
    /\ health = "pinging"
    /\ omlx = "up"
    /\ health' = "sleeping"
    /\ RecordSuccess
    /\ UNCHANGED <<calls, client, omlx>>

\* The ping meets a dead server; the loop learns of it when it times out.
PingLost ==
    /\ health = "pinging"
    /\ omlx = "down"
    /\ health' = "failing"
    /\ UNCHANGED <<calls, breaker, client, omlx>>

PingFails ==
    /\ health = "failing"
    /\ health' = "sleeping"
    /\ RecordFailure
    /\ UNCHANGED <<calls, client, omlx>>

\* bot.close stops the loop, then closes the client.
HealthStop ==
    /\ health # "stopped"
    /\ health' = "stopped"
    /\ UNCHANGED <<calls, breaker, client, omlx>>

Close ==
    /\ health = "stopped"
    /\ client = "open"
    /\ client' = "closing"
    /\ UNCHANGED <<calls, breaker, health, omlx>>

Closed ==
    /\ client = "closing"
    /\ client' = "none"
    /\ UNCHANGED <<calls, breaker, health, omlx>>

-----------------------------------------------------------------------------
Settle(c) ==
    \/ AttemptLost(c) \/ ServerError(c) \/ ToolError(c) \/ Answer(c)
    \/ AttemptRaises(c)

CallStep(c) ==
    \/ Refuse(c) \/ Begin(c) \/ Resend(c) \/ Settle(c) \/ Cancel(c)
    \/ CarryOut(c) \/ CarryOutStray(c)

HealthStep == Ping \/ PingOk \/ PingLost \/ PingFails

Next ==
    \/ \E c \in Call : CallStep(c)
    \/ HealthStep
    \/ HealthStop \/ Close \/ Closed \/ Toggle

\* Every wait of an attempt is bounded by httpx's timeouts, every pause by
\* tenacity's; the event loop serves the health task.
Fairness ==
    /\ \A c \in Call : WF_vars(Settle(c)) /\ WF_vars(Resend(c))
    /\ WF_vars(HealthStep)

Spec == Init /\ [][Next]_vars /\ Fairness

-----------------------------------------------------------------------------
(* Properties. *)

\* The circuit is OPEN exactly when threshold or more failures were recorded
\* since the last success, and opened_at, which gates the offline warnings,
\* is set exactly then: calls that were under way when it opened or closed
\* record their results in any order and must not leave a half-open state.
BreakerCoherent ==
    /\ circuit = "OPEN" <=> failures >= Threshold
    /\ circuit = "OPEN" <=> openedAt = "set"

Abstract == INSTANCE ToolCall

\* What callers rely on (ToolCall): refused means never carried out, ok means
\* carried out, no more often than there are attempts.
ImplementsToolCall == Abstract!Spec

\* An open circuit lets no call through that could close it, so the pings
\* must: if oMLX stays up while the process lives, the circuit closes for
\* good once the calls under way have ended, whatever those end in.
Recovers ==
    <>[](omlx = "up" /\ health # "stopped") => <>[](circuit = "CLOSED")

\* Every call that began is answered, whatever the circuit does meanwhile:
\* handlers hold per-channel locks and loops stand still while they wait.
EveryCallAnswered ==
    \A c \in Call : phase[c] # "idle" ~> phase[c] = "done"
=============================================================================
