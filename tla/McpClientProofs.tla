-------------------------- MODULE McpClientProofs --------------------------
(***************************************************************************)
(* Proofs about McpClient, for any number of calls and any bounds.  The    *)
(* invariant has two halves that never mix: the breaker's three variables  *)
(* agree, whatever is recorded in whatever order; and of every call, what  *)
(* was carried out, what may still be, and what the caller was told fit    *)
(* the number of requests sent.                                            *)
(***************************************************************************)
EXTENDS McpClient, TLAPS

BreakerInv ==
    /\ failures \in 0..MaxFailures
    /\ circuit \in {"CLOSED", "OPEN"}
    /\ openedAt \in {"none", "set"}
    /\ BreakerCoherent

CallTypes ==
    /\ phase \in [Call -> Phases]
    /\ attempt \in [Call -> 0..MaxAttempts]
    /\ request \in [Call -> Requests]
    /\ stray \in [Call -> Nat]
    /\ done \in [Call -> Nat]
    /\ outcome \in [Call -> Outcomes]

\* Each request sent was carried out, may yet be, or is lost.
RequestsAccounted ==
    \A c \in Call :
        /\ done[c] + stray[c] <= attempt[c]
        /\ request[c] = "sent" => done[c] + stray[c] < attempt[c]
        /\ request[c] = "carriedOut" => done[c] > 0

\* Where a call is tells what it has sent and what its caller knows.
PhaseTells ==
    \A c \in Call :
        /\ outcome[c] = "none" <=> phase[c] # "done"
        /\ request[c] # "none" => phase[c] = "sending"
        /\ phase[c] = "idle" => attempt[c] = 0
        /\ phase[c] = "pausing" => attempt[c] < MaxAttempts
        /\ outcome[c] = "open" => attempt[c] = 0

CallInv == CallTypes /\ RequestsAccounted /\ PhaseTells

RestTypes ==
    /\ health \in {"sleeping", "pinging", "failing", "stopped"}
    /\ client \in {"none", "open", "closing"}
    /\ omlx \in {"up", "down"}

IInv == BreakerInv /\ CallInv /\ RestTypes

USE McpClientAssumption

-----------------------------------------------------------------------------
\* Recording a success or a failure keeps the breaker coherent, in any state.
LEMMA RecordKeepsBreaker ==
    ASSUME BreakerInv, RecordSuccess \/ RecordFailure \/ UNCHANGED breaker
    PROVE  BreakerInv'
<1>1. CASE RecordSuccess
  BY <1>1 DEF BreakerInv, BreakerCoherent, RecordSuccess
<1>2. CASE RecordFailure
  BY <1>2 DEF BreakerInv, BreakerCoherent, RecordFailure, Counted, Trips
<1>3. CASE UNCHANGED breaker
  BY <1>3 DEF BreakerInv, BreakerCoherent, breaker
<1> QED
  BY <1>1, <1>2, <1>3

\* What Record does is one of these, for every outcome.
LEMMA RecordCases ==
    ASSUME NEW o, Record(o)
    PROVE  RecordSuccess \/ RecordFailure \/ UNCHANGED breaker
<1>1. CASE o = "ok"
  BY <1>1 DEF Record, Recorded
<1>2. CASE o \in Recorded
  BY <1>2 DEF Record, Recorded
<1>3. CASE o # "ok" /\ o \notin Recorded
  BY <1>3 DEF Record
<1> QED
  BY <1>1, <1>2, <1>3

\* A call that ends, whatever it ends in, provided it may: it tells "open"
\* only if it sent nothing.
LEMMA ReturnKeepsCalls ==
    ASSUME CallInv, NEW c \in Call, NEW o \in Outcomes \ {"none"},
           Return(c, o), Abandon(c),
           o = "open" => attempt[c] = 0,
           UNCHANGED <<attempt, done>>
    PROVE  CallInv'
<1> USE DEF CallInv, CallTypes, RequestsAccounted, PhaseTells, Return, Abandon,
            Phases, Requests, Outcomes, Errors
<1>1. CallTypes'
  OBVIOUS
<1>2. RequestsAccounted'
  OBVIOUS
<1>3. PhaseTells'
  OBVIOUS
<1> QED
  BY <1>1, <1>2, <1>3

\* A retry keeps everything a caller relies on.
LEMMA RetryKeeps ==
    ASSUME IInv, NEW c \in Call, NEW o \in {"timeout", "network"},
           phase[c] = "sending", Retry(c, o), Abandon(c)
    PROVE  IInv'
<1>1. CASE AttemptsLeft(c)
  <2>1. /\ phase' = [phase EXCEPT ![c] = "pausing"]
        /\ request' = [request EXCEPT ![c] = "none"]
        /\ UNCHANGED <<outcome, breaker, attempt, done, health, client, omlx>>
    BY <1>1 DEF Retry
  <2>2. attempt[c] < MaxAttempts
    BY <1>1 DEF AttemptsLeft
  <2>3. CallTypes'
    BY <2>1 DEF IInv, CallInv, CallTypes, Abandon, Phases, Requests
  <2>4. RequestsAccounted'
    BY <2>1 DEF IInv, CallInv, CallTypes, RequestsAccounted, Abandon
  <2>5. PhaseTells'
    BY <2>1, <2>2 DEF IInv, CallInv, CallTypes, PhaseTells
  <2>6. BreakerInv'
    BY <2>1, RecordKeepsBreaker DEF IInv
  <2>7. RestTypes'
    BY <2>1 DEF IInv, RestTypes
  <2> QED
    BY <2>3, <2>4, <2>5, <2>6, <2>7 DEF IInv, CallInv
<1>2. CASE ~AttemptsLeft(c)
  <2>1. /\ Return(c, o)
        /\ UNCHANGED <<attempt, done, health, client, omlx>>
    BY <1>2 DEF Retry
  <2>2. CallInv'
    BY <2>1, ReturnKeepsCalls DEF IInv, Outcomes, Errors
  <2>3. BreakerInv'
    BY <2>1, RecordCases, RecordKeepsBreaker DEF IInv, Return
  <2>4. RestTypes'
    BY <2>1 DEF IInv, RestTypes
  <2> QED
    BY <2>2, <2>3, <2>4 DEF IInv
<1> QED
  BY <1>1, <1>2

\* A call that ends while the rest stands still keeps everything.
LEMMA ReturnKeeps ==
    ASSUME IInv, NEW c \in Call, NEW o \in Outcomes \ {"none"},
           Return(c, o), Abandon(c), o = "open" => attempt[c] = 0,
           UNCHANGED <<attempt, done, health, client, omlx>>
    PROVE  IInv'
<1>1. CallInv'
  BY ReturnKeepsCalls DEF IInv
<1>2. BreakerInv'
  BY RecordCases, RecordKeepsBreaker DEF IInv, Return
<1>3. RestTypes'
  BY DEF IInv, RestTypes
<1> QED
  BY <1>1, <1>2, <1>3 DEF IInv

\* A request is sent only with an attempt left.
LEMMA PostKeeps ==
    ASSUME IInv, NEW c \in Call, phase[c] \in {"idle", "pausing"}, Post(c)
    PROVE  IInv'
<1>0. attempt[c] < MaxAttempts /\ request[c] = "none"
  BY DEF IInv, CallInv, CallTypes, PhaseTells, Requests
<1>1. CASE client = "closing"
  <2>1. Return(c, "other") /\ UNCHANGED <<attempt, stray, done, health, client, omlx>>
    BY <1>1 DEF Post
  <2>2. Abandon(c)
    BY <2>1 DEF Abandon
  <2> QED
    BY <2>1, <2>2, ReturnKeeps DEF Outcomes, Errors
<1>2. CASE client # "closing"
  <2>1. /\ phase' = [phase EXCEPT ![c] = "sending"]
        /\ attempt' = [attempt EXCEPT ![c] = @ + 1]
        /\ request' = [request EXCEPT ![c] = "sent"]
        /\ client' = "open"
        /\ UNCHANGED <<outcome, breaker, stray, done, health, omlx>>
    BY <1>2 DEF Post
  <2>2. CallTypes'
    BY <1>0, <2>1 DEF IInv, CallInv, CallTypes, Phases, Requests
  <2>3. RequestsAccounted'
    BY <1>0, <2>1 DEF IInv, CallInv, CallTypes, RequestsAccounted
  <2>4. PhaseTells'
    BY <1>0, <2>1 DEF IInv, CallInv, CallTypes, PhaseTells
  <2>5. BreakerInv'
    BY <2>1, RecordKeepsBreaker DEF IInv
  <2>6. RestTypes'
    BY <2>1 DEF IInv, RestTypes
  <2> QED
    BY <2>2, <2>3, <2>4, <2>5, <2>6 DEF IInv, CallInv
<1> QED
  BY <1>1, <1>2

\* Whatever one call does keeps the invariant.
LEMMA CallStepKeeps ==
    ASSUME IInv, NEW c \in Call, CallStep(c)
    PROVE  IInv'
<1>1. CASE Refuse(c)
  <2>1. attempt[c] = 0 /\ Abandon(c)
    BY <1>1 DEF Refuse, Abandon, IInv, CallInv, PhaseTells
  <2> QED
    BY <1>1, <2>1, ReturnKeeps DEF Refuse, Outcomes, Errors
<1>2. CASE Begin(c)
  BY <1>2, PostKeeps DEF Begin
<1>3. CASE Resend(c)
  BY <1>3, PostKeeps DEF Resend
<1>4. CASE AttemptLost(c)
  BY <1>4, RetryKeeps DEF AttemptLost
<1>5. CASE ServerError(c)
  BY <1>5, RetryKeeps DEF ServerError, Abandon
<1>6. CASE ToolError(c)
  BY <1>6, ReturnKeeps DEF ToolError, Abandon, Outcomes, Errors
<1>7. CASE Answer(c)
  BY <1>7, ReturnKeeps DEF Answer, Abandon, Outcomes, Errors
<1>8. CASE AttemptRaises(c)
  BY <1>8, ReturnKeeps DEF AttemptRaises, Outcomes, Errors
<1>9. CASE Cancel(c)
  BY <1>9, ReturnKeeps DEF Cancel, Outcomes, Errors
<1>10. CASE CarryOut(c)
  <2>1. CallTypes'
    BY <1>10 DEF CarryOut, IInv, CallInv, CallTypes, Requests
  <2>2. RequestsAccounted'
    BY <1>10 DEF CarryOut, IInv, CallInv, CallTypes, RequestsAccounted
  <2>3. PhaseTells'
    BY <1>10 DEF CarryOut, IInv, CallInv, CallTypes, PhaseTells
  <2>4. BreakerInv' /\ RestTypes'
    BY <1>10, RecordKeepsBreaker DEF CarryOut, IInv, RestTypes
  <2> QED
    BY <2>1, <2>2, <2>3, <2>4 DEF IInv, CallInv
<1>11. CASE CarryOutStray(c)
  <2>1. CallTypes'
    BY <1>11 DEF CarryOutStray, IInv, CallInv, CallTypes
  <2>2. RequestsAccounted'
    BY <1>11 DEF CarryOutStray, IInv, CallInv, CallTypes, RequestsAccounted
  <2>3. PhaseTells'
    BY <1>11 DEF CarryOutStray, IInv, CallInv, CallTypes, PhaseTells
  <2>4. BreakerInv' /\ RestTypes'
    BY <1>11, RecordKeepsBreaker DEF CarryOutStray, IInv, RestTypes
  <2> QED
    BY <2>1, <2>2, <2>3, <2>4 DEF IInv, CallInv
<1> QED
  BY <1>1, <1>2, <1>3, <1>4, <1>5, <1>6, <1>7, <1>8, <1>9, <1>10, <1>11
     DEF CallStep, Settle

\* Pings and the end of the process do not touch the calls.
LEMMA OtherStepKeeps ==
    ASSUME IInv, HealthStep \/ HealthStop \/ Close \/ Closed \/ Toggle \/ UNCHANGED vars
    PROVE  IInv'
<1>1. UNCHANGED calls
  BY DEF HealthStep, Ping, PingOk, PingLost, PingFails, HealthStop, Close, Closed,
         Toggle, vars
<1>2. CallInv'
  BY <1>1 DEF IInv, CallInv, CallTypes, RequestsAccounted, PhaseTells, calls
<1>3. RecordSuccess \/ RecordFailure \/ UNCHANGED breaker
  BY DEF HealthStep, Ping, PingOk, PingLost, PingFails, HealthStop, Close, Closed,
         Toggle, vars
<1>4. BreakerInv'
  BY <1>3, RecordKeepsBreaker DEF IInv
<1>5. RestTypes'
  BY DEF IInv, RestTypes, HealthStep, Ping, PingOk, PingLost, PingFails, HealthStop,
         Close, Closed, Toggle, vars
<1> QED
  BY <1>2, <1>4, <1>5 DEF IInv

-----------------------------------------------------------------------------
\* The inductive invariant of the client (call, record_success, record_failure
\* and the health loop, interleaved in any way).
THEOREM McpClientInvariant == Spec => []IInv
<1>1. Init => IInv
  BY DEF Init, IInv, BreakerInv, BreakerCoherent, CallInv, CallTypes, RequestsAccounted,
         PhaseTells, RestTypes, Phases, Requests, Outcomes, Errors
<1>2. IInv /\ [Next]_vars => IInv'
  BY CallStepKeeps, OtherStepKeeps DEF Next
<1> QED
  BY <1>1, <1>2, PTL DEF Spec

\* Every variable keeps its type; no call sends or causes more than the
\* attempts it has.
THEOREM McpClientTypeOK == Spec => []TypeOK
<1>1. IInv => TypeOK
  <2> SUFFICES ASSUME IInv PROVE TypeOK
    OBVIOUS
  <2>1. \A c \in Call : stray[c] \in 0..MaxAttempts /\ done[c] \in 0..MaxAttempts
    BY DEF IInv, CallInv, CallTypes, RequestsAccounted
  <2> QED
    BY <2>1 DEF IInv, BreakerInv, CallInv, CallTypes, RestTypes, TypeOK
<1> QED
  BY <1>1, McpClientInvariant, PTL

\* Count, state and open-timestamp of the breaker agree whatever calls and
\* pings overlap.
THEOREM McpClientBreakerCoherent == Spec => []BreakerCoherent
<1>1. IInv => BreakerCoherent
  BY DEF IInv, BreakerInv
<1> QED
  BY <1>1, McpClientInvariant, PTL

-----------------------------------------------------------------------------
\* An answer of call() is one the contract allows.
LEMMA ReturnIsTold ==
    ASSUME IInv, NEW c \in Call, phase[c] # "done", NEW o \in Outcomes \ {"none"},
           o = "open" => done[c] = 0, o = "ok" => done[c] > 0,
           Return(c, o), UNCHANGED done
    PROVE  Abstract!Next
<1>1. outcome[c] = "none" /\ outcome' = [outcome EXCEPT ![c] = o]
  BY DEF IInv, CallInv, PhaseTells, Return
<1>2. Abstract!Tell(c, o)
  BY <1>1 DEF Abstract!Tell
<1>3. Abstract!Refuse(c) \/ Abstract!Succeed(c) \/ Abstract!Fail(c)
  BY <1>2 DEF Abstract!Refuse, Abstract!Succeed, Abstract!Fail, Abstract!Vague,
              Outcomes, Errors
<1> QED
  BY <1>3 DEF Abstract!Next

\* dm20 carries out only what was sent, and no more than was sent.
LEMMA CarriedOutIsAllowed ==
    ASSUME IInv, NEW c \in Call, request[c] = "sent" \/ stray[c] > 0,
           done' = [done EXCEPT ![c] = @ + 1], UNCHANGED outcome
    PROVE  Abstract!Next
<1>1. done[c] < attempt[c] /\ attempt[c] \in 0..MaxAttempts /\ done[c] \in Nat
  BY DEF IInv, CallInv, CallTypes, RequestsAccounted
<1>2. outcome[c] # "open" /\ done[c] < MaxAttempts
  BY <1>1 DEF IInv, CallInv, PhaseTells
<1>3. Abstract!CarryOut(c)
  BY <1>2 DEF Abstract!CarryOut
<1> QED
  BY <1>3 DEF Abstract!Next

\* Each step of the client is a step of the contract or none.
LEMMA StepImplements ==
    ASSUME IInv, [Next]_vars
    PROVE  [Abstract!Next]_(Abstract!vars)
<1>1. ASSUME NEW c \in Call, CallStep(c)
      PROVE  [Abstract!Next]_(Abstract!vars)
  <2>0. /\ phase[c] = "idle" => done[c] = 0
        /\ request[c] = "carriedOut" => done[c] > 0
    <3>1. done[c] \in Nat /\ stray[c] \in Nat /\ attempt[c] \in Nat
      BY DEF IInv, CallInv, CallTypes
    <3>2. done[c] + stray[c] <= attempt[c] /\ (request[c] = "carriedOut" => done[c] > 0)
      BY DEF IInv, CallInv, RequestsAccounted
    <3>3. phase[c] = "idle" => attempt[c] = 0
      BY DEF IInv, CallInv, PhaseTells
    <3> QED
      BY <3>1, <3>2, <3>3
  <2>1. CASE Refuse(c)
    BY <2>0, <2>1, ReturnIsTold DEF Refuse, Outcomes, Errors
  <2>2. CASE Post(c) /\ phase[c] \in {"idle", "pausing"}
    <3>1. CASE client = "closing"
      BY <2>2, <3>1, ReturnIsTold DEF Post, Outcomes, Errors
    <3>2. CASE client # "closing"
      BY <2>2, <3>2 DEF Post, Abstract!vars
    <3> QED
      BY <3>1, <3>2
  <2>3. CASE /\ phase[c] = "sending"
             /\ \E o \in {"timeout", "network"} : Retry(c, o)
    <3>1. CASE AttemptsLeft(c)
      BY <2>3, <3>1 DEF Retry, Abstract!vars
    <3>2. CASE ~AttemptsLeft(c)
      BY <2>3, <3>2, ReturnIsTold DEF Retry, Outcomes, Errors
    <3> QED
      BY <3>1, <3>2
  <2>4. CASE ToolError(c)
    BY <2>4, ReturnIsTold DEF ToolError, Outcomes, Errors
  <2>5. CASE Answer(c)
    BY <2>0, <2>5, ReturnIsTold DEF Answer, Outcomes, Errors
  <2>6. CASE AttemptRaises(c)
    BY <2>6, ReturnIsTold DEF AttemptRaises, Outcomes, Errors
  <2>7. CASE Cancel(c)
    BY <2>7, ReturnIsTold DEF Cancel, Outcomes, Errors
  <2>8. CASE CarryOut(c)
    BY <2>8, CarriedOutIsAllowed DEF CarryOut
  <2>9. CASE CarryOutStray(c)
    BY <2>9, CarriedOutIsAllowed DEF CarryOutStray
  <2> QED
    BY <1>1, <2>1, <2>2, <2>3, <2>4, <2>5, <2>6, <2>7, <2>8, <2>9
       DEF CallStep, Settle, Begin, Resend, AttemptLost, ServerError
<1>2. ASSUME HealthStep \/ HealthStop \/ Close \/ Closed \/ Toggle \/ UNCHANGED vars
      PROVE  UNCHANGED Abstract!vars
  BY <1>2 DEF HealthStep, Ping, PingOk, PingLost, PingFails, HealthStop, Close, Closed,
              Toggle, vars, calls, Abstract!vars
<1> QED
  BY <1>1, <1>2 DEF Next

\* The client keeps the contract of ToolCall: a refused call is never carried
\* out, a successful one was, and no call more often than its attempts.
THEOREM McpClientImplementsToolCall == Spec => ImplementsToolCall
<1>1. Init => Abstract!Init
  BY DEF Init, Abstract!Init
<1>2. IInv /\ [Next]_vars => [Abstract!Next]_(Abstract!vars)
  BY StepImplements
<1> QED
  BY <1>1, <1>2, McpClientInvariant, PTL DEF Spec, ImplementsToolCall, Abstract!Spec
=============================================================================
