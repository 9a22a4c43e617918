------------------------------ MODULE ToolCall ------------------------------
(***************************************************************************)
(* What a caller of MCPClient.call() may rely on.  dm20 may carry a call   *)
(* out several times, even after the caller was told it failed; but a call *)
(* the circuit refused is never carried out, a call that succeeded was     *)
(* carried out at least once, and nobody is answered twice.                *)
(* McpClient.tla is shown to implement this.                               *)
(***************************************************************************)
EXTENDS Naturals

CONSTANTS Call,         \* calls of call()
          MaxAttempts   \* HTTP requests one call may send

VARIABLES outcome,      \* outcome[c]: what the caller was told, "none" yet
          done          \* done[c]: times dm20 carried c out

vars == <<outcome, done>>

\* Errors that say nothing of what dm20 did.
Vague == {"tool", "timeout", "network", "other", "cancelled"}

Init == /\ outcome = [c \in Call |-> "none"]
        /\ done = [c \in Call |-> 0]

CarryOut(c) == /\ outcome[c] # "open"
               /\ done[c] < MaxAttempts
               /\ done' = [done EXCEPT ![c] = @ + 1]
               /\ UNCHANGED outcome

Tell(c, o) == /\ outcome[c] = "none"
              /\ outcome' = [outcome EXCEPT ![c] = o]
              /\ UNCHANGED done

Refuse(c) == done[c] = 0 /\ Tell(c, "open")

Succeed(c) == done[c] > 0 /\ Tell(c, "ok")

Fail(c) == \E o \in Vague : Tell(c, o)

Next == \E c \in Call : CarryOut(c) \/ Refuse(c) \/ Succeed(c) \/ Fail(c)

Spec == Init /\ [][Next]_vars
=============================================================================
