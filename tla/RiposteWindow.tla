--------------------------- MODULE RiposteWindow ---------------------------
(***************************************************************************)
(* What the Riposte feature promises, without tasks, locks or messages: a  *)
(* window is opened for a character at most once at a time, the counter-   *)
(* attack is made only while the window is open, and a window is resolved  *)
(* exactly once, consumed after a counter-attack or expired.  Riposte.tla  *)
(* is shown to implement this.                                             *)
(***************************************************************************)
CONSTANTS Timer,  \* ids of riposte_timers rows
          PC      \* player characters

VARIABLES window,  \* window[t]: the life of the window behind row t
          owner,   \* owner[t]: the character row t was opened for
          struck   \* struck[t]: dm20 resolved a counter-attack for row t

vars == <<window, owner, struck>>

\* The owner of a row that was never inserted.
NoPC == "nobody"

Init == /\ window = [t \in Timer |-> "none"]
        /\ owner = [t \in Timer |-> NoPC]
        /\ struck = [t \in Timer |-> FALSE]

Open(t, p) == /\ window[t] = "none"
              /\ \A u \in Timer : window[u] = "open" => owner[u] # p
              /\ window' = [window EXCEPT ![t] = "open"]
              /\ owner' = [owner EXCEPT ![t] = p]
              /\ UNCHANGED struck

Strike(t) == /\ window[t] = "open"
             /\ struck' = [struck EXCEPT ![t] = TRUE]
             /\ UNCHANGED <<window, owner>>

Consume(t) == /\ window[t] = "open"
              /\ struck[t]
              /\ window' = [window EXCEPT ![t] = "consumed"]
              /\ UNCHANGED <<owner, struck>>

Expire(t) == /\ window[t] = "open"
             /\ window' = [window EXCEPT ![t] = "expired"]
             /\ UNCHANGED <<owner, struck>>

Next == \E t \in Timer : \/ \E p \in PC : Open(t, p)
                         \/ Strike(t)
                         \/ Consume(t)
                         \/ Expire(t)

Spec == Init /\ [][Next]_vars
=============================================================================
