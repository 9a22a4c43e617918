------------------------------- MODULE Screen -------------------------------
(***************************************************************************)
(* What the cogs rely on when they hand their embeds to an EmbedCoalescer: *)
(* a message shows nothing it was not given, never goes back to an older   *)
(* update, and shows nothing of before close() once close() has returned.  *)
(* Updates may be skipped.  Coalescer.tla is shown to implement this.      *)
(***************************************************************************)
EXTENDS Naturals

CONSTANT Message

VARIABLES latest,  \* latest[m]: number of the last update given for m
          shown,   \* shown[m]: number of the update Discord displays, 0: none
          sealed   \* sealed[m]: last update given before the last close()

vars == <<latest, shown, sealed>>

Init == /\ latest = [m \in Message |-> 0]
        /\ shown = [m \in Message |-> 0]
        /\ sealed = [m \in Message |-> 0]

Give(m) == /\ latest' = [latest EXCEPT ![m] = @ + 1]
           /\ UNCHANGED <<shown, sealed>>

\* Updates that may still be displayed.
Fresh(m) == {v \in 1 .. latest[m] : v > shown[m] /\ v > sealed[m]}

Show(m) == /\ \E v \in Fresh(m) : shown' = [shown EXCEPT ![m] = v]
           /\ UNCHANGED <<latest, sealed>>

\* An edit that is under way may still arrive as the task is cancelled.
Close(m) == /\ sealed' = [sealed EXCEPT ![m] = latest[m]]
            /\ \/ UNCHANGED shown
               \/ \E v \in Fresh(m) : shown' = [shown EXCEPT ![m] = v]
            /\ UNCHANGED latest

Next == \E m \in Message : Give(m) \/ Show(m) \/ Close(m)

Spec == Init /\ [][Next]_vars
=============================================================================
