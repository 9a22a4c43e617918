---------------------------- MODULE AtomicWriter ----------------------------
(***************************************************************************)
(* What the writer queue promises its callers: each accepted write happens *)
(* at most once and as a whole, in the order of acceptance, and a caller   *)
(* that gets an answer gets the truth: "result" only for a write that is   *)
(* in the database, "error" only for one that never will be.               *)
(* WriterQueue.tla is shown to implement this.                             *)
(***************************************************************************)
EXTENDS Naturals

CONSTANT Write      \* calls of submit()

VARIABLES place,    \* place[w]: when w was accepted, 0 if it was not
          store,    \* the writes that are in the database
          answer    \* answer[w]: what the caller was told, if anything

vars == <<place, store, answer>>

Init == /\ place = [w \in Write |-> 0]
        /\ store = {}
        /\ answer = [w \in Write |-> "none"]

\* Behind everything accepted before.
Accept(w) == /\ place[w] = 0
             /\ answer[w] = "none"
             /\ place'[w] \in Nat \ {0}
             /\ \A v \in Write : place[v] < place'[w]
             /\ place' = [place EXCEPT ![w] = place'[w]]
             /\ UNCHANGED <<store, answer>>

Apply(w) == /\ place[w] # 0
            /\ answer[w] = "none"
            /\ \A v \in store : place[v] < place[w]
            /\ store' = store \cup {w}
            /\ UNCHANGED <<place, answer>>

Answer(w) == /\ answer[w] = "none"
             /\ answer' = [answer EXCEPT ![w] = IF w \in store THEN "result"
                                                ELSE "error"]
             /\ UNCHANGED <<place, store>>

Next == \E w \in Write : Accept(w) \/ Apply(w) \/ Answer(w)

Spec == Init /\ [][Next]_vars
=============================================================================
