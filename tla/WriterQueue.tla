---------------------------- MODULE WriterQueue ----------------------------
(***************************************************************************)
(* persistence/connection.py, WriterQueue: every write of the process is a *)
(* coroutine function submitted to one FIFO queue; a background task runs  *)
(* them one at a time on one connection, each under BEGIN IMMEDIATE ...    *)
(* COMMIT, and resolves the caller's future; stop() puts a sentinel behind *)
(* them, joins the task for a limited time and closes the connection.      *)
(*                                                                         *)
(* The queue is the set of writes not taken yet, each with its place in    *)
(* the order of submission.  The sentinel needs no place: submit() refuses *)
(* from the moment stop() is called, so it is behind everything.           *)
(***************************************************************************)
EXTENDS Naturals, FiniteSets

CONSTANTS Write,        \* calls of submit()
          MaxFaults,    \* bound: statements SQLite refuses
          MaxCancels,   \* bound: callers cancelled while they wait
          MayTimeOut    \* the drain may exceed drain_timeout

ASSUME WriterQueueAssumption ==
    /\ IsFiniteSet(Write)
    /\ MaxFaults \in Nat
    /\ MaxCancels \in Nat
    /\ MayTimeOut \in BOOLEAN
    /\ "nowrite" \notin Write

VARIABLES queue,    \* writes submitted and not taken by the task
          place,    \* place[w]: w's place in the order of submission, 0 if none
          last,     \* the last place given
          fut,      \* fut[w]: the future submit() awaits
          pc,       \* _run: where the task is
          cur,      \* _run: the write in hand
          mode,     \* the connection: "autocommit" or in a "transaction"
          txn,      \* writes with statements in that transaction
          store,    \* writes with committed statements
          stopPc,   \* stop(): where it is, or how it ended; _closed from the start on
          faults,   \* statements refused so far
          cancels   \* callers cancelled so far

task == <<pc, cur>>
conn == <<mode, txn>>
vars == <<queue, place, last, fut, task, conn, store, stopPc, faults, cancels>>

-----------------------------------------------------------------------------
NoWrite == "nowrite"

\* _closed is set as stop() begins.
closed == stopPc # "none"

\* Phases of _run; it has ended in the last three.
Running == {"idle", "begun", "executed", "committed", "failed"}
Phases == Running \cup {"exited", "dead", "cancelled"}

Futures == {"none", "pending", "result", "error", "refused", "cancelled"}

TypeOK ==
    /\ queue \in SUBSET Write
    /\ place \in [Write -> Nat]
    /\ last \in Nat
    /\ fut \in [Write -> Futures]
    /\ pc \in Phases
    /\ cur \in Write \cup {NoWrite}
    /\ mode \in {"autocommit", "transaction"}
    /\ txn \in SUBSET Write
    /\ store \in SUBSET Write
    /\ stopPc \in {"none", "draining", "drained", "timedout", "raised"}
    /\ faults \in 0 .. MaxFaults
    /\ cancels \in 0 .. MaxCancels

Init ==
    /\ queue = {}
    /\ place = [w \in Write |-> 0]
    /\ last = 0
    /\ fut = [w \in Write |-> "none"]
    /\ pc = "idle"
    /\ cur = NoWrite
    /\ mode = "autocommit"
    /\ txn = {}
    /\ store = {}
    /\ stopPc = "none"
    /\ faults = 0
    /\ cancels = 0

\* SQLite refuses a statement.
Fault == faults < MaxFaults /\ faults' = faults + 1

-----------------------------------------------------------------------------
(* submit(). *)

Enqueue(w) ==
    /\ queue' = queue \cup {w}
    /\ last' = last + 1
    /\ place' = [place EXCEPT ![w] = last + 1]
    /\ fut' = [fut EXCEPT ![w] = "pending"]
    /\ UNCHANGED <<task, conn, store, stopPc, faults, cancels>>

\* The check of _closed and the put are one step: nothing is awaited between.
Submit(w) ==
    /\ fut[w] = "none"
    /\ \/ ~closed /\ Enqueue(w)
       \/ /\ closed
          /\ fut' = [fut EXCEPT ![w] = "refused"]
          /\ UNCHANGED <<queue, place, last, task, conn, store, stopPc,
                         faults, cancels>>

\* The caller's task is cancelled: its future is, its queue item stays.
Cancel(w) ==
    /\ fut[w] = "pending"
    /\ cancels < MaxCancels
    /\ cancels' = cancels + 1
    /\ fut' = [fut EXCEPT ![w] = "cancelled"]
    /\ UNCHANGED <<queue, place, last, task, conn, store, stopPc, faults>>

-----------------------------------------------------------------------------
(* _run(). *)

\* Variant: the newest write is taken first.
BeginNewest ==
    /\ pc = "idle"
    /\ \E w \in queue :
         /\ \A v \in queue : place[v] <= place[w]
         /\ queue' = queue \ {w}
         /\ cur' = w
    /\ mode = "autocommit"
    /\ mode' = "transaction"
    /\ pc' = "begun"
    /\ UNCHANGED <<place, last, fut, txn, store, stopPc, faults, cancels>>

\* The oldest write is taken; BEGIN IMMEDIATE is refused inside a transaction,
\* and when another process holds the write lock for too long.
Begin ==
    /\ pc = "idle"
    /\ \E w \in queue :
         /\ \A v \in queue : place[w] <= place[v]
         /\ queue' = queue \ {w}
         /\ cur' = w
    /\ \/ /\ mode = "autocommit"
          /\ mode' = "transaction"
          /\ pc' = "begun"
          /\ UNCHANGED faults
       \/ /\ mode = "transaction"
          /\ pc' = "failed"
          /\ UNCHANGED <<mode, faults>>
       \/ /\ Fault
          /\ pc' = "failed"
          /\ UNCHANGED mode
    /\ UNCHANGED <<place, last, fut, txn, store, stopPc, cancels>>

\* fn(conn) returns, or raises before or after statements of its own.
Execute ==
    /\ pc = "begun"
    /\ \/ /\ pc' = "executed"
          /\ txn' = txn \cup {cur}
          /\ UNCHANGED faults
       \/ /\ pc' = "failed"
          /\ Fault
          /\ txn' = txn \/ txn' = txn \cup {cur}
    /\ UNCHANGED <<queue, place, last, fut, cur, mode, store, stopPc,
                   cancels>>

\* COMMIT, which leaves the transaction open when it is refused.
Commit ==
    /\ pc = "executed"
    /\ \/ /\ pc' = "committed"
          /\ store' = store \cup txn
          /\ txn' = {}
          /\ mode' = "autocommit"
          /\ UNCHANGED faults
       \/ /\ pc' = "failed"
          /\ Fault
          /\ UNCHANGED <<store, conn>>
    /\ UNCHANGED <<queue, place, last, fut, cur, stopPc, cancels>>

\* Resolving a future that is cancelled raises InvalidStateError: from the try
\* it enters the except clause, and from there it ends the task.
Settle(outcome) ==
    \/ /\ fut[cur] = "pending"
       /\ fut' = [fut EXCEPT ![cur] = outcome]
       /\ pc' = "idle"
    \/ /\ fut[cur] = "cancelled"
       /\ pc' = "dead"
       /\ UNCHANGED fut

\* fut.set_result.
Resolve ==
    /\ pc = "committed"
    /\ Settle("result")
    /\ cur' = NoWrite
    /\ UNCHANGED <<queue, place, last, conn, store, stopPc, faults, cancels>>

\* Variant: the rollback stands outside a try of its own.
RejectMayDie ==
    /\ pc = "failed"
    /\ \/ /\ txn' = {}
          /\ mode' = "autocommit"
          /\ UNCHANGED faults
          /\ Settle("error")
       \/ /\ Fault
          /\ pc' = "dead"
          /\ UNCHANGED <<conn, fut>>
    /\ cur' = NoWrite
    /\ UNCHANGED <<queue, place, last, store, stopPc, cancels>>

\* The rollback, whose own failure is swallowed, and fut.set_exception.
Reject ==
    /\ pc = "failed"
    /\ \/ /\ txn' = {}
          /\ mode' = "autocommit"
          /\ UNCHANGED faults
       \/ Fault /\ UNCHANGED conn
    /\ Settle("error")
    /\ cur' = NoWrite
    /\ UNCHANGED <<queue, place, last, store, stopPc, cancels>>

\* Variant: the sentinel is executed like a write.
ExitExecutes ==
    /\ pc = "idle"
    /\ closed
    /\ queue = {}
    /\ mode = "autocommit"
    /\ mode' = "transaction"
    /\ pc' = "begun"
    /\ UNCHANGED <<queue, place, last, fut, cur, txn, store, stopPc,
                   faults, cancels>>

\* Variant: the sentinel is skipped and the loop goes on.
ExitContinues ==
    /\ pc = "idle"
    /\ closed
    /\ queue = {}
    /\ UNCHANGED vars

\* The sentinel.
Exit ==
    /\ pc = "idle"
    /\ closed
    /\ queue = {}
    /\ pc' = "exited"
    /\ UNCHANGED <<queue, place, last, fut, cur, conn, store, stopPc,
                   faults, cancels>>

-----------------------------------------------------------------------------
(* stop(). *)

Stop ==
    /\ ~closed
    /\ stopPc' = "draining"
    /\ UNCHANGED <<queue, place, last, fut, task, conn, store, faults, cancels>>

CloseConnection == mode' = "autocommit" /\ txn' = {}

\* The task has ended by itself: join it and close the connection.
StopDrained ==
    /\ stopPc = "draining"
    /\ pc = "exited"
    /\ CloseConnection
    /\ stopPc' = "drained"
    /\ UNCHANGED <<queue, place, last, fut, task, store, faults, cancels>>

\* The task has died: joining it raises, and the connection is not closed.
StopRaises ==
    /\ stopPc = "draining"
    /\ pc = "dead"
    /\ stopPc' = "raised"
    /\ UNCHANGED <<queue, place, last, fut, task, conn, store, faults,
                   cancels>>

\* drain_timeout, or the timeout bot.close puts around stop(), cancels the task
\* where it awaits; a COMMIT that was under way may still be carried out.  The
\* connection is closed unless stop() itself was cancelled.
StopTimesOut ==
    /\ stopPc = "draining"
    /\ MayTimeOut
    /\ pc \in Running
    /\ pc' = "cancelled"
    /\ \/ pc = "executed" /\ store' = store \cup txn /\ CloseConnection
       \/ UNCHANGED store /\ (CloseConnection \/ UNCHANGED conn)
    /\ stopPc' = "timedout"
    /\ UNCHANGED <<queue, place, last, fut, cur, faults, cancels>>

-----------------------------------------------------------------------------
TaskStep == Begin \/ Execute \/ Commit \/ Resolve \/ Reject \/ Exit
StopStep == StopDrained \/ StopRaises

Next ==
    \/ \E w \in Write : Submit(w) \/ Cancel(w)
    \/ TaskStep
    \/ Stop
    \/ StopStep
    \/ StopTimesOut

\* The event loop runs every ready task.  Nobody need call stop(), and the
\* timeouts need not strike.
Spec == /\ Init /\ [][Next]_vars
        /\ WF_vars(TaskStep)
        /\ WF_vars(StopStep)

-----------------------------------------------------------------------------
(* Properties. *)

\* A transaction holds statements of the write in hand only: what a failed
\* write left behind is never committed with a later one.
CommitAlone == pc \in {"begun", "executed"} => txn \subseteq {cur}

\* When stop() has joined the task, every accepted write was carried out and
\* its caller told.
DrainComplete == stopPc = "drained" => \A w \in Write : fut[w] # "pending"

\* Only a cancelled caller can end the task before the sentinel: no failure of
\* SQLite does.
OnlyCancelsKill == pc = "dead" => \E w \in Write \ queue : fut[w] = "cancelled"

\* The queue implements the atomic writer.
AW == INSTANCE AtomicWriter WITH
         answer <- [w \in Write |-> CASE fut[w] \in {"none", "pending", "cancelled"} -> "none"
                                      [] fut[w] = "refused" -> "error"
                                      [] OTHER -> fut[w]]

\* Each write is committed at most once and whole, in the order of submission,
\* and no caller is told the opposite of what happened.
ImplementsAtomicWriter == AW!Spec

\* submit() "Schedule[s] a write coroutine and await[s] its result": the caller
\* gets one.
EverySubmitReturns ==
    \A w \in Write : fut[w] = "pending" ~> fut[w] # "pending"

\* Unless a cancelled caller killed the task or stop() gave up on it, every
\* accepted write is answered: none is left in the queue unnoticed.
AnsweredWhileServed ==
    \A w \in Write : []<>(fut[w] # "pending" \/ pc \in {"dead", "cancelled"})

\* stop() comes to an end without the help of its timeouts, however the task
\* fares.
StopReturns == []<>(stopPc # "draining")
=============================================================================
