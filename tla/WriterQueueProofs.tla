------------------------- MODULE WriterQueueProofs -------------------------
(* Proofs about WriterQueue, for any number of writes, failures, cancelled   *)
(* callers and time-outs.                                                    *)
EXTENDS WriterQueue, TLAPS

Busy == {"begun", "executed", "committed", "failed"}

\* Places are handed out in order, each once, to the accepted writes.
PlaceInv ==
  /\ \A w \in Write : /\ place[w] <= last
                      /\ place[w] = 0 <=> fut[w] \in {"none", "refused"}
  /\ \A v, w \in Write : place[v] = place[w] /\ place[v] # 0 => v = w

\* The writes in the queue and the one in hand are unanswered, and they are
\* behind everything that is committed, in the order of their places.
OrderInv ==
  /\ \A w \in queue : /\ fut[w] \in {"pending", "cancelled"}
                      /\ w \notin store
                      /\ w \notin txn
  /\ \A v \in txn : place[v] # 0
  /\ \A v \in store : /\ place[v] # 0
                      /\ \A w \in queue : place[v] < place[w]
  /\ pc \in Busy => /\ cur \in Write \ queue
                    /\ fut[cur] \in {"pending", "cancelled"}
                    /\ \A w \in queue : place[cur] < place[w]
  /\ pc \in {"begun", "executed", "failed"} => \A v \in store : place[v] < place[cur]

\* What the open transaction holds, phase by phase.
TxnInv ==
  /\ mode = "autocommit" => txn = {}
  /\ pc \in {"begun", "executed"} => mode = "transaction"
  /\ pc = "begun" => txn = {}
  /\ pc = "executed" => txn = {cur}
  /\ pc = "committed" => cur \in store

\* Answers tell what is in the database.
AnswerInv ==
  \A w \in Write : /\ fut[w] = "result" => w \in store
                   /\ fut[w] = "error" => w \notin store

\* Who is still waiting is in the queue or in hand, unless the task was ended
\* from outside or by a cancelled caller.
WaitInv ==
  /\ \A w \in Write : fut[w] = "pending" =>
        \/ w \in queue
        \/ pc \in Busy /\ cur = w
        \/ pc = "cancelled"
  /\ pc = "exited" => closed /\ queue = {}
  /\ stopPc = "drained" => pc = "exited"

IInv == /\ TypeOK
        /\ PlaceInv
        /\ OrderInv
        /\ TxnInv
        /\ AnswerInv
        /\ WaitInv
        /\ OnlyCancelsKill

-----------------------------------------------------------------------------
\* The invariant holds initially.
LEMMA InitIInv == Init => IInv
  <1> SUFFICES ASSUME Init PROVE IInv
    OBVIOUS
  <1> USE DEF Init
  <1>1. TypeOK
    BY WriterQueueAssumption DEF TypeOK, Phases, Running, Futures, NoWrite
  <1>2. PlaceInv /\ AnswerInv /\ WaitInv
    BY DEF PlaceInv, AnswerInv, WaitInv, Busy
  <1>3. OrderInv /\ TxnInv /\ OnlyCancelsKill
    BY DEF OrderInv, TxnInv, OnlyCancelsKill, Busy
  <1>4. QED
    BY <1>1, <1>2, <1>3 DEF IInv

\* Every step preserves it: one step of the proof per action of the code.
LEMMA NextIInv == IInv /\ [Next]_vars => IInv'
  <1> SUFFICES ASSUME IInv, [Next]_vars
               PROVE  IInv'
    OBVIOUS
  <1> USE WriterQueueAssumption
          DEF IInv, Busy, Phases, Running, Futures, Fault, task, conn, closed
  <1>1. ASSUME NEW w \in Write, Submit(w)
        PROVE  IInv'
    <2> USE <1>1 DEF Submit, Enqueue
    <2>1. TypeOK'
      BY DEF TypeOK
    <2>2. PlaceInv'
      BY DEF TypeOK, PlaceInv
    <2>3. OrderInv'
      BY DEF TypeOK, PlaceInv, OrderInv, TxnInv
    <2>4. TxnInv'
      BY DEF TypeOK, OrderInv, TxnInv
    <2>5. AnswerInv'
      BY DEF TypeOK, PlaceInv, OrderInv, TxnInv, AnswerInv
    <2>6. WaitInv'
      BY DEF TypeOK, OrderInv, WaitInv
    <2>7. OnlyCancelsKill'
      BY DEF TypeOK, OrderInv, OnlyCancelsKill
    <2>8. QED
      BY <2>1, <2>2, <2>3, <2>4, <2>5, <2>6, <2>7
  <1>2. ASSUME NEW w \in Write, Cancel(w)
        PROVE  IInv'
    <2> USE <1>2 DEF Cancel
    <2>1. TypeOK'
      BY DEF TypeOK
    <2>2. PlaceInv'
      BY DEF TypeOK, PlaceInv
    <2>3. OrderInv'
      BY DEF TypeOK, PlaceInv, OrderInv, TxnInv
    <2>4. TxnInv'
      BY DEF TypeOK, OrderInv, TxnInv
    <2>5. AnswerInv'
      BY DEF TypeOK, PlaceInv, OrderInv, TxnInv, AnswerInv
    <2>6. WaitInv'
      BY DEF TypeOK, OrderInv, WaitInv
    <2>7. OnlyCancelsKill'
      BY DEF TypeOK, OrderInv, OnlyCancelsKill
    <2>8. QED
      BY <2>1, <2>2, <2>3, <2>4, <2>5, <2>6, <2>7
  <1>3. CASE Begin
    <2> USE <1>3 DEF Begin
    <2>1. TypeOK'
      BY DEF TypeOK
    <2>2. PlaceInv'
      BY DEF TypeOK, PlaceInv
    <2>3. OrderInv'
      BY DEF TypeOK, PlaceInv, OrderInv, TxnInv
    <2>4. TxnInv'
      BY DEF TypeOK, OrderInv, TxnInv
    <2>5. AnswerInv'
      BY DEF TypeOK, PlaceInv, OrderInv, TxnInv, AnswerInv
    <2>6. WaitInv'
      BY DEF TypeOK, OrderInv, WaitInv
    <2>7. OnlyCancelsKill'
      BY DEF TypeOK, OrderInv, OnlyCancelsKill
    <2>8. QED
      BY <2>1, <2>2, <2>3, <2>4, <2>5, <2>6, <2>7
  <1>4. CASE Execute
    <2> USE <1>4 DEF Execute
    <2>1. TypeOK'
      BY DEF TypeOK, OrderInv
    <2>2. PlaceInv'
      BY DEF TypeOK, PlaceInv
    <2>3. OrderInv'
      BY DEF TypeOK, PlaceInv, OrderInv, TxnInv
    <2>4. TxnInv'
      BY DEF TypeOK, OrderInv, TxnInv
    <2>5. AnswerInv'
      BY DEF TypeOK, PlaceInv, OrderInv, TxnInv, AnswerInv
    <2>6. WaitInv'
      BY DEF TypeOK, OrderInv, WaitInv
    <2>7. OnlyCancelsKill'
      BY DEF TypeOK, OrderInv, OnlyCancelsKill
    <2>8. QED
      BY <2>1, <2>2, <2>3, <2>4, <2>5, <2>6, <2>7
  <1>5. CASE Commit
    <2> USE <1>5 DEF Commit
    <2>1. TypeOK'
      BY DEF TypeOK
    <2>2. PlaceInv'
      BY DEF TypeOK, PlaceInv
    <2>3. OrderInv'
      BY DEF TypeOK, PlaceInv, OrderInv, TxnInv
    <2>4. TxnInv'
      BY DEF TypeOK, OrderInv, TxnInv
    <2>5. AnswerInv'
      BY DEF TypeOK, PlaceInv, OrderInv, TxnInv, AnswerInv
    <2>6. WaitInv'
      BY DEF TypeOK, OrderInv, WaitInv
    <2>7. OnlyCancelsKill'
      BY DEF TypeOK, OrderInv, OnlyCancelsKill
    <2>8. QED
      BY <2>1, <2>2, <2>3, <2>4, <2>5, <2>6, <2>7
  <1>6. CASE Resolve
    <2> USE <1>6 DEF Resolve, Settle, NoWrite
    <2>1. TypeOK'
      BY DEF TypeOK
    <2>2. PlaceInv'
      BY DEF TypeOK, PlaceInv
    <2>3. OrderInv'
      BY DEF TypeOK, PlaceInv, OrderInv, TxnInv
    <2>4. TxnInv'
      BY DEF TypeOK, OrderInv, TxnInv
    <2>5. AnswerInv'
      BY DEF TypeOK, PlaceInv, OrderInv, TxnInv, AnswerInv
    <2>6. WaitInv'
      BY DEF TypeOK, OrderInv, WaitInv
    <2>7. OnlyCancelsKill'
      BY DEF TypeOK, OrderInv, OnlyCancelsKill
    <2>8. QED
      BY <2>1, <2>2, <2>3, <2>4, <2>5, <2>6, <2>7
  <1>7. CASE Reject
    <2> USE <1>7 DEF Reject, Settle, NoWrite
    <2>1. TypeOK'
      BY DEF TypeOK
    <2>2. PlaceInv'
      BY DEF TypeOK, PlaceInv
    <2>3. OrderInv'
      BY DEF TypeOK, PlaceInv, OrderInv, TxnInv
    <2>4. TxnInv'
      BY DEF TypeOK, OrderInv, TxnInv
    <2>5. AnswerInv'
      BY DEF TypeOK, PlaceInv, OrderInv, TxnInv, AnswerInv
    <2>6. WaitInv'
      BY DEF TypeOK, OrderInv, WaitInv
    <2>7. OnlyCancelsKill'
      BY DEF TypeOK, OrderInv, OnlyCancelsKill
    <2>8. QED
      BY <2>1, <2>2, <2>3, <2>4, <2>5, <2>6, <2>7
  <1>8. CASE Exit
    BY <1>8 DEF Exit, TypeOK, PlaceInv, OrderInv, TxnInv, AnswerInv,
           WaitInv, OnlyCancelsKill
  <1>9. CASE Stop
    BY <1>9 DEF Stop, TypeOK, PlaceInv, OrderInv, TxnInv, AnswerInv,
           WaitInv, OnlyCancelsKill
  <1>10. CASE StopDrained
    BY <1>10 DEF StopDrained, CloseConnection, TypeOK, PlaceInv, OrderInv, TxnInv, AnswerInv,
           WaitInv, OnlyCancelsKill
  <1>11. CASE StopRaises
    BY <1>11 DEF StopRaises, TypeOK, PlaceInv, OrderInv, TxnInv, AnswerInv,
           WaitInv, OnlyCancelsKill
  <1>12. CASE StopTimesOut
    <2> USE <1>12 DEF StopTimesOut, CloseConnection
    <2>1. TypeOK'
      BY DEF TypeOK
    <2>2. PlaceInv'
      BY DEF TypeOK, PlaceInv
    <2>3. OrderInv'
      BY DEF TypeOK, PlaceInv, OrderInv, TxnInv
    <2>4. TxnInv'
      BY DEF TypeOK, OrderInv, TxnInv
    <2>5. AnswerInv'
      BY DEF TypeOK, PlaceInv, OrderInv, TxnInv, AnswerInv
    <2>6. WaitInv'
      BY DEF TypeOK, OrderInv, WaitInv
    <2>7. OnlyCancelsKill'
      BY DEF TypeOK, OrderInv, OnlyCancelsKill
    <2>8. QED
      BY <2>1, <2>2, <2>3, <2>4, <2>5, <2>6, <2>7
  <1>13. CASE UNCHANGED vars
    BY <1>13 DEF vars, TypeOK, PlaceInv, OrderInv, TxnInv, AnswerInv,
           WaitInv, OnlyCancelsKill
  <1>14. QED
    BY <1>1, <1>2, <1>3, <1>4, <1>5, <1>6, <1>7, <1>8, <1>9, <1>10, <1>11,
       <1>12, <1>13 DEF Next, TaskStep, StopStep

\* The invariant of the queue, its task and its connection.
THEOREM WriterQueueInvariant == Spec => []IInv
  BY InitIInv, NextIInv, PTL DEF Spec

\* Every variable keeps its type.
THEOREM WriterQueueTypeOK == Spec => []TypeOK
  <1>1. IInv => TypeOK
    BY DEF IInv
  <1>2. QED
    BY <1>1, WriterQueueInvariant, PTL

\* _run never commits statements of one write together with another's, though
\* a failed rollback leaves them in the connection's transaction.
THEOREM WriterQueueCommitAlone == Spec => []CommitAlone
  <1>1. IInv => CommitAlone
    BY DEF IInv, TxnInv, CommitAlone
  <1>2. QED
    BY <1>1, WriterQueueInvariant, PTL

\* stop() that has joined the task leaves nobody waiting.
THEOREM WriterQueueDrainComplete == Spec => []DrainComplete
  <1>1. IInv => DrainComplete
    BY DEF IInv, WaitInv, DrainComplete, Busy
  <1>2. QED
    BY <1>1, WriterQueueInvariant, PTL

\* No failure of SQLite ends the task; only a cancelled caller does.
THEOREM WriterQueueOnlyCancelsKill == Spec => []OnlyCancelsKill
  <1>1. IInv => OnlyCancelsKill
    BY DEF IInv
  <1>2. QED
    BY <1>1, WriterQueueInvariant, PTL

-----------------------------------------------------------------------------
\* The refinement: initial states map to initial states ...
LEMMA InitRefines == Init => AW!Init
  BY DEF Init, AW!Init

\* ... and every step is a step of the atomic writer or a stutter.
LEMMA NextRefines ==
  ASSUME IInv, [Next]_vars
  PROVE  [AW!Next]_(AW!vars)
  <1> DEFINE answer == [w \in Write |->
                          CASE fut[w] \in {"none", "pending", "cancelled"} -> "none"
                            [] fut[w] = "refused" -> "error"
                            [] OTHER -> fut[w]]
  <1>1. TypeOK /\ PlaceInv /\ OrderInv /\ TxnInv
    BY DEF IInv
  <1>2. ASSUME UNCHANGED <<place, store>>,
               \A w \in Write : \/ fut'[w] = fut[w]
                                \/ fut[w] = "pending" /\ fut'[w] = "cancelled"
        PROVE  [AW!Next]_(AW!vars)
    BY <1>2 DEF AW!vars
  \* A commit of the write in hand.
  <1>3. ASSUME pc = "executed", store' = store \cup txn, UNCHANGED <<place, fut>>
        PROVE  [AW!Next]_(AW!vars)
    <2>1. /\ cur \in Write /\ txn = {cur} /\ place[cur] # 0
          /\ fut[cur] \in {"pending", "cancelled"}
          /\ \A v \in store : place[v] < place[cur]
      BY <1>1, <1>3 DEF OrderInv, TxnInv, PlaceInv, Busy
    <2>2. PICK w \in Write : w = cur
      BY <2>1
    <2>3. AW!Apply(w)
      BY <1>3, <2>1, <2>2 DEF AW!Apply
    <2>4. QED
      BY <2>3 DEF AW!Next
  \* An answer to a caller.
  <1>4. ASSUME NEW w \in Write, NEW outcome, UNCHANGED <<place, store>>,
               fut' = [fut EXCEPT ![w] = outcome],
               \/ fut[w] = "none" /\ outcome = "refused" /\ w \notin store
               \/ fut[w] = "pending" /\ outcome = "error" /\ w \notin store
               \/ fut[w] = "pending" /\ outcome = "result" /\ w \in store
        PROVE  [AW!Next]_(AW!vars)
    <2>1. answer' = [answer EXCEPT ![w] = IF w \in store THEN "result" ELSE "error"]
      BY <1>1, <1>4 DEF TypeOK
    <2>2. answer[w] = "none"
      BY <1>4
    <2>3. AW!Answer(w)
      BY <1>4, <2>1, <2>2 DEF AW!Answer
    <2>4. QED
      BY <2>3 DEF AW!Next
  <1>5. ASSUME NEW w \in Write, Submit(w)
        PROVE  [AW!Next]_(AW!vars)
    <2>1. CASE Enqueue(w)
      <3>1. /\ fut[w] = "none" /\ fut' = [fut EXCEPT ![w] = "pending"]
            /\ place' = [place EXCEPT ![w] = last + 1] /\ UNCHANGED store
        BY <1>5, <2>1 DEF Submit, Enqueue
      <3>2. /\ place[w] = 0 /\ last + 1 \in Nat \ {0}
            /\ \A v \in Write : place[v] < last + 1
        BY <1>1, <3>1 DEF PlaceInv, TypeOK
      <3>3. UNCHANGED answer /\ answer[w] = "none"
        BY <1>1, <3>1 DEF TypeOK
      <3>4. place'[w] = last + 1
        BY <1>1, <3>1 DEF TypeOK
      <3>5. AW!Accept(w)
        BY <3>1, <3>2, <3>3, <3>4 DEF AW!Accept
      <3>6. QED
        BY <3>5 DEF AW!Next
    <2>2. CASE fut' = [fut EXCEPT ![w] = "refused"] /\ UNCHANGED <<place, store>>
      <3>1. fut[w] = "none" /\ w \notin store
        BY <1>1, <1>5 DEF Submit, PlaceInv, OrderInv
      <3>2. QED
        BY <1>4, <2>2, <3>1
    <2>3. QED
      BY <1>5, <2>1, <2>2 DEF Submit
  <1>6. ASSUME NEW w \in Write, Cancel(w)
        PROVE  [AW!Next]_(AW!vars)
    BY <1>1, <1>2, <1>6 DEF Cancel, TypeOK
  <1>7. CASE Begin \/ Execute \/ Exit \/ Stop \/ StopDrained \/ StopRaises
    BY <1>2, <1>7 DEF Begin, Execute, Exit, Stop, StopDrained, StopRaises
  <1>8. CASE Commit
    BY <1>2, <1>3, <1>8 DEF Commit
  <1>9. CASE Resolve
    <2>1. cur \in Write /\ cur \in store
      BY <1>1, <1>9 DEF Resolve, OrderInv, TxnInv, Busy
    <2>2. CASE UNCHANGED fut
      BY <1>2, <1>9, <2>2 DEF Resolve
    <2>3. CASE fut[cur] = "pending" /\ fut' = [fut EXCEPT ![cur] = "result"]
      BY <1>4, <1>9, <2>1, <2>3 DEF Resolve
    <2>4. QED
      BY <1>9, <2>2, <2>3 DEF Resolve, Settle
  <1>10. CASE Reject
    <2>1. cur \in Write /\ cur \notin store
      BY <1>1, <1>10 DEF Reject, OrderInv, Busy, TypeOK
    <2>2. CASE UNCHANGED fut
      BY <1>2, <1>10, <2>2 DEF Reject
    <2>3. CASE fut[cur] = "pending" /\ fut' = [fut EXCEPT ![cur] = "error"]
      BY <1>4, <1>10, <2>1, <2>3 DEF Reject
    <2>4. QED
      BY <1>10, <2>2, <2>3 DEF Reject, Settle
  <1>11. CASE StopTimesOut
    BY <1>2, <1>3, <1>11 DEF StopTimesOut
  <1>12. CASE UNCHANGED vars
    BY <1>2, <1>12 DEF vars
  <1>13. QED
    BY <1>5, <1>6, <1>7, <1>8, <1>9, <1>10, <1>11, <1>12
       DEF Next, TaskStep, StopStep

\* The queue is an atomic writer: each write at most once, whole, in order, and
\* truthful answers.
THEOREM WriterQueueImplementsAtomicWriter == Spec => ImplementsAtomicWriter
  <1>1. IInv /\ [Next]_vars => [AW!Next]_(AW!vars)
    BY NextRefines
  <1>2. QED
    BY InitRefines, <1>1, WriterQueueInvariant, PTL
       DEF Spec, ImplementsAtomicWriter, AW!Spec
=============================================================================
