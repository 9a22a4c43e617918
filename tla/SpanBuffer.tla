----------------------------- MODULE SpanBuffer -----------------------------
(***************************************************************************)
(* observability/span_buffer.py: rows go through a bounded queue to a      *)
(* thread that writes them to SQLite in batches; KPIs and the budget read  *)
(* them back after flush().  Rows are numbered in the order of record().   *)
(* One action per operation on the queue or the database: the recording    *)
(* thread, the drainer, a reader and whoever closes run concurrently.      *)
(***************************************************************************)
EXTENDS Naturals, Sequences, FiniteSets

CONSTANTS Depth,     \* _MAX_QUEUE_DEPTH
          Batch,     \* _DRAIN_BATCH_SIZE
          MaxRows,   \* bound: rows recorded
          MaxErrors  \* bound: writes that fail or take longer than a reader waits

VARIABLES recorded,  \* rows recorded
          queue,     \* _queue
          hand,      \* the drainer's batch
          drainer,   \* where _drain_loop is
          disk,      \* rows committed
          limbo,     \* rows of a failed batch, in the connection's transaction
          dropped,   \* rows the full queue refused: _dropped_count counts them
          stop,      \* _stop_event
          late,      \* history: rows recorded when the event was set
          reader,    \* flush(): where a reader is, and the rows recorded before
          errors

vars == <<recorded, queue, hand, drainer, disk, limbo, dropped, stop, late,
          reader, errors>>

-----------------------------------------------------------------------------
Row == 1 .. MaxRows
Elements(s) == {s[i] : i \in 1 .. Len(s)}

TypeOK ==
    /\ recorded \in 0 .. MaxRows
    /\ queue \in Seq(Row) /\ Len(queue) <= Depth
    /\ hand \in Seq(Row)
    /\ drainer \in {"collecting", "writing", "tail", "stopped"}
    /\ disk \subseteq Row /\ limbo \subseteq Row /\ dropped \subseteq Row
    /\ late \subseteq Row /\ stop \in BOOLEAN
    /\ reader \in [at : {"idle", "emptying", "settling", "reads"}, upto : 0 .. MaxRows]
    /\ errors \in 0 .. MaxErrors

Init ==
    /\ recorded = 0 /\ queue = <<>> /\ hand = <<>> /\ drainer = "collecting"
    /\ disk = {} /\ limbo = {} /\ dropped = {} /\ late = {} /\ stop = FALSE
    /\ reader = [at |-> "idle", upto |-> 0] /\ errors = 0

-----------------------------------------------------------------------------
\* record: never waits.
Record ==
    /\ recorded < MaxRows
    /\ recorded' = recorded + 1
    /\ IF Len(queue) < Depth
       THEN queue' = Append(queue, recorded + 1) /\ UNCHANGED dropped
       ELSE dropped' = dropped \cup {recorded + 1} /\ UNCHANGED queue
    /\ late' = IF stop THEN late \cup {recorded + 1} ELSE late
    /\ UNCHANGED <<hand, drainer, disk, limbo, stop, reader, errors>>

\* _collect_batch: whatever is in the queue, up to a batch, row by row.
Collect ==
    /\ drainer = "collecting"
    /\ Len(hand) < Batch /\ queue # <<>>
    /\ hand' = Append(hand, Head(queue)) /\ queue' = Tail(queue)
    /\ UNCHANGED <<recorded, drainer, disk, limbo, dropped, stop, late, reader, errors>>

Full == /\ drainer = "collecting"
        /\ hand # <<>> /\ (Len(hand) = Batch \/ queue = <<>>)
        /\ drainer' = "writing"
        /\ UNCHANGED <<recorded, queue, hand, disk, limbo, dropped, stop, late,
                       reader, errors>>

\* Nothing came, and the event is set: the rest is written at once.
Leave == /\ drainer = "collecting"
         /\ hand = <<>> /\ stop
         /\ drainer' = "tail"
         /\ hand' = queue /\ queue' = <<>>
         /\ UNCHANGED <<recorded, disk, limbo, dropped, stop, late, reader, errors>>

\* Where the drainer goes after a batch: the event is looked at first.
After == drainer' = IF drainer = "tail" THEN "stopped" ELSE "collecting"

\* _write_batch: the commit takes along what an earlier batch left open.
WriteBatch ==
    /\ drainer \in {"writing", "tail"}
    /\ disk' = disk \cup Elements(hand) \cup (IF hand = <<>> THEN {} ELSE limbo)
    /\ limbo' = IF hand = <<>> THEN limbo ELSE {}
    /\ hand' = <<>>
    /\ After
    /\ UNCHANGED <<recorded, queue, dropped, stop, late, reader, errors>>

\* A DatabaseError is logged; the transaction stays open.
WriteFails ==
    /\ drainer \in {"writing", "tail"} /\ hand # <<>>
    /\ errors < MaxErrors /\ errors' = errors + 1
    /\ limbo' = limbo \cup Elements(hand)
    /\ hand' = <<>>
    /\ After
    /\ UNCHANGED <<recorded, queue, disk, dropped, stop, late, reader>>

\* close().
Close == /\ ~stop
         /\ stop' = TRUE
         /\ UNCHANGED <<recorded, queue, hand, drainer, disk, limbo, dropped, late,
                        reader, errors>>

-----------------------------------------------------------------------------
Reader(where, n) == reader' = [at |-> where, upto |-> n]

FlushBegins == /\ reader.at = "idle"
               /\ Reader("emptying", recorded)
               /\ UNCHANGED <<recorded, queue, hand, drainer, disk, limbo, dropped,
                              stop, late, errors>>

\* Variant: an empty queue is enough.
FlushReturnsEmpty == /\ reader.at = "emptying"
                     /\ queue = <<>>
                     /\ Reader("reads", reader.upto)
                     /\ UNCHANGED <<recorded, queue, hand, drainer, disk, limbo,
                                    dropped, stop, late, errors>>

\* The queue is empty; the batch in hand gets half a second more, unless the
\* buffer is closed.
FlushSettles == /\ reader.at = "emptying"
                /\ queue = <<>>
                /\ Reader("settling", reader.upto)
                /\ UNCHANGED <<recorded, queue, hand, drainer, disk, limbo, dropped,
                               stop, late, errors>>

\* The batch that was in hand is written, as a rule, when the time is over.
FlushReturns == /\ reader.at = "settling"
                /\ \A r \in Elements(hand) : r > reader.upto
                /\ Reader("reads", reader.upto)
                /\ UNCHANGED <<recorded, queue, hand, drainer, disk, limbo, dropped,
                               stop, late, errors>>

\* The deadline passes, or the write takes longer, or nobody writes any more: the
\* reader makes do with what there is.
FlushGivesUp == /\ reader.at \in {"emptying", "settling"}
                /\ errors < MaxErrors /\ errors' = errors + 1
                /\ Reader("reads", 0)
                /\ UNCHANGED <<recorded, queue, hand, drainer, disk, limbo, dropped,
                               stop, late>>

\* query.
Query == /\ reader.at = "reads"
         /\ Reader("idle", 0)
         /\ UNCHANGED <<recorded, queue, hand, drainer, disk, limbo, dropped, stop,
                        late, errors>>

Next == \/ Record \/ Close
        \/ Collect \/ Full \/ Leave \/ WriteBatch \/ WriteFails
        \/ FlushBegins \/ FlushSettles \/ FlushReturns \/ FlushGivesUp \/ Query

Spec == Init /\ [][Next]_vars

-----------------------------------------------------------------------------
(* Properties. *)

\* Every row is in one place, once and in order; when the drainer has stopped, only
\* rows recorded after close() are left in the queue.
RowsAccounted ==
    /\ 1 .. recorded = Elements(queue) \cup Elements(hand) \cup disk \cup limbo
                          \cup dropped
    /\ recorded = Len(queue) + Len(hand) + Cardinality(disk) + Cardinality(limbo)
                     + Cardinality(dropped)
    /\ \A i, j \in 1 .. Len(hand \o queue) :
          i < j => (hand \o queue)[i] < (hand \o queue)[j]
    /\ drainer = "stopped" => hand = <<>> /\ Elements(queue) \subseteq late

\* A reader that was let in by flush() finds every row recorded before it, except
\* those that were refused or could not be written.
FlushedIsRead ==
    reader.at = "reads" => 1 .. reader.upto \subseteq disk \cup limbo \cup dropped
=============================================================================
