---------------------------- MODULE UsageBuffer ----------------------------
(***************************************************************************)
(* The usage log of lib/usage-buffer.ts: request handlers append rows to a *)
(* queue in memory, which a timer and a full batch flush to the database   *)
(* with one multi-row INSERT at a time.                                    *)
(*                                                                         *)
(* append and the part of flush before its await run without interruption; *)
(* the INSERT is under way at the database while handlers go on appending. *)
(* Row n is the row of the n-th call of append.                            *)
(***************************************************************************)
EXTENDS Integers, Sequences, FiniteSets, Functions

CONSTANTS
    MaxQueue,    \* MAX_QUEUE
    FlushBatch,  \* flushBatch
    MaxRows,     \* bound on the calls of append
    Faults       \* what may happen: a subset of {"database", "crash", "close"}

ASSUME BufferAssumption ==
    /\ MaxQueue \in Nat \ {0}
    /\ FlushBatch \in Nat \ {0}
    /\ MaxRows \in Nat
    /\ Faults \subseteq {"database", "crash", "close"}

VARIABLES
    queue,         \* UsageBuffer.queue
    flushing,      \* UsageBuffer.flushing
    batch,         \* the batch whose INSERT flush awaits, <<>> if none
    dropped,       \* UsageBuffer.droppedCount
    totalWritten,  \* UsageBuffer.totalWritten
    lifecycle,     \* "open", "closing" while close() awaits, "closed", "crashed"
    appended,      \* calls of append so far
    lost,          \* rows of the batches whose INSERT was reported as failed
    inDb,          \* INSERTs sent, which the database may yet execute
    table          \* the rows of request_logs

memoryVars == <<queue, flushing, batch, dropped, totalWritten, lifecycle, appended, lost>>
vars == <<memoryVars, inDb, table>>

Alive == lifecycle # "crashed"
Row == 1..MaxRows

(* Type invariant, with the bound that append keeps on the queue. *)
TypeOK ==
    /\ queue \in Seq(Row)
    /\ Len(queue) <= MaxQueue
    /\ flushing \in BOOLEAN
    /\ batch \in Seq(Row)
    /\ dropped \in Nat
    /\ totalWritten \in Nat
    /\ lifecycle \in {"open", "closing", "closed", "crashed"}
    /\ appended \in 0..MaxRows
    /\ lost \in Nat
    /\ inDb \subseteq Seq(Row)
    /\ table \in Seq(Row)

Init ==
    /\ queue = <<>>
    /\ flushing = FALSE
    /\ batch = <<>>
    /\ dropped = 0
    /\ totalWritten = 0
    /\ lifecycle = "open"
    /\ appended = 0
    /\ lost = 0
    /\ inDb = {}
    /\ table = <<>>

-----------------------------------------------------------------------------
BatchSize(q) == IF Len(q) < FlushBatch THEN Len(q) ELSE FlushBatch

(* Mutant: a flush does not look whether another is under way. *)
Flush_NoGuard(q) ==
    IF q = <<>>
    THEN queue' = q /\ UNCHANGED <<flushing, batch, inDb>>
    ELSE /\ flushing' = TRUE
         /\ batch' = SubSeq(q, 1, BatchSize(q))
         /\ queue' = SubSeq(q, BatchSize(q) + 1, Len(q))
         /\ inDb' = inDb \cup {batch'}

(* flush() up to its await, called when the queue has become q: nothing when *)
(* an INSERT is under way or there is nothing to write.                      *)
Flush(q) ==
    IF flushing \/ q = <<>>
    THEN queue' = q /\ UNCHANGED <<flushing, batch, inDb>>
    ELSE /\ flushing' = TRUE
         /\ batch' = SubSeq(q, 1, BatchSize(q))
         /\ queue' = SubSeq(q, BatchSize(q) + 1, Len(q))
         /\ inDb' = inDb \cup {batch'}

Overflows_TooLate == Len(queue) > MaxQueue  \* mutant: off by one
Overflows == Len(queue) >= MaxQueue

(* append on a full queue: the row that was handed in is the one dropped. *)
Drop ==
    /\ Alive /\ appended < MaxRows
    /\ Overflows
    /\ appended' = appended + 1
    /\ dropped' = dropped + 1
    /\ UNCHANGED <<queue, flushing, batch, totalWritten, lifecycle, lost, inDb, table>>

Push ==
    /\ Alive /\ appended < MaxRows
    /\ ~ Overflows
    /\ appended' = appended + 1
    /\ LET q == Append(queue, appended')
       IN  IF Len(q) >= FlushBatch
           THEN Flush(q)
           ELSE queue' = q /\ UNCHANGED <<flushing, batch, inDb>>
    /\ UNCHANGED <<dropped, totalWritten, lifecycle, lost, table>>

(* Mutant: the timer is cleared for good once an INSERT is under way. *)
TimerFires_WhenFull ==
    /\ lifecycle = "open"
    /\ Len(queue) >= FlushBatch
    /\ Flush(queue)
    /\ UNCHANGED <<dropped, totalWritten, lifecycle, appended, lost, table>>

TimerFires ==
    /\ lifecycle = "open"
    /\ Flush(queue)
    /\ UNCHANGED <<dropped, totalWritten, lifecycle, appended, lost, table>>

(* flush after its await: the finally block, and what awaits flush in close(). *)
FlushEnds ==
    /\ flushing' = FALSE
    /\ batch' = <<>>
    /\ lifecycle' = IF lifecycle = "closing" THEN "closed" ELSE lifecycle
    /\ UNCHANGED <<queue, dropped, appended, table>>

InsertSucceeds ==
    /\ flushing
    /\ Range(batch) \subseteq Range(table)
    /\ totalWritten' = totalWritten + Len(batch)
    /\ FlushEnds
    /\ UNCHANGED <<lost, inDb>>

(* Mutant: a failed batch is put back at the head of the queue. *)
InsertFails_Requeues ==
    /\ "database" \in Faults
    /\ flushing
    /\ flushing' = FALSE
    /\ batch' = <<>>
    /\ queue' = batch \o queue
    /\ lifecycle' = IF lifecycle = "closing" THEN "closed" ELSE lifecycle
    /\ UNCHANGED <<dropped, totalWritten, appended, lost, inDb, table>>

(* The INSERT is reported as failed: refused, or the connection broke before, *)
(* during or after its execution.  The batch is not tried again.              *)
InsertFails ==
    /\ "database" \in Faults
    /\ flushing
    /\ lost' = lost + Len(batch)
    /\ FlushEnds
    /\ UNCHANGED <<totalWritten, inDb>>

(* close(): stop the timer and flush once; it returns at once when an INSERT *)
(* is under way already.                                                     *)
Close ==
    /\ "close" \in Faults
    /\ lifecycle = "open"
    /\ Flush(queue)
    /\ lifecycle' = IF flushing' /\ ~ flushing THEN "closing" ELSE "closed"
    /\ UNCHANGED <<dropped, totalWritten, appended, lost, table>>

(* The process dies; an INSERT it has sent may still be executed. *)
Crash ==
    /\ "crash" \in Faults
    /\ Alive
    /\ lifecycle' = "crashed"
    /\ queue' = <<>>
    /\ flushing' = FALSE
    /\ batch' = <<>>
    /\ UNCHANGED <<dropped, totalWritten, appended, lost, inDb, table>>

(* The database executes an INSERT as a whole, or never will. *)
DbExecutes(b) ==
    /\ b \in inDb
    /\ table' = table \o b
    /\ inDb' = inDb \ {b}
    /\ UNCHANGED memoryVars

DbGivesUp(b) ==
    /\ "database" \in Faults
    /\ b \in inDb
    /\ inDb' = inDb \ {b}
    /\ UNCHANGED <<memoryVars, table>>

Next ==
    \/ Drop \/ Push \/ TimerFires
    \/ InsertSucceeds \/ InsertFails
    \/ Close \/ Crash
    \/ \E b \in inDb : DbExecutes(b) \/ DbGivesUp(b)

Spec == Init /\ [][Next]_vars

(* The interval timer fires, the database gets round to every INSERT, and the *)
(* driver settles every promise.                                              *)
Fairness ==
    /\ WF_vars(TimerFires)
    /\ WF_vars(InsertSucceeds \/ InsertFails)
    /\ WF_vars(\E b \in inDb : DbExecutes(b) \/ DbGivesUp(b))

FairSpec == Spec /\ Fairness

-----------------------------------------------------------------------------
(* Properties. *)

InFlight == UNION {Range(b) : b \in inDb}

(* No row is written twice, and none can be any more once it is in the table: *)
(* not when the answer of an INSERT is lost, nor when one reported as failed  *)
(* is executed after the next batch (flush does not requeue).                 *)
NoRowTwice ==
    /\ IsInjective(table)
    /\ Range(table) \cap (Range(queue) \cup InFlight) = {}

(* Every row that a request handed in is queued, in the batch being written,  *)
(* or counted: as dropped, as written, or as lost with a failed batch.        *)
AccountsForEveryRow ==
    Alive => appended = dropped + totalWritten + lost + Len(batch) + Len(queue)

(* While the buffer is open, every queued row leaves the queue: a flush that  *)
(* was refused because another was under way is made up for by the timer.     *)
QueueDrains ==
    \A n \in Row : n \in Range(queue) ~> n \notin Range(queue) \/ lifecycle # "open"

Log == INSTANCE AtMostOnceLog WITH
          Rows <- Row,
          pending <- Range(queue) \cup InFlight,
          written <- table

(* The buffer implements a log that writes each accepted row at most once. *)
ImplementsLog == Log!LogSpec
=============================================================================
