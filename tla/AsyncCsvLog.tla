------------------------------ MODULE AsyncCsvLog ------------------------------
(***************************************************************************)
(* rtc::AsyncCsvLog of rtc_base/csv_log.h: callers append rows to a        *)
(* bounded queue under a mutex, and one background thread swaps the queue  *)
(* out, writes it through a fully buffered FILE and flushes.               *)
(*                                                                         *)
(* A critical section of mutex_ is one step; what a thread does outside    *)
(* the mutex (notify_one, fputs, fflush, the statistics row) is a step of  *)
(* its own, so that callers, the writer and the destructor interleave as   *)
(* in the code.                                                            *)
(***************************************************************************)
EXTENDS Naturals, Sequences

CONSTANTS Row,            \* the rows callers log
          Callers,        \* threads calling WriteLine
          MaxQueueRows,   \* max_queue_rows_
          StatsInterval,  \* enqueued rows between two statistics rows (1000)
          MaxOffers       \* bound: WriteLine calls in a behaviour

ASSUME LogAssumption ==
    /\ MaxQueueRows \in Nat
    /\ StatsInterval \in Nat \ {0}
    /\ MaxOffers \in Nat

VARIABLES
    file,       \* file_ != nullptr: the log file could be opened
    queue,      \* queue_
    local,      \* the writer's local deque, minus the rows already fputs'ed
    stdio,      \* rows in the FILE's user-space buffer
    disk,       \* rows that reached the file
    stop,       \* stop_
    caller,     \* caller[c]: "idle", or "notify" between unlock and notify_one
    writer,     \* program counter of WriterLoop
    owner,      \* program counter of ~AsyncCsvLog
    enqueued,   \* enqueued_rows_
    dropped,    \* dropped_rows_
    maxDepth,   \* max_queue_depth_
    lastStats,  \* last_stats_rows_
    stats,      \* rows of logging_stats.csv
    offers      \* history: rows given to WriteLine of a log with a file

rowVars   == <<queue, local, stdio, disk>>
countVars == <<enqueued, dropped, maxDepth, offers>>
statVars  == <<lastStats, stats>>
vars == <<file, rowVars, stop, caller, writer, owner, countVars, statVars>>

StatsRow == [enqueued : Nat, dropped : Nat, maxDepth : Nat]

TypeOK ==
    /\ file \in BOOLEAN
    /\ queue \in Seq(Row) /\ Len(queue) <= MaxQueueRows
    /\ local \in Seq(Row)
    /\ stdio \in Seq(Row)
    /\ disk \in Seq(Row)
    /\ stop \in BOOLEAN
    /\ caller \in [Callers -> {"idle", "notify"}]
    /\ writer \in {"none", "check", "waiting", "write", "flush", "stats",
                   "report", "final", "done"}
    /\ owner \in {"live", "notify", "join", "close", "closed", "exited"}
    /\ enqueued \in Nat
    /\ dropped \in Nat
    /\ maxDepth \in Nat
    /\ lastStats \in Nat
    /\ stats \in Seq(StatsRow)
    /\ offers \in 0 .. MaxOffers

Init ==
    /\ file \in BOOLEAN
    /\ queue = <<>> /\ local = <<>> /\ stdio = <<>> /\ disk = <<>>
    /\ stop = FALSE
    /\ caller = [c \in Callers |-> "idle"]
    /\ writer = IF file THEN "check" ELSE "none"
    /\ owner = "live"
    /\ enqueued = 0 /\ dropped = 0 /\ maxDepth = 0
    /\ lastStats = 0 /\ stats = <<>> /\ offers = 0

-------------------------------------------------------------------------------
(* WriteLine *)

HasRoom == Len(queue) < MaxQueueRows

\* Wrong variant: the depth is measured before the row is in the queue.
DepthWithRowStale == Len(queue)

DepthWithRow == Len(queue) + 1

\* The critical section of WriteLine when there is room for the row.
Enqueue(c, r) ==
    /\ owner = "live" /\ file
    /\ caller[c] = "idle"
    /\ offers < MaxOffers /\ offers' = offers + 1
    /\ HasRoom
    /\ queue' = Append(queue, r)
    /\ enqueued' = enqueued + 1
    /\ maxDepth' = IF DepthWithRow > maxDepth THEN DepthWithRow ELSE maxDepth
    /\ caller' = [caller EXCEPT ![c] = "notify"]
    /\ UNCHANGED <<file, local, stdio, disk, stop, writer, owner, dropped, statVars>>

\* The critical section of WriteLine when the queue is full: no notify follows.
DropRow(c) ==
    /\ owner = "live" /\ file
    /\ caller[c] = "idle"
    /\ offers < MaxOffers /\ offers' = offers + 1
    /\ ~HasRoom
    /\ dropped' = dropped + 1
    /\ UNCHANGED <<file, rowVars, stop, caller, writer, owner, enqueued, maxDepth,
                   statVars>>

\* Wrong variant: the notification wakes nobody.
WokenLost(w) == w

\* notify_one reaches the writer only if it is blocked in cv_.wait right now.
Woken(w) == IF w = "waiting" THEN "check" ELSE w

Notify(c) ==
    /\ owner # "exited"
    /\ caller[c] = "notify"
    /\ caller' = [caller EXCEPT ![c] = "idle"]
    /\ writer' = Woken(writer)
    /\ UNCHANGED <<file, rowVars, stop, owner, countVars, statVars>>

-------------------------------------------------------------------------------
(* WriterLoop *)

Running == owner # "exited"

\* Wrong variant: cv_.wait without a predicate.
MustWaitAlways == TRUE

\* The predicate of cv_.wait is false.
MustWait == ~stop /\ queue = <<>>

\* cv_.wait finds its predicate false and releases the mutex.
Block ==
    /\ Running /\ writer = "check"
    /\ MustWait
    /\ writer' = "waiting"
    /\ UNCHANGED <<file, rowVars, stop, caller, owner, countVars, statVars>>

\* cv_.wait may return without a notification; the predicate is tested again.
SpuriousWakeup ==
    /\ Running /\ writer = "waiting"
    /\ writer' = "check"
    /\ UNCHANGED <<file, rowVars, stop, caller, owner, countVars, statVars>>

\* Wrong variant: the rows are copied out instead of swapped out.
LeftBehindCopy == queue

\* What the swap leaves in queue_: the writer's deque, cleared after each batch.
LeftBehind == local

\* Wrong variant: stop_ ends the loop although the batch is not empty.
LoopEndsAtOnce == stop

LoopEnds == stop /\ queue = <<>>

\* The predicate holds: the queue is swapped out, and an empty batch after
\* stop_ ends the loop.
Swap ==
    /\ Running /\ writer = "check"
    /\ stop \/ queue # <<>>
    /\ local' = queue
    /\ queue' = LeftBehind
    /\ writer' = IF LoopEnds THEN "final" ELSE "write"
    /\ UNCHANGED <<file, stdio, disk, stop, caller, owner, countVars, statVars>>

\* fputs of one row: it stays in the FILE's buffer, or the buffer is full and
\* is written out.
Fputs ==
    /\ Running /\ writer = "write"
    /\ local # <<>>
    /\ local' = Tail(local)
    /\ \/ /\ stdio' = Append(stdio, Head(local))
          /\ UNCHANGED disk
       \/ /\ disk' = disk \o Append(stdio, Head(local))
          /\ stdio' = <<>>
    /\ UNCHANGED <<file, queue, stop, caller, writer, owner, countVars, statVars>>

FinishBatch ==
    /\ Running /\ writer = "write"
    /\ local = <<>>
    /\ writer' = "flush"
    /\ UNCHANGED <<file, rowVars, stop, caller, owner, countVars, statVars>>

\* fflush, after a batch and once more after the loop.
Flush ==
    /\ Running /\ writer \in {"flush", "final"}
    /\ disk' = disk \o stdio
    /\ stdio' = <<>>
    /\ writer' = IF writer = "flush" THEN "stats" ELSE "done"
    /\ UNCHANGED <<file, queue, local, stop, caller, owner, countVars, statVars>>

\* MaybeWriteStats reads enqueued_rows_ without the mutex and returns unless
\* enough rows came since the last statistics row ...
SampleStats ==
    /\ Running /\ writer = "stats"
    /\ IF enqueued - lastStats < StatsInterval
       THEN /\ writer' = "check"
            /\ UNCHANGED lastStats
       ELSE /\ writer' = "report"
            /\ lastStats' = enqueued
    /\ UNCHANGED <<file, rowVars, stop, caller, owner, countVars, stats>>

\* A statistics row whose first column was sampled earlier.
StatsRowOf(rows) == [enqueued |-> rows, dropped |-> dropped, maxDepth |-> maxDepth]

\* ... opens logging_stats.csv and only then reads the other two counters.
ReportStats ==
    /\ Running /\ writer = "report"
    /\ writer' = "check"
    /\ stats' = Append(stats, StatsRowOf(lastStats))
    /\ UNCHANGED <<file, rowVars, stop, caller, owner, countVars, lastStats>>

-------------------------------------------------------------------------------
(* ~AsyncCsvLog.  The owner destroys the log only when no caller is inside   *)
(* WriteLine and none will call it again.                                    *)

RequestStop ==
    /\ owner = "live"
    /\ \A c \in Callers : caller[c] = "idle"
    /\ stop' = TRUE
    /\ owner' = "notify"
    /\ UNCHANGED <<file, rowVars, caller, writer, countVars, statVars>>

\* Wrong variant: the join relies on the writer noticing stop_ by itself.
WokenByStopLost(w) == w

WokenByStop(w) == Woken(w)

NotifyStop ==
    /\ owner = "notify"
    /\ writer' = WokenByStop(writer)
    /\ owner' = "join"
    /\ UNCHANGED <<file, rowVars, stop, caller, countVars, statVars>>

\* writer_.join(); a log whose file did not open has no thread to join.
Join ==
    /\ owner = "join"
    /\ writer \in {"none", "done"}
    /\ owner' = "close"
    /\ UNCHANGED <<file, rowVars, stop, caller, writer, countVars, statVars>>

\* fclose flushes what is left in the FILE; the last statistics row follows.
Close ==
    /\ owner = "close"
    /\ disk' = IF file THEN disk \o stdio ELSE disk
    /\ stdio' = IF file THEN <<>> ELSE stdio
    /\ stats' = Append(stats, StatsRowOf(enqueued))
    /\ owner' = "closed"
    /\ UNCHANGED <<file, queue, local, stop, caller, writer, countVars, lastStats>>

\* Every log of the code is an absl::NoDestructor: the process ends while the
\* threads run.  exit() flushes open FILEs, an abort does not.
ProcessExit ==
    /\ owner = "live"
    /\ owner' = "exited"
    /\ \/ UNCHANGED <<disk, stdio>>
       \/ /\ disk' = disk \o stdio
          /\ stdio' = <<>>
    /\ UNCHANGED <<file, queue, local, stop, caller, writer, countVars, statVars>>

-------------------------------------------------------------------------------
WriteLine(c) ==
    \/ \E r \in Row : Enqueue(c, r)
    \/ DropRow(c)
    \/ Notify(c)

WriterLoop ==
    \/ Block \/ SpuriousWakeup \/ Swap \/ Fputs \/ FinishBatch \/ Flush
    \/ SampleStats \/ ReportStats

Destructor == RequestStop \/ NotifyStop \/ Join \/ Close

Next ==
    \/ \E c \in Callers : WriteLine(c)
    \/ WriterLoop
    \/ Destructor
    \/ ProcessExit

Spec == Init /\ [][Next]_vars

\* The operating system runs every thread: a caller that is to notify does, the
\* writer takes its steps (a spurious wakeup is never relied on) and a
\* destructor that has begun goes on.  Nobody is obliged to log or to destroy.
Fairness ==
    /\ \A c \in Callers : WF_vars(Notify(c))
    /\ WF_vars(WriterLoop /\ ~SpuriousWakeup)
    /\ WF_vars(NotifyStop \/ Join \/ Close)

FairSpec == Spec /\ Fairness

-------------------------------------------------------------------------------
(* Properties *)

\* The rows accepted so far, wherever they are on their way to the disk.
Accepted == disk \o stdio \o local \o queue

\* The implementation of RowLog: WriteLine accepts a row at the end, and no
\* other step loses, duplicates or reorders a row between queue_, the writer's
\* batch, the FILE's buffer and the file.
Sink == INSTANCE RowLog WITH log <- Accepted, persisted <- Len(disk)
ImplementsRowLog == Sink!LogSpec

\* enqueued_rows_ counts exactly the rows that are on disk or on their way,
\* dropped_rows_ those that were offered and are neither, the queue respects
\* max_queue_rows_, and max_queue_depth_ is at least the present depth.  The row of
\* logging_stats.csv that the destructor writes describes the file beside it: the
\* rows in it, and the rows that should be and are not.
CountersMatchRows ==
    /\ enqueued = Len(Accepted)
    /\ dropped = offers - Len(Accepted)
    /\ Len(queue) <= maxDepth
    /\ maxDepth <= MaxQueueRows
    /\ lastStats <= enqueued
    /\ owner = "closed" =>
        LET last == stats[Len(stats)]
        IN  last.enqueued = Len(disk) /\ last.dropped = offers - Len(disk)

\* A writer blocked in cv_.wait with rows queued, or with stop_ set, has a
\* notify_one still coming: no interleaving of unlock, wait and notify_one
\* loses the wakeup.
WakeupPending ==
    writer = "waiting" /\ (queue # <<>> \/ stop) =>
        \/ \E c \in Callers : caller[c] = "notify"
        \/ owner = "notify"
        \/ owner = "exited"

\* When the destructor has returned, every accepted row is in the file.
DestroyedImpliesDrained == owner = "closed" => disk = Accepted

\* Successive rows of logging_stats.csv never go backwards in any column,
\* although their columns are read without the mutex.
StatsMonotone ==
    \A i, j \in DOMAIN stats :
        i < j => /\ stats[i].enqueued <= stats[j].enqueued
                 /\ stats[i].dropped <= stats[j].dropped
                 /\ stats[i].maxDepth <= stats[j].maxDepth

\* Every accepted row, the n-th for each n, is eventually written to the file by
\* the writer thread, unless the process ends first; callers never wait for it.
QueuedRowsReachDisk ==
    \A n \in 1 .. MaxOffers :
        (enqueued >= n) ~> (Len(disk) >= n \/ owner = "exited")

\* A destructor that has begun returns: join never waits for ever.
DestructorReturns == (owner = "notify") ~> (owner = "closed")
===============================================================================
