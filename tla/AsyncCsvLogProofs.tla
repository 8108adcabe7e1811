--------------------------- MODULE AsyncCsvLogProofs ---------------------------
(***************************************************************************)
(* What AsyncCsvLog promises for every set of callers and rows and every   *)
(* size of the queue: its safety properties are invariants, and it         *)
(* implements RowLog.                                                      *)
(***************************************************************************)
EXTENDS AsyncCsvLog, SequenceTheorems, TLAPS

\* Where rows can be at each place of the two threads.  The writer's deque is
\* empty outside its loop over a batch; the loop ends only with stop_ set and
\* nothing queued; the destructor passes join only after that.
PlacesInv ==
    /\ writer # "write" => local = <<>>
    /\ stop <=> owner \notin {"live", "exited"}
    /\ writer \in {"final", "done"} => stop /\ queue = <<>>
    /\ writer = "done" => stdio = <<>>
    /\ writer = "none" => ~file
    /\ ~file => writer = "none" /\ queue = <<>> /\ stdio = <<>>
    /\ owner \in {"close", "closed"} => writer \in {"none", "done"}

IInv == TypeOK /\ PlacesInv

\* The statistics rows so far are below what the next row will report.
StatsBounded ==
    \A i \in DOMAIN stats :
        /\ owner # "closed" => stats[i].enqueued <= lastStats
        /\ stats[i].dropped <= dropped
        /\ stats[i].maxDepth <= maxDepth

-------------------------------------------------------------------------------
(* The inductive invariant *)

LEMMA InitIInv == Init => IInv
<1> SUFFICES ASSUME Init PROVE IInv
  OBVIOUS
<1>1. /\ <<>> \in Seq(Row) /\ Len(<<>>) = 0
      /\ <<>> \in Seq(StatsRow)
  BY EmptySeq
<1>2. TypeOK
  <2>1. queue \in Seq(Row) /\ Len(queue) <= MaxQueueRows
    BY <1>1, LogAssumption DEF Init
  <2>2. caller \in [Callers -> {"idle", "notify"}]
    BY DEF Init
  <2>3. stats \in Seq(StatsRow)
    BY <1>1 DEF Init
  <2>4. offers \in 0 .. MaxOffers
    BY LogAssumption DEF Init
  <2>5. QED
    BY <1>1, <2>1, <2>2, <2>3, <2>4 DEF Init, TypeOK
<1>3. PlacesInv
  BY DEF Init, PlacesInv
<1>4. QED
  BY <1>2, <1>3 DEF IInv

\* The steps of WriteLine.
LEMMA WriteLineIInv ==
  ASSUME IInv, NEW c \in Callers, WriteLine(c)
  PROVE  IInv'
<1> USE LogAssumption DEF IInv, TypeOK, PlacesInv, rowVars, countVars, statVars
<1>1. ASSUME NEW r \in Row, Enqueue(c, r) PROVE IInv'
  BY <1>1, AppendProperties DEF Enqueue, HasRoom, DepthWithRow
<1>2. CASE DropRow(c)
  BY <1>2 DEF DropRow
<1>3. CASE Notify(c)
  BY <1>3 DEF Notify, Woken
<1>4. QED
  BY <1>1, <1>2, <1>3 DEF WriteLine

\* The steps of WriterLoop.
LEMMA WriterLoopIInv ==
  ASSUME IInv, WriterLoop
  PROVE  IInv'
<1> USE LogAssumption DEF IInv, TypeOK, PlacesInv, Running, rowVars, countVars, statVars
<1>1. CASE Block
  BY <1>1 DEF Block, MustWait
<1>2. CASE SpuriousWakeup
  BY <1>2 DEF SpuriousWakeup
<1>3. CASE Swap
  BY <1>3, EmptySeq DEF Swap, LeftBehind, LoopEnds
<1>4. CASE Fputs
  <2>1. /\ Head(local) \in Row
        /\ Tail(local) \in Seq(Row)
    BY <1>4, HeadTailProperties DEF Fputs
  <2>2. /\ Append(stdio, Head(local)) \in Seq(Row)
        /\ disk \o Append(stdio, Head(local)) \in Seq(Row)
        /\ <<>> \in Seq(Row)
    BY <2>1, AppendProperties, ConcatProperties, EmptySeq
  <2>3. QED
    BY <1>4, <2>1, <2>2 DEF Fputs
<1>5. CASE FinishBatch
  BY <1>5 DEF FinishBatch
<1>6. CASE Flush
  BY <1>6, ConcatProperties, EmptySeq DEF Flush
<1>7. CASE SampleStats
  BY <1>7 DEF SampleStats
<1>8. CASE ReportStats
  BY <1>8, AppendProperties DEF ReportStats, StatsRowOf, StatsRow
<1>9. QED
  BY <1>1, <1>2, <1>3, <1>4, <1>5, <1>6, <1>7, <1>8 DEF WriterLoop

\* The steps of the destructor, and the end of the process.
LEMMA OwnerIInv ==
  ASSUME IInv, Destructor \/ ProcessExit
  PROVE  IInv'
<1> USE LogAssumption DEF IInv, TypeOK, PlacesInv, rowVars, countVars, statVars
<1>1. CASE RequestStop
  BY <1>1 DEF RequestStop
<1>2. CASE NotifyStop
  BY <1>2 DEF NotifyStop, WokenByStop, Woken
<1>3. CASE Join
  BY <1>3 DEF Join
<1>4. CASE Close
  <2>1. /\ disk \o stdio \in Seq(Row)
        /\ <<>> \in Seq(Row)
    BY ConcatProperties, EmptySeq
  <2>2. Append(stats, StatsRowOf(enqueued)) \in Seq(StatsRow)
    BY AppendProperties DEF StatsRowOf, StatsRow
  <2>3. QED
    BY <1>4, <2>1, <2>2 DEF Close
<1>5. CASE ProcessExit
  <2>1. disk \o stdio \in Seq(Row) /\ <<>> \in Seq(Row)
    BY ConcatProperties, EmptySeq
  <2>2. QED
    BY <1>5, <2>1 DEF ProcessExit
<1>6. QED
  BY <1>1, <1>2, <1>3, <1>4, <1>5 DEF Destructor

LEMMA NextIInv == IInv /\ [Next]_vars => IInv'
<1> SUFFICES ASSUME IInv, [Next]_vars PROVE IInv'
  OBVIOUS
<1>1. CASE UNCHANGED vars
  BY <1>1 DEF IInv, TypeOK, PlacesInv, vars, rowVars, countVars, statVars
<1>2. CASE Next
  BY <1>2, WriteLineIInv, WriterLoopIInv, OwnerIInv DEF Next
<1>3. QED
  BY <1>1, <1>2

\* Places and types of rows hold in every state of the log, its writer and its destructor.
THEOREM Invariance == Spec => []IInv
  BY InitIInv, NextIInv, PTL DEF Spec

\* Types, and the bound of the queue: a swap leaves queue_ empty, whatever the
\* writer's deque held before.
THEOREM TypeCorrect == Spec => []TypeOK
  BY Invariance, PTL DEF IInv

-------------------------------------------------------------------------------
(* Rows on their way: no step loses, repeats or reorders one *)

LEMMA HeadThenTail ==
  ASSUME NEW S, NEW l \in Seq(S), l # <<>>
  PROVE  <<Head(l)>> \o Tail(l) = l
<1>1. Len(l) \in Nat \ {0}
  BY EmptySeq
<1>2. /\ Head(l) = l[1]
      /\ Tail(l) = SubSeq(l, 2, Len(l))
  BY <1>1, HeadTailOfSubSeq, SubSeqFull, TailIsSubSeq
<1>3. SubSeq(l, 1, Len(l)) = <<l[1]>> \o SubSeq(l, 2, Len(l))
  BY <1>1, SubSeqRecursiveFirst
<1>4. QED
  BY <1>2, <1>3, SubSeqFull

LEMMA AppendAtEnd ==
  ASSUME NEW S, NEW s \in Seq(S), NEW q \in Seq(S), NEW r \in S
  PROVE  s \o Append(q, r) = Append(s \o q, r)
<1>1. /\ s \o q \in Seq(S)
      /\ <<r>> \in Seq(S)
  BY ConcatProperties
<1>2. s \o (q \o <<r>>) = (s \o q) \o <<r>>
  BY <1>1, ConcatAssociative
<1>3. QED
  BY <1>1, <1>2, AppendIsConcat

\* What a step does to the rows on their way to the disk and to their count.
RowsKept == Accepted' = Accepted /\ enqueued' = enqueued
RowAdded == \E r \in Row : Accepted' = Append(Accepted, r) /\ enqueued' = enqueued + 1

\* What is on disk is no longer than what was accepted.
LEMMA RowsReach ==
  ASSUME IInv
  PROVE  /\ Accepted \in Seq(Row)
         /\ Len(disk) \in Nat /\ Len(Accepted) \in Nat
         /\ Len(disk) <= Len(disk \o stdio)
         /\ Len(disk) <= Len(Accepted)
<1>1. disk \in Seq(Row) /\ stdio \in Seq(Row) /\ local \in Seq(Row) /\ queue \in Seq(Row)
  BY DEF IInv, TypeOK
<1>2. /\ disk \o stdio \in Seq(Row)
      /\ Len(disk \o stdio) = Len(disk) + Len(stdio)
  BY <1>1, ConcatProperties
<1>3. /\ (disk \o stdio) \o local \in Seq(Row)
      /\ Len((disk \o stdio) \o local) = Len(disk \o stdio) + Len(local)
  BY <1>1, <1>2, ConcatProperties
<1>4. /\ Accepted \in Seq(Row)
      /\ Len(Accepted) = Len((disk \o stdio) \o local) + Len(queue)
  BY <1>1, <1>3, ConcatProperties DEF Accepted
<1>5. /\ Len(disk) \in Nat /\ Len(stdio) \in Nat /\ Len(local) \in Nat /\ Len(queue) \in Nat
  BY <1>1, LenProperties
<1>6. QED
  BY <1>2, <1>3, <1>4, <1>5

LEMMA StepRows ==
  ASSUME IInv, [Next]_vars
  PROVE  /\ (RowsKept /\ Len(disk) <= Len(disk')) \/ (RowAdded /\ disk' = disk)
         /\ Accepted \in Seq(Row)
<1> USE DEF rowVars, countVars, statVars
<1>1. disk \in Seq(Row) /\ stdio \in Seq(Row) /\ local \in Seq(Row) /\ queue \in Seq(Row)
  BY DEF IInv, TypeOK
<1>0. writer # "write" => local = <<>>
  BY DEF IInv, PlacesInv
<1>2. /\ disk \o stdio \in Seq(Row)
      /\ (disk \o stdio) \o local \in Seq(Row)
      /\ Accepted \in Seq(Row)
      /\ Len(disk) \in Nat
      /\ Len(disk) <= Len(disk \o stdio)
  BY <1>1, ConcatProperties, RowsReach
<1>3. CASE UNCHANGED <<disk, stdio, local, queue, enqueued>>
  BY <1>2, <1>3 DEF RowsKept, Accepted
<1>4. ASSUME NEW c \in Callers, NEW r \in Row, Enqueue(c, r) PROVE RowAdded /\ disk' = disk
  <2>1. ((disk \o stdio) \o local) \o Append(queue, r) = Append(Accepted, r)
    BY <1>1, <1>2, AppendAtEnd DEF Accepted
  <2>2. QED
    BY <1>4, <2>1 DEF Enqueue, RowAdded, Accepted
<1>5. CASE Swap
  <2>1. local = <<>>
    BY <1>0, <1>5 DEF Swap
  <2>2. ((disk \o stdio) \o queue) \o <<>> = ((disk \o stdio) \o <<>>) \o queue
    BY <1>1, <1>2, ConcatEmptySeq, ConcatProperties
  <2>3. QED
    BY <1>2, <1>5, <2>1, <2>2 DEF Swap, LeftBehind, RowsKept, Accepted
<1>6. CASE Fputs
  <2>1. /\ local # <<>>
        /\ \/ stdio' = Append(stdio, Head(local)) /\ disk' = disk
           \/ disk' = disk \o Append(stdio, Head(local)) /\ stdio' = <<>>
        /\ local' = Tail(local)
        /\ UNCHANGED <<queue, enqueued>>
    BY <1>6 DEF Fputs
  <2> DEFINE written == Append(stdio, Head(local))
  <2>2. (disk \o written) \o Tail(local) = (disk \o stdio) \o local
    <3>0. /\ Head(local) \in Row
          /\ <<Head(local)>> \in Seq(Row)
          /\ Tail(local) \in Seq(Row)
          /\ disk \o stdio \in Seq(Row)
      BY <1>1, <1>2, <2>1, HeadTailProperties
    <3>1. PICK h \in Seq(Row), t \in Seq(Row) : h = <<Head(local)>> /\ t = Tail(local)
      BY <3>0, Zenon
    <3>2. written = stdio \o h
      BY <1>1, <3>0, <3>1, AppendIsConcat
    <3>3. local = h \o t
      BY <1>1, <2>1, <3>1, HeadThenTail
    <3> HIDE DEF written
    <3>4. disk \o (stdio \o h) = (disk \o stdio) \o h
      BY <1>1, <3>1, ConcatAssociative
    <3>5. ((disk \o stdio) \o h) \o t = (disk \o stdio) \o (h \o t)
      <4> DEFINE kept == disk \o stdio
      <4>1. kept \in Seq(Row) /\ h \in Seq(Row) /\ t \in Seq(Row)
        BY <3>0, <3>1
      <4> HIDE DEF kept
      <4>2. (kept \o h) \o t = kept \o (h \o t)
        BY <4>1, ConcatAssociative
      <4>3. QED
        BY <4>2 DEF kept
    <3>6. QED
      BY <3>1, <3>2, <3>3, <3>4, <3>5
  <2>3. /\ written \in Seq(Row)
        /\ disk \o written \in Seq(Row)
        /\ Len(disk) <= Len(disk \o written)
    <3>1. written \in Seq(Row)
      BY <1>1, <2>1, HeadTailProperties, AppendProperties
    <3>2. /\ disk \o written \in Seq(Row)
          /\ Len(disk \o written) = Len(disk) + Len(written)
      BY <1>1, <3>1, ConcatProperties
    <3>3. Len(disk) \in Nat /\ Len(written) \in Nat
      BY <1>1, <3>1, LenProperties
    <3>4. QED
      BY <3>1, <3>2, <3>3
  <2>4. disk' \o stdio' = disk \o written /\ Len(disk) <= Len(disk')
    <3>1. (disk \o written) \o <<>> = disk \o written
      BY <2>3, ConcatEmptySeq
    <3>2. CASE stdio' = written /\ disk' = disk
      BY <1>2, <3>2
    <3>3. CASE disk' = disk \o written /\ stdio' = <<>>
      BY <2>3, <3>1, <3>3
    <3>4. QED
      BY <2>1, <3>2, <3>3
  <2>5. ((disk' \o stdio') \o local') \o queue' = ((disk \o stdio) \o local) \o queue
    BY <2>1, <2>2, <2>4
  <2>6. QED
    BY <1>2, <2>1, <2>4, <2>5 DEF RowsKept, Accepted
<1>7. CASE disk' = disk \o stdio /\ stdio' = <<>> /\ UNCHANGED <<local, queue, enqueued>>
  <2>1. disk' \o stdio' = disk \o stdio
    BY <1>2, <1>7, ConcatEmptySeq
  <2>2. QED
    BY <1>2, <1>7, <2>1 DEF RowsKept, Accepted
<1> DEFINE ways ==
      \/ UNCHANGED <<disk, stdio, local, queue, enqueued>>
      \/ \E c \in Callers, r \in Row : Enqueue(c, r)
      \/ Swap
      \/ Fputs
      \/ disk' = disk \o stdio /\ stdio' = <<>> /\ UNCHANGED <<local, queue, enqueued>>
<1>8. ways
  <2>1. CASE UNCHANGED vars
    BY <2>1 DEF vars
  <2>2. ASSUME NEW c \in Callers, WriteLine(c) PROVE ways
    BY <2>2 DEF WriteLine, DropRow, Notify
  <2>3. CASE WriterLoop
    BY <2>3 DEF WriterLoop, Block, SpuriousWakeup, FinishBatch, Flush, SampleStats, ReportStats
  <2>4. CASE Destructor \/ ProcessExit
    BY <2>4 DEF Destructor, RequestStop, NotifyStop, Join, Close, ProcessExit
  <2>5. QED
    BY <2>1, <2>2, <2>3, <2>4 DEF Next
<1>9. QED
  BY <1>2, <1>3, <1>4, <1>5, <1>6, <1>7, <1>8

-------------------------------------------------------------------------------
(* The safety properties *)

\* What CountersMatchRows says of the row the destructor writes.
LastRow ==
    owner = "closed" =>
        LET last == stats[Len(stats)]
        IN  last.enqueued = Len(disk) /\ last.dropped = offers - Len(disk)

LEMMA InitCounters == Init => CountersMatchRows
<1> SUFFICES ASSUME Init PROVE CountersMatchRows
  OBVIOUS
<1>1. ((<<>> \o <<>>) \o <<>>) \o <<>> = <<>>
  BY EmptySeq, ConcatEmptySeq
<1>2. Accepted = <<>> /\ Len(Accepted) = 0 /\ Len(queue) = 0
  BY <1>1, EmptySeq DEF Init, Accepted
<1>3. /\ owner = "live" /\ enqueued = 0 /\ dropped = 0 /\ maxDepth = 0
      /\ lastStats = 0 /\ offers = 0 /\ MaxQueueRows \in Nat
  BY LogAssumption DEF Init
<1>4. LastRow
  BY <1>3 DEF LastRow
<1>5. 0 = 0 - 0 /\ 0 <= 0 /\ 0 <= MaxQueueRows
  BY <1>3
<1>6. QED
  BY <1>2, <1>3, <1>4, <1>5, Zenon DEF CountersMatchRows, LastRow

\* The other counters: the depth is measured under the mutex with the row in the
\* queue, and a swap only makes the queue shorter.
LEMMA StepCounters ==
  ASSUME IInv, CountersMatchRows, [Next]_vars
  PROVE  CountersMatchRows'
<1> USE DEF rowVars, countVars, statVars
<1>1. /\ queue \in Seq(Row) /\ Len(queue) \in Nat /\ Len(queue) <= MaxQueueRows
      /\ {enqueued, dropped, maxDepth, lastStats, MaxQueueRows, offers} \subseteq Nat
      /\ writer # "write" => local = <<>>
  BY LogAssumption, LenProperties DEF IInv, TypeOK, PlacesInv
<1>2. enqueued' = Len(Accepted')
  <2>1. enqueued = Len(Accepted) /\ Accepted \in Seq(Row)
    BY StepRows DEF CountersMatchRows
  <2>2. CASE RowsKept
    BY <2>1, <2>2 DEF RowsKept
  <2>3. CASE RowAdded
    <3>1. PICK r \in Row : Accepted' = Append(Accepted, r) /\ enqueued' = enqueued + 1
      BY <2>3 DEF RowAdded
    <3>2. Len(Append(Accepted, r)) = Len(Accepted) + 1
      BY <2>1, AppendProperties
    <3>3. QED
      BY <2>1, <3>1, <3>2
  <2>4. QED
    BY <2>2, <2>3, StepRows
<1> DEFINE Rest == Len(queue) <= maxDepth /\ maxDepth <= MaxQueueRows /\ lastStats <= enqueued
<1>3. Rest
  BY DEF CountersMatchRows
<1>4. Rest'
  <2>1. CASE UNCHANGED vars
    BY <1>3, <2>1 DEF vars
  <2>2. ASSUME NEW c \in Callers, WriteLine(c) PROVE Rest'
    <3>1. ASSUME NEW r \in Row, Enqueue(c, r) PROVE Rest'
      <4>1. Len(Append(queue, r)) = Len(queue) + 1
        BY <1>1, AppendProperties
      <4>2. QED
        BY <1>1, <1>3, <3>1, <4>1 DEF Enqueue, HasRoom, DepthWithRow
    <3>2. CASE DropRow(c)
      BY <1>3, <3>2 DEF DropRow
    <3>3. CASE Notify(c)
      BY <1>3, <3>3 DEF Notify
    <3>4. QED
      BY <2>2, <3>1, <3>2, <3>3 DEF WriteLine
  <2>3. CASE WriterLoop
    <3>1. CASE Swap
      BY <1>1, <1>3, <3>1, EmptySeq DEF Swap, LeftBehind
    <3>2. CASE SampleStats
      BY <1>1, <1>3, <3>2 DEF SampleStats
    <3>3. CASE Block \/ SpuriousWakeup \/ Fputs \/ FinishBatch \/ Flush \/ ReportStats
      BY <1>3, <3>3 DEF Block, SpuriousWakeup, Fputs, FinishBatch, Flush, ReportStats
    <3>4. QED
      BY <2>3, <3>1, <3>2, <3>3 DEF WriterLoop
  <2>4. CASE Destructor \/ ProcessExit
    BY <1>3, <2>4 DEF Destructor, RequestStop, NotifyStop, Join, Close, ProcessExit
  <2>5. QED
    BY <2>1, <2>2, <2>3, <2>4 DEF Next
<1>5. dropped' + enqueued' = offers'
  <2>1. dropped + enqueued = offers
    BY <1>1, LenProperties, StepRows DEF CountersMatchRows
  <2>2. \/ UNCHANGED <<enqueued, dropped, offers>>
        \/ offers' = offers + 1 /\ enqueued' = enqueued + 1 /\ dropped' = dropped
        \/ offers' = offers + 1 /\ enqueued' = enqueued /\ dropped' = dropped + 1
    BY DEF Next, vars, WriteLine, Enqueue, DropRow, Notify, WriterLoop, Block, SpuriousWakeup,
       Swap, Fputs, FinishBatch, Flush, SampleStats, ReportStats, Destructor, RequestStop,
       NotifyStop, Join, Close, ProcessExit
  <2>3. QED
    BY <1>1, <2>1, <2>2
<1>6. dropped' = offers' - Len(Accepted')
  <2>1. Accepted' \in Seq(Row) /\ {enqueued', dropped', offers'} \subseteq Nat
    BY NextIInv, StepRows, ConcatProperties, LogAssumption DEF IInv, TypeOK, Accepted
  <2>2. QED
    BY <1>2, <1>5, <2>1
<1>7. LastRow'
  <2>1. CASE owner = "closed"
    <3>1. UNCHANGED <<stats, disk, offers>>
      BY <2>1 DEF IInv, PlacesInv, Next, vars, WriteLine, Enqueue, DropRow, Notify, WriterLoop,
         Block, SpuriousWakeup, Swap, Fputs, FinishBatch, Flush, SampleStats, ReportStats,
         Destructor, RequestStop, NotifyStop, Join, Close, ProcessExit
    <3>2. QED
      BY <2>1, <3>1 DEF CountersMatchRows, LastRow
  <2>2. CASE owner # "closed" /\ owner' = "closed"
    <3>1. Close
      BY <2>2 DEF Next, vars, WriteLine, Enqueue, DropRow, Notify, WriterLoop,
         Block, SpuriousWakeup, Swap, Fputs, FinishBatch, Flush, SampleStats, ReportStats,
         Destructor, RequestStop, NotifyStop, Join, ProcessExit
    <3>2. stdio' = <<>> /\ local' = <<>> /\ queue' = <<>> /\ disk' \in Seq(Row)
      BY <3>1, NextIInv DEF Close, IInv, TypeOK, PlacesInv
    <3>3. Accepted' = disk'
      BY <3>2, ConcatEmptySeq DEF Accepted
    <3>4. stats' = Append(stats, StatsRowOf(enqueued)) /\ enqueued' = enqueued /\ dropped' = dropped
      BY <3>1 DEF Close
    <3>5. stats'[Len(stats')] = StatsRowOf(enqueued)
      BY <3>4, AppendProperties DEF IInv, TypeOK
    <3>6. QED
      BY <1>2, <1>6, <3>3, <3>4, <3>5 DEF LastRow, StatsRowOf
  <2>3. QED
    BY <2>1, <2>2 DEF LastRow
<1>8. QED
  BY <1>2, <1>4, <1>6, <1>7 DEF CountersMatchRows, LastRow

\* For every size of the queue and number of callers, enqueued_ counts the rows
\* accepted, dropped_ the rows refused and max_depth the deepest the queue has been,
\* up to its bound; and the destructor's row of logging_stats.csv says how many of
\* the rows offered are in the file and how many are not.
THEOREM CountersCorrect == Spec => []CountersMatchRows
<1>1. IInv /\ CountersMatchRows /\ [Next]_vars => CountersMatchRows'
  BY StepCounters
<1>2. QED
  BY <1>1, InitCounters, Invariance, PTL DEF Spec

LEMMA StepWakeup ==
  ASSUME IInv, WakeupPending, [Next]_vars
  PROVE  WakeupPending'
<1> USE DEF IInv, TypeOK, PlacesInv, WakeupPending, rowVars, countVars, statVars
<1>1. CASE UNCHANGED vars
  BY <1>1 DEF vars
<1>2. ASSUME NEW c \in Callers, WriteLine(c) PROVE WakeupPending'
  <2>1. ASSUME NEW r \in Row, Enqueue(c, r) PROVE WakeupPending'
    BY <2>1 DEF Enqueue
  <2>2. CASE DropRow(c)
    BY <2>2 DEF DropRow
  <2>3. CASE Notify(c)
    BY <2>3 DEF Notify, Woken
  <2>4. QED
    BY <1>2, <2>1, <2>2, <2>3 DEF WriteLine
<1>3. CASE WriterLoop
  BY <1>3 DEF WriterLoop, Block, MustWait, SpuriousWakeup, Swap, LoopEnds, Fputs, FinishBatch,
     Flush, SampleStats, ReportStats
<1>4. CASE Destructor \/ ProcessExit
  BY <1>4 DEF Destructor, RequestStop, NotifyStop, WokenByStop, Woken, Join, Close, ProcessExit
<1>5. QED
  BY <1>1, <1>2, <1>3, <1>4 DEF Next

\* No wakeup is lost: a writer that sleeps while there is something to do has a
\* notify_one coming, however unlock, wait and notify_one of any number of
\* callers interleave.
THEOREM WakeupNeverLost == Spec => []WakeupPending
<1>1. Init => WakeupPending
  BY DEF Init, WakeupPending
<1>2. IInv /\ WakeupPending /\ [Next]_vars => WakeupPending'
  BY StepWakeup
<1>3. QED
  BY <1>1, <1>2, Invariance, PTL DEF Spec

\* When the destructor has returned, nothing is left on the way to the file.
\* Places are empty by PlacesInv once the writer is done, and without a file
\* nothing was accepted.
THEOREM DestructorDrains == Spec => []DestroyedImpliesDrained
<1> DEFINE Drained == owner = "closed" => queue = <<>> /\ local = <<>> /\ stdio = <<>>
<1>1. Init => Drained
  BY DEF Init
<1>2. IInv /\ Drained /\ [Next]_vars => Drained'
  <2> SUFFICES ASSUME IInv, Drained, [Next]_vars, owner' = "closed"
               PROVE  queue' = <<>> /\ local' = <<>> /\ stdio' = <<>>
    OBVIOUS
  <2> USE DEF IInv, TypeOK, PlacesInv, rowVars, countVars, statVars
  <2>1. CASE UNCHANGED vars
    BY <2>1 DEF vars
  <2>2. ASSUME NEW c \in Callers, WriteLine(c) PROVE queue' = <<>> /\ local' = <<>> /\ stdio' = <<>>
    BY <2>2 DEF WriteLine, Enqueue, DropRow, Notify
  <2>3. CASE WriterLoop
    BY <2>3 DEF WriterLoop, Block, SpuriousWakeup, Swap, Fputs, FinishBatch, Flush,
       SampleStats, ReportStats
  <2>4. CASE Destructor \/ ProcessExit
    BY <2>4 DEF Destructor, RequestStop, NotifyStop, Join, Close, ProcessExit
  <2>5. QED
    BY <2>1, <2>2, <2>3, <2>4 DEF Next
<1>3. IInv /\ Drained => DestroyedImpliesDrained
  <2> SUFFICES ASSUME IInv, queue = <<>>, local = <<>>, stdio = <<>> PROVE disk = Accepted
    BY DEF DestroyedImpliesDrained
  <2>1. disk \in Seq(Row)
    BY DEF IInv, TypeOK
  <2>2. ((disk \o <<>>) \o <<>>) \o <<>> = disk
    BY <2>1, ConcatEmptySeq
  <2>3. QED
    BY <2>2 DEF Accepted
<1>4. QED
  BY <1>1, <1>2, <1>3, Invariance, PTL DEF Spec

\* A statistics row is at most the counters at the time: its first column the
\* number sampled, which the next sample only exceeds.
LEMMA StepStatsBounded ==
  ASSUME IInv, CountersMatchRows, StatsBounded, StatsMonotone, [Next]_vars
  PROVE  (StatsBounded /\ StatsMonotone)'
<1> USE DEF rowVars, countVars, statVars
<1>1. /\ {enqueued, dropped, maxDepth, lastStats} \subseteq Nat
      /\ lastStats <= enqueued
      /\ stats \in Seq(StatsRow)
      /\ \A i \in DOMAIN stats : stats[i] \in StatsRow
      /\ owner \in {"close", "closed"} => writer \in {"none", "done"}
  BY LenProperties, ElementOfSeq DEF IInv, TypeOK, PlacesInv, CountersMatchRows
<1>2. CASE UNCHANGED stats /\ owner' = owner
           /\ lastStats <= lastStats' /\ dropped <= dropped' /\ maxDepth <= maxDepth'
           /\ {lastStats', dropped', maxDepth'} \subseteq Nat
  <2>1. StatsMonotone'
    BY <1>2 DEF StatsMonotone
  <2>2. ASSUME NEW i \in DOMAIN stats
        PROVE  /\ owner # "closed" => stats[i].enqueued <= lastStats'
               /\ stats[i].dropped <= dropped' /\ stats[i].maxDepth <= maxDepth'
    <3>1. stats[i].enqueued \in Nat /\ stats[i].dropped \in Nat /\ stats[i].maxDepth \in Nat
      BY <1>1 DEF StatsRow
    <3>2. /\ owner # "closed" => stats[i].enqueued <= lastStats
          /\ stats[i].dropped <= dropped /\ stats[i].maxDepth <= maxDepth
      BY DEF StatsBounded
    <3>3. /\ lastStats \in Nat /\ dropped \in Nat /\ maxDepth \in Nat
          /\ lastStats' \in Nat /\ dropped' \in Nat /\ maxDepth' \in Nat
      BY <1>1, <1>2
    <3>4. lastStats <= lastStats' /\ dropped <= dropped' /\ maxDepth <= maxDepth'
      BY <1>2
    <3>5. QED
      BY <3>1, <3>2, <3>3, <3>4
  <2>3. StatsBounded'
    BY <1>2, <2>2 DEF StatsBounded
  <2>4. QED
    BY <2>1, <2>3
<1>3. CASE UNCHANGED <<stats, lastStats, dropped, maxDepth>> /\ owner # "closed"
  BY <1>3 DEF StatsBounded, StatsMonotone
<1>4. ASSUME NEW n \in Nat, stats' = Append(stats, StatsRowOf(n)), lastStats <= n,
             UNCHANGED <<lastStats, dropped, maxDepth>>, owner # "closed",
             n = lastStats \/ owner' = "closed"
      PROVE  (StatsBounded /\ StatsMonotone)'
  <2>1. /\ Len(stats) \in Nat
        /\ DOMAIN stats = 1 .. Len(stats)
        /\ DOMAIN stats' = 1 .. Len(stats) + 1
        /\ \A i \in 1 .. Len(stats) : stats'[i] = stats[i]
        /\ stats'[Len(stats) + 1] = StatsRowOf(n)
    <3>1. StatsRowOf(n) \in StatsRow
      BY <1>1, <1>4 DEF StatsRowOf, StatsRow
    <3>2. QED
      BY <1>1, <1>4, <3>1, AppendProperties, LenProperties
  <2>2. /\ StatsRowOf(n).enqueued = n
        /\ StatsRowOf(n).dropped = dropped
        /\ StatsRowOf(n).maxDepth = maxDepth
    BY DEF StatsRowOf
  <2>3. \A i \in 1 .. Len(stats) :
           /\ stats[i].enqueued \in Nat /\ stats[i].enqueued <= n
           /\ stats[i].dropped <= dropped
           /\ stats[i].maxDepth <= maxDepth
    <3> SUFFICES ASSUME NEW i \in 1 .. Len(stats)
                 PROVE  /\ stats[i].enqueued \in Nat /\ stats[i].enqueued <= n
                        /\ stats[i].dropped <= dropped
                        /\ stats[i].maxDepth <= maxDepth
      OBVIOUS
    <3>1. stats[i].enqueued \in Nat
      BY <1>1, <2>1 DEF StatsRow
    <3>2. /\ stats[i].enqueued <= lastStats
          /\ stats[i].dropped <= dropped
          /\ stats[i].maxDepth <= maxDepth
      BY <1>4, <2>1 DEF StatsBounded
    <3>3. QED
      BY <1>1, <1>4, <3>1, <3>2
  <2>4. StatsBounded'
    <3> SUFFICES ASSUME NEW i \in 1 .. Len(stats) + 1
                 PROVE  /\ owner' # "closed" => stats'[i].enqueued <= lastStats
                        /\ stats'[i].dropped <= dropped
                        /\ stats'[i].maxDepth <= maxDepth
      BY <1>4, <2>1 DEF StatsBounded
    <3>1. CASE i = Len(stats) + 1
      BY <1>1, <1>4, <2>1, <2>2, <3>1
    <3>2. CASE i \in 1 .. Len(stats)
      BY <1>4, <2>1, <2>3, <3>2
    <3>3. QED
      BY <2>1, <3>1, <3>2
  <2>5. StatsMonotone'
    <3> SUFFICES ASSUME NEW i \in 1 .. Len(stats) + 1, NEW j \in 1 .. Len(stats) + 1, i < j
                 PROVE  /\ stats'[i].enqueued <= stats'[j].enqueued
                        /\ stats'[i].dropped <= stats'[j].dropped
                        /\ stats'[i].maxDepth <= stats'[j].maxDepth
      BY <2>1 DEF StatsMonotone
    <3>1. i \in 1 .. Len(stats)
      BY <2>1
    <3>2. CASE j = Len(stats) + 1
      BY <2>1, <2>2, <2>3, <3>1, <3>2
    <3>3. CASE j \in 1 .. Len(stats)
      BY <2>1, <3>1, <3>3 DEF StatsMonotone
    <3>4. QED
      BY <2>1, <3>2, <3>3
  <2>6. QED
    BY <2>4, <2>5
<1>5. CASE UNCHANGED vars
  BY <1>1, <1>2, <1>5 DEF vars
<1>6. ASSUME NEW c \in Callers, WriteLine(c) PROVE (StatsBounded /\ StatsMonotone)'
  <2>1. ASSUME NEW r \in Row, Enqueue(c, r) PROVE (StatsBounded /\ StatsMonotone)'
    BY <1>3, <2>1, <1>1, <1>2, LenProperties DEF Enqueue, DepthWithRow, IInv, TypeOK
  <2>2. CASE DropRow(c)
    BY <1>1, <1>2, <2>2 DEF DropRow
  <2>3. CASE Notify(c)
    BY <1>1, <1>2, <2>3 DEF Notify
  <2>4. QED
    BY <1>6, <2>1, <2>2, <2>3 DEF WriteLine
<1>7. CASE WriterLoop
  <2>1. CASE ReportStats
    BY <1>1, <1>4, <2>1 DEF ReportStats
  <2>2. CASE SampleStats
    BY <1>1, <1>2, <2>2 DEF SampleStats
  <2>3. CASE Block \/ SpuriousWakeup \/ Swap \/ Fputs \/ FinishBatch \/ Flush
    BY <1>1, <1>2, <2>3 DEF Block, SpuriousWakeup, Swap, Fputs, FinishBatch, Flush
  <2>4. QED
    BY <1>7, <2>1, <2>2, <2>3 DEF WriterLoop
<1>8. CASE Destructor \/ ProcessExit
  <2>1. CASE Close
    BY <1>1, <1>4, <2>1 DEF Close
  <2>2. CASE RequestStop \/ NotifyStop \/ Join \/ ProcessExit
    BY <1>3, <2>2 DEF RequestStop, NotifyStop, Join, ProcessExit
  <2>3. QED
    BY <1>8, <2>1, <2>2 DEF Destructor
<1>9. QED
  BY <1>5, <1>6, <1>7, <1>8 DEF Next

\* However the writer's unlocked reads interleave with callers, no column of
\* logging_stats.csv ever goes backwards.
THEOREM StatsNeverGoBack == Spec => []StatsMonotone
<1>1. Init => StatsBounded /\ StatsMonotone
  BY EmptySeq DEF Init, StatsBounded, StatsMonotone
<1>2. IInv /\ CountersMatchRows /\ StatsBounded /\ StatsMonotone /\ [Next]_vars
        => (StatsBounded /\ StatsMonotone)'
  BY StepStatsBounded
<1>3. QED
  BY <1>1, <1>2, Invariance, CountersCorrect, PTL DEF Spec

-------------------------------------------------------------------------------
(* AsyncCsvLog implements RowLog *)

LEMMA RowsReachNext == IInv' => (Len(disk) \in Nat /\ Len(disk) <= Len(Accepted))'
<1>1. IInv => Len(disk) \in Nat /\ Len(disk) <= Len(Accepted)
  BY RowsReach
<1>2. QED
  BY <1>1, PTL

LEMMA StepRefines ==
  ASSUME IInv, [Next]_vars
  PROVE  [Sink!LogNext]_(Sink!logVars)
<1>1. /\ (RowsKept /\ Len(disk) <= Len(disk')) \/ (RowAdded /\ disk' = disk)
      /\ Len(disk) \in Nat /\ Len(Accepted) \in Nat
      /\ Len(disk') \in Nat /\ Len(disk') <= Len(Accepted')
  BY StepRows, NextIInv, RowsReach, RowsReachNext
<1>2. CASE RowAdded /\ disk' = disk
  BY <1>2 DEF RowAdded, Sink!LogNext, Sink!Accept
<1>3. CASE RowsKept /\ Len(disk) <= Len(disk')
  BY <1>1, <1>3 DEF RowsKept, Sink!LogNext, Sink!Persist
<1>4. QED
  BY <1>1, <1>2, <1>3

\* Callers, the writer, the destructor and the end of the process, in whatever
\* order they step, only ever append to the rows accepted and to what is on disk.
THEOREM Refinement == Spec => ImplementsRowLog
<1>1. Init => Sink!LogInit
  <2>1. ((<<>> \o <<>>) \o <<>>) \o <<>> = <<>>
    BY EmptySeq, ConcatEmptySeq
  <2>2. QED
    BY <2>1, EmptySeq DEF Init, Sink!LogInit, Accepted
<1>2. IInv /\ [Next]_vars => [Sink!LogNext]_(Sink!logVars)
  BY StepRefines
<1>3. QED
  BY <1>1, <1>2, Invariance, PTL DEF Spec, ImplementsRowLog, Sink!LogSpec
===============================================================================
