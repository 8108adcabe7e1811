---------------------------- MODULE RecordingProofs ----------------------------
(***************************************************************************)
(* What holds of a recording, of its files and of its script.              *)
(*                                                                         *)
(* The CSV files (CsvSession), of any processes, threads and base          *)
(* directories: a log loses lines only when another process opens it in    *)
(* the same session directory, and logging_stats.csv starts with its       *)
(* header in any case.                                                     *)
(*                                                                         *)
(* The script (RecordRun), for every trace, every call and every number    *)
(* of signals: a recording that has ended left nothing behind but a group  *)
(* whose start a signal cut short, and one that reports ok has its         *)
(* artifacts.                                                              *)
(***************************************************************************)
EXTENDS CsvSession, RecordRun, SequenceTheorems, TLAPS

-------------------------------------------------------------------------------
(* The files *)

FilesOK ==
    /\ log \in [SessionDir -> Seq(Line)]
    /\ stats \in [SessionDir -> Seq(Line)]

\* A thread that is past fopen has its session; one that writes no header found
\* the file not empty, or has written it itself.
HeaderInv ==
    \A p \in Process, t \in Thread :
        /\ thread[p][t] # "idle" => session[p] # NoDir
        /\ thread[p][t] \in {"opening", "row"} => stats[session[p]] # <<>>

\* TypeOK in parts, as steps disturb them.  A thread that has begun has a row left
\* to write, without which the bound on its rows would not be inductive.
SessionOK ==
    /\ clock \in 0 .. MaxSecond
    /\ DOMAIN session = Process
    /\ \A p \in Process : session[p] \in {NoDir} \cup ({Base[p]} \X (0 .. clock))

OffsetOK ==
    /\ offset \in [Process -> 0 .. MaxRows + 1]
    /\ \A p \in Process : offset[p] > 0 => session[p] # NoDir

ThreadOK ==
    /\ thread \in [Process -> [Thread -> {"idle", "opening with header", "opening",
                                          "header", "row"}]]
    /\ appended \in [Process -> [Thread -> 0 .. MaxStats]]
    /\ \A p \in Process, t \in Thread :
        thread[p][t] # "idle" => appended[p][t] < MaxStats

IInv == SessionOK /\ FilesOK /\ OffsetOK /\ ThreadOK

-------------------------------------------------------------------------------
(* Types *)

LEMMA TypeOKParts == IInv => TypeOK
  BY DEF IInv, TypeOK, SessionOK, FilesOK, OffsetOK, ThreadOK

LEMMA SessionOfProcess ==
  ASSUME SessionOK, NEW p \in Process, session[p] # NoDir
  PROVE  session[p] \in SessionDir
<1>1. Base[p] \in Dir
  BY SessionAssumption
<1>2. MaxSecond \in Nat /\ clock \in 0 .. MaxSecond
  BY SessionAssumption DEF SessionOK
<1>3. \A i \in 0 .. clock : i \in 0 .. MaxSecond
  BY <1>2
<1>4. session[p] \in {NoDir} \cup ({Base[p]} \X (0 .. clock))
  BY DEF SessionOK
<1>5. QED
  BY <1>1, <1>3, <1>4, Zenon DEF SessionDir

LEMMA LineTypes ==
  /\ Header \in Line /\ Hole \in Line
  /\ \A p \in Process, n \in 1 .. MaxRows : LogRow(p, n) \in Line
  /\ \A p \in Process, t \in Thread : StatsRow(p, t) \in Line
  BY DEF Line

\* A write puts its line at its position and changes no other line.
LEMMA WriteAtProperties ==
  ASSUME NEW lines \in Seq(Line), NEW at \in Nat \ {0}, NEW line \in Line
  PROVE  LET written == WriteAt(lines, at, line)
         IN  /\ written \in Seq(Line)
             /\ Len(written) >= Len(lines) /\ Len(written) >= at
             /\ written[at] = line
             /\ \A i \in 1 .. Len(lines) : i # at => written[i] = lines[i]
<1> DEFINE written == WriteAt(lines, at, line)
           n == IF at > Len(lines) THEN at ELSE Len(lines)
<1>1. /\ Len(lines) \in Nat
      /\ \A i \in 1 .. Len(lines) : lines[i] \in Line
  BY LenProperties, ElementOfSeq
<1>2. n \in Nat /\ n >= Len(lines) /\ n >= at
  BY <1>1
<1>3. written = [i \in 1 .. n |->
                    IF i = at THEN line ELSE IF i <= Len(lines) THEN lines[i] ELSE Hole]
  BY DEF WriteAt
<1> HIDE DEF written, n
<1>4. written \in [1 .. n -> Line]
  BY <1>1, <1>2, <1>3, LineTypes
<1>5. written \in Seq(Line)
  BY <1>2, <1>4, SeqDef
<1>6. Len(written) = n
  BY <1>2, <1>4, <1>5, LenProperties
<1>7. /\ written[at] = line
      /\ \A i \in 1 .. Len(lines) : i # at => written[i] = lines[i]
  BY <1>1, <1>2, <1>3
<1>8. QED
  BY <1>2, <1>5, <1>6, <1>7 DEF written

LEMMA InitIInv == Init => IInv
<1> SUFFICES ASSUME Init PROVE IInv
  OBVIOUS
<1>1. SessionOK
  BY SessionAssumption DEF Init, SessionOK
<1>2. FilesOK
  BY EmptySeq DEF Init, FilesOK
<1>3. OffsetOK
  BY SessionAssumption DEF Init, OffsetOK
<1>4. ThreadOK
  BY SessionAssumption DEF Init, ThreadOK
<1>5. QED
  BY <1>1, <1>2, <1>3, <1>4 DEF IInv

LEMMA TickIInv == ASSUME IInv, Tick PROVE IInv'
<1> USE DEF IInv, Tick
<1>1. SessionOK'
  <2>1. clock \in 0 .. MaxSecond /\ clock' \in 0 .. MaxSecond
    BY SessionAssumption DEF SessionOK
  <2>2. \A i \in 0 .. clock : i \in 0 .. clock'
    BY <2>1, SessionAssumption
  <2>3. ASSUME NEW p \in Process
        PROVE  session'[p] \in {NoDir} \cup ({Base[p]} \X (0 .. clock'))
    <3>1. session'[p] \in {NoDir} \cup ({Base[p]} \X (0 .. clock))
      BY DEF SessionOK
    <3>2. QED
      BY <2>2, <3>1, Zenon
  <2>4. QED
    BY <2>1, <2>3 DEF SessionOK
<1>2. FilesOK' /\ OffsetOK' /\ ThreadOK'
  BY DEF FilesOK, OffsetOK, ThreadOK
<1>3. QED
  BY <1>1, <1>2

LEMMA ProcessIInv ==
  ASSUME IInv, NEW p \in Process, CsvSessionDir(p) \/ OpenCsvLog(p) \/ LogLine(p)
  PROVE  IInv'
<1> USE DEF IInv
<1>1. CASE CsvSessionDir(p)
  <2>1. <<Base[p], clock>> \in {Base[p]} \X (0 .. clock)
    BY SessionAssumption DEF SessionOK
  <2>2. SessionOK'
    BY <1>1, <2>1 DEF CsvSessionDir, SessionDirOf, SessionOK
  <2>3. <<Base[p], clock>> # NoDir
    BY DEF NoDir
  <2>4. OffsetOK'
    BY <1>1, <2>3 DEF CsvSessionDir, SessionDirOf, SessionOK, OffsetOK
  <2>5. QED
    BY <1>1, <2>2, <2>4 DEF CsvSessionDir, FilesOK, ThreadOK
<1>2. CASE OpenCsvLog(p)
  <2>1. <<Header>> \in Seq(Line)
    BY LineTypes
  <2>2. FilesOK'
    BY <1>2, <2>1 DEF OpenCsvLog, LogDir, FilesOK
  <2>3. OffsetOK'
    BY <1>2, SessionAssumption DEF OpenCsvLog, OffsetOK
  <2>4. QED
    BY <1>2, <2>2, <2>3 DEF OpenCsvLog, SessionOK, ThreadOK
<1>3. CASE LogLine(p)
  <2>1. offset[p] \in 1 .. MaxRows /\ MaxRows \in Nat
    BY <1>3, SessionAssumption DEF LogLine
  <2>2. session[p] \in SessionDir
    BY <1>3, <2>1, SessionOfProcess DEF OffsetOK
  <2>3. offset[p] + 1 \in Nat \ {0} /\ LogRow(p, offset[p]) \in Line
    BY <2>1, LineTypes
  <2>4. WriteAt(log[session[p]], offset[p] + 1, LogRow(p, offset[p])) \in Seq(Line)
    BY <2>2, <2>3, WriteAtProperties DEF FilesOK
  <2>5. FilesOK'
    BY <1>3, <2>4 DEF LogLine, LogDir, FilesOK
  <2>6. OffsetOK'
    BY <1>3, <2>1 DEF LogLine, OffsetOK
  <2>7. QED
    BY <1>3, <2>5, <2>6 DEF LogLine, SessionOK, ThreadOK
<1>4. QED
  BY <1>1, <1>2, <1>3

LEMMA ThreadIInv ==
  ASSUME IInv, NEW p \in Process, NEW t \in Thread,
         Stat(p, t) \/ OpenAppend(p, t) \/ AppendHeader(p, t) \/ AppendRow(p, t)
  PROVE  IInv'
<1> USE DEF IInv
<1>1. CASE Stat(p, t)
  BY <1>1 DEF Stat, Step, SessionOK, FilesOK, OffsetOK, ThreadOK
<1>2. CASE OpenAppend(p, t)
  BY <1>2 DEF OpenAppend, Step, SessionOK, FilesOK, OffsetOK, ThreadOK
<1>3. CASE AppendHeader(p, t)
  <2>1. FilesOK'
    BY <1>3, AppendProperties, LineTypes DEF AppendHeader, FilesOK
  <2>2. ThreadOK'
    BY <1>3 DEF AppendHeader, Step, ThreadOK
  <2>3. QED
    BY <1>3, <2>1, <2>2 DEF AppendHeader, SessionOK, OffsetOK
<1>4. CASE AppendRow(p, t)
  <2>1. FilesOK'
    BY <1>4, AppendProperties, LineTypes DEF AppendRow, FilesOK
  <2>2. ThreadOK'
    <3>1. appended[p][t] + 1 \in 0 .. MaxStats
      <4>1. thread[p][t] # "idle"
        BY <1>4 DEF AppendRow
      <4>2. appended[p][t] < MaxStats /\ appended[p][t] \in 0 .. MaxStats
        BY <4>1 DEF ThreadOK
      <4>3. QED
        BY <4>2, SessionAssumption
    <3>2. /\ thread' = [thread EXCEPT ![p][t] = "idle"]
          /\ appended' = [appended EXCEPT ![p][t] = @ + 1]
      BY <1>4 DEF AppendRow, Step
    <3>3. thread' \in [Process -> [Thread -> {"idle", "opening with header", "opening",
                                              "header", "row"}]]
      BY <3>2 DEF ThreadOK
    <3>4. appended' \in [Process -> [Thread -> 0 .. MaxStats]]
      BY <3>1, <3>2 DEF ThreadOK
    <3>5. \A q \in Process, u \in Thread :
            thread'[q][u] # "idle" => appended'[q][u] < MaxStats
      BY <3>2 DEF ThreadOK
    <3>6. QED
      BY <3>3, <3>4, <3>5 DEF ThreadOK
  <2>3. QED
    BY <1>4, <2>1, <2>2 DEF AppendRow, SessionOK, OffsetOK
<1>5. QED
  BY <1>1, <1>2, <1>3, <1>4

LEMMA NextIInv == IInv /\ [Next]_vars => IInv'
<1> SUFFICES ASSUME IInv, [Next]_vars PROVE IInv'
  OBVIOUS
<1>1. CASE UNCHANGED vars
  BY <1>1 DEF IInv, SessionOK, FilesOK, OffsetOK, ThreadOK, vars
<1>2. CASE Next
  BY <1>2, TickIInv, ProcessIInv, ThreadIInv DEF Next
<1>3. QED
  BY <1>1, <1>2

\* Types, and who has a session and a row to write, hold in every state of the processes.
THEOREM Invariance == Spec => []IInv
  BY InitIInv, NextIInv, PTL DEF Spec

THEOREM TypeCorrect == Spec => []TypeOK
  BY Invariance, TypeOKParts, PTL

-------------------------------------------------------------------------------
(* Logs *)

\* Who has a log has a session.
LEMMA WritersSession ==
  ASSUME IInv, NEW p \in Process, offset[p] > 0
  PROVE  session[p] # NoDir /\ session[p] \in SessionDir
  BY SessionOfProcess DEF IInv, OffsetOK

\* A process keeps its session, and its log once it has opened it.
LEMMA WritersStay ==
  ASSUME IInv, [Next]_vars, NEW p \in Process, offset[p] > 0
  PROVE  session'[p] = session[p] /\ offset'[p] > 0
<1>1. session[p] # NoDir
  BY WritersSession
<1>2. ASSUME NEW r \in Process, CsvSessionDir(r) PROVE session'[p] = session[p] /\ offset' = offset
  BY <1>1, <1>2 DEF CsvSessionDir, IInv, SessionOK
<1>3. ASSUME NEW r \in Process, OpenCsvLog(r) \/ LogLine(r)
      PROVE  session' = session /\ offset'[p] > 0
  BY <1>3 DEF OpenCsvLog, LogLine, IInv, OffsetOK
<1>4. QED
  BY <1>2, <1>3 DEF Next, vars, Tick, Stat, OpenAppend, AppendHeader, AppendRow

\* So a collision stays one.
LEMMA CollisionStays ==
  ASSUME IInv, [Next]_vars, NEW p \in Process, offset[p] > 0, OpenedByAnother(p)
  PROVE  OpenedByAnother(p)'
<1>1. PICK q \in Process \ {p} : session[q] = session[p] /\ offset[q] > 0
  BY DEF OpenedByAnother
<1>2. session'[q] = session'[p] /\ offset'[q] > 0
  BY <1>1, WritersStay
<1>3. QED
  BY <1>2 DEF OpenedByAnother

\* A process writes to the log of its own directory only.
LEMMA OthersKeepTheirLog ==
  ASSUME IInv, NEW p \in Process, OpenCsvLog(p) \/ LogLine(p),
         NEW q \in Process, q # p, offset[q] > 0, session[p] # session[q], LogIntact(q)
  PROVE  LogIntact(q)'
<1>1. session[q] \in SessionDir
  BY WritersSession
<1>2. log'[session[q]] = log[session[q]]
  BY <1>1 DEF OpenCsvLog, LogLine, LogDir, IInv, FilesOK
<1>3. session' = session /\ offset'[q] = offset[q]
  BY DEF OpenCsvLog, LogLine, IInv, OffsetOK
<1>4. QED
  BY <1>2, <1>3 DEF LogIntact

LEMMA LogLineKeepsLog ==
  ASSUME IInv, NEW p \in Process, LogLine(p), LogIntact(p)
  PROVE  LogIntact(p)'
<1> DEFINE lines == log[session[p]]
           at == offset[p] + 1
           line == LogRow(p, offset[p])
           written == WriteAt(lines, at, line)
<1>1. offset[p] \in 1 .. MaxRows /\ offset[p] \in Nat \ {0} /\ at \in Nat \ {0}
  BY SessionAssumption DEF LogLine
<1>2. session[p] \in SessionDir /\ lines \in Seq(Line) /\ line \in Line
  BY <1>1, SessionOfProcess, LineTypes DEF IInv, OffsetOK, FilesOK
<1>3. /\ Len(written) >= at
      /\ written[at] = line
      /\ \A i \in 1 .. Len(lines) : i # at => written[i] = lines[i]
  <2>1. at \in Nat \ {0} /\ lines \in Seq(Line) /\ line \in Line
    BY <1>1, <1>2
  <2> HIDE DEF at, lines, line
  <2>2. QED
    BY <2>1, WriteAtProperties
<1>4. /\ Len(lines) \in Nat /\ Len(lines) >= offset[p]
      /\ lines[1] = Header
      /\ \A n \in 1 .. offset[p] - 1 : lines[n + 1] = LogRow(p, n)
  BY <1>1, <1>2, LenProperties DEF LogIntact
<1>5. log'[session'[p]] = written /\ offset'[p] = at
  BY <1>2 DEF LogLine, LogDir, IInv, FilesOK, OffsetOK
<1> HIDE DEF lines, written
<1>6. written[1] = Header
  BY <1>1, <1>3, <1>4
<1>7. ASSUME NEW n \in 1 .. at - 1 PROVE written[n + 1] = LogRow(p, n)
  <2>1. CASE n = offset[p]
    BY <2>1, <1>3
  <2>2. CASE n # offset[p]
    <3>1. n \in 1 .. offset[p] - 1 /\ n + 1 \in 1 .. Len(lines) /\ n + 1 # at
      BY <2>2, <1>1, <1>4
    <3>2. QED
      BY <3>1, <1>3, <1>4
  <2>3. QED
    BY <2>1, <2>2
<1>8. QED
  BY <1>3, <1>5, <1>6, <1>7 DEF LogIntact

LEMMA NextLostOnlyByCollision ==
  ASSUME IInv, [Next]_vars, LostOnlyByCollision
  PROVE  LostOnlyByCollision'
<1> SUFFICES ASSUME NEW q \in Process, offset'[q] > 0, ~OpenedByAnother(q)'
             PROVE  LogIntact(q)'
  BY DEF LostOnlyByCollision
<1>1. offset[q] > 0 => LogIntact(q)
  BY CollisionStays DEF LostOnlyByCollision
<1>2. CASE UNCHANGED <<session, log, offset>>
  BY <1>1, <1>2 DEF LogIntact
<1>3. ASSUME NEW p \in Process, CsvSessionDir(p) PROVE LogIntact(q)'
  <2>1. offset[q] > 0 /\ UNCHANGED <<log, offset>>
    BY <1>3 DEF CsvSessionDir
  <2>2. session'[q] = session[q]
    BY <2>1, WritersStay
  <2>3. QED
    BY <1>1, <2>1, <2>2 DEF LogIntact
<1>4. ASSUME NEW p \in Process, OpenCsvLog(p) \/ LogLine(p), p # q PROVE LogIntact(q)'
  <2>1. /\ session' = session /\ offset'[q] = offset[q]
        /\ offset'[p] > 0
    BY <1>4, SessionAssumption DEF OpenCsvLog, LogLine, IInv, OffsetOK
  <2>2. session[p] # session[q]
    BY <1>4, <2>1 DEF OpenedByAnother
  <2>3. QED
    BY <1>1, <1>4, <2>1, <2>2, OthersKeepTheirLog
<1>5. CASE OpenCsvLog(q)
  <2>1. session[q] \in SessionDir
    BY <1>5, SessionOfProcess DEF OpenCsvLog, IInv
  <2>2. offset'[q] = 1 /\ log'[session'[q]] = <<Header>>
    BY <1>5, <2>1 DEF OpenCsvLog, LogDir, IInv, FilesOK, OffsetOK
  <2>3. QED
    BY <2>2 DEF LogIntact
<1>6. CASE LogLine(q)
  <2>1. offset[q] > 0
    BY <1>6, SessionAssumption DEF LogLine
  <2>2. QED
    BY <1>1, <1>6, <2>1, LogLineKeepsLog
<1>7. QED
  BY <1>2, <1>3, <1>4, <1>5, <1>6
     DEF Next, vars, Tick, Stat, OpenAppend, AppendHeader, AppendRow

\* A log loses its header or one of its rows only when another process has named the
\* same directory and opened the log there: "logs are never overwritten"
\* (OpenCsvLog) fails in this case and in no other.
THEOREM LogsAreKept == Spec => []LostOnlyByCollision
<1>1. Init => LostOnlyByCollision
  BY DEF Init, LostOnlyByCollision
<1>2. QED
  BY <1>1, Invariance, NextLostOnlyByCollision, PTL DEF Spec

\* The recording script gives each process a WEBRTC_LOG_DIR of its own; then no
\* log is ever overwritten, whenever they start.
THEOREM OwnBaseKeepsLogs ==
  ASSUME \A p, q \in Process : Base[p] = Base[q] => p = q
  PROVE  Spec => [](\A p \in Process : offset[p] > 0 => LogIntact(p))
<1>1. IInv /\ LostOnlyByCollision => \A p \in Process : offset[p] > 0 => LogIntact(p)
  <2> SUFFICES ASSUME IInv, LostOnlyByCollision, NEW p \in Process, offset[p] > 0
               PROVE  LogIntact(p)
    OBVIOUS
  <2>1. ASSUME NEW q \in Process, offset[q] > 0
        PROVE  session[q][1] = Base[q]
    BY <2>1, WritersSession DEF IInv, SessionOK
  <2>2. ~OpenedByAnother(p)
    BY <2>1 DEF OpenedByAnother
  <2>3. QED
    BY <2>2 DEF LostOnlyByCollision
<1>2. QED
  BY <1>1, Invariance, LogsAreKept, PTL

-------------------------------------------------------------------------------
(* logging_stats.csv *)

StatsInv == StatsStartWithHeader /\ HeaderInv

LEMMA InitStatsInv == Init => StatsInv
  BY DEF Init, StatsInv, StatsStartWithHeader, HeaderInv

\* A line is added: the first line stays, or is the header that is added.
LEMMA StatsAppended ==
  ASSUME IInv, StatsInv, NEW d \in SessionDir, NEW line \in Line,
         stats[d] # <<>> \/ line = Header,
         stats' = [stats EXCEPT ![d] = Append(@, line)]
  PROVE  /\ StatsStartWithHeader'
         /\ stats'[d] # <<>>
         /\ \A e \in SessionDir : stats[e] # <<>> => stats'[e] # <<>>
<1>1. stats[d] \in Seq(Line) /\ stats'[d] = Append(stats[d], line)
  BY DEF IInv, FilesOK
<1>2. stats'[d] # <<>> /\ stats'[d][1] = Header
  <2>1. CASE stats[d] = <<>>
    BY <1>1, <2>1
  <2>2. CASE stats[d] # <<>>
    <3>1. 1 \in 1 .. Len(stats[d])
      BY <1>1, <2>2, EmptySeq
    <3>2. stats'[d][1] = stats[d][1]
      BY <1>1, <3>1, AppendProperties
    <3>3. QED
      BY <1>1, <2>2, <3>2, AppendProperties DEF StatsInv, StatsStartWithHeader
  <2>3. QED
    BY <2>1, <2>2
<1>3. \A e \in SessionDir : e # d => stats'[e] = stats[e]
  BY DEF IInv, FilesOK
<1>4. QED
  BY <1>2, <1>3 DEF StatsInv, StatsStartWithHeader

LEMMA NextStatsInv ==
  ASSUME IInv, StatsInv, [Next]_vars
  PROVE  StatsInv'
<1> USE DEF IInv, StatsInv
<1>1. ASSUME UNCHANGED <<session, stats, thread>> PROVE StatsInv'
  BY <1>1 DEF StatsStartWithHeader, HeaderInv
<1>2. ASSUME NEW p \in Process, CsvSessionDir(p) PROVE StatsInv'
  <2>1. StatsStartWithHeader'
    BY <1>2 DEF CsvSessionDir, StatsStartWithHeader
  <2>2. <<Base[p], clock>> # NoDir
    BY DEF NoDir
  <2>3. HeaderInv'
    BY <1>2, <2>2 DEF CsvSessionDir, SessionDirOf, HeaderInv, SessionOK
  <2>4. QED
    BY <2>1, <2>3
<1>3. ASSUME NEW p \in Process, NEW t \in Thread, Stat(p, t) PROVE StatsInv'
  <2>1. StatsStartWithHeader'
    BY <1>3 DEF Stat, StatsStartWithHeader
  <2>2. HeaderInv'
    BY <1>3 DEF Stat, Step, WriteHeader, HeaderInv, ThreadOK
  <2>3. QED
    BY <2>1, <2>2
<1>4. ASSUME NEW p \in Process, NEW t \in Thread, OpenAppend(p, t) PROVE StatsInv'
  <2>1. StatsStartWithHeader'
    BY <1>4 DEF OpenAppend, StatsStartWithHeader
  <2>2. HeaderInv'
    BY <1>4 DEF OpenAppend, Step, HeaderInv, ThreadOK
  <2>3. QED
    BY <2>1, <2>2
<1>5. ASSUME NEW p \in Process, NEW t \in Thread, AppendHeader(p, t) \/ AppendRow(p, t)
      PROVE  StatsInv'
  <2>1. session[p] \in SessionDir
    BY <1>5, SessionOfProcess DEF AppendHeader, AppendRow, HeaderInv
  <2>2. PICK line \in Line : /\ stats' = [stats EXCEPT ![session[p]] = Append(@, line)]
                             /\ stats[session[p]] # <<>> \/ line = Header
    BY <1>5, LineTypes DEF AppendHeader, AppendRow, HeaderInv
  <2>3. /\ StatsStartWithHeader'
        /\ stats'[session[p]] # <<>>
        /\ \A e \in SessionDir : stats[e] # <<>> => stats'[e] # <<>>
    BY <2>1, <2>2, StatsAppended
  <2>4. /\ session' = session
        /\ \E pc \in {"row", "idle"} : thread' = [thread EXCEPT ![p][t] = pc]
    BY <1>5 DEF AppendHeader, AppendRow, Step
  <2>5. ASSUME NEW q \in Process, NEW u \in Thread
        PROVE  /\ thread'[q][u] # "idle" => session[q] # NoDir
               /\ thread'[q][u] \in {"opening", "row"} => stats'[session[q]] # <<>>
    <3>1. CASE q = p /\ u = t
      BY <1>5, <2>3, <2>4, <3>1 DEF HeaderInv, ThreadOK, AppendHeader, AppendRow
    <3>2. CASE ~(q = p /\ u = t)
      <4>1. thread'[q][u] = thread[q][u]
        <5>1. PICK pc : thread' = [thread EXCEPT ![p][t] = pc]
          BY <2>4
        <5>2. DOMAIN thread = Process /\ DOMAIN thread[p] = Thread
          BY DEF ThreadOK
        <5>3. thread'[q] = IF q = p THEN [thread[p] EXCEPT ![t] = pc] ELSE thread[q]
          BY <5>1, <5>2
        <5>4. QED
          BY <3>2, <5>2, <5>3
      <4>2. QED
        BY <2>3, <4>1, SessionOfProcess DEF HeaderInv
    <3>3. QED
      BY <3>1, <3>2
  <2>6. HeaderInv'
    BY <2>4, <2>5 DEF HeaderInv
  <2>7. QED
    BY <2>3, <2>6
<1>6. QED
  BY <1>1, <1>2, <1>3, <1>4, <1>5 DEF Next, vars, Tick, OpenCsvLog, LogLine

\* However stat, fopen and the writes of any threads of any processes interleave,
\* the first line of logging_stats.csv is its header (AppendCsvLog).
THEOREM HeaderIsFirst == Spec => []StatsStartWithHeader
  BY InitStatsInv, NextStatsInv, Invariance, PTL DEF Spec, StatsInv

-------------------------------------------------------------------------------
(* The script *)

ScriptStage == {"prerequisites", "reset", "server", "listening", "receiver", "sender",
                "routing", "parec", "trace", "replaying", "paplay", "playing", "played",
                "wav", "logs", "build", "ok"}

\* Where the script is, and what cleanup has to deal with: it kills the groups whose
\* numbers were kept, so nothing else may be alive but the group that is being started
\* and one whose start was cut short; a tc command is the child of a tool in the group
\* "trace".  After the second pass everything that was kept is gone, and it does not
\* come back, because only the script starts groups and only a live tool starts
\* commands, while it has rows left.
CleanupInv ==
    /\ stage \in ScriptStage \cup {"exit", "ended"}
    /\ stage = "exit" => cleanup # "none"
    /\ stage = "ended" => cleanup = "none"
    /\ forked # "none" => forked = stage /\ cleanup = "none"
    /\ alive \ {forked} \subseteq started \cup lost
    /\ command # None => "trace" \in started \cup lost \cup {forked} /\ row <= Rows + 1
    /\ cleanup = "reset" =>
          /\ alive \subseteq lost
          /\ SudoWorks /\ "trace" \notin lost => command = None

RunInv == RunTypeOK /\ CleanupInv /\ NothingLeft

\* What the proofs need of the constants.
LEMMA RunBounds ==
    /\ Rows \in Nat /\ MaxSignals \in Nat
    /\ 0 \in 0 .. Rows /\ 1 \in 1 .. Rows + 2 /\ 0 \in 0 .. MaxSignals
  BY RecordAssumption

LEMMA InitRunInv == RunInit => RunInv
  BY RunBounds
     DEF RunInit, RunInv, RunTypeOK, CleanupInv, NothingLeft, SudoWorks, ScriptStage, None,
         Baseline, Client

\* A stage that starts no group: the script goes on or begins to clean up.
PlainStage ==
    /\ cleanup = "none" /\ stage \in ScriptStage \ Group
    /\ \/ stage' \in ScriptStage /\ cleanup' = "none"
       \/ stage' = "exit" /\ cleanup' = "term"
    /\ UNCHANGED <<options, startVars, row, command, wav, logs, envVars>>
    /\ alive' \subseteq alive /\ netem' \in {netem, Baseline}
    /\ status' \in {status, "running", "error", "ok"} /\ trace' \in {trace, TRUE}

LEMMA PlainStageRunInv == RunInv /\ PlainStage => RunInv'
<1> SUFFICES ASSUME RunInv, PlainStage PROVE RunInv'
  OBVIOUS
<1> USE DEF PlainStage, startVars, envVars
<1>1. forked = "none"
  BY DEF RunInv, RunTypeOK, CleanupInv
<1>2. RunTypeOK'
  <2>1. netem' \in 0 .. Rows
    BY RunBounds DEF RunInv, RunTypeOK, Baseline
  <2>2. status' \in {"", "running", "error", "ok"} /\ trace' \in BOOLEAN
    BY DEF RunInv, RunTypeOK
  <2>3. cleanup' \in {"none", "term", "kill", "reset"} /\ alive' \subseteq Group
    BY DEF RunInv, RunTypeOK
  <2>4. UNCHANGED <<options, startVars, row, command, wav, logs, envVars>>
    OBVIOUS
  <2> HIDE DEF PlainStage
  <2>5. QED
    BY <2>1, <2>2, <2>3, <2>4 DEF RunInv, RunTypeOK
<1>3. CleanupInv'
  BY <1>1 DEF RunInv, CleanupInv, ScriptStage
<1>4. NothingLeft'
  BY DEF NothingLeft, ScriptStage
<1> QED BY <1>2, <1>3, <1>4 DEF RunInv

\* A group is alive before its number is kept, and is the one the script is at.
LEMMA StartsRunInv ==
  ASSUME RunInv, NEW g \in Group \cap ScriptStage, NEW next \in ScriptStage, Starts(g, next)
  PROVE  RunInv'
<1> USE DEF At, GoesTo, toolVars, fileVars, envVars
<1>1. CASE Forks(g)
  <2>1. RunTypeOK'
    BY <1>1 DEF Forks, RunInv, RunTypeOK
  <2>2. CleanupInv'
    <3>1. "none" \notin alive
      BY DEF RunInv, RunTypeOK, Group, Local
    <3>2. alive' \ {forked'} \subseteq started' \cup lost'
      BY <1>1, <3>1 DEF Forks, RunInv, CleanupInv
    <3>3. command' # None => "trace" \in started' \cup lost' \cup {forked'} /\ row' <= Rows + 1
      BY <1>1 DEF Forks, RunInv, CleanupInv
    <3> QED BY <1>1, <3>2, <3>3 DEF Forks, RunInv, CleanupInv
  <2>3. NothingLeft'
    BY <1>1 DEF Forks, NothingLeft, ScriptStage
  <2> QED BY <2>1, <2>2, <2>3 DEF RunInv
<1>2. CASE Reports(g, next)
  <2>1. RunTypeOK'
    BY <1>2 DEF Reports, RunInv, RunTypeOK
  <2>2. CleanupInv'
    BY <1>2 DEF Reports, RunInv, CleanupInv, ScriptStage
  <2>3. NothingLeft'
    BY <1>2 DEF Reports, NothingLeft, ScriptStage
  <2> QED BY <2>1, <2>2, <2>3 DEF RunInv
<1> QED BY <1>1, <1>2 DEF Starts

\* The stages of the script run outside cleanup, and so before the end.
LEMMA StagesRunInv == RunInv /\ Stages => RunInv'
<1> SUFFICES ASSUME RunInv, Stages PROVE RunInv'
  OBVIOUS
<1>1. CASE \/ StartServer \/ StartReceiver \/ StartSender
           \/ StartRecording \/ StartTrace \/ StartPlayback
  BY <1>1, StartsRunInv
     DEF StartServer, StartReceiver, StartSender, StartRecording, StartTrace, StartPlayback,
         Group, Local, ScriptStage
<1>2. CASE ~(\/ StartServer \/ StartReceiver \/ StartSender
             \/ StartRecording \/ StartTrace \/ StartPlayback)
  <2> USE DEF PlainStage, At, Exits, Fails, GoesTo, Checks, toolVars, fileVars, envVars,
              ScriptStage, Group, Local
  <2>1. Prerequisites => PlainStage BY DEF Prerequisites
  <2>2. Reset => PlainStage BY DEF Reset
  <2>3. ServerListening => PlainStage BY DEF ServerListening
  <2>4. PulseRouting => PlainStage BY DEF PulseRouting
  <2>5. TraceReplaying => PlainStage BY DEF TraceReplaying
  <2>6. Playing => PlainStage BY DEF Playing
  <2>7. StopRecording => PlainStage BY DEF StopRecording
  <2>8. CheckWav => PlainStage BY DEF CheckWav
  <2>9. CheckLogs => PlainStage BY DEF CheckLogs
  <2>10. BuildTrace => PlainStage BY DEF BuildTrace
  <2>11. ReportOk => PlainStage BY DEF ReportOk
  <2> QED
    BY <1>2, PlainStageRunInv, <2>1, <2>2, <2>3, <2>4, <2>5, <2>6,
       <2>7, <2>8, <2>9, <2>10, <2>11 DEF Stages
<1> QED BY <1>1, <1>2

\* Cleanup: after the second pass no group is left, whatever survived the first.
LEMMA CleanupRunInv == RunInv /\ Cleanup => RunInv'
<1> SUFFICES ASSUME RunInv, Cleanup PROVE RunInv'
  OBVIOUS
<1> USE DEF Cleanup, Terminate, Kill, Killed, ResetNetem, startVars, fileVars, envVars
<1>1. alive' \subseteq alive /\ UNCHANGED <<options, startVars, row, status, fileVars, envVars>>
  OBVIOUS
<1>2. command' \in {command, None} /\ netem' \in {netem, Baseline}
  OBVIOUS
<1>3. RunTypeOK'
  <2>1. cleanup' \in {"none", "term", "kill", "reset"}
    BY DEF RunInv, RunTypeOK
  <2>2. command' \in {None} \cup 0 .. Rows /\ netem' \in 0 .. Rows
    BY <1>2, RunBounds DEF RunInv, RunTypeOK, Baseline
  <2>3. QED
    BY <1>1, <2>1, <2>2 DEF RunInv, RunTypeOK
<1>4. CleanupInv'
  <2>1. CASE Terminate
    BY <2>1, <1>1 DEF RunInv, CleanupInv, SudoWorks
  <2>2. CASE Kill
    <3>1. forked = "none" /\ "none" \notin alive
      BY <2>2 DEF RunInv, RunTypeOK, CleanupInv, Group, Local
    <3>2. alive' \subseteq lost
      BY <2>2, <3>1 DEF RunInv, CleanupInv
    <3>3. SudoWorks /\ "trace" \notin lost => command' = None
      BY <2>2, <3>1 DEF RunInv, CleanupInv
    <3>4. command' # None => command # None
      BY <1>2
    <3> HIDE DEF Cleanup, SudoWorks
    <3> QED BY <2>2, <1>1, <3>1, <3>2, <3>3, <3>4 DEF RunInv, CleanupInv, SudoWorks
  <2>3. CASE ResetNetem
    BY <2>3, <1>1 DEF RunInv, CleanupInv, SudoWorks
  <2> QED BY <2>1, <2>2, <2>3
<1>5. NothingLeft'
  BY DEF RunInv, CleanupInv, NothingLeft, SudoWorks
<1> QED BY <1>3, <1>4, <1>5 DEF RunInv

\* The processes: they may end, but none starts a group; a command comes from a live
\* tool with rows left, and a rule from a command.
LEMMA ProcessesRunInv == RunInv /\ Processes => RunInv'
<1> SUFFICES ASSUME RunInv, Processes PROVE RunInv'
  OBVIOUS
<1> USE DEF Processes, GroupDies, PlaybackEnds, ClientLogs, Record, ApplyRow, CommandDone,
            ReplayEnds, startVars, toolVars, fileVars, envVars
<1>1. alive' \subseteq alive /\ UNCHANGED <<options, stage, cleanup, startVars, status, envVars>>
  OBVIOUS
<1>2. \/ UNCHANGED command
      \/ command' = None
      \/ /\ "trace" \in alive /\ row <= Rows + 1 /\ row' = row
         /\ (row <= Rows /\ command' = row) \/ command' = Baseline
  BY DEF RowsLeft
<1>3. netem' = netem \/ (command # None /\ netem' = command)
  OBVIOUS
<1>4. row' = row \/ (command # None /\ command' = None /\ row' = row + 1)
  OBVIOUS
<1>5. RunTypeOK'
  <2>1. row' \in 1 .. Rows + 2
    <3>1. row \in 1 .. Rows + 2 /\ (command # None => row <= Rows + 1)
      BY DEF RunInv, RunTypeOK, CleanupInv
    <3> HIDE DEF Processes
    <3> QED BY <3>1, <1>4, RunBounds
  <2>2. command' \in {None} \cup 0 .. Rows /\ netem' \in 0 .. Rows
    <3>1. /\ row \in 1 .. Rows + 2
          /\ command \in {None} \cup 0 .. Rows /\ netem \in 0 .. Rows
      BY DEF RunInv, RunTypeOK
    <3> HIDE DEF Processes
    <3> QED BY <3>1, <1>2, <1>3, RunBounds DEF Baseline
  <2>3. /\ wav' \in {"none", "old", "silent", "sound"}
        /\ logs' \in [Client -> {"none", "old", "new"}]
        /\ trace' \in BOOLEAN
    BY DEF RunInv, RunTypeOK
  <2> QED BY <1>1, <2>1, <2>2, <2>3 DEF RunInv, RunTypeOK
<1>6. CleanupInv'
  BY <1>1, <1>2, <1>4 DEF RunInv, CleanupInv, SudoWorks
<1>7. NothingLeft'
  BY <1>1, <1>2, <1>3 DEF RunInv, CleanupInv, NothingLeft, SudoWorks
<1> QED BY <1>5, <1>6, <1>7 DEF RunInv

LEMMA NextRunInv == RunInv /\ [RunNext]_runVars => RunInv'
<1> SUFFICES ASSUME RunInv, [RunNext]_runVars PROVE RunInv'
  OBVIOUS
<1>1. CASE Stages BY <1>1, StagesRunInv
<1>2. CASE Cleanup BY <1>2, CleanupRunInv
<1>3. CASE Processes BY <1>3, ProcessesRunInv
<1>4. CASE Signal
  <2>1. signals' \in 0 .. MaxSignals
    <3>1. signals \in 0 .. MaxSignals /\ signals < MaxSignals /\ signals' = signals + 1
      BY <1>4 DEF Signal, RunInv, RunTypeOK
    <3> QED BY <3>1, RunBounds
  <2>2. RunTypeOK'
    BY <1>4, <2>1 DEF Signal, Exits, RunInv, RunTypeOK, startVars, toolVars, fileVars
  <2> QED
    BY <1>4, <2>2 DEF Signal, Exits, RunInv, CleanupInv, NothingLeft, SudoWorks, startVars, toolVars
<1>5. CASE SudoLapses
  <2>1. ~SudoWorks' /\ RunTypeOK'
    BY <1>5 DEF SudoLapses, SudoWorks, RunInv, RunTypeOK, startVars, toolVars, fileVars
  <2> QED BY <1>5, <2>1 DEF SudoLapses, RunInv, CleanupInv, NothingLeft, startVars, toolVars
<1>6. CASE UNCHANGED runVars
  <2>1. RunTypeOK'
    BY <1>6 DEF runVars, startVars, RunInv, RunTypeOK
  <2>2. CleanupInv' /\ NothingLeft'
    BY <1>6 DEF runVars, startVars, RunInv, CleanupInv, NothingLeft, SudoWorks
  <2> QED BY <2>1, <2>2 DEF RunInv
<1> QED BY <1>1, <1>2, <1>3, <1>4, <1>5, <1>6 DEF RunNext

LEMMA SpecRunInv == RunSpec => []RunInv
  BY InitRunInv, NextRunInv, PTL DEF RunSpec

\* Every variable keeps its type; the replay tool goes at most one past its reset.
THEOREM RunTypeCorrect == RunSpec => []RunTypeOK
  BY SpecRunInv, PTL DEF RunInv

\* However a recording ends, none of its processes is left but a group whose start a
\* signal cut short; and unless that is the replay tool, no rule of its trace is left.
THEOREM NothingIsLeft == RunSpec => []NothingLeft
  BY SpecRunInv, PTL DEF RunInv

-------------------------------------------------------------------------------
(* A run that reports ok *)

Checked == {"logs", "build", "ok"}

\* In a fresh directory nothing is of an earlier run; what a check has seen of this run
\* stays, and status is "ok" only after every check.
ArtifactsInv ==
    /\ options.fresh => wav # "old" /\ \A c \in Client : logs[c] # "old"
    /\ stage \in Checked \/ status = "ok" => (options.fresh => wav = "sound")
    /\ stage \in Checked \ {"logs"} \/ status = "ok" =>
         (options.fresh => \A c \in Client : logs[c] = "new")
    /\ stage = "ok" \/ status = "ok" => (options.build => trace)

LEMMA InitArtifacts == RunInit => ArtifactsInv
  BY DEF RunInit, ArtifactsInv, Checked, Client

LEMMA StagesArtifacts == RunInv /\ ArtifactsInv /\ Stages => ArtifactsInv'
<1> SUFFICES ASSUME RunInv, ArtifactsInv, Stages PROVE ArtifactsInv'
  OBVIOUS
<1> USE DEF RunInv, RunTypeOK, ArtifactsInv, At, Exits, Fails, GoesTo, Checks, Starts, Forks,
            Reports, startVars, toolVars, fileVars, envVars, Checked
<1>1. CASE Prerequisites BY <1>1 DEF Prerequisites
<1>2. CASE Reset BY <1>2 DEF Reset
<1>3. CASE StartServer BY <1>3 DEF StartServer
<1>4. CASE ServerListening BY <1>4 DEF ServerListening
<1>5. CASE StartReceiver BY <1>5 DEF StartReceiver
<1>6. CASE StartSender BY <1>6 DEF StartSender
<1>7. CASE PulseRouting BY <1>7 DEF PulseRouting
<1>8. CASE StartRecording BY <1>8 DEF StartRecording
<1>9. CASE StartTrace BY <1>9 DEF StartTrace
<1>10. CASE TraceReplaying BY <1>10 DEF TraceReplaying
<1>11. CASE StartPlayback BY <1>11 DEF StartPlayback
<1>12. CASE Playing BY <1>12 DEF Playing
<1>13. CASE StopRecording BY <1>13 DEF StopRecording
<1>14. CASE CheckWav BY <1>14 DEF CheckWav, WavGood
<1>15. CASE CheckLogs
  <2>1. ASSUME NEW c \in Client PROVE logs[c] \in {"none", "old", "new"}
    BY <2>1
  <2> QED BY <1>15, <2>1 DEF CheckLogs
<1>16. CASE BuildTrace BY <1>16 DEF BuildTrace
<1>17. CASE ReportOk BY <1>17 DEF ReportOk
<1> QED
  BY <1>1, <1>2, <1>3, <1>4, <1>5, <1>6, <1>7, <1>8, <1>9, <1>10, <1>11, <1>12, <1>13,
     <1>14, <1>15, <1>16, <1>17 DEF Stages

\* Outside the stages the script passes no check, and no file of this run is undone.
LEMMA OthersArtifacts ==
    RunInv /\ ArtifactsInv /\ (Cleanup \/ Processes \/ Signal \/ SudoLapses) => ArtifactsInv'
<1> SUFFICES ASSUME RunInv, ArtifactsInv, Cleanup \/ Processes \/ Signal \/ SudoLapses
             PROVE  ArtifactsInv'
  OBVIOUS
<1>1. CASE /\ UNCHANGED <<options, wav, logs, trace, status>>
           /\ stage' = stage \/ stage' \notin Checked
  BY <1>1 DEF ArtifactsInv, Checked
<1>2. CASE Cleanup
  <2>1. UNCHANGED <<options, fileVars, status>> /\ (stage' = stage \/ stage' = "ended")
    BY <1>2 DEF Cleanup, Terminate, Kill, ResetNetem
  <2> QED BY <1>1, <2>1 DEF fileVars, Checked
<1>3. CASE ClientLogs
  BY <1>3 DEF ClientLogs, ArtifactsInv, RunInv, RunTypeOK, Client, Checked
<1>4. CASE Record
  BY <1>4 DEF Record, ArtifactsInv, Checked
<1>5. CASE GroupDies \/ PlaybackEnds \/ ApplyRow \/ CommandDone \/ ReplayEnds
  <2>1. UNCHANGED <<options, wav, logs, trace, status, stage>>
    BY <1>5 DEF GroupDies, PlaybackEnds, ApplyRow, CommandDone, ReplayEnds, fileVars
  <2> QED BY <1>1, <2>1
<1>6. CASE Signal \/ SudoLapses
  <2>1. UNCHANGED <<options, wav, logs, trace, status>> /\ (stage' = stage \/ stage' = "exit")
    BY <1>6 DEF Signal, Exits, SudoLapses, fileVars
  <2> QED BY <1>1, <2>1 DEF Checked
<1> QED BY <1>2, <1>3, <1>4, <1>5, <1>6 DEF Processes

LEMMA NextArtifacts == RunInv /\ ArtifactsInv /\ [RunNext]_runVars => ArtifactsInv'
<1>1. ArtifactsInv /\ UNCHANGED runVars => ArtifactsInv'
  BY DEF runVars, ArtifactsInv
<1> QED BY <1>1, StagesArtifacts, OthersArtifacts DEF RunNext

\* A run that reports ok in a fresh directory has sound, both logs, and its trace.
THEOREM OkIsOk == RunSpec => []OkMeansArtifacts
<1>1. ArtifactsInv => OkMeansArtifacts
  BY DEF ArtifactsInv, OkMeansArtifacts
<1> QED BY <1>1, InitArtifacts, NextArtifacts, SpecRunInv, PTL DEF RunSpec
===============================================================================
