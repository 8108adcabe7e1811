------------------------------ MODULE CsvSession ------------------------------
(***************************************************************************)
(* CsvSessionDir and OpenCsvLogWithBuffering of rtc_base/csv_log.h: where  *)
(* the processes of an experiment put their CSV files, and what they do to *)
(* a file that is already there.                                           *)
(*                                                                         *)
(* Two files stand for all: the log a process opens with mode "w" and      *)
(* writes at its own file offset, and logging_stats.csv, which the writer  *)
(* threads of its AsyncCsvLogs open with mode "a".  A line is one write    *)
(* (both are line buffered), and every line has the same size.             *)
(***************************************************************************)
EXTENDS Naturals, Sequences, FiniteSets

CONSTANTS Process,    \* runs of peerconnection_client
          Thread,     \* writer threads of one process
          Dir,        \* base directories
          Base,       \* Base[p]: $WEBRTC_LOG_DIR, or its fallback, of process p
          MaxSecond,  \* bound: seconds the experiment lasts
          MaxRows,    \* bound: rows a process logs
          MaxStats    \* bound: statistics rows a thread appends

ASSUME SessionAssumption ==
    /\ Base \in [Process -> Dir]
    /\ MaxSecond \in Nat
    /\ MaxRows \in Nat /\ MaxStats \in Nat

VARIABLES
    clock,      \* time(nullptr)
    session,    \* session[p]: the directory named on the first call, or NoDir
    log,        \* log[d]: the lines of the "w" log in session directory d
    offset,     \* offset[p]: p's file position in its log; 0 before fopen
    stats,      \* stats[d]: the lines of logging_stats.csv in d
    thread,     \* thread[p][t]: program counter in AppendCsvLog
    appended    \* appended[p][t]: statistics rows the thread has written

vars == <<clock, session, log, offset, stats, thread, appended>>

SessionDir == Dir \X (0 .. MaxSecond)
NoDir == <<>>

Header == [kind |-> "header"]
Hole == [kind |-> "hole"]
LogRow(p, n) == [kind |-> "row", process |-> p, number |-> n]
StatsRow(p, t) == [kind |-> "stats", process |-> p, thread |-> t]

\* The lines of both files.
Line ==
    {Header, Hole}
        \cup {LogRow(p, n) : p \in Process, n \in 1 .. MaxRows}
        \cup {StatsRow(p, t) : p \in Process, t \in Thread}

TypeOK ==
    /\ clock \in 0 .. MaxSecond
    /\ DOMAIN session = Process
    /\ \A p \in Process : session[p] \in {NoDir} \cup ({Base[p]} \X (0 .. clock))
    /\ log \in [SessionDir -> Seq(Line)]
    /\ stats \in [SessionDir -> Seq(Line)]
    /\ offset \in [Process -> 0 .. MaxRows + 1]
    /\ \A p \in Process : offset[p] > 0 => session[p] # NoDir
    /\ thread \in [Process -> [Thread -> {"idle", "opening with header", "opening",
                                          "header", "row"}]]
    /\ appended \in [Process -> [Thread -> 0 .. MaxStats]]

Init ==
    /\ clock = 0
    /\ session = [p \in Process |-> NoDir]
    /\ log = [d \in SessionDir |-> <<>>]
    /\ offset = [p \in Process |-> 0]
    /\ stats = [d \in SessionDir |-> <<>>]
    /\ thread = [p \in Process |-> [t \in Thread |-> "idle"]]
    /\ appended = [p \in Process |-> [t \in Thread |-> 0]]

Tick ==
    /\ clock < MaxSecond
    /\ clock' = clock + 1
    /\ UNCHANGED <<session, log, offset, stats, thread, appended>>

\* CsvSessionDir on its first call in p: the base directory and the second.
\* mkdir of a directory that exists changes nothing.
SessionDirOf(p) == <<Base[p], clock>>

CsvSessionDir(p) ==
    /\ session[p] = NoDir
    /\ session' = [session EXCEPT ![p] = SessionDirOf(p)]
    /\ UNCHANGED <<clock, log, offset, stats, thread, appended>>

\* Wrong variant: all runs use the first directory under the base.
LogDirOfBase(p) == <<session[p][1], 0>>

\* The directory in the path of the log.
LogDir(p) == session[p]

\* OpenCsvLog: fopen(path, "w") empties the file and the header is written.
OpenCsvLog(p) ==
    /\ session[p] # NoDir /\ offset[p] = 0
    /\ log' = [log EXCEPT ![LogDir(p)] = <<Header>>]
    /\ offset' = [offset EXCEPT ![p] = 1]
    /\ UNCHANGED <<clock, session, stats, thread, appended>>

\* write(2) at position at: what lies there is overwritten, and a file cut
\* short by somebody else is first filled with a hole.
WriteAt(lines, at, line) ==
    [i \in 1 .. IF at > Len(lines) THEN at ELSE Len(lines) |->
        IF i = at THEN line ELSE IF i <= Len(lines) THEN lines[i] ELSE Hole]

\* fprintf of one row to the log.
LogLine(p) ==
    /\ offset[p] \in 1 .. MaxRows
    /\ log' = [log EXCEPT ![LogDir(p)] =
                  WriteAt(@, offset[p] + 1, LogRow(p, offset[p]))]
    /\ offset' = [offset EXCEPT ![p] = @ + 1]
    /\ UNCHANGED <<clock, session, stats, thread, appended>>

-------------------------------------------------------------------------------
(* AppendCsvLog("logging_stats.csv", header), then the row and fclose.       *)

\* Wrong variant: the header is left to whoever created the file.
WriteHeaderNever(d) == FALSE

\* write_header: stat fails or finds the file empty.
WriteHeader(d) == stats[d] = <<>>

Step(p, t, pc) == thread' = [thread EXCEPT ![p][t] = pc]

Stat(p, t) ==
    /\ session[p] # NoDir
    /\ thread[p][t] = "idle" /\ appended[p][t] < MaxStats
    /\ Step(p, t, IF WriteHeader(session[p]) THEN "opening with header" ELSE "opening")
    /\ UNCHANGED <<clock, session, log, offset, stats, appended>>

\* fopen(path, "a") creates an empty file or leaves the lines there are.
OpenAppend(p, t) ==
    /\ thread[p][t] \in {"opening with header", "opening"}
    /\ Step(p, t, IF thread[p][t] = "opening" THEN "row" ELSE "header")
    /\ UNCHANGED <<clock, session, log, offset, stats, appended>>

AppendHeader(p, t) ==
    /\ thread[p][t] = "header"
    /\ stats' = [stats EXCEPT ![session[p]] = Append(@, Header)]
    /\ Step(p, t, "row")
    /\ UNCHANGED <<clock, session, log, offset, appended>>

AppendRow(p, t) ==
    /\ thread[p][t] = "row"
    /\ stats' = [stats EXCEPT ![session[p]] = Append(@, StatsRow(p, t))]
    /\ appended' = [appended EXCEPT ![p][t] = @ + 1]
    /\ Step(p, t, "idle")
    /\ UNCHANGED <<clock, session, log, offset>>

Next ==
    \/ Tick
    \/ \E p \in Process :
          \/ CsvSessionDir(p)
          \/ OpenCsvLog(p)
          \/ LogLine(p)
          \/ \E t \in Thread :
                Stat(p, t) \/ OpenAppend(p, t) \/ AppendHeader(p, t) \/ AppendRow(p, t)

Spec == Init /\ [][Next]_vars

-------------------------------------------------------------------------------
(* Properties *)

\* The log p opened still holds the header and every row p wrote, at their places.
LogIntact(p) ==
    LET lines == log[session[p]] IN
    /\ Len(lines) >= offset[p]
    /\ lines[1] = Header
    /\ \A n \in 1 .. offset[p] - 1 : lines[n + 1] = LogRow(p, n)

\* Another process named the same directory, in the same second, and opened its log.
OpenedByAnother(p) ==
    \E q \in Process \ {p} : session[q] = session[p] /\ offset[q] > 0

\* "Logs are never overwritten" holds but for one case, which the comment does not
\* name: a log loses its header or rows only when another process has named the
\* same directory, and opened the log there too.
LostOnlyByCollision ==
    \A p \in Process : offset[p] > 0 /\ ~OpenedByAnother(p) => LogIntact(p)

\* logging_stats.csv starts with its header although stat, fopen and the two
\* writes of several threads interleave.
StatsStartWithHeader ==
    \A d \in SessionDir : stats[d] # <<>> => stats[d][1] = Header
===============================================================================
