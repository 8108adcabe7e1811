-------------------------------- MODULE RowLog --------------------------------
(***************************************************************************)
(* What a CSV log promises its readers, independently of threads, buffers  *)
(* and queues: rows are accepted in some order, a row may be refused when  *)
(* the log cannot keep up, and what is on disk is always an initial part   *)
(* of what was accepted.  rtc::AsyncCsvLog (rtc_base/csv_log.h) implements *)
(* this specification; see AsyncCsvLog.                                    *)
(***************************************************************************)
EXTENDS Naturals, Sequences

CONSTANT Row    \* the rows a caller may log

VARIABLES log,      \* every row accepted so far, in the order of acceptance
          persisted \* how many rows of log are on disk

logVars == <<log, persisted>>

LogTypeOK ==
    /\ log \in Seq(Row)
    /\ persisted \in 0 .. Len(log)

LogInit ==
    /\ log = <<>>
    /\ persisted = 0

\* A caller's row is taken.
Accept(r) ==
    /\ log' = Append(log, r)
    /\ UNCHANGED persisted

\* Some more of the accepted rows reach the disk, never fewer than before.
Persist ==
    /\ persisted' \in persisted .. Len(log)
    /\ UNCHANGED log

LogNext ==
    \/ \E r \in Row : Accept(r)
    \/ Persist

LogSpec == LogInit /\ [][LogNext]_logVars
===============================================================================
