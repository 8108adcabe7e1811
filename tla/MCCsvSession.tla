----------------------------- MODULE MCCsvSession -----------------------------
EXTENDS CsvSession, TLC

CONSTANTS p1, p2, d1, t1, t2

MCProcess == {p1, p2}
MCThread == {t1, t2}

\* The processes are alike, and so are the writer threads of each.
MCSymmetry == Permutations(MCProcess) \cup Permutations(MCThread)

\* Two clients under one $WEBRTC_LOG_DIR, or with none of their own.
OneBase == [p \in MCProcess |-> d1]
===============================================================================
