--------------------------- MODULE MCRtpSenderEgress ---------------------------
EXTENDS RtpSenderEgress

Plain == [paced |-> TRUE, batching |-> FALSE, rtx |-> FALSE, fec |-> "none",
          callback |-> FALSE, flush |-> FALSE, extension |-> {}]

\* A pacer with batches, RTX, both kinds of FEC and the statistics of a call; no
\* pacer and FlexFEC, whose packets carry no transport-wide number.
SomeConfigurations ==
    {Plain,
     [Plain EXCEPT !.batching = TRUE, !.rtx = TRUE, !.fec = "ulp", !.callback = TRUE],
     [Plain EXCEPT !.paced = FALSE, !.rtx = TRUE, !.fec = "flex", !.extension = {"media", "rtx"}],
     [Plain EXCEPT !.paced = FALSE, !.fec = "ulp", !.callback = TRUE]}

\* The keyframe flushing field trial.
FlushConfiguration == {[Plain EXCEPT !.rtx = TRUE, !.flush = TRUE]}

SomeMedia ==
    {[key |-> FALSE, again |-> TRUE, protect |-> TRUE],
     [key |-> TRUE, again |-> FALSE, protect |-> FALSE]}
===============================================================================
