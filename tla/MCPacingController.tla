-------------------------- MODULE MCPacingController --------------------------
EXTENDS PacingController

Plain == [drainLargeQueues |-> FALSE, padIfSilent |-> FALSE, paceAudio |-> FALSE,
          fastRetransmissions |-> FALSE, keyframeFlushing |-> FALSE, fec |-> FALSE,
          breaker |-> 16]

\* The field trials, and a send loop that breaks after two passes.
Trials == [drainLargeQueues |-> TRUE, padIfSilent |-> TRUE, paceAudio |-> FALSE,
           fastRetransmissions |-> TRUE, keyframeFlushing |-> TRUE, fec |-> TRUE,
           breaker |-> 16]

SomeConfigurations ==
    {Plain, Trials, [Plain EXCEPT !.paceAudio = TRUE, !.breaker = 2]}

SomeRates ==
    {[pacing |-> 1, padding |-> 0, burst |-> 0], [pacing |-> 2, padding |-> 3, burst |-> 2]}

SomePackets ==
    {[type |-> "audio", size |-> 1, key |-> FALSE],
     [type |-> "retransmission", size |-> 1, key |-> FALSE],
     [type |-> "video", size |-> 2, key |-> FALSE],
     [type |-> "video", size |-> 2, key |-> TRUE]}

\* What PacedBound takes for granted holds of these.
ASSUME PaceAssumption == BurstsFit /\ DebtIsRecent /\ RatesPositive
===============================================================================
