------------------------------ MODULE MCRecordRun ------------------------------
(* Instances of RecordRun for TLC. *)
EXTENDS RecordRun

\* A recording, a replay into a directory that was used before, and a recording
\* under a replayed trace while another server has the port.
Calls ==
    {[replayed |-> FALSE, build |-> TRUE, fresh |-> TRUE, portTaken |-> FALSE],
     [replayed |-> TRUE, build |-> FALSE, fresh |-> FALSE, portTaken |-> FALSE],
     [replayed |-> TRUE, build |-> TRUE, fresh |-> TRUE, portTaken |-> TRUE]}
===============================================================================
