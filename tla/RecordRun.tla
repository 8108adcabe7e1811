------------------------------- MODULE RecordRun -------------------------------
(***************************************************************************)
(* One recording on one host: trace_tools/run_record_and_build_trace.sh,   *)
(* as run_replay_from_trace.sh calls it too, with the processes it starts  *)
(* and replay_netem_trace.py, which sets the rules of the network.         *)
(*                                                                         *)
(* The script is a sequence of stages; the processes run beside it, and    *)
(* may die at any time.  A signal may reach the script at any stage: its   *)
(* trap cleans up and then returns to where the script was.                *)
(*                                                                         *)
(* RecordingProofs extends this module and CsvSession: RunInit, RunNext... *)
(* are what Init, Next... are elsewhere.                                   *)
(***************************************************************************)
EXTENDS Integers

CONSTANTS Options,    \* how the script is called, and where
          Rows,       \* rows of the trace that is replayed
          MaxSignals  \* bound: signals the script receives

ASSUME RecordAssumption ==
    /\ Options \subseteq
         [replayed : BOOLEAN, build : BOOLEAN, fresh : BOOLEAN, portTaken : BOOLEAN]
    /\ Rows \in Nat \ {0} /\ MaxSignals \in Nat

Local == {"parec", "trace", "paplay"}
Group == {"server", "receiver", "sender"} \cup Local

VARIABLES
    options,  \* replayed: --record-trace was given; build: --skip-build was not;
              \* fresh: the run directory was empty; portTaken: of another server
    stage,    \* where the script is
    cleanup,  \* where cleanup is, "none" outside
    started,  \* the PG_ variables that are set
    forked,   \* the group start_... has started and not yet reported, or "none"
    lost,     \* a group whose number never reached its PG_ variable
    alive,    \* the process groups with a process in them
    row,      \* the next row of replay_netem_trace.py; Rows + 1 is its reset
    command,  \* the rule of the tc command it is running, or None
    netem,    \* the rule in force: a row of a trace, or 0, the baseline
    status,   \* run.status
    wav,      \* received.wav; "old" is of an earlier run in this directory
    logs,     \* the newest log directory of each client
    trace,    \* generated_trace.csv was written by this run
    sudo,     \* whether sudo -n works; its credentials may lapse
    signals   \* signals received, for the bound

runVars == <<options, stage, cleanup, started, forked, lost, alive, row, command, netem, status,
             wav, logs, trace, sudo, signals>>

None == -1
Baseline == 0
startVars == <<started, forked, lost>>
toolVars == <<row, command, netem>>
fileVars == <<wav, logs, trace>>
envVars == <<sudo, signals>>
Client == {"sender", "receiver"}

RunTypeOK ==
    /\ options \in Options
    /\ cleanup \in {"none", "term", "kill", "reset"}
    /\ started \subseteq Group /\ lost \subseteq Group /\ alive \subseteq Group
    /\ forked \in Group \cup {"none"}
    /\ row \in 1 .. Rows + 2
    /\ command \in {None} \cup 0 .. Rows /\ netem \in 0 .. Rows
    /\ status \in {"", "running", "error", "ok"}
    /\ wav \in {"none", "old", "silent", "sound"}
    /\ logs \in [Client -> {"none", "old", "new"}]
    /\ trace \in BOOLEAN /\ sudo \in {"works", "lapsed"}
    /\ signals \in 0 .. MaxSignals

\* A rule may be left from whatever used the interface before.
RunInit ==
    /\ options \in Options
    /\ stage = "prerequisites" /\ cleanup = "none"
    /\ started = {} /\ forked = "none" /\ lost = {} /\ alive = {}
    /\ row = 1 /\ command = None /\ netem \in 0 .. Rows
    /\ status = ""
    /\ wav = IF options.fresh THEN "none" ELSE "old"
    /\ logs = [c \in Client |-> wav]
    /\ trace = FALSE
    /\ sudo = "works" /\ signals = 0

-------------------------------------------------------------------------------
(* The script *)

SudoWorks == sudo = "works"

At(s) == stage = s /\ cleanup = "none"

\* A command fails under set -e: the EXIT trap runs, run.status stays.
Exits ==
    /\ stage' = "exit" /\ cleanup' = "term"
    /\ UNCHANGED status

Fails ==
    /\ stage' = "exit" /\ cleanup' = "term"
    /\ status' = "error"

GoesTo(s) == stage' = s /\ UNCHANGED <<cleanup, status>>

\* A check: it fails, or the script goes on.
Checks(ok, next) == IF ok THEN GoesTo(next) ELSE Fails

Prerequisites ==
    /\ At("prerequisites")
    /\ GoesTo("reset") \/ Exits
    /\ UNCHANGED <<options, startVars, alive, toolVars, fileVars, envVars>>

Reset ==
    /\ At("reset")
    /\ IF SudoWorks
         THEN netem' = Baseline /\ stage' = "server" /\ status' = "running" /\ UNCHANGED cleanup
         ELSE Fails /\ UNCHANGED netem
    /\ UNCHANGED <<options, startVars, alive, row, command, fileVars, envVars>>

\* start_in_ns, start_pg, start_looped_playback start a group of its own, in the subshell
\* of $(...), each at the stage of its name.  start_in_ns needs sudo.
Forks(g) ==
    /\ At(g) /\ forked = "none"
    /\ forked' = g
    /\ alive' = IF SudoWorks \/ g \in Local THEN alive \cup {g} ELSE alive
    /\ UNCHANGED <<options, stage, cleanup, started, lost, status, toolVars, fileVars, envVars>>

\* echo $!: the subshell ends, and the number is kept in PG_... for cleanup.
Reports(g, next) ==
    /\ At(g) /\ forked = g
    /\ forked' = "none" /\ started' = started \cup {g}
    /\ GoesTo(next)
    /\ UNCHANGED <<options, lost, alive, toolVars, fileVars, envVars>>

Starts(g, next) == Forks(g) \/ Reports(g, next)

StartServer == Starts("server", "listening")
StartReceiver == Starts("receiver", "sender")
StartSender == Starts("sender", "routing")
StartRecording == Starts("parec", IF options.replayed THEN "trace" ELSE "paplay")
StartTrace == Starts("trace", "replaying")
StartPlayback == Starts("paplay", "playing")

\* Only the port is looked at, and whoever listens on it will do.
ServerListening ==
    /\ At("listening")
    /\ Checks(SudoWorks /\ ("server" \in alive \/ options.portTaken), "receiver")
    /\ UNCHANGED <<options, startVars, alive, toolVars, fileVars, envVars>>

\* Streams of any program appear on both devices before the deadline, or do not;
\* the devices themselves may be missing.
PulseRouting ==
    /\ At("routing")
    /\ GoesTo("parec") \/ Fails \/ Exits
    /\ UNCHANGED <<options, startVars, alive, toolVars, fileVars, envVars>>

TraceReplaying ==
    /\ At("replaying")
    /\ Checks("trace" \in alive, "paplay")
    /\ UNCHANGED <<options, startVars, alive, toolVars, fileVars, envVars>>

\* Wrong variant: the loop waits for as long as playback goes on.
PlaybackTimeoutNever == FALSE

\* wait_count has passed its limit.
PlaybackTimeout == TRUE

Playing ==
    /\ At("playing")
    /\ \/ "paplay" \notin alive /\ GoesTo("played")
       \/ "paplay" \in alive /\ PlaybackTimeout /\ Fails
    /\ UNCHANGED <<options, startVars, alive, toolVars, fileVars, envVars>>

StopRecording ==
    /\ At("played")
    /\ alive' = alive \ {"parec"}
    /\ GoesTo("wav")
    /\ UNCHANGED <<options, startVars, toolVars, fileVars, envVars>>

\* Wrong variant: a file that is not empty will do.
WavGoodIfAny == wav # "none"

\* The peak is high enough.
WavGood == wav \in {"old", "sound"}

\* The file is read by a program that may itself fail.
CheckWav ==
    /\ At("wav")
    /\ \/ Checks(WavGood, "logs")
       \/ wav # "none" /\ Exits
    /\ UNCHANGED <<options, startVars, alive, toolVars, fileVars, envVars>>

\* resolve_log_dir finds a directory of each client, whichever run made it.  If there is
\* none, find fails for want of the directory to look in, or finds nothing in it.
CheckLogs ==
    /\ At("logs")
    /\ \/ /\ \A c \in Client : logs[c] # "none"
          /\ GoesTo(IF options.build THEN "build" ELSE "ok")
       \/ /\ \E c \in Client : logs[c] = "none"
          /\ Exits \/ Fails
    /\ UNCHANGED <<options, startVars, alive, toolVars, fileVars, envVars>>

BuildTrace ==
    /\ At("build")
    /\ \/ trace' = TRUE /\ GoesTo("ok")
       \/ Fails /\ UNCHANGED trace
    /\ UNCHANGED <<options, startVars, alive, toolVars, wav, logs, envVars>>

ReportOk ==
    /\ At("ok")
    /\ status' = "ok" /\ stage' = "exit" /\ cleanup' = "term"
    /\ UNCHANGED <<options, startVars, alive, toolVars, fileVars, envVars>>

Stages ==
    \/ Prerequisites \/ Reset \/ StartServer \/ ServerListening \/ StartReceiver
    \/ StartSender \/ PulseRouting \/ StartRecording \/ StartTrace \/ TraceReplaying
    \/ StartPlayback \/ Playing \/ StopRecording \/ CheckWav \/ CheckLogs \/ BuildTrace
    \/ ReportOk

-------------------------------------------------------------------------------
(* The trap: cleanup.  At its end the script exits only if it was exiting. *)

\* A trapped signal: cleanup runs between two commands; the command that the
\* signal interrupted may fail, which ends the script.  A signal to the script alone
\* waits for the $(...) that starts a group; one from the terminal ends its subshell
\* too, but not the group, and the number of the group is lost.  A second signal
\* during cleanup only repeats it, and is left out.
Signal ==
    /\ cleanup = "none" /\ stage # "ended" /\ signals < MaxSignals
    /\ signals' = signals + 1
    /\ \/ /\ forked = "none" /\ cleanup' = "term"
          /\ UNCHANGED <<stage, status, startVars>>
       \/ /\ Exits
          /\ forked' = "none" /\ lost' = lost \cup ({forked} \ {"none"})
          /\ UNCHANGED started
    /\ UNCHANGED <<options, alive, toolVars, fileVars, sudo>>

\* A process may take its time over SIGTERM.
Terminate ==
    /\ cleanup = "term" /\ cleanup' = "kill"
    /\ \E s \in SUBSET (started \cap alive) : alive' = alive \ s
    /\ command' \in {command} \cup (IF SudoWorks /\ "trace" \in started THEN {None} ELSE {})
    /\ UNCHANGED <<options, stage, startVars, row, netem, status, fileVars, envVars>>

\* Wrong variant: the replay tool is left out of the second pass.
KilledNotTrace == started \ {"trace"}

Killed == started

\* The tc command in flight is root's: only sudo's kill reaches it.
Kill ==
    /\ cleanup = "kill" /\ cleanup' = "reset"
    /\ alive' = alive \ Killed
    /\ command' = IF SudoWorks /\ "trace" \in Killed THEN None ELSE command
    /\ UNCHANGED <<options, stage, startVars, row, netem, status, fileVars, envVars>>

ResetNetem ==
    /\ cleanup = "reset" /\ cleanup' = "none"
    /\ netem' = IF SudoWorks THEN Baseline ELSE netem
    /\ stage' = IF stage = "exit" THEN "ended" ELSE stage
    /\ UNCHANGED <<options, startVars, alive, row, command, status, fileVars, envVars>>

Cleanup == Terminate \/ Kill \/ ResetNetem

-------------------------------------------------------------------------------
(* The processes *)

\* A group may end at any time, because it failed.
GroupDies ==
    /\ \E g \in alive : alive' = alive \ {g}
    /\ UNCHANGED <<options, stage, cleanup, startVars, toolVars, status, fileVars, envVars>>

PlaybackEnds ==
    /\ "paplay" \in alive
    /\ alive' = alive \ {"paplay"}
    /\ UNCHANGED <<options, stage, cleanup, startVars, toolVars, status, fileVars,
                   envVars>>

ClientLogs ==
    /\ \E c \in Client \cap alive : logs[c] # "new" /\ logs' = [logs EXCEPT ![c] = "new"]
    /\ UNCHANGED <<options, stage, cleanup, startVars, alive, toolVars, status, wav, trace,
                   envVars>>

\* parec creates the file anew; sound comes in while the call carries what is played.
Record ==
    /\ "parec" \in alive
    /\ \/ wav \in {"none", "old"} /\ wav' = "silent"
       \/ wav = "silent" /\ Client \cup {"paplay"} \subseteq alive /\ wav' = "sound"
    /\ UNCHANGED <<options, stage, cleanup, startVars, alive, toolVars, status, logs, trace,
                   envVars>>

\* The loop over the rows, then --reset-at-end.
RowsLeft == row <= Rows + 1

\* main and apply_row: the next row, then the baseline, each as a command that is
\* waited for.
ApplyRow ==
    /\ "trace" \in alive /\ command = None /\ RowsLeft
    /\ command' = IF row <= Rows THEN row ELSE Baseline
    /\ UNCHANGED <<options, stage, cleanup, startVars, alive, row, netem, status, fileVars,
                   envVars>>

\* The command takes effect, or fails and the tool with it.
CommandDone ==
    /\ command # None /\ command' = None
    /\ \/ /\ netem' = command
          /\ row' = IF "trace" \in alive THEN row + 1 ELSE row
          /\ UNCHANGED alive
       \/ alive' = alive \ {"trace"} /\ UNCHANGED <<netem, row>>
    /\ UNCHANGED <<options, stage, cleanup, startVars, status, fileVars, envVars>>

ReplayEnds ==
    /\ "trace" \in alive /\ row = Rows + 2
    /\ alive' = alive \ {"trace"}
    /\ UNCHANGED <<options, stage, cleanup, startVars, toolVars, status, fileVars, envVars>>

SudoLapses ==
    /\ SudoWorks /\ sudo' = "lapsed"
    /\ UNCHANGED <<options, stage, cleanup, startVars, alive, toolVars, status, fileVars,
                   signals>>

Processes ==
    \/ GroupDies \/ PlaybackEnds \/ ClientLogs \/ Record
    \/ ApplyRow \/ CommandDone \/ ReplayEnds

RunNext == Stages \/ Cleanup \/ Processes \/ Signal \/ SudoLapses

RunSpec == RunInit /\ [][RunNext]_runVars

\* The script is run; its processes owe nothing.
FairSpec == RunSpec /\ WF_runVars(Stages \/ Cleanup)

-------------------------------------------------------------------------------
(* Properties *)

\* When the script has ended, however it did, none of its processes is left but a group
\* whose start a signal cut short; and unless that is the replay tool, or sudo has
\* stopped working, no rule is in force and no command will set one.
NothingLeft ==
    stage = "ended" =>
        /\ alive \subseteq lost
        /\ SudoWorks /\ "trace" \notin lost => command = None /\ netem = Baseline

\* A run that reports ok in a fresh directory has recorded sound, has the logs of
\* both clients, and its trace if one was to be built.
OkMeansArtifacts ==
    status = "ok" /\ options.fresh =>
        /\ wav = "sound"
        /\ \A c \in Client : logs[c] = "new"
        /\ options.build => trace

\* The script ends, whatever its processes do.
ScriptEnds == <>(stage = "ended")
===============================================================================
