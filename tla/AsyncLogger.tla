----------------------------- MODULE AsyncLogger -----------------------------
(***************************************************************************)
(* The asynchronous logger (internal/logger): callers leave their messages *)
(* in a bounded channel and never wait; one goroutine writes them.  Of a   *)
(* message only its level is kept.  zap writes what reaches the level of   *)
(* LOGGER_LEVEL and discards the rest.                                     *)
(***************************************************************************)
EXTENDS Integers, Sequences

CONSTANTS
  BuffSize,   \* LOGGER_BUFFER_SIZE, the capacity of msgChan
  Thresholds  \* the values of LOGGER_LEVEL considered

(* zapcore's order of the levels. *)
Rank == [debug |-> -1, info |-> 0, warn |-> 1, error |-> 2, fatal |-> 5]

(* The levels the service logs at. *)
Level == DOMAIN Rank

ASSUME BuffSizeAssumption == BuffSize \in Nat \ {0}

ASSUME ThresholdsAssumption == Thresholds \subseteq DOMAIN Rank

VARIABLES
  threshold,  \* the level of zap's core
  buffer,     \* msgChan
  runner,     \* the goroutine of StartLogger
  logStopped, \* its context is cancelled
  silenced    \* levels of messages that the core discards only because Run
              \* handed them over at a lower level than their own

logVars == <<threshold, buffer, runner, logStopped, silenced>>

LogTypeOK ==
  /\ threshold \in Thresholds
  /\ buffer \in Seq(Level)
  /\ Len(buffer) <= BuffSize
  /\ runner \in {"off", "running", "draining", "done"}
  /\ logStopped \in BOOLEAN
  /\ silenced \subseteq Level

(* NewService: the channel takes messages before there is a goroutine. *)
LogInit ==
  /\ threshold \in Thresholds
  /\ buffer = <<>>
  /\ runner = "off"
  /\ logStopped = FALSE
  /\ silenced = {}

(* A step that logs nothing. *)
Quiet == UNCHANGED logVars

PutBlocking(level) == Len(buffer) < BuffSize /\ buffer' = Append(buffer, level)

(* The select of Service.Log: a full channel drops the message. *)
Put(level) ==
  buffer' = IF Len(buffer) < BuffSize THEN Append(buffer, level) ELSE buffer

Log(level) == Put(level) /\ UNCHANGED <<threshold, runner, logStopped, silenced>>

StartLogger == runner' = "running" /\ UNCHANGED <<threshold, buffer, logStopped, silenced>>

(* Service.Stop cancels the goroutine; the wait for it is in Lifecycle. *)
StopLogger == logStopped' = TRUE /\ UNCHANGED <<threshold, runner, silenced>>

Enabled(level) == Rank[level] >= Rank[threshold]

(* The first message goes to zap at the given level. *)
Write(level) ==
  /\ buffer # <<>>
  /\ buffer' = Tail(buffer)
  /\ silenced' = IF Enabled(Head(buffer)) /\ ~Enabled(level)
                 THEN silenced \cup {Head(buffer)} ELSE silenced
  /\ UNCHANGED <<threshold, logStopped>>

AsInfo(level) == "info"

(* The switch of Run has no case for FatalLevel. *)
WrittenAs(level) == IF level = "fatal" THEN "info" ELSE level

RunUndrained ==
  /\ runner = "running"
  /\ \/ Write(WrittenAs(Head(buffer))) /\ UNCHANGED runner
     \/ /\ logStopped
        /\ runner' = "done"
        /\ UNCHANGED <<threshold, buffer, logStopped, silenced>>

RunOnce ==
  /\ runner = "running"
  /\ Write(WrittenAs(Head(buffer)))
  /\ runner' = "done"

(* The select of Run picks any of its branches that is ready. *)
RunStep ==
  /\ runner = "running"
  /\ \/ Write(WrittenAs(Head(buffer))) /\ UNCHANGED runner
     \/ /\ logStopped
        /\ runner' = "draining"
        /\ UNCHANGED <<threshold, buffer, logStopped, silenced>>

(* What is left is written at the info level, until the channel is empty. *)
Drain ==
  /\ runner = "draining"
  /\ \/ Write("info") /\ UNCHANGED runner
     \/ /\ buffer = <<>>
        /\ runner' = "done"
        /\ UNCHANGED <<threshold, buffer, logStopped, silenced>>

RunnerStep == RunStep \/ Drain

=============================================================================
