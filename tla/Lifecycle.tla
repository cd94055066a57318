------------------------------ MODULE Lifecycle ------------------------------
(***************************************************************************)
(* One run of the process (internal/app, internal/di): Build and Start,    *)
(* the signal, and the steps of Stop, which share one deadline of 15 s.    *)
(* Around it the goroutines that Start and Stop must order: the listener,  *)
(* the handlers, the queue worker, the retry worker and the logger.  What  *)
(* the goroutines compute is in Incidents and LocationChecks; here they    *)
(* only use the stores, log and end.                                       *)
(***************************************************************************)
EXTENDS AsyncLogger

CONSTANTS
  Handlers,     \* requests served at a time
  MaxCalls,     \* calls of the stores one request makes at most, retries included
  MaxAttempts   \* RETRY_ATTEMPTS

ASSUME BoundsAssumption == MaxCalls \in Nat /\ MaxAttempts \in Nat

Store == {"redis", "postgres"}

VARIABLES
  main,       \* the stage app.Run has reached
  expired,    \* the deadline of the context of Stop has passed
  open,       \* the stores whose client is open
  stopped,    \* the workers whose context is cancelled
  listener,   \* the goroutine of ListenAndServe
  at,         \* at[h]: the handler is idle, working, or in a call of a store
  left,       \* left[h]: the calls it may still make
  worker,     \* the goroutine of Redis.Run
  tries,      \* the POSTs of its task that have failed
  retrier     \* the goroutine of CacheRetryQueue.Run

handlerVars == <<at, left>>
workerVars == <<worker, tries, retrier>>
vars == <<logVars, main, expired, open, stopped, listener, handlerVars, workerVars>>

Starting ==
  {"postgres", "redis", "start", "announce", "prepare", "warmUp", "workers", "retrier",
   "listen"}

Stopping ==
  {"stopServer", "awaitServer", "stopQueue", "awaitQueue", "stopRetry", "awaitRetry",
   "closeRedis", "awaitRedis", "closePostgres", "awaitPostgres", "stopLogger", "awaitLogger"}

Over == main \in {"exited", "died"}

TypeOK ==
  /\ LogTypeOK
  /\ main \in Starting \cup {"serving"} \cup Stopping \cup {"exited", "died"}
  /\ expired \in BOOLEAN
  /\ open \subseteq Store
  /\ stopped \subseteq {"queue", "retry"}
  /\ listener \in {"off", "starting", "binding", "listening", "failed", "closed"}
  /\ at \in [Handlers -> {"idle", "working"} \cup Store]
  /\ left \in [Handlers -> 0 .. MaxCalls]
  /\ worker \in {"off", "loop", "pop", "send", "pause", "done"}
  /\ tries \in 0 .. MaxAttempts
  /\ retrier \in {"off", "wait", "set", "done"}

Init ==
  /\ LogInit
  /\ main = "postgres"
  /\ expired = FALSE
  /\ open = {}
  /\ stopped = {}
  /\ listener = "off"
  /\ at = [h \in Handlers |-> "idle"]
  /\ left = [h \in Handlers |-> 0]
  /\ worker = "off"
  /\ tries = 0
  /\ retrier = "off"

-----------------------------------------------------------------------------
(* Build and Start.  An error ends the process at once (log.Fatalf). *)

goroutines == <<listener, handlerVars, workerVars>>

(* NewPostgres and NewRedis log before there is a goroutine that writes. *)
Connect(s, next) ==
  /\ main = s
  /\ \/ Log("info") /\ open' = open \cup {s} /\ main' = next
     \/ Quiet /\ open' = {} /\ main' = "died"
  /\ UNCHANGED <<expired, stopped, goroutines>>

ConnectPostgres == Connect("postgres", "redis")
ConnectRedis == Connect("redis", "start")

BeginLogging ==
  /\ main = "start"
  /\ StartLogger
  /\ main' = "announce"
  /\ UNCHANGED <<expired, open, stopped, goroutines>>

Announce(stage, next) ==
  /\ main = stage
  /\ Log("info")
  /\ main' = next
  /\ UNCHANGED <<expired, open, stopped, goroutines>>

(* Redis.Ping and Redis.WarmUp. *)
WarmUp ==
  /\ main = "warmUp"
  /\ \/ Log("info") /\ main' = "workers"
     \/ Quiet /\ main' = "died"
  /\ UNCHANGED <<expired, open, stopped, goroutines>>

StartQueue ==
  /\ main = "workers"
  /\ Log("info")
  /\ worker' = "loop"
  /\ main' = "retrier"
  /\ UNCHANGED <<expired, open, stopped, listener, handlerVars, tries, retrier>>

StartRetryWorker ==
  /\ main = "retrier"
  /\ Log("info")
  /\ retrier' = "wait"
  /\ main' = "listen"
  /\ UNCHANGED <<expired, open, stopped, listener, handlerVars, worker, tries>>

(* The listener is a goroutine of its own: Start returns whatever becomes of it. *)
StartServer ==
  /\ main = "listen"
  /\ Log("info")
  /\ listener' = "starting"
  /\ main' = "serving"
  /\ UNCHANGED <<expired, open, stopped, handlerVars, workerVars>>

StartStep ==
  \/ ConnectPostgres \/ ConnectRedis
  \/ BeginLogging \/ Announce("announce", "prepare") \/ Announce("prepare", "warmUp")
  \/ WarmUp
  \/ StartQueue \/ StartRetryWorker \/ StartServer

-----------------------------------------------------------------------------
(* Stop.  Every wait is a select between its goroutine and the deadline. *)

Signal ==
  /\ main = "serving"
  /\ main' = "stopServer"
  /\ Quiet
  /\ UNCHANGED <<expired, open, stopped, goroutines>>

Expire ==
  /\ main \in Stopping
  /\ ~expired
  /\ expired' = TRUE
  /\ Quiet
  /\ UNCHANGED <<main, open, stopped, goroutines>>

AwaitForever(stage, finished, next) ==
  /\ main = stage
  /\ finished
  /\ Quiet
  /\ main' = next
  /\ UNCHANGED <<expired, open, stopped, goroutines>>

AwaitNothing(stage, finished, next) ==
  /\ main = stage
  /\ Quiet
  /\ main' = next
  /\ UNCHANGED <<expired, open, stopped, goroutines>>

Await(stage, finished, next) ==
  /\ main = stage
  /\ \/ finished /\ Quiet
     \/ expired /\ Log("error")
  /\ main' = next
  /\ UNCHANGED <<expired, open, stopped, goroutines>>

(* Server.Shutdown closes the listener, ... *)
StopServer ==
  /\ main = "stopServer"
  /\ Log("info")
  /\ listener' = IF listener = "listening" THEN "closed" ELSE listener
  /\ main' = "awaitServer"
  /\ UNCHANGED <<expired, open, stopped, handlerVars, workerVars>>

(* ... and waits until no connection has a request. *)
Idle == \A h \in Handlers : at[h] = "idle"

CancelForgotten(stage, w, next) ==
  /\ main = stage
  /\ Log("info")
  /\ main' = next
  /\ UNCHANGED <<expired, open, stopped, goroutines>>

Cancel(stage, w, next) ==
  /\ main = stage
  /\ Log("info")
  /\ stopped' = stopped \cup {w}
  /\ main' = next
  /\ UNCHANGED <<expired, open, goroutines>>

Close(stage, s, next) ==
  /\ main = stage
  /\ Log("info")
  /\ open' = open \ {s}
  /\ main' = next
  /\ UNCHANGED <<expired, stopped, goroutines>>

(* Redis.Close may return an error, which is logged. *)
RedisClosed ==
  /\ main = "awaitRedis"
  /\ Quiet \/ Log("error")
  /\ main' = "closePostgres"
  /\ UNCHANGED <<expired, open, stopped, goroutines>>

(* Pool.Close has no context: it waits for every connection lent to a call. *)
PostgresClosed ==
  /\ main = "awaitPostgres"
  /\ \A h \in Handlers : at[h] # "postgres"
  /\ Quiet
  /\ main' = "stopLogger"
  /\ UNCHANGED <<expired, open, stopped, goroutines>>

(* The line and the cancel are one step: main does nothing between them. *)
EndLogging ==
  /\ main = "stopLogger"
  /\ StopLogger /\ Put("info")
  /\ main' = "awaitLogger"
  /\ UNCHANGED <<expired, open, stopped, goroutines>>

Exit ==
  /\ main = "awaitLogger"
  /\ runner = "done" \/ expired
  /\ Quiet
  /\ main' = "exited"
  /\ UNCHANGED <<expired, open, stopped, goroutines>>

StopStep ==
  \/ StopServer \/ Await("awaitServer", Idle, "stopQueue")
  \/ Cancel("stopQueue", "queue", "awaitQueue")
  \/ Await("awaitQueue", worker = "done", "stopRetry")
  \/ Cancel("stopRetry", "retry", "awaitRetry")
  \/ Await("awaitRetry", retrier = "done", "closeRedis")
  \/ Close("closeRedis", "redis", "awaitRedis") \/ RedisClosed
  \/ Close("closePostgres", "postgres", "awaitPostgres") \/ PostgresClosed
  \/ EndLogging \/ Exit

-----------------------------------------------------------------------------
(* The goroutines. *)

process == <<main, expired, open, stopped>>

ShuttingDown == main \in Stopping \ {"stopServer"}

(***************************************************************************)
(* ListenAndServe returns ErrServerClosed once Shutdown has begun, and     *)
(* fails if it cannot bind (a host name may take its time to resolve):     *)
(* that is logged as Fatal, and ends nothing.                              *)
(***************************************************************************)
ListenerStep ==
  /\ \/ /\ listener = "starting"
        /\ listener' = IF ShuttingDown THEN "closed" ELSE "binding"
        /\ Quiet
     \/ /\ listener = "binding"
        /\ \/ listener' = (IF ShuttingDown THEN "closed" ELSE "listening") /\ Quiet
           \/ listener' = "failed" /\ Log("fatal")
  /\ UNCHANGED <<process, handlerVars, workerVars>>

Accept(h) ==
  /\ listener = "listening"
  /\ at[h] = "idle"
  /\ at' = [at EXCEPT ![h] = "working"]
  /\ left' = [left EXCEPT ![h] = MaxCalls]
  /\ Quiet
  /\ UNCHANGED <<process, listener, workerVars>>

(* What the services log of a call that failed or found nothing. *)
Trouble == \E level \in {"debug", "warn", "error"} : Log(level)

(* A call on a closed client fails at once. *)
BeginCall(h, s) ==
  /\ at[h] = "working"
  /\ left[h] > 0
  /\ left' = [left EXCEPT ![h] = @ - 1]
  /\ IF s \in open THEN at' = [at EXCEPT ![h] = s] /\ Quiet ELSE UNCHANGED at /\ Trouble
  /\ UNCHANGED <<process, listener, workerVars>>

EndCall(h) ==
  /\ at[h] \in Store
  /\ at' = [at EXCEPT ![h] = "working"]
  /\ Quiet \/ Trouble
  /\ UNCHANGED <<process, listener, left, workerVars>>

(* The handler has no call left to make, or returns early; LoggerMiddleware logs. *)
Respond(h) ==
  /\ at[h] = "working"
  /\ at' = [at EXCEPT ![h] = "idle"]
  /\ left' = [left EXCEPT ![h] = 0]
  /\ Log("info")
  /\ UNCHANGED <<process, listener, workerVars>>

HandlerStep(h) ==
  Accept(h) \/ (\E s \in Store : BeginCall(h, s)) \/ EndCall(h) \/ Respond(h)

(* Redis.Run looks at its context between two tasks, ... *)
Loop ==
  /\ worker = "loop"
  /\ IF "queue" \in stopped THEN worker' = "done" /\ Log("info") ELSE worker' = "pop" /\ Quiet
  /\ UNCHANGED tries

(* ... under BRPOP, which brings a task or an error (at once if Redis is closed), ... *)
Pop ==
  /\ worker = "pop"
  /\ \/ "redis" \in open /\ Quiet /\ worker' = IF MaxAttempts = 0 THEN "loop" ELSE "send"
     \/ Log("error") /\ worker' = "loop"
     \/ "queue" \in stopped /\ Quiet /\ worker' = "done"
  /\ UNCHANGED tries

(* ... and between two attempts of retry.Do, but not during a POST. *)
Send ==
  /\ worker = "send"
  /\ \/ Log("info") /\ worker' = "loop" /\ tries' = 0
     \/ tries + 1 = MaxAttempts /\ Log("error") /\ worker' = "loop" /\ tries' = 0
     \/ tries + 1 < MaxAttempts /\ Quiet /\ worker' = "pause" /\ tries' = tries + 1

Pause ==
  /\ worker = "pause"
  /\ \/ Quiet /\ worker' = "send" /\ UNCHANGED tries
     \/ "queue" \in stopped /\ Log("error") /\ worker' = "loop" /\ tries' = 0

WorkerStep ==
  /\ Loop \/ Pop \/ Send \/ Pause
  /\ UNCHANGED <<process, listener, handlerVars, retrier>>

(* CacheRetryQueue.Run: the select of the channel and the context, and a Redis.Set. *)
Retry ==
  /\ \/ retrier = "wait" /\ retrier' = "set"
     \/ retrier = "set" /\ retrier' = "wait"
  /\ Quiet
  /\ UNCHANGED <<process, listener, handlerVars, worker, tries>>

RetryEnds ==
  /\ retrier = "wait"
  /\ "retry" \in stopped
  /\ retrier' = "done"
  /\ Quiet
  /\ UNCHANGED <<process, listener, handlerVars, worker, tries>>

LoggerStep == RunnerStep /\ UNCHANGED <<process, goroutines>>

(* SIGKILL at any time, and SIGTERM before signal.Notify. *)
Kill ==
  /\ main' = "died"
  /\ Quiet
  /\ UNCHANGED <<expired, open, stopped, goroutines>>

MainStep == ~Over /\ (StartStep \/ StopStep)

Next ==
  \/ MainStep
  \/ ~Over /\ (Signal \/ Expire \/ Kill)
  \/ ~Over /\ (ListenerStep \/ WorkerStep \/ Retry \/ RetryEnds \/ LoggerStep)
  \/ \E h \in Handlers : ~Over /\ HandlerStep(h)

Spec == Init /\ [][Next]_vars

(***************************************************************************)
(* What ends by itself: the straight code of main, and the calls of a      *)
(* handler, which have timeouts.  Nothing is assumed of the workers, the   *)
(* logger or the clock.                                                    *)
(***************************************************************************)
FairSpec ==
  /\ Spec
  /\ WF_vars(MainStep)
  /\ \A h \in Handlers : WF_vars(~Over /\ (EndCall(h) \/ Respond(h)))

(***************************************************************************)
(* The goroutines are scheduled: a POST ends within 10 s, BRPOP notices    *)
(* its context, and select picks every branch that stays ready some time.  *)
(***************************************************************************)
WorkersRun ==
  /\ WF_vars(~Over /\ WorkerStep /\ worker # "pop")
  /\ WF_vars(~Over /\ WorkerStep /\ worker = "pop" /\ "queue" \in stopped)
  /\ WF_vars(~Over /\ Retry /\ retrier = "set")
  /\ SF_vars(~Over /\ RetryEnds)

LoggerRuns == WF_vars(~Over /\ LoggerStep)

-----------------------------------------------------------------------------
(***************************************************************************)
(* Until the deadline everything outlives what uses it: no handler or      *)
(* worker runs beside a closed client, a cancelled worker or a stopped     *)
(* logger that it needs, and the parts end in the order of Stop.           *)
(***************************************************************************)
StoppedInOrder ==
  expired \/
    /\ "queue" \in stopped => Idle /\ listener # "listening"
    /\ "retry" \in stopped => worker = "done"
    /\ listener # "off" /\ "redis" \notin open => retrier = "done"
    /\ logStopped => "retry" \in stopped /\ open = {}

(* The stages from which on a part has been told to stop, or has ended. *)
LoggerTold == {"awaitLogger", "exited"}
PostgresShut == {"awaitPostgres", "stopLogger"} \cup LoggerTold
RedisShut == {"awaitRedis", "closePostgres"} \cup PostgresShut
RetrierEnded == {"closeRedis"} \cup RedisShut
RetrierTold == {"awaitRetry"} \cup RetrierEnded
WorkerEnded == {"stopRetry"} \cup RetrierTold
WorkerTold == {"awaitQueue"} \cup WorkerEnded
ServerEnded == {"stopQueue"} \cup WorkerTold

(* What main has done by the stage it has reached. *)
StageOK ==
  /\ main \in RetrierTold => "retry" \in stopped
  /\ main \in WorkerTold => "queue" \in stopped
  /\ "retry" \in stopped => main \in RetrierTold \cup {"died"}
  /\ "queue" \in stopped => main \in WorkerTold \cup {"died"}
  /\ main \in RedisShut => "redis" \notin open
  /\ main \in PostgresShut => "postgres" \notin open
  /\ main \notin {"postgres", "redis", "died"} \cup RedisShut => "redis" \in open
  /\ main \notin {"postgres", "died"} \cup PostgresShut => "postgres" \in open
  /\ logStopped => main \in LoggerTold \cup {"died"}
  /\ listener = "listening" => main \in {"serving", "stopServer", "died"}
  /\ listener # "off" => main \notin Starting
  /\ runner = "off" => main \in {"postgres", "redis", "start", "died"}

(* What has ended by the stage main has reached before the deadline. *)
EndedOK ==
  expired \/
    /\ main \in ServerEnded => Idle
    /\ main \in WorkerEnded => worker = "done"
    /\ main \in RetrierEnded => retrier = "done"
    /\ main = "exited" => runner = "done"

(* Before the deadline only the listener can still log behind the logger. *)
LogOK ==
  /\ runner \in {"draining", "done"} => logStopped
  /\ runner = "done" /\ ~expired /\ buffer # <<>> => buffer = <<"fatal">> /\ listener = "failed"

(***************************************************************************)
(* The inductive invariant: what main has told the parts and what of them  *)
(* has ended fit the stage it has reached.                                 *)
(***************************************************************************)
LifecycleInv == TypeOK /\ StageOK /\ EndedOK /\ LogOK /\ StoppedInOrder

(***************************************************************************)
(* A process that exits before the deadline has answered its requests,     *)
(* ended its workers, closed both stores and handed every message in the   *)
(* channel to zap (which may discard it for its level), but perhaps the    *)
(* last one of a listener that was still binding: nobody waits for that    *)
(* goroutine.  Of an exit after the deadline it says nothing.              *)
(***************************************************************************)
CleanExit ==
  main = "exited" /\ ~expired =>
    /\ Idle /\ worker = "done" /\ retrier = "done" /\ open = {}
    /\ runner = "done"
    /\ buffer # <<>> => buffer = <<"fatal">> /\ listener = "failed"

(***************************************************************************)
(* Of the messages Run hands to zap, a warning or an error whose level is  *)
(* enabled is discarded only after the logger was told to stop, when what  *)
(* is left is written as info.  (Messages that a full channel dropped      *)
(* never come to Run: Put.)                                                *)
(***************************************************************************)
SilencedOnlyAtStop == ~logStopped => silenced \subseteq {"fatal"}

(***************************************************************************)
(* A request is answered whatever the workers and the logger do: nobody    *)
(* waits for a full log.                                                   *)
(***************************************************************************)
RequestsEnd == \A h \in Handlers : at[h] # "idle" ~> (at[h] = "idle" \/ Over)

(***************************************************************************)
(* The deadline bounds the stop: it ends although a worker, the receiver   *)
(* or the logger never does.                                               *)
(***************************************************************************)
StopEnds == WF_vars(~Over /\ Expire) => (main = "stopServer" ~> Over)

(***************************************************************************)
(* Nor does the stop need the deadline: when the goroutines are scheduled  *)
(* every wait of Stop ends by itself.                                      *)
(***************************************************************************)
StopNeedsNoDeadline ==
  WorkersRun /\ LoggerRuns => (main = "stopServer" ~> (Over \/ expired))

FailureWaits == \E k \in DOMAIN buffer : buffer[k] = "fatal"

(***************************************************************************)
(* Where LOGGER_LEVEL lets Info pass, a failure of the listener that found *)
(* a place in the channel is handed to zap and comes through its core,     *)
(* unless the process ends first, however much else is logged and whether  *)
(* or not the logger is being stopped.  (With warn or error the core       *)
(* discards it, because Run hands a Fatal over as Info.)                   *)
(***************************************************************************)
FailureIsWritten ==
  LoggerRuns /\ Enabled("info") =>
    (FailureWaits ~> (Over \/ (~FailureWaits /\ "fatal" \notin silenced)))

=============================================================================
