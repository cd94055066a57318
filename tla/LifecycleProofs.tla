--------------------------- MODULE LifecycleProofs ---------------------------
(***************************************************************************)
(* Proofs about Lifecycle for any number of handlers, calls and attempts,  *)
(* any capacity of the log and any levels: what the stages of main imply   *)
(* about the goroutines is an inductive invariant.                         *)
(***************************************************************************)
EXTENDS Lifecycle, SequenceTheorems, TLAPS

(* The sets of stages are enumerations, and are always expanded. *)
USE DEF Starting, Stopping, LoggerTold, PostgresShut, RedisShut, RetrierEnded,
        RetrierTold, WorkerEnded, WorkerTold, ServerEnded

(* All a step of anything but the logger does to the log. *)
Logs == Quiet \/ \E level \in Level : Log(level)

LEMMA Levels == {"debug", "info", "warn", "error", "fatal"} = Level
BY DEF Level, Rank

LEMMA LogsFacts ==
  ASSUME LogTypeOK, Logs
  PROVE  /\ LogTypeOK'
         /\ UNCHANGED <<threshold, runner, logStopped, silenced>>
<1>1. CASE Quiet
  BY <1>1 DEF Quiet, logVars, LogTypeOK
<1>2. ASSUME NEW level \in Level, Log(level)
      PROVE  LogTypeOK' /\ UNCHANGED <<threshold, runner, logStopped, silenced>>
  <2>1. Append(buffer, level) \in Seq(Level) /\ Len(Append(buffer, level)) = Len(buffer) + 1
    BY DEF LogTypeOK
  <2> QED
    BY <1>2, <2>1, BuffSizeAssumption DEF Log, Put, LogTypeOK
<1> QED
  BY <1>1, <1>2 DEF Logs

(* Before the deadline a stopped logger has outlived the handlers and the worker. *)
LEMMA StoppedLoggerIsLast ==
  ASSUME LifecycleInv, runner = "done", ~expired, ~Over
  PROVE  Idle /\ worker = "done" /\ main = "awaitLogger"
BY DEF LifecycleInv, LogOK, StageOK, EndedOK, Over

-----------------------------------------------------------------------------
THEOREM InitOK == Init => LifecycleInv
<1> SUFFICES ASSUME Init PROVE LifecycleInv
  OBVIOUS
<1>1. TypeOK
  <2>1. LogTypeOK
    <3>1. <<>> \in Seq(Level) /\ Len(<<>>) <= BuffSize
      BY BuffSizeAssumption, EmptySeq
    <3> QED
      BY <3>1 DEF Init, LogInit, LogTypeOK
  <2>2. at \in [Handlers -> {"idle", "working"} \cup Store]
    BY DEF Init
  <2>3. left \in [Handlers -> 0 .. MaxCalls] /\ tries \in 0 .. MaxAttempts
    BY BoundsAssumption DEF Init
  <2> QED
    BY <2>1, <2>2, <2>3 DEF Init, TypeOK
<1>2. StageOK /\ EndedOK /\ LogOK /\ StoppedInOrder
  BY DEF Init, LogInit, StageOK, EndedOK, LogOK, StoppedInOrder
<1> QED
  BY <1>1, <1>2 DEF LifecycleInv

-----------------------------------------------------------------------------
(* A stage of Build or Start. *)
LEMMA StartKeeps ==
  ASSUME LifecycleInv, StartStep
  PROVE  LifecycleInv'
<1> USE DEF LifecycleInv
<1>1. CASE BeginLogging
  BY <1>1 DEF BeginLogging, StartLogger, goroutines, handlerVars, workerVars, TypeOK, LogTypeOK, StageOK, EndedOK, LogOK, StoppedInOrder, Idle
<1>2. CASE ~BeginLogging
  <2> DEFINE Silent ==
        /\ Logs
        /\ UNCHANGED <<expired, stopped, handlerVars, tries>>
        /\ main \in Starting
  <2>1. /\ Silent
        /\ \/ /\ main' \in Starting \cup {"died"}
              /\ UNCHANGED <<listener, worker, retrier>>
              /\ \/ main = "postgres" /\ main' = "redis" /\ open' = open \cup {"postgres"}
                 \/ main = "redis" /\ main' = "start" /\ open' = open \cup {"redis"}
                 \/ main' = "died" /\ open' = {}
                 \/ main \notin {"postgres", "redis", "start"} /\ open' = open
                    /\ main' \notin {"postgres", "redis", "start"}
           \/ main = "workers" /\ main' = "retrier" /\ worker' = "loop" /\ UNCHANGED <<open, listener, retrier>>
           \/ main = "retrier" /\ main' = "listen" /\ retrier' = "wait" /\ UNCHANGED <<open, listener, worker>>
           \/ main = "listen" /\ main' = "serving" /\ listener' = "starting" /\ UNCHANGED <<open, worker, retrier>>
    BY <1>2, Levels DEF StartStep, ConnectPostgres, ConnectRedis, Connect, Announce, WarmUp,
       StartQueue, StartRetryWorker, StartServer, Logs, goroutines, handlerVars, workerVars, TypeOK, Store
  <2>2. LogTypeOK' /\ UNCHANGED <<threshold, runner, logStopped, silenced>>
    BY <2>1, LogsFacts DEF TypeOK
  <2>3. TypeOK'
    BY <2>1, <2>2 DEF TypeOK, Store, handlerVars
  <2>4. stopped = {} /\ ~logStopped /\ runner \notin {"draining", "done"}
    BY <2>1 DEF StageOK, LogOK, TypeOK
  <2>5. StageOK'
    BY <2>1, <2>2, <2>4 DEF handlerVars, StageOK
  <2>6. EndedOK' /\ LogOK'
    BY <2>1, <2>2, <2>4 DEF handlerVars, EndedOK, LogOK
  <2>7. StoppedInOrder'
    BY <2>1, <2>2, <2>4 DEF handlerVars, StoppedInOrder, StageOK
  <2> QED
    BY <2>3, <2>5, <2>6, <2>7
<1> QED
  BY <1>1, <1>2

-----------------------------------------------------------------------------
(* A stage of Stop. *)
LEMMA StopKeeps ==
  ASSUME LifecycleInv, StopStep
  PROVE  LifecycleInv'
<1> USE DEF LifecycleInv
<1>1. CASE EndLogging
  <2>1. LogTypeOK' /\ UNCHANGED <<threshold, runner, silenced>> /\ logStopped' = TRUE
    <3>1. Append(buffer, "info") \in Seq(Level) /\ Len(Append(buffer, "info")) = Len(buffer) + 1
      BY Levels DEF TypeOK, LogTypeOK
    <3> QED
      BY <1>1, <3>1, BuffSizeAssumption DEF EndLogging, StopLogger, Put, TypeOK, LogTypeOK
  <2>2. main = "stopLogger" /\ main' = "awaitLogger" /\ runner # "done"
        /\ UNCHANGED <<expired, open, stopped, goroutines>>
    BY <1>1 DEF EndLogging, StageOK, LogOK
  <2> QED
    BY <2>1, <2>2 DEF goroutines, handlerVars, workerVars, TypeOK, Store,
       StageOK, EndedOK, LogOK, StoppedInOrder, Idle
<1>2. CASE ~EndLogging
  <2>1. /\ Logs
        /\ UNCHANGED <<expired, handlerVars, workerVars>>
        /\ main # "awaitLogger" \/ (Quiet /\ UNCHANGED listener)
        /\ main \in Stopping
    BY <1>2, Levels DEF StopStep, StopServer, Await, Cancel, Close, RedisClosed,
       PostgresClosed, Exit, Logs, goroutines
  <2>2. LogTypeOK' /\ UNCHANGED <<threshold, runner, logStopped, silenced>>
    BY <2>1, LogsFacts DEF TypeOK
  <2>3. LogOK'
    BY <2>1, <2>2 DEF LogOK, StageOK, Quiet, logVars
  <2> USE <2>1, <2>2, <2>3 DEF TypeOK, StageOK, EndedOK, StoppedInOrder, handlerVars,
          workerVars, Idle
  <2>4. CASE StopServer
    BY <2>4 DEF StopServer
  <2>5. CASE Await("awaitServer", Idle, "stopQueue")
    BY <2>5 DEF Await, goroutines
  <2>6. CASE Cancel("stopQueue", "queue", "awaitQueue")
    BY <2>6 DEF Cancel, goroutines
  <2>7. CASE Await("awaitQueue", worker = "done", "stopRetry")
    BY <2>7 DEF Await, goroutines
  <2>8. CASE Cancel("stopRetry", "retry", "awaitRetry")
    BY <2>8 DEF Cancel, goroutines
  <2>9. CASE Await("awaitRetry", retrier = "done", "closeRedis")
    BY <2>9 DEF Await, goroutines
  <2>10. CASE Close("closeRedis", "redis", "awaitRedis")
    <3>1. /\ main = "closeRedis" /\ main' = "awaitRedis"
          /\ open' = open \ {"redis"} /\ UNCHANGED <<stopped, listener>>
      BY <2>10 DEF Close, goroutines
    <3>2. TypeOK'
      BY <3>1
    <3>3. StageOK'
      BY <3>1
    <3> QED
      BY <3>1, <3>2, <3>3
  <2>11. CASE RedisClosed
    BY <2>11 DEF RedisClosed, goroutines
  <2>12. CASE Close("closePostgres", "postgres", "awaitPostgres")
    <3>1. /\ main = "closePostgres" /\ main' = "awaitPostgres"
          /\ open' = open \ {"postgres"} /\ UNCHANGED <<stopped, listener>>
      BY <2>12 DEF Close, goroutines
    <3>2. TypeOK'
      BY <3>1
    <3>3. StageOK'
      BY <3>1
    <3> QED
      BY <3>1, <3>2, <3>3
  <2>13. CASE PostgresClosed
    BY <2>13 DEF PostgresClosed, goroutines
  <2>14. CASE Exit
    BY <2>14 DEF Exit, goroutines
  <2> QED
    BY <1>2, <2>4, <2>5, <2>6, <2>7, <2>8, <2>9, <2>10, <2>11, <2>12,
       <2>13, <2>14 DEF StopStep
<1> QED
  BY <1>1, <1>2

-----------------------------------------------------------------------------
(* The signal, the deadline and the end of the process. *)
LEMMA OutsideKeeps ==
  ASSUME LifecycleInv, ~Over, Signal \/ Expire \/ Kill
  PROVE  LifecycleInv'
<1> USE DEF LifecycleInv, goroutines, handlerVars, workerVars, Quiet, logVars, Idle,
        TypeOK, LogTypeOK, StageOK, EndedOK, LogOK, StoppedInOrder
<1>1. CASE Signal
  BY <1>1 DEF Signal
<1>2. CASE Expire
  BY <1>2 DEF Expire
<1>3. CASE Kill
  BY <1>3 DEF Kill, Over
<1> QED
  BY <1>1, <1>2, <1>3

(* A goroutine that logs leaves everything about main and the others alone. *)
LEMMA ListenerKeeps ==
  ASSUME LifecycleInv, ~Over, ListenerStep
  PROVE  LifecycleInv'
<1> USE DEF LifecycleInv
<1>1. /\ Logs
      /\ listener \in {"starting", "binding"}
      /\ UNCHANGED <<process, handlerVars, workerVars>>
      /\ \/ Quiet /\ listener' \in {"binding", "closed"}
         \/ Quiet /\ listener' = "listening" /\ main \notin Stopping \ {"stopServer"}
         \/ Log("fatal") /\ listener' = "failed"
  BY Levels DEF ListenerStep, Logs, ShuttingDown
<1>2. LogTypeOK' /\ UNCHANGED <<threshold, runner, logStopped, silenced>>
  BY <1>1, LogsFacts DEF TypeOK
<1>3. main \notin Starting /\ main # "exited" /\ main # "died" /\ main' = main
  BY <1>1 DEF StageOK, Over, process
<1>4. TypeOK' /\ StageOK'
  BY <1>1, <1>2, <1>3 DEF TypeOK, StageOK, process, handlerVars, workerVars
<1>5. EndedOK' /\ StoppedInOrder'
  BY <1>1, <1>2, <1>3 DEF TypeOK, StageOK, EndedOK, StoppedInOrder, Idle, process,
     handlerVars, workerVars
<1>6. LogOK'
  <2>1. CASE Quiet
    BY <1>1, <1>2, <2>1 DEF LogOK, Quiet, logVars, process
  <2>2. CASE Log("fatal") /\ listener' = "failed" /\ runner = "done" /\ ~expired
    <3>1. buffer = <<>> /\ buffer \in Seq(Level)
      BY <1>1, <2>2 DEF LogOK, TypeOK, LogTypeOK
    <3>2. Append(<<>>, "fatal") = <<"fatal">>
      OBVIOUS
    <3> QED
      BY <1>1, <1>2, <2>2, <3>1, <3>2, BuffSizeAssumption DEF LogOK, Log, Put, process
  <2>3. CASE runner # "done" \/ expired
    BY <1>1, <1>2, <2>3 DEF LogOK, process
  <2> QED
    BY <1>1, <2>1, <2>2, <2>3
<1> QED
  BY <1>4, <1>5, <1>6

LEMMA HandlerKeeps ==
  ASSUME LifecycleInv, ~Over, NEW h \in Handlers, HandlerStep(h)
  PROVE  LifecycleInv'
<1> USE DEF LifecycleInv
<1> DEFINE OnlyLogs ==
      /\ Logs
      /\ UNCHANGED <<process, listener, workerVars>>
      /\ at' \in [Handlers -> {"idle", "working"} \cup Store]
      /\ left' \in [Handlers -> 0 .. MaxCalls]
      /\ at[h] # "idle" \/ listener = "listening"
<1>1. OnlyLogs
  <2> USE Levels DEF TypeOK, Logs, Trouble, Store
  <2>1. CASE Accept(h)
    BY <2>1, BoundsAssumption DEF Accept
  <2>2. ASSUME NEW s \in Store, BeginCall(h, s)
        PROVE  OnlyLogs
    BY <2>2, BoundsAssumption DEF BeginCall
  <2>3. CASE EndCall(h)
    BY <2>3 DEF EndCall
  <2>4. CASE Respond(h)
    BY <2>4, BoundsAssumption DEF Respond
  <2> QED
    BY <2>1, <2>2, <2>3, <2>4 DEF HandlerStep
<1>2. LogTypeOK' /\ UNCHANGED <<threshold, runner, logStopped, silenced>>
  BY <1>1, LogsFacts DEF TypeOK
<1>3. runner # "done" \/ expired
  BY <1>1, StoppedLoggerIsLast DEF StageOK, Over, Idle
<1>4. expired \/ ("queue" \notin stopped /\ main \notin ServerEnded)
  <2>1. at[h] # "idle" \/ listener = "listening"
    BY <1>1
  <2>2. CASE at[h] # "idle"
    BY <2>2 DEF EndedOK, StoppedInOrder, Idle
  <2>3. CASE listener = "listening"
    BY <2>3 DEF StageOK, StoppedInOrder, Over
  <2> QED
    BY <2>1, <2>2, <2>3
<1>5. TypeOK' /\ StageOK' /\ LogOK'
  BY <1>1, <1>2, <1>3 DEF TypeOK, StageOK, LogOK, process, workerVars
<1>6. EndedOK' /\ StoppedInOrder'
  BY <1>1, <1>2, <1>4 DEF EndedOK, StoppedInOrder, process, workerVars
<1> QED
  BY <1>5, <1>6

LEMMA WorkerKeeps ==
  ASSUME LifecycleInv, ~Over, WorkerStep
  PROVE  LifecycleInv'
<1> USE DEF LifecycleInv
<1>1. /\ Logs
      /\ UNCHANGED <<process, listener, handlerVars, retrier>>
      /\ worker # "done"
      /\ worker' \in {"loop", "pop", "send", "pause", "done"}
      /\ tries' \in 0 .. MaxAttempts
  BY Levels, BoundsAssumption DEF WorkerStep, Loop, Pop, Send, Pause, Logs, TypeOK
<1>2. LogTypeOK' /\ UNCHANGED <<threshold, runner, logStopped, silenced>>
  BY <1>1, LogsFacts DEF TypeOK
<1>3. runner # "done" \/ expired
  BY <1>1, StoppedLoggerIsLast
<1>4. TypeOK' /\ StageOK' /\ LogOK'
  BY <1>1, <1>2, <1>3 DEF TypeOK, StageOK, LogOK, process, handlerVars
<1>5. EndedOK' /\ StoppedInOrder'
  BY <1>1, <1>2 DEF EndedOK, StoppedInOrder, Idle, process, handlerVars
<1> QED
  BY <1>4, <1>5

LEMMA RetrierKeeps ==
  ASSUME LifecycleInv, ~Over, Retry \/ RetryEnds
  PROVE  LifecycleInv'
<1>1. /\ UNCHANGED <<logVars, process, listener, handlerVars, worker, tries>>
      /\ retrier # "done"
      /\ retrier' \in {"wait", "set", "done"}
  BY DEF Retry, RetryEnds, Quiet
<1> QED
  BY <1>1 DEF LifecycleInv, TypeOK, LogTypeOK, StageOK, EndedOK, LogOK, StoppedInOrder, Idle,
     logVars, process, handlerVars

LEMMA LoggerKeeps ==
  ASSUME LifecycleInv, ~Over, LoggerStep
  PROVE  LifecycleInv'
<1> USE DEF LifecycleInv
<1>1. /\ UNCHANGED <<process, goroutines, threshold, logStopped>>
      /\ runner \in {"running", "draining"}
      /\ runner' \in {"running", "draining", "done"}
      /\ runner' # "running" => logStopped
      /\ runner' = "done" => buffer' = <<>>
      /\ \/ UNCHANGED <<buffer, silenced>>
         \/ /\ buffer # <<>> /\ buffer' = Tail(buffer)
            /\ silenced' \in {silenced, silenced \cup {Head(buffer)}}
  BY DEF LoggerStep, RunnerStep, RunStep, Drain, Write, LogOK
<1>2. LogTypeOK'
  <2>1. buffer # <<>> =>
          Tail(buffer) \in Seq(Level) /\ Len(Tail(buffer)) = Len(buffer) - 1 /\ Head(buffer) \in Level
    BY HeadTailProperties DEF TypeOK, LogTypeOK
  <2>2. CASE UNCHANGED <<buffer, silenced>>
    BY <1>1, <2>2 DEF TypeOK, LogTypeOK
  <2>3. CASE buffer # <<>> /\ buffer' = Tail(buffer)
    <3>1. silenced' \subseteq Level
      BY <1>1, <2>1, <2>3 DEF TypeOK, LogTypeOK
    <3>2. Len(buffer') <= BuffSize
      BY <2>1, <2>3, BuffSizeAssumption, LenProperties DEF TypeOK, LogTypeOK
    <3> QED
      BY <1>1, <2>1, <2>3, <3>1, <3>2 DEF TypeOK, LogTypeOK
  <2> QED
    BY <1>1, <2>2, <2>3
<1>3. TypeOK' /\ StageOK' /\ LogOK'
  BY <1>1, <1>2 DEF TypeOK, StageOK, LogOK, process, goroutines, handlerVars, workerVars
<1>4. EndedOK' /\ StoppedInOrder'
  BY <1>1 DEF EndedOK, StoppedInOrder, Idle, Over, process, goroutines, handlerVars, workerVars
<1> QED
  BY <1>3, <1>4

-----------------------------------------------------------------------------
LEMMA Step ==
  ASSUME LifecycleInv, [Next]_vars
  PROVE  LifecycleInv'
<1>1. CASE Next
  BY <1>1, StartKeeps, StopKeeps, OutsideKeeps, ListenerKeeps, HandlerKeeps, WorkerKeeps,
     RetrierKeeps, LoggerKeeps DEF Next, MainStep
<1>2. CASE UNCHANGED vars
  BY <1>2 DEF vars, logVars, handlerVars, workerVars, LifecycleInv, TypeOK, LogTypeOK,
     StageOK, EndedOK, LogOK, StoppedInOrder, Idle
<1> QED
  BY <1>1, <1>2

(***************************************************************************)
(* In every run of the process the types hold, what main has told its      *)
(* parts and what of them has ended fit its stage, and until the deadline  *)
(* the parts end in the order of Container.Stop.                           *)
(***************************************************************************)
THEOREM Invariance == Spec => []LifecycleInv
BY InitOK, Step, PTL DEF Spec

(* The type invariant of the lifecycle, for any number of requests. *)
THEOREM TypeCorrect == Spec => []TypeOK
<1>1. LifecycleInv => TypeOK
  BY DEF LifecycleInv
<1> QED
  BY <1>1, Invariance, PTL

(***************************************************************************)
(* Before the deadline nothing that runs is left without what it uses: the *)
(* order of Container.Stop.                                                *)
(***************************************************************************)
THEOREM StopsInOrder == Spec => []StoppedInOrder
<1>1. LifecycleInv => StoppedInOrder
  BY DEF LifecycleInv
<1> QED
  BY <1>1, Invariance, PTL

(***************************************************************************)
(* A process that exits before the deadline of Stop leaves no request, no  *)
(* worker, no client and no message behind, but perhaps the last one of a  *)
(* listener that failed late.                                              *)
(***************************************************************************)
THEOREM ExitsClean == Spec => []CleanExit
<1>1. LifecycleInv => CleanExit
  BY DEF LifecycleInv, StageOK, EndedOK, LogOK, CleanExit, TypeOK, Store
<1> QED
  BY <1>1, Invariance, PTL

-----------------------------------------------------------------------------
(* Only a message that was logged as Fatal is written below its own level before the stop. *)
LEMMA SilencesFatalOnly ==
  ASSUME LifecycleInv, SilencedOnlyAtStop, [Next]_vars
  PROVE  SilencedOnlyAtStop'
<1>1. CASE LoggerStep
  <2>1. ~logStopped => runner # "draining"
    BY DEF LifecycleInv, LogOK
  <2>2. CASE RunStep
    <3>1. WrittenAs(Head(buffer)) # Head(buffer) => Head(buffer) = "fatal"
      BY DEF WrittenAs
    <3> QED
      BY <2>2, <3>1 DEF RunStep, Write, SilencedOnlyAtStop
  <2>3. CASE Drain
    BY <2>1, <2>3 DEF Drain, Write, SilencedOnlyAtStop
  <2> QED
    BY <1>1, <2>2, <2>3 DEF LoggerStep, RunnerStep
<1>2. CASE Logs
  BY <1>2, LogsFacts DEF LifecycleInv, TypeOK, SilencedOnlyAtStop
<1>3. CASE BeginLogging \/ EndLogging
  BY <1>3 DEF BeginLogging, EndLogging, StartLogger, StopLogger, SilencedOnlyAtStop
<1>4. Next => LoggerStep \/ Logs \/ BeginLogging \/ EndLogging
  BY Levels DEF Next, MainStep, StartStep, ConnectPostgres, ConnectRedis, Connect,
     Announce, WarmUp, StartQueue, StartRetryWorker, StartServer, StopStep, StopServer, Await, Cancel, Close, RedisClosed,
     PostgresClosed, Exit, Signal, Expire, Kill, ListenerStep, WorkerStep, Loop, Pop, Send,
     Pause, Retry, RetryEnds, HandlerStep, Accept, BeginCall, EndCall, Respond, Trouble, Logs
<1>5. CASE UNCHANGED vars
  BY <1>5 DEF vars, logVars, SilencedOnlyAtStop
<1> QED
  BY <1>1, <1>2, <1>3, <1>4, <1>5

(***************************************************************************)
(* The switch of Run hands every level but Fatal to zap as it is: until    *)
(* the logger is told to stop no warning or error is lost to LOGGER_LEVEL. *)
(***************************************************************************)
THEOREM SilencesOnlyAtStop == Spec => []SilencedOnlyAtStop
<1>1. Init => SilencedOnlyAtStop
  BY DEF Init, LogInit, SilencedOnlyAtStop
<1> QED
  BY <1>1, SilencesFatalOnly, Invariance, PTL DEF Spec

=============================================================================
