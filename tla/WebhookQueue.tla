---------------------------- MODULE WebhookQueue ----------------------------
(***************************************************************************)
(* The webhook queue, internal/storage/redis/redis_queue.go: the Redis     *)
(* list location_check_queue, the one worker that pops it, and the sender  *)
(* of internal/webhook/webhook.go with the receiver behind WEBHOOK_URL.    *)
(***************************************************************************)
EXTENDS Naturals, Sequences, Stores

CONSTANTS
  Checks,       \* the location checks, each by the id of its Location
  Zones,        \* incidents
  MaxAttempts,  \* RETRY_ATTEMPTS, 0 when the variable is not set
  MaxResends    \* how often go-redis itself repeats an unanswered command

ASSUME AttemptsAssumption == MaxAttempts \in Nat /\ MaxResends \in Nat

(* domain.LocationCheckTask: the location and the incidents found there. *)
Task == [check : Checks, zones : SUBSET Zones]

VARIABLES
  queue,      \* the list, from its left end to its right end
  sender,     \* the worker: in BRPOP ("pop"), after one that failed ("again"),
              \* in "send", in "backoff", or "stopped"
  hand,       \* the tasks the worker has popped and not finished, at most one
  attempt,    \* the loop variable of retry.Do
  stopping,   \* whether StopQueue has cancelled the worker's context
  receiving,  \* whether the receiver answers 200 within the client's timeout
  delivered   \* delivered[c]: the POSTs about c that reached the receiver

workerVars == <<sender, hand, attempt>>
queueVars == <<queue, workerVars, stopping, receiving, delivered>>

QueueTypeOK ==
  /\ queue \in Seq(Task)
  /\ sender \in {"pop", "again", "send", "backoff", "stopped"}
  /\ hand \in SUBSET Task
  /\ attempt \in 0 .. MaxAttempts
  /\ stopping \in BOOLEAN
  /\ receiving \in BOOLEAN
  /\ delivered \in [Checks -> Nat]

QueueInit ==
  /\ queue = <<>>
  /\ sender = "stopped"
  /\ hand = {}
  /\ attempt = 0
  /\ stopping = FALSE
  /\ receiving = TRUE
  /\ delivered = [c \in Checks |-> 0]

Copies(t, n) == [k \in 1 .. n |-> t]

(* n executions of RPUSH. *)
Push(t, n) == queue' = queue \o Copies(t, n)

EnqueueUntilAnswered(t, gone, gone2) ==
  /\ gone2 = gone
  /\ up["redis"]
  /\ Push(t, 1)

(***************************************************************************)
(* EnqueueLocationCheck.  A healthy Redis executes the RPUSH once.  When   *)
(* the connection fails under it, go-redis repeats the command, each time  *)
(* without knowing whether the last one was executed; a context that is    *)
(* done ends the call.                                                     *)
(***************************************************************************)
EnqueueLocationCheck(t, gone, gone2) ==
  \E o \in Outcome :
    /\ CallEnds("redis", o, gone, gone2)
    /\ IF o = "lost" THEN \E n \in 1 .. MaxResends + 1 : Push(t, n)
       ELSE Push(t, IF o = "ok" THEN 1 ELSE 0)

LoopUnchecked ==
  /\ sender' = "pop"
  /\ hand' = {}
  /\ attempt' = 0

(* The worker goes back to the head of its loop, which looks at its context. *)
Loop ==
  /\ sender' = IF stopping THEN "stopped" ELSE "pop"
  /\ hand' = {}
  /\ attempt' = 0

Newest == queue[Len(queue)]

WithoutNewest == SubSeq(queue, 1, Len(queue) - 1)

(* With no attempts configured retry.Do returns nil at once: the task is gone. *)
Handle(t) ==
  IF MaxAttempts = 0
  THEN Loop
  ELSE sender' = "send" /\ hand' = {t} /\ UNCHANGED attempt

(* BRPOP takes the right end of the list, the newest task. *)
Pop ==
  /\ sender = "pop"
  /\ queue # <<>>
  /\ up["redis"]
  /\ queue' = WithoutNewest
  /\ Handle(Newest)
  /\ UNCHANGED <<stopping, receiving, delivered>>

(* BRPOP fails; Redis may have taken a task off the list that nobody gets. *)
PopFails ==
  /\ sender = "pop"
  /\ ~up["redis"]
  /\ \/ UNCHANGED queue
     \/ queue # <<>> /\ queue' = WithoutNewest
  /\ sender' = "again"
  /\ UNCHANGED <<hand, attempt, stopping, receiving, delivered>>

(* The error is logged, and the loop continues at once. *)
Continue ==
  /\ sender = "again"
  /\ Loop
  /\ UNCHANGED <<queue, stopping, receiving, delivered>>

(***************************************************************************)
(* StopQueue cancels the context under the BRPOP, whose connection is      *)
(* closed, perhaps with a task in its answer.                              *)
(***************************************************************************)
PopCancelled ==
  /\ sender = "pop"
  /\ stopping
  /\ \/ UNCHANGED queue
     \/ queue # <<>> /\ queue' = WithoutNewest
  /\ Loop
  /\ UNCHANGED <<stopping, receiving, delivered>>

SendOutcomes == IF receiving THEN {"ok"} ELSE {"failed", "lost"}

Post(t, o) ==
  delivered' = IF Executed(o) THEN [delivered EXCEPT ![t.check] = @ + 1] ELSE delivered

LastAttemptLate == attempt = MaxAttempts

LastAttemptEarly == attempt = MaxAttempts - 2

(* retry.Do leaves its loop after this attempt. *)
LastAttempt == attempt = MaxAttempts - 1

(***************************************************************************)
(* One call of Sender.Send by retry.Do: no context, 10 s client timeout.   *)
(* "lost" is a POST that the receiver took and did not answer with 200 in  *)
(* time.  After the last attempt the error is logged and the task is gone. *)
(***************************************************************************)
Send ==
  /\ sender = "send"
  /\ \E t \in hand, o \in SendOutcomes :
       /\ Post(t, o)
       /\ IF o = "ok" \/ LastAttempt
          THEN Loop
          ELSE sender' = "backoff" /\ UNCHANGED <<hand, attempt>>
  /\ UNCHANGED <<queue, stopping, receiving>>

BackoffForever ==
  /\ sender = "backoff"
  /\ sender' = "send"
  /\ UNCHANGED <<queue, hand, attempt, stopping, receiving, delivered>>

(* The select of retry.Do between two attempts: the timer, ... *)
BackoffElapsed ==
  /\ sender = "backoff"
  /\ sender' = "send"
  /\ attempt' = attempt + 1
  /\ UNCHANGED <<queue, hand, stopping, receiving, delivered>>

(* ... or the cancelled context of the worker: the task is gone. *)
BackoffCancelled ==
  /\ sender = "backoff"
  /\ stopping
  /\ Loop
  /\ UNCHANGED <<queue, stopping, receiving, delivered>>

WorkerStep ==
  \/ Pop \/ PopFails \/ Continue \/ PopCancelled
  \/ Send \/ BackoffElapsed \/ BackoffCancelled

ReceiverChanges ==
  /\ receiving => "receiver" \in Disturbances
  /\ receiving' = ~receiving
  /\ UNCHANGED <<queue, workerVars, stopping, delivered>>

=============================================================================
