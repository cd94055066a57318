--------------------------- MODULE LocationChecks ---------------------------
(***************************************************************************)
(* The location service (internal/service/location_service.go) over the    *)
(* tables of internal/storage/postgres and the webhook queue, from the     *)
(* request to the POST at the receiver, through starts, graceful stops and *)
(* crashes of the process.  Every check is one request, past validation.   *)
(***************************************************************************)
EXTENDS WebhookQueue, FiniteSets

VARIABLES
  phase,      \* "down", "serving", or "draining" (Container.Stop)
  inside,     \* inside[c]: the active incidents around c, as the table has them
  pc,         \* pc[c]: the call the handler of c makes next
  cancelled,  \* cancelled[c]: the request's context is done (the client left)
  found,      \* found[c]: the incidents FindNearby returned
  answer,     \* answer[c]: "none" yet, an "error", or "ok" with found[c]
  history     \* history[c]: the row of location_check_history

handlerVars == <<inside, pc, cancelled, found, answer, history>>
vars == <<up, queueVars, phase, handlerVars>>

(* The values the variables take; retry.Do never counts past its attempts. *)
TypeOK ==
  /\ up \in [Store -> BOOLEAN]
  /\ QueueTypeOK
  /\ phase \in {"down", "serving", "draining"}
  /\ inside \in [Checks -> SUBSET Zones]
  /\ pc \in [Checks -> {"new", "findNearby", "saveHistory", "enqueue", "done"}]
  /\ cancelled \in [Checks -> BOOLEAN]
  /\ found \in [Checks -> SUBSET Zones]
  /\ answer \in [Checks -> {"none", "error", "ok"}]
  /\ history \in [Checks -> {"none", "safe", "danger"}]

Init ==
  /\ StoresInit
  /\ QueueInit
  /\ phase = "down"
  /\ inside = [c \in Checks |-> {}]
  /\ pc = [c \in Checks |-> "new"]
  /\ cancelled = [c \in Checks |-> FALSE]
  /\ found = [c \in Checks |-> {}]
  /\ answer = [c \in Checks |-> "none"]
  /\ history = [c \in Checks |-> "none"]

-----------------------------------------------------------------------------
(* The handlers. *)

Running(c) == pc[c] \notin {"new", "done"}

Goto(c, stage, gone) ==
  /\ pc' = [pc EXCEPT ![c] = stage]
  /\ cancelled' = [cancelled EXCEPT ![c] = gone]

Respond(c, a, gone) ==
  /\ answer' = [answer EXCEPT ![c] = a]
  /\ Goto(c, "done", gone)

Accept(c) ==
  /\ phase = "serving"
  /\ pc[c] = "new"
  /\ \E zones \in SUBSET Zones : inside' = [inside EXCEPT ![c] = zones]
  /\ Goto(c, "findNearby", FALSE)
  /\ UNCHANGED <<up, queueVars, phase, found, answer, history>>

(* The client closes its connection, which cancels c.Request.Context(). *)
ClientLeaves(c) ==
  /\ "client" \in Disturbances
  /\ Running(c)
  /\ ~cancelled[c]
  /\ cancelled' = [cancelled EXCEPT ![c] = TRUE]
  /\ UNCHANGED <<up, queueVars, phase, inside, pc, found, answer, history>>

(***************************************************************************)
(* Postgres.FindNearby.  pgx reports an error that meets the query while   *)
(* its result is read in rows.Err(), which the code never asks: the rows   *)
(* read so far are the answer, and may be none.                            *)
(***************************************************************************)
FindNearby(c) ==
  /\ pc[c] = "findNearby"
  /\ \E o \in Outcome, gone \in BOOLEAN :
       /\ CallEnds("postgres", o, cancelled[c], gone)
       /\ \/ /\ \E zones \in SUBSET inside[c] :
                  /\ o = "ok" => zones = inside[c]
                  /\ found' = [found EXCEPT ![c] = zones]
             /\ Executed(o)
             /\ Goto(c, "saveHistory", gone)
             /\ UNCHANGED answer
          \/ o # "ok" /\ Respond(c, "error", gone) /\ UNCHANGED found
  /\ UNCHANGED <<up, queueVars, phase, inside, history>>

AlertsAlways(c, o) == TRUE

AlertsIfSaved(c, o) == found[c] # {} /\ o = "ok"

(* Whether Check goes on to the webhook queue; saving the history may have failed. *)
Alerts(c, o) == found[c] # {}

(* Postgres.SaveCheckHistory, its error only logged. *)
SaveHistory(c) ==
  /\ pc[c] = "saveHistory"
  /\ \E o \in Outcome, gone \in BOOLEAN :
       /\ CallEnds("postgres", o, cancelled[c], gone)
       /\ history' = IF ~Executed(o) THEN history
                     ELSE [history EXCEPT ![c] = IF found[c] = {} THEN "safe" ELSE "danger"]
       /\ IF Alerts(c, o)
          THEN Goto(c, "enqueue", gone) /\ UNCHANGED answer
          ELSE Respond(c, "ok", gone)
  /\ UNCHANGED <<up, queueVars, phase, inside, found>>

(* EnqueueLocationCheck, its error only logged. *)
Enqueue(c) ==
  /\ pc[c] = "enqueue"
  /\ \E gone \in BOOLEAN :
       /\ EnqueueLocationCheck([check |-> c, zones |-> found[c]], cancelled[c], gone)
       /\ Respond(c, "ok", gone)
  /\ UNCHANGED <<up, workerVars, stopping, receiving, delivered, phase,
                 inside, found, history>>

HandlerStep(c) == FindNearby(c) \/ SaveHistory(c) \/ Enqueue(c)

-----------------------------------------------------------------------------
(* The process and its environment. *)

(* Container.Start, past the warm-up: the queue worker, then the server. *)
StartUp ==
  /\ phase = "down"
  /\ up["postgres"] /\ up["redis"]
  /\ phase' = "serving"
  /\ sender' = "pop"
  /\ stopping' = FALSE
  /\ UNCHANGED <<up, queue, hand, attempt, receiving, delivered, handlerVars>>

(* Container.Stop: Server.Shutdown takes no more requests, ... *)
BeginStop ==
  /\ "process" \in Disturbances
  /\ phase = "serving"
  /\ phase' = "draining"
  /\ UNCHANGED <<up, queueVars, handlerVars>>

(* ... waits for those that run, and then StopQueue cancels the worker, ... *)
StopQueue ==
  /\ phase = "draining"
  /\ ~stopping
  /\ \A c \in Checks : ~Running(c)
  /\ stopping' = TRUE
  /\ UNCHANGED <<up, queue, workerVars, receiving, delivered, phase, handlerVars>>

ExitAtOnce ==
  /\ phase = "draining"
  /\ stopping
  /\ phase' = "down"
  /\ UNCHANGED <<up, queueVars, handlerVars>>

(* ... waits for it, and the rest of Stop ends the process. *)
Exit ==
  /\ phase = "draining"
  /\ stopping
  /\ sender = "stopped"
  /\ phase' = "down"
  /\ UNCHANGED <<up, queueVars, handlerVars>>

(***************************************************************************)
(* The process dies, or the 15 s of Stop run out and main returns over the *)
(* goroutines that still run (what they do after the deadline they could   *)
(* have done before it).  Redis keeps the list (a docker volume).          *)
(***************************************************************************)
Crash ==
  /\ "process" \in Disturbances
  /\ phase # "down"
  /\ phase' = "down"
  /\ sender' = "stopped" /\ hand' = {} /\ attempt' = 0
  /\ pc' = [c \in Checks |-> IF Running(c) THEN "done" ELSE pc[c]]
  /\ UNCHANGED <<up, queue, stopping, receiving, delivered, inside, cancelled,
                 found, answer, history>>

StoreChanges ==
  /\ \E s \in Store : Degrade(s) \/ Recover(s)
  /\ UNCHANGED <<queueVars, phase, handlerVars>>

Next ==
  \/ StartUp \/ BeginStop \/ StopQueue \/ Exit \/ Crash
  \/ StoreChanges
  \/ WorkerStep /\ UNCHANGED <<up, phase, handlerVars>>
  \/ ReceiverChanges /\ UNCHANGED <<up, phase, handlerVars>>
  \/ \E c \in Checks : Accept(c) \/ ClientLeaves(c) \/ HandlerStep(c)

Spec == Init /\ [][Next]_vars

(***************************************************************************)
(* Fairness: every goroutine that can run runs, and every call ends by its *)
(* timeout; Stop goes on once what it waits for is there.  Nothing is      *)
(* assumed of the clients, of the health of the stores and the receiver,   *)
(* or of the process being started again.                                  *)
(***************************************************************************)
Fairness ==
  /\ WF_vars(WorkerStep /\ UNCHANGED <<up, phase, handlerVars>>)
  /\ WF_vars(StopQueue) /\ WF_vars(Exit)
  /\ \A c \in Checks : WF_vars(HandlerStep(c))

-----------------------------------------------------------------------------
(* Properties. *)

Waiting(c) == \E k \in 1 .. Len(queue) : queue[k].check = c

(***************************************************************************)
(* What the receiver may hear of a check, now or later, is what the user   *)
(* was told and what the history says: nobody is reported who was not      *)
(* answered that he is in danger (a check cut off by a crash aside), and   *)
(* no reported check stands in the history as a safe one.                  *)
(***************************************************************************)
Reported(c) == Waiting(c) \/ (\E t \in hand : t.check = c) \/ delivered[c] > 0

ReportsMatchChecks ==
  /\ \A c \in Checks :
       Reported(c) => found[c] # {} /\ answer[c] # "error" /\ history[c] # "safe"
  /\ \A k \in 1 .. Len(queue) : queue[k].zones = found[queue[k].check]
  /\ \A t \in hand : t.zones = found[t.check]

(***************************************************************************)
(* RPUSHes repeated by go-redis and POSTs repeated by retry.Do, over stops *)
(* and restarts, do not add up to more POSTs about a check than this.      *)
(***************************************************************************)
DeliveriesBounded ==
  \A c \in Checks : delivered[c] <= MaxAttempts * (MaxResends + 1)

InList(c) == Cardinality({k \in 1 .. Len(queue) : queue[k].check = c})

InHand(c) == Cardinality({t \in hand : t.check = c})

(* Of the attempts the worker makes for the task in its hand, those made. *)
Used == attempt + (IF sender = "backoff" THEN 1 ELSE 0)

(* The attempts still to be made for the tasks about c. *)
Credit(c) == MaxAttempts * InList(c) + (MaxAttempts - Used) * InHand(c)

(* What the handler of c has answered, and why. *)
Verdict(c) ==
  IF answer[c] # "ok" THEN answer[c] ELSE IF found[c] = {} THEN "safe" ELSE "danger"

Promise == INSTANCE AlertPromise WITH
  Budget <- MaxAttempts * (MaxResends + 1),
  verdict <- [c \in Checks |-> Verdict(c)],
  record <- history,
  credit <- [c \in Checks |-> Credit(c)],
  reports <- delivered

(***************************************************************************)
(* The list, its worker and the retries keep the promise about alerts: the *)
(* places in the list and the loop of the worker are worth a credit that a *)
(* check gets once, with its answer, and that no resend, retry, stop or    *)
(* restart increases.                                                      *)
(***************************************************************************)
KeepsAlertPromise == Promise!Spec

(* A check is answered with all the incidents around the user, or with an error. *)
AnswersComplete == \A c \in Checks : answer[c] = "ok" => found[c] = inside[c]

(* The steps the worker may make before it next looks at its context. *)
StepsLeft ==
  CASE sender = "stopped" -> 0
    [] sender = "pop"     -> 1
    [] sender = "again"   -> 2
    [] sender = "send"    -> 2 * (MaxAttempts - attempt) + 1
    [] sender = "backoff" -> 2 * (MaxAttempts - attempt)

(* The steps it may make until the list is empty. *)
WorkLeft == (2 * MaxAttempts + 1) * Len(queue) + StepsLeft

(***************************************************************************)
(* The worker turns in one circle only: a BRPOP that fails is logged and   *)
(* tried again at once, for as long as Redis does not answer, and never    *)
(* once StopQueue has cancelled the worker.  But for that, a push by a     *)
(* handler and a start, what happens to the list and the worker leaves     *)
(* less to do, whatever the receiver does, and a cancelled worker brings   *)
(* to an end what it has to do with, without another BRPOP.                *)
(***************************************************************************)
CirclesOnlyWithoutRedis ==
  [][\/ UNCHANGED <<queue, workerVars>>
     \/ UNCHANGED workerVars /\ \E c \in Checks : pc[c] = "enqueue" /\ pc'[c] = "done"
     \/ phase = "down" /\ phase' = "serving" /\ UNCHANGED queue
     \/ ~up["redis"] /\ sender = "pop" /\ sender' = "again" /\ Len(queue') <= Len(queue)
     \/ /\ WorkLeft' < WorkLeft
        /\ stopping => /\ sender' # "pop"
                       /\ sender = "pop" \/ StepsLeft' < StepsLeft]_vars

=============================================================================
