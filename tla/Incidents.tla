------------------------------ MODULE Incidents ------------------------------
(***************************************************************************)
(* The incidents service (internal/service/incidents_service.go) over the  *)
(* incidents table (internal/storage/postgres/incidents.go), the Redis     *)
(* cache and the retry queue.  Each request runs in a goroutine of its own *)
(* (a handler); a step of a handler is one call to a store with the        *)
(* control flow up to the next call, and the steps of the handlers and of  *)
(* the retry worker interleave.                                            *)
(***************************************************************************)
EXTENDS CacheRetryQueue

CONSTANTS
  Handlers,     \* the requests the server works on at a time
  MaxAttempts   \* RETRY_ATTEMPTS, 0 when the variable is not set

ASSUME MaxAttemptsAssumption == MaxAttempts \in Nat

VARIABLES
  phase,      \* "down" or "serving": the process
  db,         \* db[id]: the row of the incidents table, or None
  pc,         \* pc[h]: the call handler h makes next, "idle" without a request
  req,        \* req[h]: the request, or None
  inc,        \* inc[h]: the handler's *domain.Incident, or None
  attempt,    \* attempt[h]: the loop variable of retry.Do
  cancelled   \* cancelled[h]: the request's context is done (the client left)

handlerVars == <<pc, req, inc, attempt, cancelled>>
vars == <<up, cacheVars, retryVars, phase, db, handlerVars>>

Request == [op : {"create", "get", "update", "delete"}, id : Ids,
            body : Bodies \cup {None}]

Stage == {"idle", "dbCreate", "cacheGet", "dbGet", "cacheFill", "dbUpdate",
          "dbDelete", "cacheWrite", "backoff"}

(***************************************************************************)
(* The values the variables take; among them that the channel never holds  *)
(* more than its capacity and that retry.Do counts no further than its     *)
(* attempts.                                                               *)
(***************************************************************************)
TypeOK ==
  /\ up \in [Store -> BOOLEAN]
  /\ cache \in [Ids -> Incident \cup {None}]
  /\ activeIds \in SUBSET Ids
  /\ retryQ \in Seq(Incident) /\ Len(retryQ) <= CacheRetrySize
  /\ worker \in Incident \cup {None}
  /\ phase \in {"down", "serving"}
  /\ db \in [Ids -> Incident \cup {None}]
  /\ pc \in [Handlers -> Stage]
  /\ req \in [Handlers -> Request \cup {None}]
  /\ inc \in [Handlers -> Incident \cup {None}]
  /\ attempt \in [Handlers -> 0 .. MaxAttempts]
  /\ cancelled \in [Handlers -> BOOLEAN]

IdleHandlers ==
  /\ pc = [h \in Handlers |-> "idle"]
  /\ req = [h \in Handlers |-> None]
  /\ inc = [h \in Handlers |-> None]
  /\ attempt = [h \in Handlers |-> 0]
  /\ cancelled = [h \in Handlers |-> FALSE]

Init ==
  /\ StoresInit
  /\ CacheInit
  /\ RetryInit
  /\ phase = "down"
  /\ db = [id \in Ids |-> None]
  /\ IdleHandlers

-----------------------------------------------------------------------------
(* How control moves inside a handler. *)

Works(h, id) == pc[h] # "idle" /\ req[h].id = id

Answer(h, s, o, gone) == CallEnds(s, o, cancelled[h], gone)

(* The handler function returns; its locals are gone. *)
Return(h) ==
  /\ pc' = [pc EXCEPT ![h] = "idle"]
  /\ req' = [req EXCEPT ![h] = None]
  /\ inc' = [inc EXCEPT ![h] = None]
  /\ attempt' = [attempt EXCEPT ![h] = 0]
  /\ cancelled' = [cancelled EXCEPT ![h] = FALSE]

Goto(h, stage, gone) ==
  /\ pc' = [pc EXCEPT ![h] = stage]
  /\ cancelled' = [cancelled EXCEPT ![h] = gone]
  /\ UNCHANGED req

(* retry.Do: with no attempts configured it returns nil without a call. *)
StartRetry(h, gone) ==
  IF MaxAttempts = 0
  THEN Return(h)
  ELSE Goto(h, "cacheWrite", gone) /\ UNCHANGED <<inc, attempt>>

LoadedAnew(h, i, gone) ==
  IF req[h].op = "get"
  THEN Return(h)
  ELSE /\ Goto(h, "dbUpdate", gone)
       /\ inc' = [inc EXCEPT ![h] = NewIncident(i.id, req[h].body)]
       /\ UNCHANGED attempt

(***************************************************************************)
(* Incidents.GetByID has found i: GET returns it, PUT overwrites the       *)
(* fields the request supplies (domain.Incident.Update leaves IsActive as  *)
(* it was read).                                                           *)
(***************************************************************************)
Loaded(h, i, gone) ==
  IF req[h].op = "get"
  THEN Return(h)
  ELSE /\ Goto(h, "dbUpdate", gone)
       /\ inc' = [inc EXCEPT ![h] = Updated(i, req[h].body)]
       /\ UNCHANGED attempt

GiveUpSilently(h) ==
  /\ UNCHANGED retryVars
  /\ Return(h)

(* retry.Do has failed: Create and Update enqueue, Delete returns the error. *)
GiveUp(h) ==
  /\ IF req[h].op = "delete" THEN UNCHANGED retryVars ELSE Enqueue(inc[h])
  /\ Return(h)

-----------------------------------------------------------------------------
(* Requests, past authentication, binding, uuid.Parse and validate. *)

Accept(h, r, stage) ==
  /\ phase = "serving"
  /\ pc[h] = "idle"
  /\ pc' = [pc EXCEPT ![h] = stage]
  /\ req' = [req EXCEPT ![h] = r]
  /\ UNCHANGED <<up, cacheVars, retryVars, phase, db, attempt, cancelled>>

(* domain.NewIncident takes a new id: no row has it and no request names it. *)
Fresh(id) == db[id] = None /\ ~Queued(id) /\ \A h \in Handlers : ~Works(h, id)

AcceptCreate(h) ==
  \E id \in Ids, b \in Bodies :
    /\ Fresh(id)
    /\ inc' = [inc EXCEPT ![h] = NewIncident(id, b)]
    /\ Accept(h, [op |-> "create", id |-> id, body |-> None], "dbCreate")

AcceptGet(h) ==
  \E id \in Ids :
    /\ Accept(h, [op |-> "get", id |-> id, body |-> None], "cacheGet")
    /\ UNCHANGED inc

AcceptUpdate(h) ==
  \E id \in Ids, b \in Bodies :
    /\ Accept(h, [op |-> "update", id |-> id, body |-> b], "cacheGet")
    /\ UNCHANGED inc

AcceptDelete(h) ==
  \E id \in Ids :
    /\ Accept(h, [op |-> "delete", id |-> id, body |-> None], "dbDelete")
    /\ UNCHANGED inc

(* The client closes its connection, which cancels c.Request.Context(). *)
ClientLeaves(h) ==
  /\ "client" \in Disturbances
  /\ pc[h] # "idle"
  /\ ~cancelled[h]
  /\ cancelled' = [cancelled EXCEPT ![h] = TRUE]
  /\ UNCHANGED <<up, cacheVars, retryVars, phase, db, pc, req, inc, attempt>>

-----------------------------------------------------------------------------
(* The calls of the handlers. *)

(* Postgres.Create: an INSERT. *)
RowInserted(i) == [db EXCEPT ![i.id] = i]

(* Postgres.Update: writes every column, is_active included; no row, no error. *)
RowOverwritten(i) == IF db[i.id] # None THEN [db EXCEPT ![i.id] = i] ELSE db

RowRemoved(id) == [db EXCEPT ![id] = None]

(* Postgres.Delete: the soft delete; no row, no error. *)
RowDeactivated(id) ==
  IF db[id] # None THEN [db EXCEPT ![id].active = FALSE] ELSE db

DBCreateUnchecked(h) ==
  /\ pc[h] = "dbCreate"
  /\ \E o \in Outcome, gone \in BOOLEAN :
       /\ Answer(h, "postgres", o, gone)
       /\ db' = IF Executed(o) THEN RowInserted(inc[h]) ELSE db
       /\ StartRetry(h, gone)
  /\ UNCHANGED <<up, cacheVars, retryVars, phase>>

(* Incidents.Create: the INSERT, and the cache only after it. *)
DBCreate(h) ==
  /\ pc[h] = "dbCreate"
  /\ \E o \in Outcome, gone \in BOOLEAN :
       /\ Answer(h, "postgres", o, gone)
       /\ db' = IF Executed(o) THEN RowInserted(inc[h]) ELSE db
       /\ IF o = "ok" THEN StartRetry(h, gone) ELSE Return(h)
  /\ UNCHANGED <<up, cacheVars, retryVars, phase>>

(* Incidents.GetByID: a hit is used as it is, a miss or an error goes to the table. *)
CacheGet(h) ==
  /\ pc[h] = "cacheGet"
  /\ \E o \in Outcome, gone \in BOOLEAN :
       /\ Answer(h, "redis", o, gone)
       /\ IF o = "ok" /\ Cached(req[h].id)
          THEN Loaded(h, cache[req[h].id], gone)
          ELSE Goto(h, "dbGet", gone) /\ UNCHANGED <<inc, attempt>>
  /\ UNCHANGED <<up, cacheVars, retryVars, phase, db>>

(* Postgres.GetByID: the row, active or not; no row or an error ends the request. *)
DBGet(h) ==
  /\ pc[h] = "dbGet"
  /\ \E o \in Outcome, gone \in BOOLEAN :
       /\ Answer(h, "postgres", o, gone)
       /\ IF o = "ok" /\ db[req[h].id] # None
          THEN /\ Goto(h, "cacheFill", gone)
               /\ inc' = [inc EXCEPT ![h] = db[req[h].id]]
               /\ UNCHANGED attempt
          ELSE Return(h)
  /\ UNCHANGED <<up, cacheVars, retryVars, phase, db>>

(* The Set after a miss, its error ignored. *)
CacheFill(h) ==
  /\ pc[h] = "cacheFill"
  /\ \E o \in Outcome, gone \in BOOLEAN :
       /\ Answer(h, "redis", o, gone)
       /\ IF Executed(o) THEN Set(inc[h]) ELSE UNCHANGED cacheVars
       /\ Loaded(h, inc[h], gone)
  /\ UNCHANGED <<up, retryVars, phase, db>>

(* Incidents.Update: the UPDATE, and the cache only after it. *)
DBUpdate(h) ==
  /\ pc[h] = "dbUpdate"
  /\ \E o \in Outcome, gone \in BOOLEAN :
       /\ Answer(h, "postgres", o, gone)
       /\ db' = IF Executed(o) THEN RowOverwritten(inc[h]) ELSE db
       /\ IF o = "ok" THEN StartRetry(h, gone) ELSE Return(h)
  /\ UNCHANGED <<up, cacheVars, retryVars, phase>>

(* Incidents.Delete: the row, and the cache only after it. *)
DBDelete(h) ==
  /\ pc[h] = "dbDelete"
  /\ \E o \in Outcome, gone \in BOOLEAN :
       /\ Answer(h, "postgres", o, gone)
       /\ db' = IF Executed(o) THEN RowDeactivated(req[h].id) ELSE db
       /\ IF o = "ok" THEN StartRetry(h, gone) ELSE Return(h)
  /\ UNCHANGED <<up, cacheVars, retryVars, phase>>

LastAttemptLate(h) == attempt[h] = MaxAttempts

(* retry.Do leaves its loop after this attempt. *)
LastAttempt(h) == attempt[h] = MaxAttempts - 1

(* One turn of the loop of retry.Do around cache.Set or cache.Delete. *)
CacheWrite(h) ==
  /\ pc[h] = "cacheWrite"
  /\ \E o \in Outcome, gone \in BOOLEAN :
       /\ Answer(h, "redis", o, gone)
       /\ IF ~Executed(o) THEN UNCHANGED cacheVars
          ELSE IF req[h].op = "delete" THEN Delete(req[h].id) ELSE Set(inc[h])
       /\ \/ o = "ok" /\ Return(h) /\ UNCHANGED retryVars
          \/ o # "ok" /\ LastAttempt(h) /\ GiveUp(h)
          \/ /\ o # "ok" /\ ~LastAttempt(h)
             /\ Goto(h, "backoff", gone)
             /\ UNCHANGED <<inc, attempt, retryVars>>
  /\ UNCHANGED <<up, phase, db>>

BackoffForever(h) ==
  /\ pc[h] = "backoff"
  /\ Goto(h, "cacheWrite", cancelled[h])
  /\ UNCHANGED <<up, cacheVars, retryVars, phase, db, inc, attempt>>

(* The select between two attempts: the timer, or the request's context. *)
BackoffElapsed(h) ==
  /\ pc[h] = "backoff"
  /\ Goto(h, "cacheWrite", cancelled[h])
  /\ attempt' = [attempt EXCEPT ![h] = @ + 1]
  /\ UNCHANGED <<up, cacheVars, retryVars, phase, db, inc>>

BackoffCancelled(h) ==
  /\ pc[h] = "backoff"
  /\ cancelled[h]
  /\ GiveUp(h)
  /\ UNCHANGED <<up, cacheVars, phase, db>>

-----------------------------------------------------------------------------
(* The process and its environment. *)

(***************************************************************************)
(* Container.Start up to the listening server: the pings and the WarmUp.   *)
(* No other goroutine writes the stores yet, so the read of the rows and   *)
(* the write of the keys are one step.  Any error ends the process, except *)
(* one in the middle of the result: Postgres.WarmUp never asks rows.Err(), *)
(* so a result cut short counts as the whole.                              *)
(***************************************************************************)
Seen(ids) == [id \in Ids |-> IF id \in ids THEN db[id] ELSE None]

StartUp ==
  /\ phase = "down"
  /\ up["postgres"]
  /\ \E o \in Outcomes("redis"), ids \in SUBSET Ids :
       /\ ids # Ids => "postgres" \in Disturbances
       /\ IF Executed(o) THEN WarmUp(Seen(ids)) ELSE UNCHANGED cacheVars
       /\ phase' = IF o = "ok" THEN "serving" ELSE "down"
  /\ UNCHANGED <<up, retryVars, db, handlerVars>>

(***************************************************************************)
(* The process dies, or ends after a stop, which loses the retry queue in  *)
(* the same way; both stores keep their data (docker volumes).             *)
(***************************************************************************)
Crash ==
  /\ "process" \in Disturbances
  /\ phase = "serving"
  /\ phase' = "down"
  /\ retryQ' = <<>> /\ worker' = None
  /\ pc' = [h \in Handlers |-> "idle"]
  /\ req' = [h \in Handlers |-> None]
  /\ inc' = [h \in Handlers |-> None]
  /\ attempt' = [h \in Handlers |-> 0]
  /\ cancelled' = [h \in Handlers |-> FALSE]
  /\ UNCHANGED <<up, cacheVars, db>>

StoreChanges ==
  /\ \E s \in Store : Degrade(s) \/ Recover(s)
  /\ UNCHANGED <<cacheVars, retryVars, phase, db, handlerVars>>

Worker ==
  /\ WorkerTake \/ WorkerSet
  /\ UNCHANGED <<up, phase, db, handlerVars>>

HandlerStep(h) ==
  \/ DBCreate(h) \/ CacheGet(h) \/ DBGet(h) \/ CacheFill(h) \/ DBUpdate(h)
  \/ DBDelete(h) \/ CacheWrite(h) \/ BackoffElapsed(h) \/ BackoffCancelled(h)

Next ==
  \/ StartUp \/ Crash \/ StoreChanges \/ Worker
  \/ \E h \in Handlers :
       \/ AcceptCreate(h) \/ AcceptGet(h) \/ AcceptUpdate(h) \/ AcceptDelete(h)
       \/ ClientLeaves(h) \/ HandlerStep(h)

Spec == Init /\ [][Next]_vars

(***************************************************************************)
(* The Go scheduler runs every goroutine that can run, and every call      *)
(* returns because it has a timeout.  Nothing is assumed of the clients,   *)
(* of the stores' health or of the process staying alive.                  *)
(***************************************************************************)
Fairness ==
  /\ WF_vars(Worker)
  /\ \A h \in Handlers : WF_vars(HandlerStep(h))

-----------------------------------------------------------------------------
(* Properties. *)

(***************************************************************************)
(* Whatever the cache, the retry queue or a handler past its first store   *)
(* call holds belongs to a row of the table: the UPDATE of a PUT that read *)
(* the cache never silently matches no row.                                *)
(***************************************************************************)
BackedByRow ==
  /\ \A id \in Ids : (cache[id] # None \/ Queued(id)) => db[id] # None
  /\ \A h \in Handlers : pc[h] = "dbUpdate" => db[inc[h].id] # None

(* An id of active_incident_ids always has its key: no step separates them. *)
ActiveIdsHaveKeys == \A id \in activeIds : cache[id] # None

(* A soft-deleted row stays soft-deleted: nothing in the API reactivates it. *)
DeletedStaysDeleted ==
  [][\A id \in Ids : db[id] # None /\ ~db[id].active => ~db'[id].active]_vars

Table == INSTANCE IncidentTable WITH rows <- db

(***************************************************************************)
(* What remains of the promise with concurrent requests and failing        *)
(* stores: no row vanishes, is created twice, or takes the place of        *)
(* another incident's.  (GuardedTable has more: see IncidentCoherence.)    *)
(***************************************************************************)
KeepsRows == Table!LooseSpec

(* A retried cache write never replaces a copy of the row by another record. *)
RetryKeepsCacheFresh ==
  [][\A id \in Ids :
       worker # None /\ worker.id = id /\ cache[id] = db[id]
         => worker' = worker \/ cache'[id] = db[id]]_vars

(* Every request a handler accepted is answered (or dies with the process). *)
RequestsFinish == \A h \in Handlers : pc[h] # "idle" ~> pc[h] = "idle"

(* The calls and pauses request h may still make, at most 2 * MaxAttempts + 4. *)
CallsLeft(h) ==
  LET turns == 2 * (MaxAttempts - attempt[h])
  IN  CASE pc[h] = "idle"                                 -> 0
        [] pc[h] = "backoff"                              -> turns - 1
        [] pc[h] = "cacheWrite"                           -> turns
        [] pc[h] \in {"dbCreate", "dbUpdate", "dbDelete"} -> turns + 1
        [] pc[h] = "cacheFill"                            -> turns + 2
        [] pc[h] = "dbGet"                                -> turns + 3
        [] pc[h] = "cacheGet"                             -> turns + 4

(***************************************************************************)
(* No request turns in a circle: whatever fails, a step of a request comes *)
(* nearer to its end by the call or the pause it has spent, and the steps  *)
(* of others leave it where it is.                                         *)
(***************************************************************************)
RequestsAdvance ==
  [][\A h \in Handlers :
       pc[h] # "idle" =>
         \/ CallsLeft(h)' < CallsLeft(h)
         \/ UNCHANGED <<pc[h], req[h], inc[h], attempt[h]>>]_vars

(* The steps the worker has to make until nothing waits for the cache. *)
Backlog == 2 * Len(retryQ) + (IF worker # None THEN 1 ELSE 0)

(* Handler h gives its cache write up, to the retry queue. *)
GivesUp(h) ==
  /\ pc[h] \in {"cacheWrite", "backoff"} /\ pc'[h] = "idle"
  /\ req[h].op # "delete"

(***************************************************************************)
(* As long as Redis answers, the backlog of failed cache writes is fed     *)
(* only by requests whose clients leave, and nothing is put back: every    *)
(* other step that touches it shortens it.                                 *)
(***************************************************************************)
BacklogShrinks ==
  [][\/ UNCHANGED retryVars
     \/ Backlog' < Backlog
     \/ ~up["redis"]
     \/ "client" \in Disturbances /\ \E h \in Handlers : GivesUp(h)]_vars

(***************************************************************************)
(* Once Redis answers for good and clients stop leaving, the backlog of    *)
(* failed cache writes empties for good.                                   *)
(***************************************************************************)
BacklogDrains ==
  <>[](up["redis"] /\ \A h \in Handlers : ~cancelled[h])
    => <>[](retryQ = <<>> /\ worker = None)

=============================================================================
