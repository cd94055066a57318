---------------------------- MODULE IncidentsInv ----------------------------
(***************************************************************************)
(* The inductive invariant of Incidents: what every handler knows at every *)
(* stage of its request, and that whatever is in flight has its row.       *)
(***************************************************************************)
EXTENDS Incidents

(* Between the read or the write of the row and the write of the cache. *)
Holds(h) ==
  \/ pc[h] \in {"cacheFill", "dbUpdate"}
  \/ pc[h] \in {"cacheWrite", "backoff"} /\ req[h].op # "delete"

(* The stage a handler has reached fits the operation of its request. *)
RequestOK(h) ==
  /\ pc[h] # "idle" => req[h] \in Request
  /\ pc[h] # "idle" /\ req[h].op = "update" => req[h].body \in Bodies
  /\ pc[h] = "dbCreate" => req[h].op = "create"
  /\ pc[h] \in {"cacheGet", "dbGet", "cacheFill"} => req[h].op \in {"get", "update"}
  /\ pc[h] = "dbUpdate" => req[h].op = "update"
  /\ pc[h] = "dbDelete" => req[h].op = "delete"
  /\ pc[h] \in {"cacheWrite", "backoff"} => req[h].op # "get"

AttemptOK(h) ==
  /\ pc[h] = "cacheWrite" => attempt[h] < MaxAttempts
  /\ pc[h] = "backoff" => attempt[h] + 1 < MaxAttempts
  /\ pc[h] \notin {"cacheWrite", "backoff"} => attempt[h] = 0

(* The handler's incident is the one its request names, and has a row. *)
IncidentOK(h) ==
  /\ Holds(h) => /\ inc[h] \in Incident
                 /\ inc[h].id = req[h].id
                 /\ db[req[h].id] # None
  /\ pc[h] = "dbCreate" => /\ inc[h] \in Incident
                           /\ inc[h].id = req[h].id
                           /\ inc[h].active
                           /\ db[req[h].id] = None

(* No two requests create the same incident. *)
CreatesApart ==
  \A g, h \in Handlers :
    pc[g] = "dbCreate" /\ pc[h] = "dbCreate" /\ req[g].id = req[h].id => g = h

RowsOK ==
  /\ \A id \in Ids : db[id] # None => db[id].id = id
  /\ \A id \in Ids : cache[id] # None => cache[id].id = id /\ db[id] # None
  /\ worker # None => db[worker.id] # None
  /\ \A k \in 1 .. Len(retryQ) : db[retryQ[k].id] # None

(***************************************************************************)
(* The inductive invariant: a handler's locals fit the stage of its        *)
(* request, and everything cached, queued or held has its row.             *)
(***************************************************************************)
IInv ==
  /\ TypeOK
  /\ \A h \in Handlers : RequestOK(h) /\ AttemptOK(h) /\ IncidentOK(h)
  /\ CreatesApart
  /\ RowsOK
  /\ ActiveIdsHaveKeys

=============================================================================
