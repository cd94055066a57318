-------------------------- MODULE IncidentCoherence --------------------------
(***************************************************************************)
(* When does the cache tell the truth?  Nothing in the service compares a  *)
(* cached incident with its row, so a stale copy may stay for ever.  This  *)
(* module adds to Incidents the auxiliary variable tainted: the incidents  *)
(* whose cached copy can no longer be relied on, each put there by one of  *)
(* the seven events named below.  It then states that there is no eighth   *)
(* way: the copy of an incident that none of them has met agrees with the  *)
(* row whenever nobody works on it.                                        *)
(***************************************************************************)
EXTENDS IncidentsInv

VARIABLE tainted

allVars == <<vars, tainted>>

Returns(h, id) == Works(h, id) /\ pc'[h] = "idle"

Changed(id) == db[id] # None /\ db'[id] # db[id]

(* g has read or written the row of id and still has a cache write to make. *)
HoldsCopy(g, id) ==
  /\ Works(g, id) /\ req[g].op # "delete"
  /\ pc[g] \in {"cacheFill", "dbUpdate", "cacheWrite", "backoff"}

(* The row changes while another handler holds a copy of it. *)
Crossed(id) == Changed(id) /\ \E g \in Handlers : HoldsCopy(g, id) /\ pc'[g] = pc[g]

(* A PUT reads the copy that a DELETE of the row has yet to remove. *)
ReadDeleted(id) ==
  \E h \in Handlers, g \in Handlers :
    /\ Works(h, id) /\ pc[h] = "cacheGet" /\ pc'[h] = "dbUpdate"
    /\ Works(g, id) /\ req[g].op = "delete" /\ pc[g] \in {"cacheWrite", "backoff"}

(* The row changes while an older cache write of id is queued. *)
Overtaken(id) == Changed(id) /\ Queued(id)

(* A call of a request to store s may have failed. *)
MayFail(s) == ~up[s] \/ "client" \in Disturbances

(* A row changed under a call that told its handler otherwise. *)
LostCommit(id) ==
  /\ MayFail("postgres")
  /\ \E h \in Handlers :
       Returns(h, id) /\ pc[h] \in {"dbUpdate", "dbDelete"} /\ db'[id] # db[id]

(* A DELETE ends with an error of the cache and leaves the copy there. *)
DeleteGaveUp(id) ==
  /\ MayFail("redis")
  /\ \E h \in Handlers :
       /\ Returns(h, id) /\ req[h].op = "delete"
       /\ pc[h] \in {"cacheWrite", "backoff"}
       /\ cache'[id] # None

(* A cache write that has to be retried finds the queue full. *)
Dropped(id) ==
  /\ Len(retryQ) = CacheRetrySize
  /\ \/ \E h \in Handlers :
          /\ Returns(h, id) /\ req[h].op \in {"create", "update"}
          /\ pc[h] \in {"cacheWrite", "backoff"}
          /\ cache'[id] # inc[h] /\ ~Queued(id)'
     \/ /\ worker # None /\ worker.id = id /\ worker' = None
        /\ cache'[id] # worker /\ ~Queued(id)'

(* The process dies between the two stores of a change, or with it queued. *)
Interrupted(id) ==
  /\ phase = "serving" /\ phase' = "down"
  /\ \/ Queued(id)
     \/ \E h \in Handlers :
          /\ Works(h, id) /\ req[h].op \in {"update", "delete"}
          /\ pc[h] \in {"cacheWrite", "backoff"}

Door(id) ==
  \/ Crossed(id) \/ ReadDeleted(id) \/ Overtaken(id) \/ LostCommit(id)
  \/ DeleteGaveUp(id) \/ Dropped(id) \/ Interrupted(id)

(* The warm-up of a start rewrites the copies of the active rows it read. *)
Rewritten(id) == phase = "down" /\ phase' = "serving" /\ id \in activeIds'

Mark == tainted' = {id \in tainted : ~Rewritten(id)} \cup {id \in Ids : Door(id)}

CInit == Init /\ tainted = {}

CNext == Next /\ Mark

CSpec == CInit /\ [][CNext]_allVars

FairCSpec == CSpec /\ Fairness

-----------------------------------------------------------------------------
(***************************************************************************)
(* A cached copy that differs from its row, at a time when no request      *)
(* works on the incident and no write of it is queued, was let in by one   *)
(* of the seven events.                                                    *)
(***************************************************************************)
StaleOnlyThroughDoors ==
  \A id \in Ids \ tainted :
    (~Queued(id) /\ \A h \in Handlers : ~Works(h, id)) => cache[id] \in {None, db[id]}

(* A retried cache write replaces a copy of the row only for a tainted incident. *)
RetryKeepsCacheFreshButTainted ==
  [][\A id \in Ids \ tainted :
       worker # None /\ worker.id = id /\ cache[id] = db[id]
         => worker' = worker \/ cache'[id] = db[id]]_allVars

Promised == INSTANCE GuardedTable WITH rows <- db, doors <- tainted

(***************************************************************************)
(* For every incident that none of the seven events has met the service    *)
(* implements the table the API promises: a PUT amends the row as it is,   *)
(* and a soft-deleted incident stays so although PUT reads the cache and   *)
(* writes back the IsActive it found there.                                *)
(***************************************************************************)
ImplementsTableButTainted == Promised!GuardedSpec

=============================================================================
