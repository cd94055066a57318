---------------------------- MODULE IncidentCache ----------------------------
(***************************************************************************)
(* The incident cache of internal/storage/redis/redis_cache.go: one key    *)
(* per incident and the set active_incident_ids, written together in one   *)
(* MULTI/EXEC (TxPipeline), so that each operation is one step in Redis.   *)
(***************************************************************************)
EXTENDS Domain

VARIABLES
  cache,      \* cache[id]: the incident stored under key id, or None
  activeIds   \* the members of active_incident_ids

cacheVars == <<cache, activeIds>>

CacheInit ==
  /\ cache = [id \in Ids |-> None]
  /\ activeIds = {}

(* Redis.Set: the key and its membership, whatever i.active says. *)
Set(i) ==
  /\ cache' = [cache EXCEPT ![i.id] = i]
  /\ activeIds' = activeIds \cup {i.id}

(* Redis.GetByID finds the key; without it the answer is ErrIncidentNotFound. *)
Cached(id) == cache[id] # None

DeleteMemberOnly(id) ==
  /\ activeIds' = activeIds \ {id}
  /\ UNCHANGED cache

(* Redis.Delete. *)
Delete(id) ==
  /\ cache' = [cache EXCEPT ![id] = None]
  /\ activeIds' = activeIds \ {id}

WarmUpMissingOnly(rows) ==
  /\ cache' = [id \in Ids |->
       IF IsActive(rows[id]) /\ cache[id] = None THEN rows[id] ELSE cache[id]]
  /\ activeIds' = {id \in Ids : IsActive(rows[id])}

(***************************************************************************)
(* Redis.WarmUp: rebuilds the set from the active rows and writes their    *)
(* keys; a key whose row is not active is not among them and stays.        *)
(***************************************************************************)
WarmUp(rows) ==
  /\ cache' = [id \in Ids |-> IF IsActive(rows[id]) THEN rows[id] ELSE cache[id]]
  /\ activeIds' = {id \in Ids : IsActive(rows[id])}

=============================================================================
