---------------------------- MODULE CoherenceInv ----------------------------
(***************************************************************************)
(* The inductive invariant of IncidentCoherence: what the copies of an     *)
(* incident that is not tainted have to do with its row, in the hands of   *)
(* the handlers, in the retry queue and under its key.                     *)
(***************************************************************************)
EXTENDS IncidentCoherence

(* The writes of the cache that wait for the retry worker, or are with it. *)
Waiting == {retryQ[k] : k \in 1 .. Len(retryQ)} \cup ({worker} \ {None})

WritesCache(h, id) == Works(h, id) /\ pc[h] \in {"cacheWrite", "backoff"}

Deletes(h, id) == WritesCache(h, id) /\ req[h].op = "delete"

(* Someone will yet write or remove the key after a change of the row. *)
Pending(id) ==
  \/ \E i \in Waiting : i.id = id
  \/ \E h \in Handlers : WritesCache(h, id) /\ req[h].op # "create"

(* A handler holds the row as it is; one that read it for a PUT knows its is_active. *)
CopyOK(h, id) ==
  /\ Works(h, id) /\ pc[h] = "cacheFill" => inc[h] = db[id]
  /\ WritesCache(h, id) /\ req[h].op # "delete" => inc[h] = db[id]
  /\ Works(h, id) /\ pc[h] = "dbUpdate" => inc[h].active = db[id].active

QueueOK(id) == \A i \in Waiting : i.id = id => i = db[id]

KeyOK(id) == cache[id] \in {None, db[id]} \/ Pending(id)

(* Only a DELETE under way makes the is_active of the copy differ. *)
FlagOK(id) ==
  \/ cache[id] = None
  \/ cache[id].active = db[id].active
  \/ \E h \in Handlers : Deletes(h, id)

Coherent(id) ==
  (\A h \in Handlers : CopyOK(h, id)) /\ QueueOK(id) /\ KeyOK(id) /\ FlagOK(id)

(* A process that is down has nothing in memory. *)
DownForgets ==
  phase = "down" => retryQ = <<>> /\ worker = None /\ \A h \in Handlers : pc[h] = "idle"

OnlyClientsCancel == \A h \in Handlers : cancelled[h] => "client" \in Disturbances

(***************************************************************************)
(* The inductive invariant: every copy of an incident that is not tainted  *)
(* is the row, or waits to be overwritten by it.                           *)
(***************************************************************************)
CohInv ==
  /\ \A id \in Ids \ tainted : Coherent(id)
  /\ DownForgets
  /\ OnlyClientsCancel

-----------------------------------------------------------------------------
(* When no door is ever open. *)

(* No two requests work on the incident at a time. *)
Alone(id) == \A g, h \in Handlers : Works(g, id) /\ Works(h, id) => g = h

OneAtATime == \A id \in Ids : Alone(id)

(* Nothing has failed, and nothing has had to be repeated. *)
Calm ==
  /\ \A s \in Store : up[s]
  /\ retryQ = <<>> /\ worker = None
  /\ \A h \in Handlers : ~cancelled[h] /\ pc[h] # "backoff"

(* A copy is the row, whenever nobody works on the incident. *)
CacheTrue ==
  \A id \in Ids : (\A h \in Handlers : ~Works(h, id)) => cache[id] \in {None, db[id]}

=============================================================================
