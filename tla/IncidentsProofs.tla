--------------------------- MODULE IncidentsProofs ---------------------------
(***************************************************************************)
(* Proofs about Incidents for any number of incidents, requests, attempts  *)
(* and queue places, and any combination of disturbances.                  *)
(***************************************************************************)
EXTENDS IncidentsInv, TLAPS

(* The two halves of TypeOK: what belongs to the handlers and what is shared. *)
LocalTypes ==
  /\ pc \in [Handlers -> Stage]
  /\ req \in [Handlers -> Request \cup {None}]
  /\ inc \in [Handlers -> Incident \cup {None}]
  /\ attempt \in [Handlers -> 0 .. MaxAttempts]
  /\ cancelled \in [Handlers -> BOOLEAN]

CacheTypes ==
  /\ cache \in [Ids -> Incident \cup {None}]
  /\ activeIds \in SUBSET Ids

QueueTypes ==
  /\ retryQ \in Seq(Incident) /\ Len(retryQ) <= CacheRetrySize
  /\ worker \in Incident \cup {None}

TableTypes ==
  /\ up \in [Store -> BOOLEAN]
  /\ phase \in {"down", "serving"}
  /\ db \in [Ids -> Incident \cup {None}]

(* RowsOK by the variables it is about, for the table as it is. *)
RowIds == \A id \in Ids : db[id] # None => db[id].id = id

CacheRows == \A id \in Ids : cache[id] # None => cache[id].id = id /\ db[id] # None

QueueRows ==
  /\ worker # None => db[worker.id] # None
  /\ \A k \in 1 .. Len(retryQ) : db[retryQ[k].id] # None

Locals(h) == RequestOK(h) /\ AttemptOK(h) /\ IncidentOK(h)

(* A step of h leaves the locals of the other handlers alone. *)
Others(h) ==
  \A g \in Handlers \ {h} :
    /\ pc'[g] = pc[g] /\ req'[g] = req[g]
    /\ inc'[g] = inc[g] /\ attempt'[g] = attempt[g]

(* Rows never vanish, and only the create of h adds one. *)
OnlyCreates(h) ==
  \A id \in Ids :
    /\ db[id] # None => db'[id] # None
    /\ db[id] = None /\ db'[id] # None => pc[h] = "dbCreate" /\ req[h].id = id

-----------------------------------------------------------------------------
(* How control moves inside a handler. *)

LEMMA Parts ==
  /\ TypeOK <=> LocalTypes /\ CacheTypes /\ QueueTypes /\ TableTypes
  /\ RowsOK <=> RowIds /\ CacheRows /\ QueueRows
BY DEF TypeOK, LocalTypes, CacheTypes, QueueTypes, TableTypes,
       RowsOK, RowIds, CacheRows, QueueRows

LEMMA InitialLocals ==
  ASSUME IdleHandlers
  PROVE  LocalTypes /\ CreatesApart /\ \A h \in Handlers : Locals(h)
<1>1. LocalTypes
  BY MaxAttemptsAssumption DEF IdleHandlers, LocalTypes, Stage
<1>2. CreatesApart
  BY DEF IdleHandlers, CreatesApart
<1>3. ASSUME NEW h \in Handlers PROVE Locals(h)
  <2>1. pc[h] = "idle" /\ attempt[h] = 0
    BY DEF IdleHandlers
  <2> QED
    BY <2>1 DEF Locals, RequestOK, AttemptOK, IncidentOK, Holds
<1> QED
  BY <1>1, <1>2, <1>3

LEMMA ReturnMoves ==
  ASSUME LocalTypes, NEW h \in Handlers, Return(h)
  PROVE  LocalTypes' /\ Others(h) /\ Locals(h)' /\ pc'[h] = "idle"
<1>1. LocalTypes'
  BY MaxAttemptsAssumption DEF Return, LocalTypes, Stage
<1>2. Others(h)
  BY DEF LocalTypes, Return, Others
<1>3. pc'[h] = "idle" /\ attempt'[h] = 0
  BY DEF LocalTypes, Return
<1>4. Locals(h)'
  BY <1>3 DEF Locals, RequestOK, AttemptOK, IncidentOK, Holds
<1> QED
  BY <1>1, <1>2, <1>3, <1>4

LEMMA GotoMoves ==
  ASSUME LocalTypes, NEW h \in Handlers, NEW stage \in Stage, NEW gone \in BOOLEAN,
         Goto(h, stage, gone), UNCHANGED <<inc, attempt>>
  PROVE  /\ LocalTypes' /\ Others(h)
         /\ pc'[h] = stage /\ req'[h] = req[h]
         /\ inc'[h] = inc[h] /\ attempt'[h] = attempt[h]
BY DEF Goto, LocalTypes, Others

LEMMA GotoHolding ==
  ASSUME LocalTypes, NEW h \in Handlers, NEW stage \in Stage, NEW gone \in BOOLEAN,
         NEW i \in Incident,
         Goto(h, stage, gone), inc' = [inc EXCEPT ![h] = i], UNCHANGED attempt
  PROVE  /\ LocalTypes' /\ Others(h)
         /\ pc'[h] = stage /\ req'[h] = req[h]
         /\ inc'[h] = i /\ attempt'[h] = attempt[h]
BY DEF Goto, LocalTypes, Others

(* A write of the table that succeeded leads to the write of the cache. *)
LEMMA StartRetryMoves ==
  ASSUME LocalTypes, NEW h \in Handlers, NEW gone \in BOOLEAN,
         StartRetry(h, gone), Locals(h),
         pc[h] \in {"dbCreate", "dbUpdate", "dbDelete"},
         req[h].op # "delete" => db'[req[h].id] # None
  PROVE  LocalTypes' /\ Others(h) /\ Locals(h)' /\ pc'[h] # "dbCreate"
<1>1. CASE MaxAttempts = 0
  BY <1>1, ReturnMoves DEF StartRetry
<1>2. CASE MaxAttempts # 0
  <2>1. Goto(h, "cacheWrite", gone) /\ UNCHANGED <<inc, attempt>>
    BY <1>2 DEF StartRetry
  <2>2. /\ LocalTypes' /\ Others(h)
        /\ pc'[h] = "cacheWrite" /\ req'[h] = req[h]
        /\ inc'[h] = inc[h] /\ attempt'[h] = attempt[h]
    BY <2>1, GotoMoves DEF Stage
  <2>3. RequestOK(h)'
    BY <2>2 DEF Locals, RequestOK
  <2>4. AttemptOK(h)'
    BY <1>2, <2>2, MaxAttemptsAssumption DEF Locals, AttemptOK
  <2>5. IncidentOK(h)'
    BY <2>2 DEF Locals, IncidentOK, Holds, RequestOK
  <2> QED
    BY <2>2, <2>3, <2>4, <2>5 DEF Locals
<1> QED
  BY <1>1, <1>2

(* What a step of h does to the others, as long as it does not start a create. *)
LEMMA OthersKeep ==
  ASSUME IInv, NEW h \in Handlers, Others(h), pc'[h] # "dbCreate", OnlyCreates(h)
  PROVE  (\A g \in Handlers \ {h} : Locals(g)') /\ CreatesApart'
<1>1. ASSUME NEW g \in Handlers \ {h} PROVE Locals(g)'
  <2>1. pc[g] # "idle" => req[g].id \in Ids
    BY DEF IInv, RequestOK, Request
  <2>2. RequestOK(g)' /\ AttemptOK(g)'
    BY DEF IInv, Others, RequestOK, AttemptOK
  <2>3. pc[g] = "dbCreate" => db'[req[g].id] = None
    BY <2>1 DEF IInv, IncidentOK, CreatesApart, OnlyCreates
  <2>4. Holds(g) => db'[req[g].id] # None
    BY <2>1 DEF IInv, IncidentOK, Holds, OnlyCreates
  <2>5. IncidentOK(g)'
    BY <2>3, <2>4 DEF IInv, Others, IncidentOK, Holds
  <2> QED
    BY <2>2, <2>5 DEF Locals
<1>2. CreatesApart'
  BY DEF IInv, Others, CreatesApart
<1> QED
  BY <1>1, <1>2

(* Putting a step of one handler together. *)
LEMMA HandlerPreserves ==
  ASSUME IInv, NEW h \in Handlers, Others(h), OnlyCreates(h),
         LocalTypes', Locals(h)', pc'[h] # "dbCreate",
         TableTypes', RowIds', CacheTypes', CacheRows', ActiveIdsHaveKeys',
         QueueTypes', QueueRows'
  PROVE  IInv'
<1>1. (\A g \in Handlers : Locals(g)') /\ CreatesApart'
  BY OthersKeep
<1>2. TypeOK'
  BY DEF TypeOK, LocalTypes, CacheTypes, QueueTypes, TableTypes
<1>3. RowsOK'
  BY DEF RowsOK, RowIds, CacheRows, QueueRows
<1> QED
  BY <1>1, <1>2, <1>3 DEF IInv, Locals

-----------------------------------------------------------------------------
(* The shared data structures. *)

LEMMA SetKeeps ==
  ASSUME CacheTypes, CacheRows, ActiveIdsHaveKeys,
         NEW i \in Incident, db[i.id] # None, Set(i), UNCHANGED db
  PROVE  CacheTypes' /\ CacheRows' /\ ActiveIdsHaveKeys'
<1>1. i.id \in Ids /\ i # None
  BY NoneAssumption DEF Incident
<1> QED
  BY <1>1 DEF CacheTypes, CacheRows, ActiveIdsHaveKeys, Set

LEMMA DeleteKeeps ==
  ASSUME CacheTypes, CacheRows, ActiveIdsHaveKeys,
         NEW id \in Ids, Delete(id), UNCHANGED db
  PROVE  CacheTypes' /\ CacheRows' /\ ActiveIdsHaveKeys'
BY NoneAssumption DEF CacheTypes, CacheRows, ActiveIdsHaveKeys, Delete

LEMMA BufferKeeps ==
  ASSUME QueueTypes, QueueRows, NEW i \in Incident, db[i.id] # None,
         Buffer(i), UNCHANGED db
  PROVE  /\ retryQ' \in Seq(Incident) /\ Len(retryQ') <= CacheRetrySize
         /\ \A k \in 1 .. Len(retryQ') : db'[retryQ'[k].id] # None
<1>1. CASE Len(retryQ) < CacheRetrySize
  BY <1>1, CacheRetrySizeAssumption DEF QueueTypes, QueueRows, Buffer
<1>2. CASE ~(Len(retryQ) < CacheRetrySize)
  BY <1>2 DEF QueueTypes, QueueRows, Buffer
<1> QED
  BY <1>1, <1>2

LEMMA EnqueueKeeps ==
  ASSUME QueueTypes, QueueRows, NEW i \in Incident, db[i.id] # None,
         Enqueue(i), UNCHANGED db
  PROVE  QueueTypes' /\ QueueRows'
<1>1. CASE Buffer(i) /\ UNCHANGED worker
  BY <1>1, BufferKeeps DEF QueueTypes, QueueRows
<1>2. CASE retryQ = <<>> /\ worker = None /\ worker' = i /\ UNCHANGED retryQ
  BY <1>2 DEF QueueTypes, QueueRows
<1> QED
  BY <1>1, <1>2 DEF Enqueue

(* The caches and queues that a step leaves alone still have their rows. *)
LEMMA RowsStay ==
  ASSUME IInv, NEW h \in Handlers, OnlyCreates(h), UNCHANGED <<cacheVars, retryVars>>
  PROVE  /\ CacheTypes' /\ CacheRows' /\ ActiveIdsHaveKeys'
         /\ QueueTypes' /\ QueueRows'
<1>1. /\ CacheTypes /\ CacheRows /\ ActiveIdsHaveKeys
      /\ QueueTypes /\ QueueRows
  BY Parts DEF IInv
<1>2. worker # None => worker.id \in Ids
  BY <1>1 DEF QueueTypes, Incident
<1>3. ASSUME NEW k \in 1 .. Len(retryQ) PROVE retryQ[k].id \in Ids
  <2>1. retryQ[k] \in Incident
    BY <1>1 DEF QueueTypes
  <2> QED
    BY <2>1 DEF Incident
<1>4. CacheTypes' /\ QueueTypes' /\ ActiveIdsHaveKeys'
  BY <1>1 DEF cacheVars, retryVars, CacheTypes, QueueTypes, ActiveIdsHaveKeys
<1>5. CacheRows'
  BY <1>1 DEF cacheVars, CacheRows, OnlyCreates
<1>6. QueueRows'
  BY <1>1, <1>2, <1>3 DEF retryVars, QueueRows, OnlyCreates
<1> QED
  BY <1>4, <1>5, <1>6

-----------------------------------------------------------------------------
(* The steps of the handlers. *)

(* A call that changes neither the table nor its surroundings. *)
LEMMA TableStays ==
  ASSUME IInv, NEW h \in Handlers, UNCHANGED <<up, phase, db>>
  PROVE  TableTypes' /\ RowIds' /\ OnlyCreates(h)
BY Parts DEF IInv, TableTypes, RowIds, OnlyCreates

LEMMA DBCreateKeeps ==
  ASSUME IInv, NEW h \in Handlers, DBCreate(h)
  PROVE  IInv'
<1>1. PICK o \in Outcome, gone \in BOOLEAN :
        /\ db' = IF Executed(o) THEN [db EXCEPT ![inc[h].id] = inc[h]] ELSE db
        /\ IF o = "ok" THEN StartRetry(h, gone) ELSE Return(h)
  BY DEF DBCreate, RowInserted
<1>2. pc[h] = "dbCreate" /\ UNCHANGED <<up, cacheVars, retryVars, phase>>
  BY DEF DBCreate
<1>3. /\ inc[h] \in Incident /\ inc[h].id = req[h].id
      /\ req[h].id \in Ids /\ inc[h] # None
  BY <1>2, NoneAssumption DEF IInv, IncidentOK, Incident
<1>4. TableTypes' /\ RowIds' /\ OnlyCreates(h)
  BY <1>1, <1>2, <1>3, Parts DEF IInv, TableTypes, RowIds, OnlyCreates
<1>5. LocalTypes /\ Locals(h)
  BY Parts DEF IInv, Locals
<1>6. LocalTypes' /\ Others(h) /\ Locals(h)' /\ pc'[h] # "dbCreate"
  <2>1. CASE o = "ok"
    <3>1. db'[req[h].id] # None
      BY <1>1, <1>3, <2>1, Parts DEF IInv, TableTypes, Executed
    <3> QED
      BY <1>1, <1>2, <1>5, <2>1, <3>1, StartRetryMoves
  <2>2. CASE o # "ok"
    BY <1>1, <1>5, <2>2, ReturnMoves
  <2> QED
    BY <2>1, <2>2
<1>7. /\ CacheTypes' /\ CacheRows' /\ ActiveIdsHaveKeys'
      /\ QueueTypes' /\ QueueRows'
  BY <1>2, <1>4, RowsStay
<1> QED
  BY <1>4, <1>6, <1>7, HandlerPreserves

LEMMA DBUpdateKeeps ==
  ASSUME IInv, NEW h \in Handlers, DBUpdate(h)
  PROVE  IInv'
<1>1. PICK o \in Outcome, gone \in BOOLEAN :
        /\ db' = IF Executed(o) /\ db[inc[h].id] # None
                 THEN [db EXCEPT ![inc[h].id] = inc[h]] ELSE db
        /\ IF o = "ok" THEN StartRetry(h, gone) ELSE Return(h)
  BY DEF DBUpdate, RowOverwritten
<1>2. pc[h] = "dbUpdate" /\ UNCHANGED <<up, cacheVars, retryVars, phase>>
  BY DEF DBUpdate
<1>3. /\ inc[h] \in Incident /\ inc[h].id = req[h].id /\ req[h].id \in Ids
      /\ inc[h] # None /\ db[req[h].id] # None
  BY <1>2, NoneAssumption DEF IInv, IncidentOK, Holds, Incident
<1>4. TableTypes' /\ RowIds' /\ OnlyCreates(h)
  BY <1>1, <1>2, <1>3, Parts DEF IInv, TableTypes, RowIds, OnlyCreates
<1>5. LocalTypes /\ Locals(h)
  BY Parts DEF IInv, Locals
<1>6. LocalTypes' /\ Others(h) /\ Locals(h)' /\ pc'[h] # "dbCreate"
  <2>1. CASE o = "ok"
    <3>1. db'[req[h].id] # None
      BY <1>3, <1>4 DEF OnlyCreates
    <3> QED
      BY <1>1, <1>2, <1>5, <2>1, <3>1, StartRetryMoves
  <2>2. CASE o # "ok"
    BY <1>1, <1>5, <2>2, ReturnMoves
  <2> QED
    BY <2>1, <2>2
<1>7. /\ CacheTypes' /\ CacheRows' /\ ActiveIdsHaveKeys'
      /\ QueueTypes' /\ QueueRows'
  BY <1>2, <1>4, RowsStay
<1> QED
  BY <1>4, <1>6, <1>7, HandlerPreserves

LEMMA DBDeleteKeeps ==
  ASSUME IInv, NEW h \in Handlers, DBDelete(h)
  PROVE  IInv'
<1>1. PICK o \in Outcome, gone \in BOOLEAN :
        /\ db' = IF Executed(o) /\ db[req[h].id] # None
                 THEN [db EXCEPT ![req[h].id].active = FALSE] ELSE db
        /\ IF o = "ok" THEN StartRetry(h, gone) ELSE Return(h)
  BY DEF DBDelete, RowDeactivated
<1>2. pc[h] = "dbDelete" /\ UNCHANGED <<up, cacheVars, retryVars, phase>>
  BY DEF DBDelete
<1>3. req[h].id \in Ids /\ req[h].op = "delete"
  BY <1>2 DEF IInv, RequestOK, Request
<1>4. TableTypes' /\ RowIds' /\ OnlyCreates(h)
  <2> DEFINE id == req[h].id
             i  == [db[id] EXCEPT !.active = FALSE]
  <2>1. TableTypes /\ RowIds
    BY Parts DEF IInv
  <2>2. db' = db \/ (db[id] # None /\ db' = [db EXCEPT ![id] = i])
    BY <1>1
  <2>3. CASE db' = db
    BY <1>2, <2>1, <2>3 DEF TableTypes, RowIds, OnlyCreates
  <2>4. CASE db[id] # None /\ db' = [db EXCEPT ![id] = i]
    <3>1. db[id] \in Incident /\ db[id].id = id
      BY <1>3, <2>1, <2>4 DEF TableTypes, RowIds
    <3>2. i \in Incident /\ i.id = id
      BY <3>1 DEF Incident
    <3>3. i # None
      BY <3>2, NoneAssumption
    <3> HIDE DEF i
    <3> QED
      BY <1>2, <1>3, <2>1, <2>4, <3>2, <3>3 DEF TableTypes, RowIds, OnlyCreates
  <2> QED
    BY <2>2, <2>3, <2>4
<1>5. LocalTypes /\ Locals(h)
  BY Parts DEF IInv, Locals
<1>6. LocalTypes' /\ Others(h) /\ Locals(h)' /\ pc'[h] # "dbCreate"
  <2>1. CASE o = "ok"
    BY <1>1, <1>2, <1>3, <1>5, <2>1, StartRetryMoves
  <2>2. CASE o # "ok"
    BY <1>1, <1>5, <2>2, ReturnMoves
  <2> QED
    BY <2>1, <2>2
<1>7. /\ CacheTypes' /\ CacheRows' /\ ActiveIdsHaveKeys'
      /\ QueueTypes' /\ QueueRows'
  BY <1>2, <1>4, RowsStay
<1> QED
  BY <1>4, <1>6, <1>7, HandlerPreserves

(* Incidents.GetByID has its incident: what the two ways to it have in common. *)
LEMMA LoadedMoves ==
  ASSUME LocalTypes, NEW h \in Handlers, NEW gone \in BOOLEAN, NEW i \in Incident,
         Loaded(h, i, gone), Locals(h), pc[h] \in {"cacheGet", "cacheFill"},
         i.id = req[h].id, db[i.id] # None, UNCHANGED db
  PROVE  LocalTypes' /\ Others(h) /\ Locals(h)' /\ pc'[h] # "dbCreate"
<1>1. CASE req[h].op = "get"
  BY <1>1, ReturnMoves DEF Loaded
<1>2. CASE req[h].op # "get"
  <2> DEFINE j == Updated(i, req[h].body)
  <2>1. req[h].op = "update" /\ req[h].body \in Bodies
    BY <1>2 DEF Locals, RequestOK
  <2>2. j \in Incident /\ j.id = i.id
    BY <2>1 DEF Updated, Incident
  <2>3. Goto(h, "dbUpdate", gone) /\ inc' = [inc EXCEPT ![h] = j] /\ UNCHANGED attempt
    BY <1>2 DEF Loaded
  <2> HIDE DEF j
  <2>4. /\ LocalTypes' /\ Others(h)
        /\ pc'[h] = "dbUpdate" /\ req'[h] = req[h]
        /\ inc'[h] = j /\ attempt'[h] = attempt[h]
    BY <2>2, <2>3, GotoHolding DEF Stage
  <2>5. RequestOK(h)' /\ AttemptOK(h)' /\ IncidentOK(h)'
    BY <2>1, <2>2, <2>4 DEF Locals, RequestOK, AttemptOK, IncidentOK, Holds
  <2> QED
    BY <2>4, <2>5 DEF Locals
<1> QED
  BY <1>1, <1>2

LEMMA CacheGetKeeps ==
  ASSUME IInv, NEW h \in Handlers, CacheGet(h)
  PROVE  IInv'
<1>1. PICK gone \in BOOLEAN :
        \/ cache[req[h].id] # None /\ Loaded(h, cache[req[h].id], gone)
        \/ Goto(h, "dbGet", gone) /\ UNCHANGED <<inc, attempt>>
  BY DEF CacheGet, Cached
<1>2. pc[h] = "cacheGet" /\ UNCHANGED <<up, cacheVars, retryVars, phase, db>>
  BY DEF CacheGet
<1>3. LocalTypes /\ Locals(h) /\ CacheTypes /\ CacheRows
  BY Parts DEF IInv, Locals
<1>4. req[h].id \in Ids
  BY <1>2, <1>3 DEF Locals, RequestOK, Request
<1>5. LocalTypes' /\ Others(h) /\ Locals(h)' /\ pc'[h] # "dbCreate"
  <2>1. CASE cache[req[h].id] # None /\ Loaded(h, cache[req[h].id], gone)
    <3>1. /\ cache[req[h].id] \in Incident
          /\ cache[req[h].id].id = req[h].id /\ db[req[h].id] # None
      BY <1>3, <1>4, <2>1 DEF CacheTypes, CacheRows
    <3> QED
      BY <1>2, <1>3, <2>1, <3>1, LoadedMoves
  <2>2. CASE Goto(h, "dbGet", gone) /\ UNCHANGED <<inc, attempt>>
    <3>1. /\ LocalTypes' /\ Others(h)
          /\ pc'[h] = "dbGet" /\ req'[h] = req[h]
          /\ inc'[h] = inc[h] /\ attempt'[h] = attempt[h]
      BY <1>3, <2>2, GotoMoves DEF Stage
    <3>2. RequestOK(h)' /\ AttemptOK(h)' /\ IncidentOK(h)'
      BY <1>2, <1>3, <3>1 DEF Locals, RequestOK, AttemptOK, IncidentOK, Holds
    <3> QED
      BY <3>1, <3>2 DEF Locals
  <2> QED
    BY <1>1, <2>1, <2>2
<1>6. TableTypes' /\ RowIds' /\ OnlyCreates(h)
  BY <1>2, TableStays
<1>7. /\ CacheTypes' /\ CacheRows' /\ ActiveIdsHaveKeys'
      /\ QueueTypes' /\ QueueRows'
  BY <1>2, <1>6, RowsStay
<1> QED
  BY <1>5, <1>6, <1>7, HandlerPreserves

LEMMA DBGetKeeps ==
  ASSUME IInv, NEW h \in Handlers, DBGet(h)
  PROVE  IInv'
<1>1. PICK gone \in BOOLEAN :
        \/ /\ db[req[h].id] # None
           /\ Goto(h, "cacheFill", gone)
           /\ inc' = [inc EXCEPT ![h] = db[req[h].id]]
           /\ UNCHANGED attempt
        \/ Return(h)
  BY DEF DBGet
<1>2. pc[h] = "dbGet" /\ UNCHANGED <<up, cacheVars, retryVars, phase, db>>
  BY DEF DBGet
<1>3. LocalTypes /\ Locals(h) /\ TableTypes /\ RowIds
  BY Parts DEF IInv, Locals
<1>4. req[h].id \in Ids
  BY <1>2, <1>3 DEF Locals, RequestOK, Request
<1>5. LocalTypes' /\ Others(h) /\ Locals(h)' /\ pc'[h] # "dbCreate"
  <2>1. CASE /\ db[req[h].id] # None
             /\ Goto(h, "cacheFill", gone)
             /\ inc' = [inc EXCEPT ![h] = db[req[h].id]]
             /\ UNCHANGED attempt
    <3>1. db[req[h].id] \in Incident /\ db[req[h].id].id = req[h].id
      BY <1>3, <1>4, <2>1 DEF TableTypes, RowIds
    <3>2. /\ LocalTypes' /\ Others(h)
          /\ pc'[h] = "cacheFill" /\ req'[h] = req[h]
          /\ inc'[h] = db[req[h].id] /\ attempt'[h] = attempt[h]
      BY <1>3, <2>1, <3>1, GotoHolding DEF Stage
    <3>3. RequestOK(h)' /\ AttemptOK(h)' /\ IncidentOK(h)'
      BY <1>2, <1>3, <2>1, <3>1, <3>2
         DEF Locals, RequestOK, AttemptOK, IncidentOK, Holds
    <3> QED
      BY <3>2, <3>3 DEF Locals
  <2>2. CASE Return(h)
    BY <1>3, <2>2, ReturnMoves
  <2> QED
    BY <1>1, <2>1, <2>2
<1>6. TableTypes' /\ RowIds' /\ OnlyCreates(h)
  BY <1>2, TableStays
<1>7. /\ CacheTypes' /\ CacheRows' /\ ActiveIdsHaveKeys'
      /\ QueueTypes' /\ QueueRows'
  BY <1>2, <1>6, RowsStay
<1> QED
  BY <1>5, <1>6, <1>7, HandlerPreserves

LEMMA CacheFillKeeps ==
  ASSUME IInv, NEW h \in Handlers, CacheFill(h)
  PROVE  IInv'
<1>1. PICK gone \in BOOLEAN :
        /\ Set(inc[h]) \/ UNCHANGED cacheVars
        /\ Loaded(h, inc[h], gone)
  BY DEF CacheFill
<1>2. pc[h] = "cacheFill" /\ UNCHANGED <<up, retryVars, phase, db>>
  BY DEF CacheFill
<1>3. /\ LocalTypes /\ Locals(h) /\ CacheTypes /\ CacheRows /\ ActiveIdsHaveKeys
      /\ QueueTypes /\ QueueRows
  BY Parts DEF IInv, Locals
<1>4. inc[h] \in Incident /\ inc[h].id = req[h].id /\ db[inc[h].id] # None
  BY <1>2, <1>3 DEF Locals, IncidentOK, Holds
<1>5. LocalTypes' /\ Others(h) /\ Locals(h)' /\ pc'[h] # "dbCreate"
  BY <1>1, <1>2, <1>3, <1>4, LoadedMoves
<1>6. TableTypes' /\ RowIds' /\ OnlyCreates(h)
  BY <1>2, TableStays
<1>7. CacheTypes' /\ CacheRows' /\ ActiveIdsHaveKeys'
  <2>1. CASE Set(inc[h])
    BY <1>2, <1>3, <1>4, <2>1, SetKeeps
  <2>2. CASE UNCHANGED cacheVars
    BY <1>2, <1>3, <2>2 DEF cacheVars, CacheTypes, CacheRows, ActiveIdsHaveKeys
  <2> QED
    BY <1>1, <2>1, <2>2
<1>8. QueueTypes' /\ QueueRows'
  BY <1>2, <1>3 DEF retryVars, QueueTypes, QueueRows
<1> QED
  BY <1>5, <1>6, <1>7, <1>8, HandlerPreserves

(* retry.Do has failed. *)
LEMMA GiveUpKeeps ==
  ASSUME IInv, NEW h \in Handlers, GiveUp(h), pc[h] \in {"cacheWrite", "backoff"},
         UNCHANGED db
  PROVE  /\ LocalTypes' /\ Others(h) /\ Locals(h)' /\ pc'[h] # "dbCreate"
         /\ QueueTypes' /\ QueueRows'
<1>1. /\ IF req[h].op = "delete" THEN UNCHANGED retryVars ELSE Enqueue(inc[h])
      /\ Return(h)
  BY DEF GiveUp
<1>2. LocalTypes /\ QueueTypes /\ QueueRows
  BY Parts DEF IInv
<1>3. LocalTypes' /\ Others(h) /\ Locals(h)' /\ pc'[h] # "dbCreate"
  BY <1>1, <1>2, ReturnMoves
<1>4. QueueTypes' /\ QueueRows'
  <2>1. CASE req[h].op = "delete"
    BY <1>1, <1>2, <2>1 DEF retryVars, QueueTypes, QueueRows
  <2>2. CASE req[h].op # "delete"
    <3>1. inc[h] \in Incident /\ db[inc[h].id] # None
      BY <2>2 DEF IInv, IncidentOK, Holds
    <3> QED
      BY <1>1, <1>2, <2>2, <3>1, EnqueueKeeps
  <2> QED
    BY <2>1, <2>2
<1> QED
  BY <1>3, <1>4

LEMMA CacheWriteKeeps ==
  ASSUME IInv, NEW h \in Handlers, CacheWrite(h)
  PROVE  IInv'
<1>1. PICK gone \in BOOLEAN :
        /\ \/ UNCHANGED cacheVars
           \/ req[h].op = "delete" /\ Delete(req[h].id)
           \/ req[h].op # "delete" /\ Set(inc[h])
        /\ \/ Return(h) /\ UNCHANGED retryVars
           \/ GiveUp(h)
           \/ /\ attempt[h] # MaxAttempts - 1
              /\ Goto(h, "backoff", gone)
              /\ UNCHANGED <<inc, attempt, retryVars>>
  BY DEF CacheWrite, LastAttempt
<1>2. pc[h] = "cacheWrite" /\ UNCHANGED <<up, phase, db>>
  BY DEF CacheWrite
<1>3. /\ LocalTypes /\ Locals(h) /\ CacheTypes /\ CacheRows /\ ActiveIdsHaveKeys
      /\ QueueTypes /\ QueueRows
  BY Parts DEF IInv, Locals
<1>4. CacheTypes' /\ CacheRows' /\ ActiveIdsHaveKeys'
  <2>1. CASE UNCHANGED cacheVars
    BY <1>2, <1>3, <2>1 DEF cacheVars, CacheTypes, CacheRows, ActiveIdsHaveKeys
  <2>2. CASE req[h].op = "delete" /\ Delete(req[h].id)
    <3>1. req[h].id \in Ids
      BY <1>2, <1>3 DEF Locals, RequestOK, Request
    <3> QED
      BY <1>2, <1>3, <2>2, <3>1, DeleteKeeps
  <2>3. CASE req[h].op # "delete" /\ Set(inc[h])
    <3>1. inc[h] \in Incident /\ db[inc[h].id] # None
      BY <1>2, <1>3, <2>3 DEF Locals, IncidentOK, Holds
    <3> QED
      BY <1>2, <1>3, <2>3, <3>1, SetKeeps
  <2> QED
    BY <1>1, <2>1, <2>2, <2>3
<1>5. /\ LocalTypes' /\ Others(h) /\ Locals(h)' /\ pc'[h] # "dbCreate"
      /\ QueueTypes' /\ QueueRows'
  <2>1. CASE Return(h) /\ UNCHANGED retryVars
    <3>1. LocalTypes' /\ Others(h) /\ Locals(h)' /\ pc'[h] # "dbCreate"
      BY <1>3, <2>1, ReturnMoves
    <3>2. QueueTypes' /\ QueueRows'
      BY <1>2, <1>3, <2>1 DEF retryVars, QueueTypes, QueueRows
    <3> QED
      BY <3>1, <3>2
  <2>2. CASE GiveUp(h)
    BY <1>2, <2>2, GiveUpKeeps
  <2>3. CASE /\ attempt[h] # MaxAttempts - 1
             /\ Goto(h, "backoff", gone)
             /\ UNCHANGED <<inc, attempt, retryVars>>
    <3>1. /\ LocalTypes' /\ Others(h)
          /\ pc'[h] = "backoff" /\ req'[h] = req[h]
          /\ inc'[h] = inc[h] /\ attempt'[h] = attempt[h]
      BY <1>3, <2>3, GotoMoves DEF Stage
    <3>2. RequestOK(h)' /\ IncidentOK(h)'
      BY <1>2, <1>3, <3>1 DEF Locals, RequestOK, IncidentOK, Holds
    <3>3. attempt[h] \in Nat
      BY <1>3 DEF LocalTypes
    <3>4. AttemptOK(h)'
      BY <1>2, <1>3, <2>3, <3>1, <3>3, MaxAttemptsAssumption DEF Locals, AttemptOK
    <3>5. QueueTypes' /\ QueueRows'
      BY <1>2, <1>3, <2>3 DEF retryVars, QueueTypes, QueueRows
    <3> QED
      BY <3>1, <3>2, <3>4, <3>5 DEF Locals
  <2> QED
    BY <1>1, <2>1, <2>2, <2>3
<1>6. TableTypes' /\ RowIds' /\ OnlyCreates(h)
  BY <1>2, TableStays
<1> QED
  BY <1>4, <1>5, <1>6, HandlerPreserves

LEMMA BackoffElapsedKeeps ==
  ASSUME IInv, NEW h \in Handlers, BackoffElapsed(h)
  PROVE  IInv'
<1>1. /\ pc[h] = "backoff" /\ Goto(h, "cacheWrite", cancelled[h])
      /\ attempt' = [attempt EXCEPT ![h] = @ + 1]
      /\ UNCHANGED <<up, cacheVars, retryVars, phase, db, inc>>
  BY DEF BackoffElapsed
<1>2. LocalTypes /\ Locals(h)
  BY Parts DEF IInv, Locals
<1>3. attempt[h] + 1 < MaxAttempts /\ attempt[h] \in Nat
  BY <1>1, <1>2 DEF LocalTypes, Locals, AttemptOK
<1>4. LocalTypes'
  BY <1>1, <1>2, <1>3, MaxAttemptsAssumption DEF Goto, LocalTypes, Stage
<1>5. /\ Others(h)
      /\ pc'[h] = "cacheWrite" /\ req'[h] = req[h]
      /\ inc'[h] = inc[h] /\ attempt'[h] = attempt[h] + 1
  BY <1>1, <1>2 DEF Goto, LocalTypes, Others
<1>6. Locals(h)' /\ pc'[h] # "dbCreate"
  BY <1>1, <1>2, <1>3, <1>5 DEF Locals, RequestOK, AttemptOK, IncidentOK, Holds
<1>7. TableTypes' /\ RowIds' /\ OnlyCreates(h)
  BY <1>1, TableStays
<1>8. /\ CacheTypes' /\ CacheRows' /\ ActiveIdsHaveKeys'
      /\ QueueTypes' /\ QueueRows'
  BY <1>1, <1>7, RowsStay
<1> QED
  BY <1>4, <1>5, <1>6, <1>7, <1>8, HandlerPreserves

LEMMA BackoffCancelledKeeps ==
  ASSUME IInv, NEW h \in Handlers, BackoffCancelled(h)
  PROVE  IInv'
<1>1. /\ pc[h] = "backoff" /\ GiveUp(h)
      /\ UNCHANGED <<up, cacheVars, phase, db>>
  BY DEF BackoffCancelled
<1>2. /\ LocalTypes' /\ Others(h) /\ Locals(h)' /\ pc'[h] # "dbCreate"
      /\ QueueTypes' /\ QueueRows'
  BY <1>1, GiveUpKeeps
<1>3. TableTypes' /\ RowIds' /\ OnlyCreates(h)
  BY <1>1, TableStays
<1>4. CacheTypes' /\ CacheRows' /\ ActiveIdsHaveKeys'
  BY <1>1, Parts DEF IInv, cacheVars, CacheTypes, CacheRows, ActiveIdsHaveKeys
<1> QED
  BY <1>2, <1>3, <1>4, HandlerPreserves

LEMMA HandlerStepKeeps ==
  ASSUME IInv, NEW h \in Handlers, HandlerStep(h)
  PROVE  IInv'
BY DBCreateKeeps, CacheGetKeeps, DBGetKeeps, CacheFillKeeps, DBUpdateKeeps,
   DBDeleteKeeps, CacheWriteKeeps, BackoffElapsedKeeps, BackoffCancelledKeeps
   DEF HandlerStep

-----------------------------------------------------------------------------
(* The steps that start a request, and those of its client. *)

LEMMA AcceptMoves ==
  ASSUME IInv, NEW h \in Handlers, NEW r \in Request, NEW stage \in Stage,
         Accept(h, r, stage), inc' \in [Handlers -> Incident \cup {None}],
         \A g \in Handlers \ {h} : inc'[g] = inc[g]
  PROVE  /\ LocalTypes' /\ Others(h)
         /\ pc'[h] = stage /\ req'[h] = r /\ attempt'[h] = 0
<1>1. LocalTypes
  BY Parts DEF IInv
<1>2. attempt[h] = 0
  BY DEF Accept, IInv, AttemptOK
<1> QED
  BY <1>1, <1>2 DEF Accept, LocalTypes, Others

(* A request that does not create. *)
LEMMA AcceptKeeps ==
  ASSUME IInv, NEW h \in Handlers, NEW r \in Request, NEW stage \in Stage,
         Accept(h, r, stage), UNCHANGED inc,
         \/ stage = "cacheGet" /\ r.op = "get"
         \/ stage = "cacheGet" /\ r.op = "update" /\ r.body \in Bodies
         \/ stage = "dbDelete" /\ r.op = "delete"
  PROVE  IInv'
<1>1. UNCHANGED <<up, cacheVars, retryVars, phase, db>>
  BY DEF Accept
<1>2. LocalTypes
  BY Parts DEF IInv
<1>3. /\ LocalTypes' /\ Others(h)
      /\ pc'[h] = stage /\ req'[h] = r /\ attempt'[h] = 0
  BY <1>2, AcceptMoves DEF LocalTypes
<1>4. Locals(h)' /\ pc'[h] # "dbCreate"
  BY <1>3 DEF Locals, RequestOK, AttemptOK, IncidentOK, Holds
<1>5. TableTypes' /\ RowIds' /\ OnlyCreates(h)
  BY <1>1, TableStays
<1>6. /\ CacheTypes' /\ CacheRows' /\ ActiveIdsHaveKeys'
      /\ QueueTypes' /\ QueueRows'
  BY <1>1, <1>5, RowsStay
<1> QED
  BY <1>3, <1>4, <1>5, <1>6, HandlerPreserves

LEMMA AcceptGetKeeps ==
  ASSUME IInv, NEW h \in Handlers, AcceptGet(h)
  PROVE  IInv'
<1>1. PICK id \in Ids :
        /\ Accept(h, [op |-> "get", id |-> id, body |-> None], "cacheGet")
        /\ UNCHANGED inc
  BY DEF AcceptGet
<1>2. [op |-> "get", id |-> id, body |-> None] \in Request
  BY DEF Request
<1> QED
  BY <1>1, <1>2, AcceptKeeps DEF Stage

LEMMA AcceptUpdateKeeps ==
  ASSUME IInv, NEW h \in Handlers, AcceptUpdate(h)
  PROVE  IInv'
<1>1. PICK id \in Ids, b \in Bodies :
        /\ Accept(h, [op |-> "update", id |-> id, body |-> b], "cacheGet")
        /\ UNCHANGED inc
  BY DEF AcceptUpdate
<1>2. [op |-> "update", id |-> id, body |-> b] \in Request
  BY DEF Request
<1> QED
  BY <1>1, <1>2, AcceptKeeps DEF Stage

LEMMA AcceptDeleteKeeps ==
  ASSUME IInv, NEW h \in Handlers, AcceptDelete(h)
  PROVE  IInv'
<1>1. PICK id \in Ids :
        /\ Accept(h, [op |-> "delete", id |-> id, body |-> None], "dbDelete")
        /\ UNCHANGED inc
  BY DEF AcceptDelete
<1>2. [op |-> "delete", id |-> id, body |-> None] \in Request
  BY DEF Request
<1> QED
  BY <1>1, <1>2, AcceptKeeps DEF Stage

(* A new id is nobody else's, so the create meets no row and no rival. *)
LEMMA AcceptCreateKeeps ==
  ASSUME IInv, NEW h \in Handlers, AcceptCreate(h)
  PROVE  IInv'
<1>1. PICK id \in Ids, b \in Bodies :
        /\ Fresh(id)
        /\ inc' = [inc EXCEPT ![h] = NewIncident(id, b)]
        /\ Accept(h, [op |-> "create", id |-> id, body |-> None], "dbCreate")
  BY DEF AcceptCreate
<1> DEFINE r == [op |-> "create", id |-> id, body |-> None]
           i == NewIncident(id, b)
<1>2. UNCHANGED <<up, cacheVars, retryVars, phase, db>>
  BY <1>1 DEF Accept
<1>3. LocalTypes
  BY Parts DEF IInv
<1>4. r \in Request /\ r.op = "create" /\ r.id = id
  BY DEF Request
<1>5. i \in Incident /\ i.id = id /\ i.active
  BY DEF NewIncident, Incident
<1> HIDE DEF r, i
<1>6. /\ inc' \in [Handlers -> Incident \cup {None}] /\ inc'[h] = i
      /\ \A g \in Handlers \ {h} : inc'[g] = inc[g]
  BY <1>1, <1>3, <1>5 DEF LocalTypes, i
<1>7. /\ LocalTypes' /\ Others(h)
      /\ pc'[h] = "dbCreate" /\ req'[h] = r /\ attempt'[h] = 0
  BY <1>1, <1>4, <1>6, AcceptMoves DEF Stage, r
<1>8. Locals(h)'
  BY <1>1, <1>2, <1>4, <1>5, <1>6, <1>7
     DEF Fresh, Locals, RequestOK, AttemptOK, IncidentOK, Holds
<1>9. ASSUME NEW g \in Handlers \ {h} PROVE Locals(g)'
  BY <1>2, <1>7 DEF IInv, Others, Locals, RequestOK, AttemptOK, IncidentOK, Holds
<1>10. CreatesApart'
  BY <1>1, <1>4, <1>7 DEF IInv, Others, CreatesApart, Fresh, Works
<1>11. TableTypes' /\ RowIds' /\ OnlyCreates(h)
  BY <1>2, TableStays
<1>12. /\ CacheTypes' /\ CacheRows' /\ ActiveIdsHaveKeys'
       /\ QueueTypes' /\ QueueRows'
  BY <1>2, <1>11, RowsStay
<1>13. TypeOK'
  BY <1>7, <1>11, <1>12 DEF TypeOK, LocalTypes, CacheTypes, QueueTypes, TableTypes
<1>14. RowsOK'
  BY <1>11, <1>12 DEF RowsOK, RowIds, CacheRows, QueueRows
<1> QED
  BY <1>8, <1>9, <1>10, <1>12, <1>13, <1>14 DEF IInv, Locals

(* What does not touch the handlers, the table, the cache or the queue. *)
LEMMA LocalsStay ==
  ASSUME IInv, UNCHANGED <<db, pc, req, inc, attempt>>
  PROVE  (\A h \in Handlers : Locals(h)') /\ CreatesApart'
BY DEF IInv, Locals, RequestOK, AttemptOK, IncidentOK, Holds, CreatesApart

LEMMA ClientLeavesKeeps ==
  ASSUME IInv, NEW h \in Handlers, ClientLeaves(h)
  PROVE  IInv'
<1>1. UNCHANGED <<up, cacheVars, retryVars, phase, db, pc, req, inc, attempt>>
  BY DEF ClientLeaves
<1>2. TypeOK'
  BY <1>1 DEF IInv, TypeOK, ClientLeaves, cacheVars, retryVars
<1>3. RowsOK' /\ ActiveIdsHaveKeys'
  BY <1>1 DEF IInv, RowsOK, ActiveIdsHaveKeys, cacheVars, retryVars
<1> QED
  BY <1>1, <1>2, <1>3, LocalsStay DEF IInv, Locals

-----------------------------------------------------------------------------
(* The steps of the process, its environment and the worker. *)

LEMMA StartUpKeeps ==
  ASSUME IInv, StartUp
  PROVE  IInv'
<1>1. PICK ids \in SUBSET Ids :
        /\ WarmUp(Seen(ids)) \/ UNCHANGED cacheVars
        /\ phase' \in {"down", "serving"}
  BY DEF StartUp
<1>2. UNCHANGED <<up, retryVars, db, handlerVars>>
  BY DEF StartUp
<1>3. CacheTypes /\ CacheRows /\ ActiveIdsHaveKeys /\ TableTypes /\ RowIds
  BY Parts DEF IInv
<1>4. CacheTypes' /\ CacheRows' /\ ActiveIdsHaveKeys'
  <2>1. CASE WarmUp(Seen(ids))
    <3>1. \A id \in Ids : IsActive(Seen(ids)[id]) =>
            /\ Seen(ids)[id] = db[id]
            /\ db[id] \in Incident /\ db[id].id = id /\ db[id] # None
      BY <1>3 DEF Seen, IsActive, TableTypes, RowIds
    <3>2. /\ cache' = [id \in Ids |-> IF IsActive(Seen(ids)[id]) THEN Seen(ids)[id]
                                      ELSE cache[id]]
          /\ activeIds' = {id \in Ids : IsActive(Seen(ids)[id])}
      BY <2>1 DEF WarmUp
    <3>3. CacheTypes'
      BY <1>3, <3>1, <3>2 DEF CacheTypes
    <3>4. CacheRows' /\ ActiveIdsHaveKeys'
      BY <1>2, <1>3, <3>1, <3>2 DEF CacheRows, ActiveIdsHaveKeys
    <3> QED
      BY <3>3, <3>4
  <2>2. CASE UNCHANGED cacheVars
    BY <1>2, <1>3, <2>2 DEF cacheVars, CacheTypes, CacheRows, ActiveIdsHaveKeys
  <2> QED
    BY <1>1, <2>1, <2>2
<1>5. TypeOK'
  BY <1>1, <1>2, <1>4 DEF IInv, TypeOK, CacheTypes, retryVars, handlerVars
<1>6. RowsOK'
  BY <1>2, <1>4 DEF IInv, RowsOK, CacheRows, retryVars
<1> QED
  BY <1>2, <1>4, <1>5, <1>6, LocalsStay DEF IInv, Locals, handlerVars

LEMMA CrashKeeps ==
  ASSUME IInv, Crash
  PROVE  IInv'
<1>1. /\ phase' = "down" /\ retryQ' = <<>> /\ worker' = None
      /\ IdleHandlers' /\ UNCHANGED <<up, cacheVars, db>>
  BY DEF Crash, IdleHandlers
<1>2. LocalTypes' /\ CreatesApart' /\ \A h \in Handlers : Locals(h)'
  <2>1. pc' = [h \in Handlers |-> "idle"] /\ attempt' = [h \in Handlers |-> 0]
    BY <1>1 DEF IdleHandlers
  <2>2. LocalTypes'
    BY <1>1, MaxAttemptsAssumption DEF IdleHandlers, LocalTypes, Stage
  <2> QED
    BY <2>1, <2>2 DEF CreatesApart, Locals, RequestOK, AttemptOK, IncidentOK, Holds
<1>3. QueueTypes' /\ QueueRows'
  BY <1>1, CacheRetrySizeAssumption DEF QueueTypes, QueueRows
<1>4. TypeOK'
  BY <1>1, <1>2, <1>3
     DEF IInv, TypeOK, LocalTypes, QueueTypes, cacheVars
<1>5. RowsOK' /\ ActiveIdsHaveKeys'
  BY <1>1, <1>3 DEF IInv, RowsOK, QueueRows, ActiveIdsHaveKeys, cacheVars
<1> QED
  BY <1>2, <1>4, <1>5 DEF IInv, Locals

LEMMA StoreChangesKeeps ==
  ASSUME IInv, StoreChanges
  PROVE  IInv'
<1>1. UNCHANGED <<cacheVars, retryVars, phase, db, handlerVars>>
  BY DEF StoreChanges
<1>2. up' \in [Store -> BOOLEAN]
  BY DEF IInv, TypeOK, StoreChanges, Degrade, Recover
<1>3. TypeOK'
  BY <1>1, <1>2 DEF IInv, TypeOK, cacheVars, retryVars, handlerVars
<1>4. RowsOK' /\ ActiveIdsHaveKeys'
  BY <1>1 DEF IInv, RowsOK, ActiveIdsHaveKeys, cacheVars, retryVars
<1> QED
  BY <1>1, <1>3, <1>4, LocalsStay DEF IInv, Locals, handlerVars

LEMMA WorkerTakeKeeps ==
  ASSUME QueueTypes, QueueRows, WorkerTake, UNCHANGED db
  PROVE  QueueTypes' /\ QueueRows'
<1>1. /\ retryQ # <<>> /\ worker' = Head(retryQ) /\ retryQ' = Tail(retryQ)
  BY DEF WorkerTake
<1>2. Head(retryQ) = retryQ[1] /\ 1 \in 1 .. Len(retryQ) /\ retryQ[1] \in Incident
  BY <1>1 DEF QueueTypes
<1>3. QueueTypes'
  BY <1>1, <1>2, CacheRetrySizeAssumption DEF QueueTypes
<1>4. \A k \in 1 .. Len(Tail(retryQ)) :
        k + 1 \in 1 .. Len(retryQ) /\ Tail(retryQ)[k] = retryQ[k + 1]
  BY <1>1 DEF QueueTypes
<1>5. QueueRows'
  BY <1>1, <1>2, <1>4 DEF QueueRows
<1> QED
  BY <1>3, <1>5

LEMMA WorkerKeeps ==
  ASSUME IInv, Worker
  PROVE  IInv'
<1>1. UNCHANGED <<up, phase, db, handlerVars>>
  BY DEF Worker
<1>2. /\ QueueTypes /\ QueueRows
      /\ CacheTypes /\ CacheRows /\ ActiveIdsHaveKeys
  BY Parts DEF IInv
<1>3. /\ QueueTypes' /\ QueueRows'
      /\ CacheTypes' /\ CacheRows' /\ ActiveIdsHaveKeys'
  <2>1. CASE WorkerTake
    <3>1. QueueTypes' /\ QueueRows'
      BY <1>1, <1>2, <2>1, WorkerTakeKeeps
    <3> QED
      BY <1>1, <1>2, <2>1, <3>1
         DEF WorkerTake, cacheVars, CacheTypes, CacheRows, ActiveIdsHaveKeys
  <2>2. CASE WorkerSet
    <3>1. worker \in Incident /\ db[worker.id] # None
      BY <1>2, <2>2 DEF WorkerSet, QueueTypes, QueueRows
    <3>2. CacheTypes' /\ CacheRows' /\ ActiveIdsHaveKeys'
      <4>1. CASE Set(worker)
        BY <1>1, <1>2, <3>1, <4>1, SetKeeps
      <4>2. CASE UNCHANGED cacheVars
        BY <1>1, <1>2, <4>2 DEF cacheVars, CacheTypes, CacheRows, ActiveIdsHaveKeys
      <4> QED
        BY <2>2, <4>1, <4>2 DEF WorkerSet
    <3>3. worker' = None /\ (UNCHANGED retryQ \/ Buffer(worker))
      BY <2>2 DEF WorkerSet, SetFailed
    <3>4. QueueTypes' /\ QueueRows'
      <4>1. CASE UNCHANGED retryQ
        BY <1>1, <1>2, <3>3, <4>1 DEF QueueTypes, QueueRows
      <4>2. CASE Buffer(worker)
        BY <1>1, <1>2, <3>1, <3>3, <4>2, BufferKeeps DEF QueueTypes, QueueRows
      <4> QED
        BY <3>3, <4>1, <4>2
    <3> QED
      BY <3>2, <3>4
  <2> QED
    BY <2>1, <2>2 DEF Worker
<1>4. TypeOK'
  BY <1>1, <1>3 DEF IInv, TypeOK, CacheTypes, QueueTypes, handlerVars
<1>5. RowsOK'
  BY <1>1, <1>3 DEF IInv, RowsOK, CacheRows, QueueRows
<1> QED
  BY <1>1, <1>3, <1>4, <1>5, LocalsStay DEF IInv, Locals, handlerVars

-----------------------------------------------------------------------------
(* The invariant and what follows from it. *)

LEMMA InitIInv == Init => IInv
<1> SUFFICES ASSUME Init PROVE IInv
  OBVIOUS
<1>1. LocalTypes /\ CreatesApart /\ \A h \in Handlers : Locals(h)
  BY InitialLocals DEF Init
<1>2. TypeOK
  BY <1>1, CacheRetrySizeAssumption
     DEF Init, TypeOK, LocalTypes, StoresInit, CacheInit, RetryInit
<1>3. RowsOK /\ ActiveIdsHaveKeys
  BY DEF Init, RowsOK, ActiveIdsHaveKeys, CacheInit, RetryInit
<1> QED
  BY <1>1, <1>2, <1>3 DEF IInv, Locals

LEMMA NextIInv == IInv /\ [Next]_vars => IInv'
<1> SUFFICES ASSUME IInv, [Next]_vars PROVE IInv'
  OBVIOUS
<1>1. CASE \E h \in Handlers :
             \/ AcceptCreate(h) \/ AcceptGet(h) \/ AcceptUpdate(h) \/ AcceptDelete(h)
             \/ ClientLeaves(h) \/ HandlerStep(h)
  BY <1>1, AcceptCreateKeeps, AcceptGetKeeps, AcceptUpdateKeeps, AcceptDeleteKeeps,
     ClientLeavesKeeps, HandlerStepKeeps
<1>2. CASE StartUp \/ Crash \/ StoreChanges \/ Worker
  BY <1>2, StartUpKeeps, CrashKeeps, StoreChangesKeeps, WorkerKeeps
<1>3. CASE UNCHANGED vars
  <2>1. UNCHANGED <<up, cacheVars, retryVars, phase, db, handlerVars>>
    BY <1>3 DEF vars
  <2>2. TypeOK' /\ RowsOK' /\ ActiveIdsHaveKeys'
    BY <2>1 DEF IInv, TypeOK, RowsOK, ActiveIdsHaveKeys,
                cacheVars, retryVars, handlerVars
  <2> QED
    BY <2>1, <2>2, LocalsStay DEF IInv, Locals, handlerVars
<1> QED
  BY <1>1, <1>2, <1>3 DEF Next

LEMMA BackedByRowFromIInv == IInv => BackedByRow
<1> SUFFICES ASSUME IInv PROVE BackedByRow
  OBVIOUS
<1>1. ASSUME NEW id \in Ids, cache[id] # None \/ Queued(id) PROVE db[id] # None
  BY <1>1 DEF IInv, RowsOK, Queued
<1>2. ASSUME NEW h \in Handlers, pc[h] = "dbUpdate" PROVE db[inc[h].id] # None
  BY <1>2 DEF IInv, IncidentOK, Holds
<1> QED
  BY <1>1, <1>2 DEF BackedByRow

(* The inductive invariant holds in every reachable state. *)
THEOREM Invariance == Spec => []IInv
BY InitIInv, NextIInv, PTL DEF Spec

(* Every variable of the service keeps its type, whatever fails. *)
THEOREM TypeCorrect == Spec => []TypeOK
<1>1. IInv => TypeOK
  BY DEF IInv
<1> QED
  BY <1>1, Invariance, PTL

(***************************************************************************)
(* Whatever is cached, queued for the cache or about to be written back by *)
(* a PUT has its row in the table, whatever fails.                         *)
(***************************************************************************)
THEOREM RowBehindEveryCopy == Spec => []BackedByRow
BY Invariance, BackedByRowFromIInv, PTL

(* active_incident_ids and the incidents' keys never come apart. *)
THEOREM KeysBehindActiveIds == Spec => []ActiveIdsHaveKeys
<1>1. IInv => ActiveIdsHaveKeys
  BY DEF IInv
<1> QED
  BY <1>1, Invariance, PTL

-----------------------------------------------------------------------------
(* Incidents implements the loose incident table, with rows <- db. *)

LEMMA CreateRefines ==
  ASSUME IInv, NEW h \in Handlers, DBCreate(h)
  PROVE  [Table!LooseNext]_db
<1>1. db' = [db EXCEPT ![inc[h].id] = inc[h]] \/ db' = db
  BY DEF DBCreate, RowInserted
<1>2. /\ inc[h] \in Incident /\ inc[h].active
      /\ inc[h].id \in Ids /\ db[inc[h].id] = None
  BY DEF DBCreate, IInv, IncidentOK, Incident
<1>3. inc[h] = NewIncident(inc[h].id, inc[h].body) /\ inc[h].body \in Bodies
  BY <1>2 DEF NewIncident, Incident
<1>4. CASE db' = [db EXCEPT ![inc[h].id] = inc[h]]
  <2>1. Table!Create(inc[h].id)
    BY <1>2, <1>3, <1>4 DEF Table!Create, Table!NewIncident, NewIncident
  <2> QED
    BY <1>2, <2>1 DEF Table!LooseNext
<1> QED
  BY <1>1, <1>4

LEMMA UpdateRefines ==
  ASSUME IInv, NEW h \in Handlers, DBUpdate(h)
  PROVE  [Table!LooseNext]_db
<1>1. db' = [db EXCEPT ![inc[h].id] = inc[h]] \/ db' = db
  BY DEF DBUpdate, RowOverwritten
<1>2. /\ inc[h] \in Incident
      /\ inc[h].id \in Ids /\ db[inc[h].id] # None
  BY DEF DBUpdate, IInv, IncidentOK, Holds, Incident
<1>3. CASE db' = [db EXCEPT ![inc[h].id] = inc[h]]
  <2>1. Table!Overwrite(inc[h].id)
    BY <1>2, <1>3 DEF Table!Overwrite, Table!Incident, Incident
  <2> QED
    BY <1>2, <2>1 DEF Table!LooseNext
<1> QED
  BY <1>1, <1>3

LEMMA DeleteRefines ==
  ASSUME IInv, NEW h \in Handlers, DBDelete(h)
  PROVE  [Table!LooseNext]_db
<1> DEFINE id == req[h].id
           i  == [db[id] EXCEPT !.active = FALSE]
<1>1. db' = db \/ (db[id] # None /\ db' = [db EXCEPT ![id] = i])
  BY DEF DBDelete, RowDeactivated
<1>2. id \in Ids
  BY DEF DBDelete, IInv, RequestOK, Request
<1>3. CASE db[id] # None /\ db' = [db EXCEPT ![id] = i]
  <2>1. db[id] \in Incident /\ db[id].id = id
    BY <1>2, <1>3 DEF IInv, TypeOK, RowsOK
  <2>2. i \in Table!Incident /\ i.id = id
    BY <2>1 DEF Table!Incident, Incident
  <2> HIDE DEF i
  <2>3. Table!Overwrite(id)
    BY <1>3, <2>2 DEF Table!Overwrite
  <2> QED
    BY <1>2, <2>3 DEF Table!LooseNext
<1> QED
  BY <1>1, <1>3

LEMMA NextRefines == IInv /\ [Next]_vars => [Table!LooseNext]_db
<1> SUFFICES ASSUME IInv, [Next]_vars PROVE [Table!LooseNext]_db
  OBVIOUS
<1>1. CASE \E h \in Handlers : HandlerStep(h)
  <2>1. PICK h \in Handlers : HandlerStep(h)
    BY <1>1
  <2>2. CASE DBCreate(h) \/ DBUpdate(h) \/ DBDelete(h)
    BY <2>2, CreateRefines, UpdateRefines, DeleteRefines
  <2>3. CASE CacheGet(h) \/ DBGet(h) \/ CacheFill(h) \/ CacheWrite(h)
             \/ BackoffElapsed(h) \/ BackoffCancelled(h)
    BY <2>3 DEF CacheGet, DBGet, CacheFill, CacheWrite, BackoffElapsed, BackoffCancelled
  <2> QED
    BY <2>1, <2>2, <2>3 DEF HandlerStep
<1>2. CASE \E h \in Handlers :
             \/ AcceptCreate(h) \/ AcceptGet(h) \/ AcceptUpdate(h) \/ AcceptDelete(h)
             \/ ClientLeaves(h)
  BY <1>2 DEF AcceptCreate, AcceptGet, AcceptUpdate, AcceptDelete, Accept, ClientLeaves
<1>3. CASE StartUp \/ Crash \/ StoreChanges \/ Worker
  BY <1>3 DEF StartUp, Crash, StoreChanges, Worker
<1>4. CASE UNCHANGED vars
  BY <1>4 DEF vars
<1> QED
  BY <1>1, <1>2, <1>3, <1>4 DEF Next

(***************************************************************************)
(* However requests, failures and crashes interleave, the table behaves as *)
(* the loose incident table: a row appears once, by the create of its own  *)
(* id and active, and from then on is only overwritten, by records of the  *)
(* same incident.                                                          *)
(***************************************************************************)
THEOREM RefinesLooseTable == Spec => KeepsRows
<1>1. Init => Table!Init
  BY DEF Init, Table!Init
<1> QED
  BY <1>1, Invariance, NextRefines, PTL DEF Spec, KeepsRows, Table!LooseSpec

-----------------------------------------------------------------------------
(***************************************************************************)
(* Progress without fairness: CallsLeft and Backlog are measures that the  *)
(* steps of the request and of the worker can only bring down.             *)
(***************************************************************************)

(* What a step of request h owes: the others wait, and h comes nearer to its end. *)
Advances(h) == Others(h) /\ CallsLeft(h)' < CallsLeft(h)

LEMMA CallsLeftType ==
  ASSUME LocalTypes, NEW h \in Handlers, AttemptOK(h), pc[h] # "idle"
  PROVE  CallsLeft(h) \in Nat /\ CallsLeft(h) > 0
<1>1. attempt[h] \in Nat /\ MaxAttempts \in Nat /\ attempt[h] <= MaxAttempts
      /\ pc[h] \in Stage
  BY MaxAttemptsAssumption DEF LocalTypes
<1>2. CASE pc[h] \in {"cacheWrite", "backoff"}
  BY <1>1, <1>2 DEF AttemptOK, CallsLeft
<1>3. CASE pc[h] \notin {"cacheWrite", "backoff"}
  BY <1>1, <1>3 DEF CallsLeft, Stage
<1> QED
  BY <1>2, <1>3

LEMMA ReturnAdvances ==
  ASSUME LocalTypes, NEW h \in Handlers, AttemptOK(h), pc[h] # "idle", Return(h)
  PROVE  Advances(h)
<1>1. Others(h) /\ pc'[h] = "idle"
  BY ReturnMoves
<1>2. CallsLeft(h)' = 0
  BY <1>1 DEF CallsLeft
<1> QED
  BY <1>1, <1>2, CallsLeftType DEF Advances

LEMMA StartRetryAdvances ==
  ASSUME LocalTypes, NEW h \in Handlers, NEW gone \in BOOLEAN, AttemptOK(h),
         pc[h] \in {"dbCreate", "dbUpdate", "dbDelete"}, StartRetry(h, gone)
  PROVE  Advances(h)
<1>1. CASE MaxAttempts = 0
  BY <1>1, ReturnAdvances DEF StartRetry
<1>2. CASE MaxAttempts # 0
  <2>1. Goto(h, "cacheWrite", gone) /\ UNCHANGED <<inc, attempt>>
    BY <1>2 DEF StartRetry
  <2>2. Others(h) /\ pc'[h] = "cacheWrite" /\ attempt'[h] = attempt[h]
    BY <2>1, GotoMoves DEF Stage
  <2>3. attempt[h] \in Nat
    BY DEF LocalTypes
  <2> QED
    BY <2>2, <2>3, MaxAttemptsAssumption DEF Advances, CallsLeft, AttemptOK
<1> QED
  BY <1>1, <1>2

LEMMA LoadedAdvances ==
  ASSUME LocalTypes, NEW h \in Handlers, NEW gone \in BOOLEAN, NEW i \in Incident,
         Locals(h), pc[h] \in {"cacheGet", "cacheFill"}, Loaded(h, i, gone)
  PROVE  Advances(h)
<1>1. CASE req[h].op = "get"
  BY <1>1, ReturnAdvances DEF Loaded, Locals
<1>2. CASE req[h].op # "get"
  <2> DEFINE j == Updated(i, req[h].body)
  <2>1. req[h].body \in Bodies
    BY <1>2 DEF Locals, RequestOK
  <2>2. j \in Incident
    BY <2>1 DEF Updated, Incident
  <2>3. Goto(h, "dbUpdate", gone) /\ inc' = [inc EXCEPT ![h] = j] /\ UNCHANGED attempt
    BY <1>2 DEF Loaded
  <2> HIDE DEF j
  <2>4. Others(h) /\ pc'[h] = "dbUpdate" /\ attempt'[h] = attempt[h]
    BY <2>2, <2>3, GotoHolding DEF Stage
  <2>5. attempt[h] = 0
    BY DEF Locals, AttemptOK
  <2> QED
    BY <2>4, <2>5, MaxAttemptsAssumption DEF Advances, CallsLeft
<1> QED
  BY <1>1, <1>2

LEMMA WritesAdvance ==
  ASSUME IInv, NEW h \in Handlers, DBCreate(h) \/ DBUpdate(h) \/ DBDelete(h)
  PROVE  Advances(h)
<1>1. pc[h] \in {"dbCreate", "dbUpdate", "dbDelete"}
      /\ \E gone \in BOOLEAN : StartRetry(h, gone) \/ Return(h)
  BY DEF DBCreate, DBUpdate, DBDelete
<1>2. LocalTypes /\ AttemptOK(h)
  BY Parts DEF IInv
<1> QED
  BY <1>1, <1>2, StartRetryAdvances, ReturnAdvances

LEMMA CacheGetAdvances ==
  ASSUME IInv, NEW h \in Handlers, CacheGet(h)
  PROVE  Advances(h)
<1>1. PICK gone \in BOOLEAN :
        \/ cache[req[h].id] # None /\ Loaded(h, cache[req[h].id], gone)
        \/ Goto(h, "dbGet", gone) /\ UNCHANGED <<inc, attempt>>
  BY DEF CacheGet, Cached
<1>2. pc[h] = "cacheGet" /\ LocalTypes /\ Locals(h) /\ CacheTypes
  BY Parts DEF IInv, Locals, CacheGet
<1>3. CASE cache[req[h].id] # None /\ Loaded(h, cache[req[h].id], gone)
  <2>1. req[h].id \in Ids
    BY <1>2 DEF Locals, RequestOK, Request
  <2>2. cache[req[h].id] \in Incident
    BY <1>2, <1>3, <2>1 DEF CacheTypes
  <2> QED
    BY <1>2, <1>3, <2>2, LoadedAdvances
<1>4. CASE Goto(h, "dbGet", gone) /\ UNCHANGED <<inc, attempt>>
  <2>1. Others(h) /\ pc'[h] = "dbGet" /\ attempt'[h] = attempt[h]
    BY <1>2, <1>4, GotoMoves DEF Stage
  <2>2. attempt[h] = 0
    BY <1>2 DEF Locals, AttemptOK
  <2> QED
    BY <1>2, <2>1, <2>2, MaxAttemptsAssumption DEF Advances, CallsLeft
<1> QED
  BY <1>1, <1>3, <1>4

LEMMA DBGetAdvances ==
  ASSUME IInv, NEW h \in Handlers, DBGet(h)
  PROVE  Advances(h)
<1>1. PICK gone \in BOOLEAN :
        \/ /\ db[req[h].id] # None
           /\ Goto(h, "cacheFill", gone)
           /\ inc' = [inc EXCEPT ![h] = db[req[h].id]]
           /\ UNCHANGED attempt
        \/ Return(h)
  BY DEF DBGet
<1>2. pc[h] = "dbGet" /\ LocalTypes /\ Locals(h) /\ TableTypes
  BY Parts DEF IInv, Locals, DBGet
<1>3. CASE /\ db[req[h].id] # None
           /\ Goto(h, "cacheFill", gone)
           /\ inc' = [inc EXCEPT ![h] = db[req[h].id]]
           /\ UNCHANGED attempt
  <2>1. req[h].id \in Ids
    BY <1>2 DEF Locals, RequestOK, Request
  <2>2. db[req[h].id] \in Incident
    BY <1>2, <1>3, <2>1 DEF TableTypes
  <2>3. Others(h) /\ pc'[h] = "cacheFill" /\ attempt'[h] = attempt[h]
    BY <1>2, <1>3, <2>2 DEF LocalTypes, Goto, Others
  <2>4. attempt[h] = 0
    BY <1>2 DEF Locals, AttemptOK
  <2> QED
    BY <1>2, <2>3, <2>4, MaxAttemptsAssumption DEF Advances, CallsLeft
<1>4. CASE Return(h)
  BY <1>2, <1>4, ReturnAdvances DEF Locals
<1> QED
  BY <1>1, <1>3, <1>4

LEMMA CacheFillAdvances ==
  ASSUME IInv, NEW h \in Handlers, CacheFill(h)
  PROVE  Advances(h)
<1>1. PICK gone \in BOOLEAN : Loaded(h, inc[h], gone)
  BY DEF CacheFill
<1>2. pc[h] = "cacheFill" /\ LocalTypes /\ Locals(h)
  BY Parts DEF IInv, Locals, CacheFill
<1>3. inc[h] \in Incident
  BY <1>2 DEF Locals, IncidentOK, Holds
<1> QED
  BY <1>1, <1>2, <1>3, LoadedAdvances

LEMMA CacheWriteAdvances ==
  ASSUME IInv, NEW h \in Handlers, CacheWrite(h)
  PROVE  Advances(h)
<1>1. PICK gone \in BOOLEAN :
        \/ Return(h)
        \/ Goto(h, "backoff", gone) /\ UNCHANGED <<inc, attempt>>
  BY DEF CacheWrite, GiveUp
<1>2. pc[h] = "cacheWrite" /\ LocalTypes /\ AttemptOK(h)
  BY Parts DEF IInv, CacheWrite
<1>3. CASE Return(h)
  BY <1>2, <1>3, ReturnAdvances
<1>4. CASE Goto(h, "backoff", gone) /\ UNCHANGED <<inc, attempt>>
  <2>1. Others(h) /\ pc'[h] = "backoff" /\ attempt'[h] = attempt[h]
    BY <1>2, <1>4, GotoMoves DEF Stage
  <2>2. attempt[h] \in Nat /\ attempt[h] < MaxAttempts
    BY <1>2 DEF LocalTypes, AttemptOK
  <2> QED
    BY <1>2, <2>1, <2>2, MaxAttemptsAssumption DEF Advances, CallsLeft
<1> QED
  BY <1>1, <1>3, <1>4

(* The pause ends: the loop variable has grown, which pays for the next call. *)
LEMMA BackoffAdvances ==
  ASSUME IInv, NEW h \in Handlers, BackoffElapsed(h) \/ BackoffCancelled(h)
  PROVE  Advances(h)
<1>1. pc[h] = "backoff" /\ LocalTypes /\ AttemptOK(h)
  BY Parts DEF IInv, BackoffElapsed, BackoffCancelled
<1>2. CASE BackoffElapsed(h)
  <2>1. /\ Goto(h, "cacheWrite", cancelled[h])
        /\ attempt' = [attempt EXCEPT ![h] = @ + 1] /\ UNCHANGED inc
    BY <1>2 DEF BackoffElapsed
  <2>2. Others(h) /\ pc'[h] = "cacheWrite" /\ attempt'[h] = attempt[h] + 1
    BY <1>1, <2>1 DEF LocalTypes, Goto, Others
  <2>3. attempt[h] \in Nat /\ attempt[h] + 1 < MaxAttempts
    BY <1>1 DEF LocalTypes, AttemptOK
  <2> QED
    BY <1>1, <2>2, <2>3, MaxAttemptsAssumption DEF Advances, CallsLeft
<1>3. CASE BackoffCancelled(h)
  BY <1>1, <1>3, ReturnAdvances DEF BackoffCancelled, GiveUp
<1> QED
  BY <1>2, <1>3

LEMMA HandlerStepAdvances ==
  ASSUME IInv, NEW h \in Handlers, HandlerStep(h)
  PROVE  Advances(h)
BY WritesAdvance, CacheGetAdvances, DBGetAdvances, CacheFillAdvances,
   CacheWriteAdvances, BackoffAdvances DEF HandlerStep

(* What a step may do to request g. *)
Forward(g) ==
  pc[g] # "idle" =>
    \/ CallsLeft(g)' < CallsLeft(g)
    \/ UNCHANGED <<pc[g], req[g], inc[g], attempt[g]>>

LEMMA NextAdvances ==
  ASSUME IInv, [Next]_vars, NEW g \in Handlers
  PROVE  Forward(g)
<1>1. LocalTypes /\ AttemptOK(g)
  BY Parts DEF IInv
<1>2. CASE \E h \in Handlers : HandlerStep(h)
  <2>1. PICK h \in Handlers : HandlerStep(h)
    BY <1>2
  <2>2. Advances(h)
    BY <2>1, HandlerStepAdvances
  <2> QED
    BY <2>2 DEF Advances, Others, Forward
<1>3. CASE \E h \in Handlers :
             \/ AcceptCreate(h) \/ AcceptGet(h) \/ AcceptUpdate(h) \/ AcceptDelete(h)
  <2>1. PICK h \in Handlers :
             \/ AcceptCreate(h) \/ AcceptGet(h) \/ AcceptUpdate(h) \/ AcceptDelete(h)
    BY <1>3
  <2>2. /\ pc[h] = "idle" /\ UNCHANGED attempt
        /\ \E s \in Stage : pc' = [pc EXCEPT ![h] = s]
        /\ \E r \in {req'[h]} : req' = [req EXCEPT ![h] = r]
        /\ \E i \in {inc'[h]} : inc' = [inc EXCEPT ![h] = i]
    BY <1>1, <2>1
       DEF LocalTypes, AcceptCreate, AcceptGet, AcceptUpdate, AcceptDelete, Accept, Stage
  <2> QED
    BY <1>1, <2>2 DEF LocalTypes, Forward
<1>4. CASE Crash
  <2>1. pc'[g] = "idle"
    BY <1>4 DEF Crash
  <2>2. CallsLeft(g)' = 0
    BY <2>1 DEF CallsLeft
  <2> QED
    BY <1>1, <2>2, CallsLeftType DEF Forward
<1>5. CASE StartUp \/ StoreChanges \/ Worker \/ UNCHANGED vars
           \/ \E h \in Handlers : ClientLeaves(h)
  BY <1>5 DEF StartUp, StoreChanges, Worker, ClientLeaves, vars, handlerVars, Forward
<1> QED
  BY <1>2, <1>3, <1>4, <1>5 DEF Next

(***************************************************************************)
(* For any number of attempts and requests, and whatever fails, a request  *)
(* spends one of its at most 2 * MaxAttempts + 4 calls and pauses with     *)
(* every step it makes.                                                    *)
(***************************************************************************)
THEOREM NoRequestCircles == Spec => RequestsAdvance
<1>1. IInv /\ [Next]_vars => [\A g \in Handlers : Forward(g)]_vars
  BY NextAdvances
<1>2. [\A g \in Handlers : Forward(g)]_vars =>
        [\A h \in Handlers :
           pc[h] # "idle" =>
             \/ CallsLeft(h)' < CallsLeft(h)
             \/ UNCHANGED <<pc[h], req[h], inc[h], attempt[h]>>]_vars
  BY DEF Forward
<1> QED
  BY <1>1, <1>2, Invariance, PTL DEF Spec, RequestsAdvance

(* A request is cancelled only in behaviours in which clients may leave. *)
OnlyLeavers == (\E h \in Handlers : cancelled[h]) => "client" \in Disturbances

LEMMA LeaversOnly == Spec => []OnlyLeavers
<1>1. Init => OnlyLeavers
  BY DEF Init, IdleHandlers, OnlyLeavers
<1>2. IInv /\ OnlyLeavers /\ [Next]_vars => OnlyLeavers'
  <2> SUFFICES ASSUME IInv, OnlyLeavers, [Next]_vars, "client" \notin Disturbances
               PROVE  \A h \in Handlers : ~cancelled'[h]
    BY DEF OnlyLeavers
  <2>1. LocalTypes /\ \A h \in Handlers : ~cancelled[h]
    BY Parts DEF IInv, OnlyLeavers
  <2>2. CASE \E h \in Handlers : HandlerStep(h)
    <3>1. PICK h \in Handlers : HandlerStep(h)
      BY <2>2
    <3>2. cancelled' = [cancelled EXCEPT ![h] = FALSE]
      BY <2>1, <3>1
         DEF HandlerStep, DBCreate, CacheGet, DBGet, CacheFill, DBUpdate, DBDelete,
             CacheWrite, BackoffElapsed, BackoffCancelled, Answer, CallEnds,
             StartRetry, Loaded, GiveUp, Return, Goto
    <3> QED
      BY <2>1, <3>2 DEF LocalTypes
  <2>3. CASE \E h \in Handlers :
               \/ AcceptCreate(h) \/ AcceptGet(h) \/ AcceptUpdate(h) \/ AcceptDelete(h)
               \/ ClientLeaves(h)
    BY <2>1, <2>3
       DEF AcceptCreate, AcceptGet, AcceptUpdate, AcceptDelete, Accept, ClientLeaves
  <2>4. CASE StartUp \/ Crash \/ StoreChanges \/ Worker \/ UNCHANGED vars
    BY <2>1, <2>4 DEF StartUp, Crash, StoreChanges, Worker, vars, handlerVars
  <2> QED
    BY <2>2, <2>3, <2>4 DEF Next
<1> QED
  BY <1>1, <1>2, Invariance, PTL DEF Spec

LEMMA BacklogType ==
  ASSUME QueueTypes
  PROVE  Backlog \in Nat /\ (worker # None => Backlog > 0)
BY DEF QueueTypes, Backlog

(* With Redis up and no client gone, no handler of a request gives up. *)
LEMMA NobodyGivesUp ==
  ASSUME IInv, NEW h \in Handlers, HandlerStep(h), up["redis"],
         ~cancelled[h], "client" \notin Disturbances
  PROVE  UNCHANGED retryVars
<1>1. ASSUME CacheWrite(h) PROVE UNCHANGED retryVars
  <2>1. PICK o \in Outcome, gone \in BOOLEAN :
          /\ Answer(h, "redis", o, gone)
          /\ o = "ok" => UNCHANGED retryVars
    BY <1>1 DEF CacheWrite, retryVars
  <2>2. o = "ok"
    BY <2>1 DEF Answer, CallEnds, Outcomes
  <2> QED
    BY <2>1, <2>2
<1>2. CASE BackoffCancelled(h)
  BY <1>2 DEF BackoffCancelled
<1>3. CASE \/ DBCreate(h) \/ CacheGet(h) \/ DBGet(h) \/ CacheFill(h) \/ DBUpdate(h)
           \/ DBDelete(h) \/ BackoffElapsed(h)
  BY <1>3
     DEF DBCreate, CacheGet, DBGet, CacheFill, DBUpdate, DBDelete, BackoffElapsed
<1> QED
  BY <1>1, <1>2, <1>3 DEF HandlerStep

(* The only handlers that reach the retry queue are those that give up. *)
LEMMA OnlyGiversFeed ==
  ASSUME IInv, NEW h \in Handlers, HandlerStep(h)
  PROVE  UNCHANGED retryVars \/ GivesUp(h)
<1>1. pc \in [Handlers -> Stage]
  BY Parts DEF IInv, TypeOK
<1>2. ASSUME GiveUp(h), pc[h] \in {"cacheWrite", "backoff"}
      PROVE  UNCHANGED retryVars \/ GivesUp(h)
  BY <1>1, <1>2 DEF GiveUp, GivesUp, Return
<1>3. CASE CacheWrite(h)
  BY <1>2, <1>3 DEF CacheWrite, retryVars
<1>4. CASE BackoffCancelled(h)
  BY <1>2, <1>4 DEF BackoffCancelled
<1>5. CASE \/ DBCreate(h) \/ CacheGet(h) \/ DBGet(h) \/ CacheFill(h) \/ DBUpdate(h)
           \/ DBDelete(h) \/ BackoffElapsed(h)
  BY <1>5
     DEF DBCreate, CacheGet, DBGet, CacheFill, DBUpdate, DBDelete, BackoffElapsed
<1> QED
  BY <1>3, <1>4, <1>5 DEF HandlerStep

LEMMA WorkerShrinks ==
  ASSUME IInv, Worker, up["redis"]
  PROVE  Backlog' < Backlog
<1>1. QueueTypes
  BY Parts DEF IInv
<1>2. CASE WorkerTake
  <2>1. /\ worker = None /\ retryQ # <<>>
        /\ worker' = Head(retryQ) /\ retryQ' = Tail(retryQ)
    BY <1>2 DEF WorkerTake
  <2>2. Len(retryQ) \in Nat /\ Len(retryQ) > 0 /\ Len(retryQ') = Len(retryQ) - 1
    BY <1>1, <2>1 DEF QueueTypes
  <2>3. Backlog = 2 * Len(retryQ)
    BY <2>1, <2>2 DEF Backlog
  <2>4. Backlog' \in Nat /\ Backlog' <= 2 * Len(retryQ') + 1
    BY <2>2 DEF Backlog
  <2> QED
    BY <2>2, <2>3, <2>4
<1>3. CASE WorkerSet
  <2>1. worker # None /\ worker' = None /\ UNCHANGED retryQ
    BY <1>3 DEF WorkerSet, Outcomes, SetFailed
  <2>2. Len(retryQ) \in Nat
    BY <1>1 DEF QueueTypes
  <2>3. Backlog = 2 * Len(retryQ) + 1 /\ Backlog' = 2 * Len(retryQ)
    BY <2>1, <2>2 DEF Backlog
  <2> QED
    BY <2>2, <2>3
<1> QED
  BY <1>2, <1>3 DEF Worker

(* What a step may do to the backlog. *)
Shorter ==
  \/ UNCHANGED retryVars
  \/ Backlog' < Backlog
  \/ ~up["redis"]
  \/ "client" \in Disturbances /\ \E h \in Handlers : GivesUp(h)

LEMMA NextShrinks == IInv /\ OnlyLeavers /\ [Next]_vars => [Shorter]_vars
<1> SUFFICES ASSUME IInv, OnlyLeavers, [Next]_vars, up["redis"]
             PROVE  Shorter
  BY DEF Shorter
<1> USE DEF Shorter
<1>1. QueueTypes
  BY Parts DEF IInv
<1>2. CASE \E h \in Handlers : HandlerStep(h)
  <2>1. PICK h \in Handlers : HandlerStep(h)
    BY <1>2
  <2>2. CASE "client" \in Disturbances
    BY <2>1, <2>2, OnlyGiversFeed
  <2>3. CASE "client" \notin Disturbances
    BY <2>1, <2>3, NobodyGivesUp DEF OnlyLeavers
  <2> QED
    BY <2>2, <2>3
<1>3. CASE Worker
  BY <1>3, WorkerShrinks
<1>4. CASE Crash
  <2>1. retryQ' = <<>> /\ worker' = None
    BY <1>4 DEF Crash
  <2>2. Backlog' = 0
    BY <2>1 DEF Backlog
  <2>3. CASE retryQ = <<>> /\ worker = None
    BY <2>1, <2>3 DEF retryVars
  <2>4. CASE worker # None
    BY <1>1, <2>2, <2>4, BacklogType
  <2>5. CASE retryQ # <<>>
    <3>1. Len(retryQ) \in Nat /\ Len(retryQ) > 0
      BY <1>1, <2>5 DEF QueueTypes
    <3> QED
      BY <2>2, <3>1 DEF Backlog
  <2> QED
    BY <2>3, <2>4, <2>5
<1>5. CASE StartUp \/ StoreChanges \/ UNCHANGED vars
           \/ \E h \in Handlers :
                \/ AcceptCreate(h) \/ AcceptGet(h) \/ AcceptUpdate(h) \/ AcceptDelete(h)
                \/ ClientLeaves(h)
  BY <1>5 DEF StartUp, StoreChanges, vars, AcceptCreate, AcceptGet, AcceptUpdate,
              AcceptDelete, Accept, ClientLeaves
<1> QED
  BY <1>2, <1>3, <1>4, <1>5 DEF Next

(***************************************************************************)
(* For any capacity and any number of requests: as long as Redis answers,  *)
(* only requests whose clients leave feed the backlog of failed cache      *)
(* writes, nothing is put back, and every other step that touches it       *)
(* shortens it.                                                            *)
(***************************************************************************)
THEOREM BacklogOnlyShrinks == Spec => BacklogShrinks
<1>1. [Shorter]_vars =>
        [\/ UNCHANGED retryVars
         \/ Backlog' < Backlog
         \/ ~up["redis"]
         \/ "client" \in Disturbances /\ \E h \in Handlers : GivesUp(h)]_vars
  BY DEF Shorter
<1> QED
  BY <1>1, NextShrinks, Invariance, LeaversOnly, PTL DEF Spec, BacklogShrinks

=============================================================================
