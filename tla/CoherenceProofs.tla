-------------------------- MODULE CoherenceProofs --------------------------
(***************************************************************************)
(* Proofs about the coherence of the cache for any number of incidents,    *)
(* requests, attempts (but one at least) and queue places, and any faults. *)
(***************************************************************************)
EXTENDS CoherenceInv, IncidentsProofs

(* Where a handler that works on id has a copy of it to account for. *)
Holding == {"cacheFill", "dbUpdate", "cacheWrite", "backoff"}

-----------------------------------------------------------------------------
(* The queue as a set. *)

LEMMA QueuedWaits ==
  ASSUME QueueTypes, NEW id \in Ids
  PROVE  Queued(id) <=> \E i \in Waiting : i.id = id
<1>1. \A k \in 1 .. Len(retryQ) : retryQ[k] \in Incident /\ retryQ[k] # None
  BY NoneAssumption DEF QueueTypes
<1> QED
  BY <1>1 DEF Queued, Waiting

LEMMA BufferWaits ==
  ASSUME QueueTypes, NEW i \in Incident, Buffer(i)
  PROVE  LET values == {retryQ[k] : k \in 1 .. Len(retryQ)}
         IN \/ values' = values \cup {i}
            \/ values' = values /\ Len(retryQ) = CacheRetrySize
<1>1. CASE Len(retryQ) < CacheRetrySize
  <2>1. retryQ' = Append(retryQ, i) /\ retryQ \in Seq(Incident)
    BY <1>1 DEF Buffer, QueueTypes
  <2>2. /\ Len(retryQ') = Len(retryQ) + 1
        /\ \A k \in 1 .. Len(retryQ) : retryQ'[k] = retryQ[k]
        /\ retryQ'[Len(retryQ) + 1] = i
        /\ Len(retryQ) \in Nat
    BY <2>1
  <2> QED
    BY <2>2
<1>2. CASE ~(Len(retryQ) < CacheRetrySize)
  BY <1>2, CacheRetrySizeAssumption DEF Buffer, QueueTypes
<1> QED
  BY <1>1, <1>2

LEMMA EnqueueWaits ==
  ASSUME QueueTypes, NEW i \in Incident, Enqueue(i)
  PROVE  \/ Waiting' = Waiting \cup {i}
         \/ Waiting' = Waiting /\ Len(retryQ) = CacheRetrySize
<1>1. i # None
  BY NoneAssumption
<1>2. CASE Buffer(i) /\ UNCHANGED worker
  BY <1>1, <1>2, BufferWaits DEF Waiting
<1>3. CASE retryQ = <<>> /\ worker = None /\ worker' = i /\ UNCHANGED retryQ
  BY <1>1, <1>3 DEF Waiting
<1> QED
  BY <1>2, <1>3 DEF Enqueue

LEMMA HeadAndTail ==
  ASSUME NEW q \in Seq(Incident), q # <<>>
  PROVE  {q[k] : k \in 1 .. Len(q)} = {Head(q)} \cup {Tail(q)[k] : k \in 1 .. Len(Tail(q))}
<1>1. /\ Len(q) \in Nat \ {0}
      /\ Head(q) = q[1]
      /\ Len(Tail(q)) = Len(q) - 1
      /\ \A k \in 1 .. Len(q) - 1 : Tail(q)[k] = q[k + 1]
  OBVIOUS
<1>2. ASSUME NEW k \in 1 .. Len(q), k # 1
      PROVE  k - 1 \in 1 .. Len(q) - 1 /\ Tail(q)[k - 1] = q[k]
  BY <1>1, <1>2
<1>3. ASSUME NEW k \in 1 .. Len(q) - 1
      PROVE  k + 1 \in 1 .. Len(q) /\ Tail(q)[k] = q[k + 1]
  BY <1>1
<1> DEFINE Of(s) == {s[k] : k \in 1 .. Len(s)}
<1>4. ASSUME NEW x \in Of(q)
      PROVE  x = Head(q) \/ x \in Of(Tail(q))
  <2>1. PICK k \in 1 .. Len(q) : x = q[k]
    OBVIOUS
  <2>2. CASE k = 1
    BY <1>1, <2>1, <2>2
  <2>3. CASE k # 1
    BY <1>1, <1>2, <2>1, <2>3
  <2> QED
    BY <2>2, <2>3
<1>5. Head(q) \in Of(q)
  <2>1. 1 \in 1 .. Len(q)
    BY <1>1
  <2> QED
    BY <1>1, <2>1
<1>6. ASSUME NEW x \in Of(Tail(q))
      PROVE  x \in Of(q)
  <2>1. PICK k \in 1 .. Len(q) - 1 : x = Tail(q)[k]
    BY <1>1
  <2> QED
    BY <1>3, <2>1
<1> HIDE DEF Of
<1>7. Of(q) = {Head(q)} \cup Of(Tail(q))
  BY <1>4, <1>5, <1>6
<1> QED
  BY <1>7 DEF Of

LEMMA TakeWaits ==
  ASSUME QueueTypes, WorkerTake
  PROVE  Waiting' = Waiting
<1>1. /\ retryQ \in Seq(Incident) /\ retryQ # <<>>
      /\ worker = None /\ worker' = Head(retryQ) /\ retryQ' = Tail(retryQ)
  BY DEF WorkerTake, QueueTypes
<1>2. Head(retryQ) \in Incident /\ Head(retryQ) # None
  BY <1>1, NoneAssumption
<1>3. Waiting = {retryQ[k] : k \in 1 .. Len(retryQ)}
  BY <1>1 DEF Waiting
<1>4. Waiting' = {Tail(retryQ)[k] : k \in 1 .. Len(Tail(retryQ))} \cup {Head(retryQ)}
  BY <1>1, <1>2 DEF Waiting
<1> QED
  BY <1>1, <1>3, <1>4, HeadAndTail

LEMMA SetWaits ==
  ASSUME QueueTypes, WorkerSet
  PROVE  /\ Waiting' \subseteq Waiting
         /\ Waiting \subseteq Waiting' \cup {worker}
         /\ Buffer(worker) => Waiting' = Waiting \/ Len(retryQ) = CacheRetrySize
<1>1. worker \in Incident /\ worker # None /\ worker' = None
  BY DEF WorkerSet, QueueTypes
<1>2. UNCHANGED retryQ \/ Buffer(worker)
  BY DEF WorkerSet
<1>3. CASE Buffer(worker)
  BY <1>1, <1>3, BufferWaits DEF Waiting
<1>4. CASE UNCHANGED retryQ /\ ~Buffer(worker)
  BY <1>1, <1>4 DEF Waiting
<1> QED
  BY <1>2, <1>3, <1>4

-----------------------------------------------------------------------------
(* What a step of one handler leaves to the others. *)

(* A call of a request fails only if it may. *)
LEMMA CallFailed ==
  ASSUME OnlyClientsCancel, NEW h \in Handlers, NEW s, NEW o, NEW gone,
         Answer(h, s, o, gone), o # "ok"
  PROVE  MayFail(s)
BY DEF OnlyClientsCancel, Answer, CallEnds, Outcomes, MayFail

LEMMA OtherCopies ==
  ASSUME IInv, NEW h \in Handlers, NEW id \in Ids, Others(h), ~Crossed(id),
         NEW g \in Handlers \ {h}, CopyOK(g, id)
  PROVE  CopyOK(g, id)'
<1>1. pc'[g] = pc[g] /\ req'[g] = req[g] /\ inc'[g] = inc[g]
  BY DEF Others
<1>2. CASE db'[id] = db[id]
  BY <1>1, <1>2 DEF CopyOK, Works, WritesCache
<1>3. CASE db'[id] # db[id] /\ db[id] # None
  <2>1. ~HoldsCopy(g, id)
    BY <1>1, <1>3 DEF Crossed, Changed
  <2> QED
    BY <1>1, <2>1 DEF CopyOK, HoldsCopy, Works, WritesCache, IInv, RequestOK
<1>4. CASE db[id] = None
  <2>1. ~(Holds(g) /\ req[g].id = id)
    BY <1>4 DEF IInv, IncidentOK
  <2> QED
    BY <1>1, <2>1 DEF CopyOK, Works, WritesCache, Holds
<1> QED
  BY <1>2, <1>3, <1>4

LEMMA QueueStays ==
  ASSUME IInv, NEW id \in Ids, QueueOK(id), ~Overtaken(id),
         NEW i, Waiting' \subseteq Waiting \cup {i}, i.id = id => i = db'[id]
  PROVE  QueueOK(id)'
<1> SUFFICES ASSUME NEW j \in Waiting', j.id = id
             PROVE  j = db'[id]
  BY DEF QueueOK
<1>1. CASE j = i
  BY <1>1
<1>2. CASE j \in Waiting
  <2>1. QueueTypes /\ QueueRows
    BY Parts DEF IInv
  <2>2. Queued(id)
    BY <1>2, <2>1, QueuedWaits
  <2>3. db[id] # None
    BY <2>1, <2>2 DEF Queued, QueueRows
  <2>4. db'[id] = db[id]
    BY <2>2, <2>3 DEF Overtaken, Changed
  <2> QED
    BY <1>2, <2>4 DEF QueueOK
<1> QED
  BY <1>1, <1>2

(* What is left to show of a step of h: its own copy, and the key. *)
LEMMA StepCoheres ==
  ASSUME IInv, NEW h \in Handlers, NEW id \in Ids, Coherent(id), Others(h), ~Door(id),
         NEW i, Waiting' \subseteq Waiting \cup {i}, i.id = id => i = db'[id],
         CopyOK(h, id)', KeyOK(id)', FlagOK(id)'
  PROVE  Coherent(id)'
<1>1. ~Crossed(id) /\ ~Overtaken(id)
  BY DEF Door
<1>2. \A g \in Handlers : CopyOK(g, id)'
  BY <1>1, OtherCopies DEF Coherent
<1>3. QueueOK(id)'
  BY <1>1, QueueStays DEF Coherent
<1> QED
  BY <1>2, <1>3 DEF Coherent

(* A step that writes neither the key nor the row nor the queue. *)
LEMMA KeyStays ==
  ASSUME NEW h \in Handlers, NEW id \in Ids, Coherent(id), Others(h),
         ~WritesCache(h, id), db'[id] = db[id], cache'[id] = cache[id],
         \A i : i.id = id => (i \in Waiting' <=> i \in Waiting)
  PROVE  KeyOK(id)' /\ FlagOK(id)'
<1>1. \A g \in Handlers : WritesCache(g, id) => WritesCache(g, id)' /\ req'[g] = req[g]
  BY DEF Others, WritesCache, Works
<1>2. Pending(id) => Pending(id)'
  BY <1>1 DEF Pending
<1>3. (\E g \in Handlers : Deletes(g, id)) => \E g \in Handlers : Deletes(g, id)'
  BY <1>1 DEF Deletes
<1>4. KeyOK(id)'
  BY <1>2 DEF Coherent, KeyOK
<1>5. FlagOK(id)'
  BY <1>3 DEF Coherent, FlagOK
<1> QED
  BY <1>4, <1>5

(* A step of a handler that has nothing to do with id, before it or after it. *)
LEMMA Elsewhere ==
  ASSUME IInv, NEW h \in Handlers, NEW id \in Ids, Coherent(id), Others(h),
         ~WritesCache(h, id), Works(h, id)' => pc'[h] \notin Holding,
         db'[id] = db[id], cache'[id] = cache[id],
         \A i : i.id = id => (i \in Waiting' <=> i \in Waiting)
  PROVE  Coherent(id)'
<1>1. CopyOK(h, id)'
  BY DEF CopyOK, WritesCache, Holding
<1>2. \A g \in Handlers \ {h} : CopyOK(g, id)'
  BY DEF Coherent, CopyOK, Others, Works, WritesCache
<1>3. KeyOK(id)' /\ FlagOK(id)'
  BY KeyStays
<1>4. QueueOK(id)'
  BY DEF Coherent, QueueOK
<1> QED
  BY <1>1, <1>2, <1>3, <1>4 DEF Coherent

-----------------------------------------------------------------------------
(* The steps of the handlers. *)

(* What Return and Goto do, for the handler and for the others. *)
LEMMA ReturnEnds ==
  ASSUME IInv, NEW h \in Handlers, Return(h)
  PROVE  Others(h) /\ pc'[h] = "idle"
BY ReturnMoves, Parts DEF IInv

LEMMA GotoKeeps ==
  ASSUME IInv, NEW h \in Handlers, NEW stage \in Stage, NEW gone \in BOOLEAN,
         Goto(h, stage, gone), UNCHANGED <<inc, attempt>>
  PROVE  Others(h) /\ pc'[h] = stage /\ req'[h] = req[h] /\ inc'[h] = inc[h]
BY GotoMoves, Parts DEF IInv

LEMMA GotoLoads ==
  ASSUME IInv, NEW h \in Handlers, NEW stage \in Stage, NEW gone \in BOOLEAN,
         NEW i \in Incident,
         Goto(h, stage, gone), inc' = [inc EXCEPT ![h] = i], UNCHANGED attempt
  PROVE  Others(h) /\ pc'[h] = stage /\ req'[h] = req[h] /\ inc'[h] = i
<1>1. LocalTypes
  BY Parts DEF IInv
<1> QED
  BY <1>1 DEF LocalTypes, Goto, Others

(* retry.Do, with an attempt at least, starts to write the cache. *)
LEMMA RetryStarts ==
  ASSUME IInv, MaxAttempts # 0, NEW h \in Handlers, NEW gone \in BOOLEAN,
         NEW o, IF o = "ok" THEN StartRetry(h, gone) ELSE Return(h)
  PROVE  /\ Others(h)
         /\ o = "ok" => pc'[h] = "cacheWrite" /\ req'[h] = req[h] /\ inc'[h] = inc[h]
         /\ o # "ok" => pc'[h] = "idle"
<1>1. CASE o = "ok"
  <2>1. Goto(h, "cacheWrite", gone) /\ UNCHANGED <<inc, attempt>>
    BY <1>1 DEF StartRetry
  <2> QED
    BY <1>1, <2>1, GotoKeeps DEF Stage
<1>2. CASE o # "ok"
  BY <1>2, ReturnEnds
<1> QED
  BY <1>1, <1>2

(* A step of a handler on one incident is nothing to another. *)
LEMMA AnotherIncident ==
  ASSUME IInv, NEW h \in Handlers, NEW id \in Ids, Coherent(id), Others(h),
         id # req[h].id, pc'[h] = "idle" \/ req'[h] = req[h],
         db'[id] = db[id], cache'[id] = cache[id],
         \A i : i.id = id => (i \in Waiting' <=> i \in Waiting)
  PROVE  Coherent(id)'
BY Elsewhere DEF WritesCache, Works

(* A step of the request on its own incident that leaves the queue alone. *)
LEMMA OwnStep ==
  ASSUME IInv, NEW h \in Handlers, NEW id \in Ids, Coherent(id), Others(h), ~Door(id),
         Waiting' = Waiting, CopyOK(h, id)', KeyOK(id)', FlagOK(id)'
  PROVE  Coherent(id)'
<1>1. Waiting' \subseteq Waiting \cup {db'[id]}
  OBVIOUS
<1> QED
  BY <1>1, StepCoheres

LEMMA WaitingStays ==
  ASSUME UNCHANGED retryVars
  PROVE  Waiting' = Waiting
BY DEF retryVars, Waiting

LEMMA DBCreateCoheres ==
  ASSUME IInv, MaxAttempts # 0, NEW h \in Handlers, DBCreate(h),
         NEW id \in Ids, Coherent(id), ~Door(id)
  PROVE  Coherent(id)'
<1>1. PICK o \in Outcome, gone \in BOOLEAN :
        /\ db' = IF Executed(o) THEN [db EXCEPT ![inc[h].id] = inc[h]] ELSE db
        /\ IF o = "ok" THEN StartRetry(h, gone) ELSE Return(h)
  BY DEF DBCreate, RowInserted
<1>2. pc[h] = "dbCreate" /\ UNCHANGED <<cache, retryVars>>
  BY DEF DBCreate, cacheVars
<1>3. /\ inc[h] \in Incident /\ inc[h].id = req[h].id /\ req[h].id \in Ids
      /\ db[req[h].id] = None /\ cache[req[h].id] = None
  BY <1>2 DEF IInv, IncidentOK, Incident, RowsOK
<1>4. /\ Others(h)
      /\ o = "ok" => pc'[h] = "cacheWrite" /\ req'[h] = req[h] /\ inc'[h] = inc[h]
      /\ o # "ok" => pc'[h] = "idle"
  BY <1>1, RetryStarts
<1>5. Waiting' = Waiting
  BY <1>2, WaitingStays
<1>6. db \in [Ids -> Incident \cup {None}]
  BY DEF IInv, TypeOK
<1>7. CASE id # req[h].id
  <2>1. db'[id] = db[id]
    BY <1>1, <1>3, <1>6, <1>7
  <2> QED
    BY <1>2, <1>4, <1>5, <1>7, <2>1, AnotherIncident
<1>8. CASE id = req[h].id
  <2>1. KeyOK(id)' /\ FlagOK(id)'
    BY <1>2, <1>3, <1>8 DEF KeyOK, FlagOK
  <2>2. o = "ok" => db'[id] = inc[h]
    BY <1>1, <1>3, <1>6, <1>8 DEF Executed
  <2>3. CopyOK(h, id)'
    BY <1>4, <2>2 DEF CopyOK, Works, WritesCache
  <2> QED
    BY <1>4, <1>5, <2>1, <2>3, OwnStep
<1> QED
  BY <1>7, <1>8

LEMMA CacheGetCoheres ==
  ASSUME IInv, NEW h \in Handlers, CacheGet(h),
         NEW id \in Ids, Coherent(id), ~Door(id)
  PROVE  Coherent(id)'
<1>1. PICK o \in Outcome, gone \in BOOLEAN :
        IF o = "ok" /\ Cached(req[h].id)
        THEN Loaded(h, cache[req[h].id], gone)
        ELSE Goto(h, "dbGet", gone) /\ UNCHANGED <<inc, attempt>>
  BY DEF CacheGet
<1>2. pc[h] = "cacheGet" /\ UNCHANGED <<cache, retryVars, db>>
  BY DEF CacheGet, cacheVars
<1>3. /\ req[h] \in Request /\ req[h].id \in Ids
      /\ cache \in [Ids -> Incident \cup {None}]
  BY <1>2 DEF IInv, TypeOK, RequestOK, Request
<1>4. \/ Others(h) /\ pc'[h] \in {"idle", "dbGet"} /\ (pc'[h] # "idle" => req'[h] = req[h])
      \/ /\ Others(h) /\ pc'[h] = "dbUpdate" /\ req'[h] = req[h]
         /\ cache[req[h].id] # None /\ inc'[h].active = cache[req[h].id].active
  <2>1. CASE ~(o = "ok" /\ Cached(req[h].id))
    BY <1>1, <2>1, GotoKeeps DEF Stage
  <2>2. CASE o = "ok" /\ Cached(req[h].id) /\ req[h].op = "get"
    BY <1>1, <2>2, ReturnEnds DEF Loaded
  <2>3. CASE o = "ok" /\ Cached(req[h].id) /\ req[h].op # "get"
    <3> DEFINE i == Updated(cache[req[h].id], req[h].body)
    <3>1. Goto(h, "dbUpdate", gone) /\ inc' = [inc EXCEPT ![h] = i] /\ UNCHANGED attempt
      BY <1>1, <2>3 DEF Loaded
    <3>2. cache[req[h].id] \in Incident /\ req[h].body \in Bodies
      BY <1>2, <1>3, <2>3 DEF Cached, IInv, RequestOK
    <3>3. i \in Incident /\ i.active = cache[req[h].id].active
      BY <3>2 DEF Updated, Incident
    <3> HIDE DEF i
    <3>4. Others(h) /\ pc'[h] = "dbUpdate" /\ req'[h] = req[h] /\ inc'[h] = i
      BY <3>1, <3>3, GotoLoads DEF Stage
    <3> QED
      BY <2>3, <3>3, <3>4 DEF Cached
  <2> QED
    BY <2>1, <2>2, <2>3
<1>5. Waiting' = Waiting
  BY <1>2, WaitingStays
<1>6. CASE id # req[h].id
  BY <1>2, <1>4, <1>5, <1>6, AnotherIncident
<1>7. CASE id = req[h].id
  <2>1. KeyOK(id)' /\ FlagOK(id)'
    BY <1>2, <1>4, <1>5, KeyStays DEF WritesCache
  <2>2. CASE pc'[h] = "dbUpdate"
    <3>1. ~\E g \in Handlers : Deletes(g, id)
      BY <1>2, <1>7, <2>2 DEF Door, ReadDeleted, Deletes, WritesCache, Works
    <3>2. inc'[h].active = db'[id].active
      BY <1>2, <1>4, <1>7, <2>2, <3>1 DEF Coherent, FlagOK
    <3> QED
      BY <1>4, <1>5, <2>1, <2>2, <3>2, OwnStep DEF CopyOK, Works, WritesCache
  <2>3. CASE pc'[h] \in {"idle", "dbGet"}
    BY <1>4, <1>5, <2>1, <2>3, OwnStep DEF CopyOK, Works, WritesCache
  <2> QED
    BY <1>4, <2>2, <2>3
<1> QED
  BY <1>6, <1>7

LEMMA DBGetCoheres ==
  ASSUME IInv, NEW h \in Handlers, DBGet(h),
         NEW id \in Ids, Coherent(id), ~Door(id)
  PROVE  Coherent(id)'
<1>1. PICK o \in Outcome, gone \in BOOLEAN :
        IF o = "ok" /\ db[req[h].id] # None
        THEN /\ Goto(h, "cacheFill", gone)
             /\ inc' = [inc EXCEPT ![h] = db[req[h].id]]
             /\ UNCHANGED attempt
        ELSE Return(h)
  BY DEF DBGet
<1>2. pc[h] = "dbGet" /\ UNCHANGED <<cache, retryVars, db>>
  BY DEF DBGet, cacheVars
<1>3. req[h].id \in Ids /\ db \in [Ids -> Incident \cup {None}]
  BY <1>2 DEF IInv, TypeOK, RequestOK, Request
<1>4. /\ Others(h)
      /\ \/ pc'[h] = "idle"
         \/ pc'[h] = "cacheFill" /\ req'[h] = req[h] /\ inc'[h] = db[req[h].id]
  <2>1. CASE o = "ok" /\ db[req[h].id] # None
    <3>1. db[req[h].id] \in Incident
      BY <1>3, <2>1
    <3> QED
      BY <1>1, <2>1, <3>1, GotoLoads DEF Stage
  <2>2. CASE ~(o = "ok" /\ db[req[h].id] # None)
    BY <1>1, <2>2, ReturnEnds
  <2> QED
    BY <2>1, <2>2
<1>5. Waiting' = Waiting
  BY <1>2, WaitingStays
<1>6. CASE id # req[h].id
  BY <1>2, <1>4, <1>5, <1>6, AnotherIncident
<1>7. CASE id = req[h].id
  <2>1. KeyOK(id)' /\ FlagOK(id)'
    BY <1>2, <1>4, <1>5, KeyStays DEF WritesCache
  <2>2. CopyOK(h, id)'
    BY <1>2, <1>4, <1>7 DEF CopyOK, Works, WritesCache
  <2> QED
    BY <1>4, <1>5, <2>1, <2>2, OwnStep
<1> QED
  BY <1>6, <1>7

LEMMA CacheFillCoheres ==
  ASSUME IInv, NEW h \in Handlers, CacheFill(h),
         NEW id \in Ids, Coherent(id), ~Door(id)
  PROVE  Coherent(id)'
<1>1. PICK o \in Outcome, gone \in BOOLEAN :
        /\ IF Executed(o) THEN Set(inc[h]) ELSE UNCHANGED cacheVars
        /\ Loaded(h, inc[h], gone)
  BY DEF CacheFill
<1>2. pc[h] = "cacheFill" /\ UNCHANGED <<retryVars, db>>
  BY DEF CacheFill
<1>3. /\ req[h] \in Request /\ req[h].id \in Ids
      /\ inc[h] \in Incident /\ inc[h].id = req[h].id
      /\ cache \in [Ids -> Incident \cup {None}]
  BY <1>2 DEF IInv, TypeOK, RequestOK, Request, IncidentOK, Holds
<1>4. /\ Others(h)
      /\ \/ pc'[h] = "idle"
         \/ pc'[h] = "dbUpdate" /\ req'[h] = req[h] /\ inc'[h].active = inc[h].active
  <2>1. CASE req[h].op = "get"
    BY <1>1, <2>1, ReturnEnds DEF Loaded
  <2>2. CASE req[h].op # "get"
    <3> DEFINE i == Updated(inc[h], req[h].body)
    <3>1. Goto(h, "dbUpdate", gone) /\ inc' = [inc EXCEPT ![h] = i] /\ UNCHANGED attempt
      BY <1>1, <2>2 DEF Loaded
    <3>2. req[h].body \in Bodies
      BY <1>2, <2>2 DEF IInv, RequestOK
    <3>3. i \in Incident /\ i.active = inc[h].active
      BY <1>3, <3>2 DEF Updated, Incident
    <3> HIDE DEF i
    <3>4. Others(h) /\ pc'[h] = "dbUpdate" /\ req'[h] = req[h] /\ inc'[h] = i
      BY <3>1, <3>3, GotoLoads DEF Stage
    <3> QED
      BY <3>3, <3>4
  <2> QED
    BY <2>1, <2>2
<1>5. Waiting' = Waiting
  BY <1>2, WaitingStays
<1>6. cache' = cache \/ cache' = [cache EXCEPT ![req[h].id] = inc[h]]
  BY <1>1, <1>3 DEF Set, cacheVars
<1>7. CASE id # req[h].id
  <2>1. cache'[id] = cache[id]
    BY <1>3, <1>6, <1>7
  <2> QED
    BY <1>2, <1>4, <1>5, <1>7, <2>1, AnotherIncident
<1>8. CASE id = req[h].id
  <2>1. inc[h] = db[id]
    BY <1>2, <1>8 DEF Coherent, CopyOK, Works
  <2>2. CopyOK(h, id)'
    BY <1>2, <1>4, <2>1 DEF CopyOK, Works, WritesCache
  <2>3. KeyOK(id)' /\ FlagOK(id)'
    <3>1. CASE cache' = cache
      BY <1>2, <1>4, <1>5, <3>1, KeyStays DEF WritesCache
    <3>2. CASE cache' = [cache EXCEPT ![req[h].id] = inc[h]]
      <4>1. cache'[id] = db'[id]
        BY <1>2, <1>3, <1>8, <2>1, <3>2
      <4> QED
        BY <4>1 DEF KeyOK, FlagOK
    <3> QED
      BY <1>6, <3>1, <3>2
  <2> QED
    BY <1>4, <1>5, <2>2, <2>3, OwnStep
<1> QED
  BY <1>7, <1>8

LEMMA DBUpdateCoheres ==
  ASSUME IInv, OnlyClientsCancel, MaxAttempts # 0, NEW h \in Handlers, DBUpdate(h),
         NEW id \in Ids, Coherent(id), ~Door(id)
  PROVE  Coherent(id)'
<1>1. PICK o \in Outcome, gone \in BOOLEAN :
        /\ Answer(h, "postgres", o, gone)
        /\ db' = IF Executed(o) /\ db[inc[h].id] # None
                 THEN [db EXCEPT ![inc[h].id] = inc[h]] ELSE db
        /\ IF o = "ok" THEN StartRetry(h, gone) ELSE Return(h)
  BY DEF DBUpdate, RowOverwritten
<1>2. pc[h] = "dbUpdate" /\ UNCHANGED <<cache, retryVars>>
  BY DEF DBUpdate, cacheVars
<1>3. /\ inc[h] \in Incident /\ inc[h].id = req[h].id
      /\ req[h].id \in Ids /\ req[h].op = "update"
      /\ db[req[h].id] # None /\ db \in [Ids -> Incident \cup {None}]
  BY <1>2 DEF IInv, TypeOK, RequestOK, Request, IncidentOK, Holds
<1>4. /\ Others(h)
      /\ o = "ok" => pc'[h] = "cacheWrite" /\ req'[h] = req[h] /\ inc'[h] = inc[h]
      /\ o # "ok" => pc'[h] = "idle"
  BY <1>1, RetryStarts
<1>5. Waiting' = Waiting
  BY <1>2, WaitingStays
<1>6. db' = db \/ db' = [db EXCEPT ![req[h].id] = inc[h]]
  BY <1>1, <1>3
<1>7. CASE id # req[h].id
  <2>1. db'[id] = db[id]
    BY <1>3, <1>6, <1>7
  <2> QED
    BY <1>2, <1>4, <1>5, <1>7, <2>1, AnotherIncident
<1>8. CASE id = req[h].id /\ o = "ok"
  <2>1. db'[id] = inc[h]
    BY <1>1, <1>3, <1>8 DEF Executed
  <2>2. CopyOK(h, id)'
    BY <1>4, <1>8, <2>1 DEF CopyOK, Works, WritesCache
  <2>3. KeyOK(id)'
    BY <1>3, <1>4, <1>8 DEF KeyOK, Pending, WritesCache, Works
  <2>4. FlagOK(id)'
    <3>1. inc[h].active = db[id].active
      BY <1>2, <1>8 DEF Coherent, CopyOK, Works
    <3>2. ASSUME NEW g \in Handlers, Deletes(g, id) PROVE Deletes(g, id)'
      BY <1>2, <1>4, <3>2 DEF Deletes, WritesCache, Works, Others
    <3> QED
      BY <1>2, <2>1, <3>1, <3>2 DEF Coherent, FlagOK
  <2> QED
    BY <1>4, <1>5, <2>2, <2>3, <2>4, OwnStep
<1>9. CASE id = req[h].id /\ o # "ok"
  <2>1. db'[id] = db[id]
    <3>1. MayFail("postgres")
      BY <1>1, <1>9, CallFailed
    <3>2. Returns(h, id)
      BY <1>2, <1>4, <1>9 DEF Returns, Works
    <3> QED
      BY <1>2, <3>1, <3>2 DEF Door, LostCommit
  <2>2. KeyOK(id)' /\ FlagOK(id)'
    BY <1>2, <1>4, <1>5, <2>1, KeyStays DEF WritesCache
  <2> QED
    BY <1>4, <1>5, <1>9, <2>2, OwnStep DEF CopyOK, Works, WritesCache
<1> QED
  BY <1>7, <1>8, <1>9

LEMMA DBDeleteCoheres ==
  ASSUME IInv, OnlyClientsCancel, MaxAttempts # 0, NEW h \in Handlers, DBDelete(h),
         NEW id \in Ids, Coherent(id), ~Door(id)
  PROVE  Coherent(id)'
<1>1. PICK o \in Outcome, gone \in BOOLEAN :
        /\ Answer(h, "postgres", o, gone)
        /\ db' = IF Executed(o) THEN RowDeactivated(req[h].id) ELSE db
        /\ IF o = "ok" THEN StartRetry(h, gone) ELSE Return(h)
  BY DEF DBDelete
<1>2. pc[h] = "dbDelete" /\ UNCHANGED <<cache, retryVars>>
  BY DEF DBDelete, cacheVars
<1>3. req[h].id \in Ids /\ req[h].op = "delete"
  BY <1>2 DEF IInv, RequestOK, Request
<1>4. /\ Others(h)
      /\ o = "ok" => pc'[h] = "cacheWrite" /\ req'[h] = req[h] /\ inc'[h] = inc[h]
      /\ o # "ok" => pc'[h] = "idle"
  BY <1>1, RetryStarts
<1>5. Waiting' = Waiting
  BY <1>2, WaitingStays
<1>6. CASE id # req[h].id
  <2>1. db'[id] = db[id]
    BY <1>1, <1>6 DEF RowDeactivated, IInv, TypeOK
  <2> QED
    BY <1>2, <1>4, <1>5, <1>6, <2>1, AnotherIncident
<1>7. CASE id = req[h].id /\ o = "ok"
  <2>1. Deletes(h, id)'
    BY <1>3, <1>4, <1>7 DEF Deletes, WritesCache, Works
  <2>2. KeyOK(id)' /\ FlagOK(id)'
    BY <2>1 DEF KeyOK, FlagOK, Pending, Deletes
  <2>3. CopyOK(h, id)'
    BY <1>3, <1>4, <1>7 DEF CopyOK, Works, WritesCache
  <2> QED
    BY <1>4, <1>5, <2>2, <2>3, OwnStep
<1>8. CASE id = req[h].id /\ o # "ok"
  <2>1. db'[id] = db[id]
    <3>1. MayFail("postgres")
      BY <1>1, <1>8, CallFailed
    <3>2. Returns(h, id)
      BY <1>2, <1>4, <1>8 DEF Returns, Works
    <3> QED
      BY <1>2, <3>1, <3>2 DEF Door, LostCommit
  <2>2. KeyOK(id)' /\ FlagOK(id)'
    BY <1>2, <1>4, <1>5, <2>1, KeyStays DEF WritesCache
  <2> QED
    BY <1>4, <1>5, <1>8, <2>2, OwnStep DEF CopyOK, Works, WritesCache
<1> QED
  BY <1>6, <1>7, <1>8

-----------------------------------------------------------------------------
(* The writes of the cache. *)

(* A write that stays under way, the key as it was or as the write wants it. *)
LEMMA WriteGoesOn ==
  ASSUME IInv, NEW h \in Handlers, NEW id \in Ids, Coherent(id), ~Door(id),
         WritesCache(h, id), Others(h), Waiting' = Waiting, db'[id] = db[id],
         pc'[h] \in {"cacheWrite", "backoff"}, req'[h] = req[h], inc'[h] = inc[h],
         \/ cache'[id] = cache[id]
         \/ req[h].op = "delete" /\ cache'[id] = None
         \/ req[h].op # "delete" /\ cache'[id] = inc[h]
  PROVE  Coherent(id)'
<1>1. CopyOK(h, id)'
  BY DEF Coherent, CopyOK, WritesCache, Works
<1>2. req[h].op # "delete" => inc[h] = db[id]
  BY DEF Coherent, CopyOK
<1>3. \A g \in Handlers : WritesCache(g, id) => WritesCache(g, id)' /\ req'[g] = req[g]
  BY DEF Others, WritesCache, Works
<1>4. KeyOK(id)'
  <2>1. CASE cache'[id] \in {None, db'[id]}
    BY <2>1 DEF KeyOK
  <2>2. CASE cache'[id] = cache[id]
    <3>1. Pending(id) => Pending(id)'
      BY <1>3 DEF Pending
    <3> QED
      BY <2>2, <3>1 DEF Coherent, KeyOK
  <2> QED
    BY <1>2, <2>1, <2>2
<1>5. FlagOK(id)'
  <2>1. CASE cache'[id] \in {None, db'[id]}
    BY <2>1 DEF FlagOK
  <2>2. CASE cache'[id] = cache[id]
    <3>1. (\E g \in Handlers : Deletes(g, id)) => \E g \in Handlers : Deletes(g, id)'
      BY <1>3 DEF Deletes
    <3> QED
      BY <2>2, <3>1 DEF Coherent, FlagOK
  <2> QED
    BY <1>2, <2>1, <2>2
<1> QED
  BY <1>1, <1>4, <1>5, OwnStep

(* A write that has succeeded. *)
LEMMA WriteEnds ==
  ASSUME IInv, NEW h \in Handlers, NEW id \in Ids, Coherent(id), ~Door(id),
         WritesCache(h, id), Others(h), Waiting' = Waiting, db'[id] = db[id],
         pc'[h] = "idle",
         \/ req[h].op = "delete" /\ cache'[id] = None
         \/ req[h].op # "delete" /\ cache'[id] = inc[h]
  PROVE  Coherent(id)'
<1>1. cache'[id] \in {None, db'[id]}
  BY DEF Coherent, CopyOK
<1>2. KeyOK(id)' /\ FlagOK(id)'
  BY <1>1 DEF KeyOK, FlagOK
<1>3. CopyOK(h, id)'
  BY DEF CopyOK, WritesCache, Works
<1> QED
  BY <1>2, <1>3, OwnStep

(* A DELETE that gives up has removed the key, or has opened a door. *)
LEMMA DeleteGivesUp ==
  ASSUME IInv, NEW h \in Handlers, NEW id \in Ids, Coherent(id), ~Door(id),
         Deletes(h, id), Others(h), Waiting' = Waiting, db'[id] = db[id],
         pc'[h] = "idle", MayFail("redis")
  PROVE  Coherent(id)'
<1>1. cache'[id] = None
  BY DEF Door, DeleteGaveUp, Returns, Deletes, WritesCache
<1>2. WritesCache(h, id) /\ req[h].op = "delete"
  BY DEF Deletes
<1> QED
  BY <1>1, <1>2, WriteEnds

(* A create or an update that gives up has its write queued, or dropped. *)
LEMMA WriteGivesUp ==
  ASSUME IInv, IInv', NEW h \in Handlers, NEW id \in Ids, Coherent(id), ~Door(id),
         WritesCache(h, id), req[h].op # "delete", Others(h), db'[id] = db[id],
         Enqueue(inc[h]), pc'[h] = "idle",
         cache'[id] \in {cache[id], inc[h]}
  PROVE  Coherent(id)'
<1>1. /\ inc[h] = db[id] /\ inc[h] \in Incident /\ inc[h].id = id
      /\ req[h].op \in {"create", "update"}
  BY DEF Coherent, CopyOK, WritesCache, Works, IInv, RequestOK, Request, IncidentOK, Holds
<1>2. QueueTypes /\ QueueTypes'
  BY DEF IInv, TypeOK, QueueTypes
<1>3. \/ Waiting' = Waiting \cup {inc[h]}
      \/ Waiting' = Waiting /\ Len(retryQ) = CacheRetrySize
  BY <1>1, <1>2, EnqueueWaits
<1>4. KeyOK(id)'
  <2>1. CASE Waiting' = Waiting \cup {inc[h]}
    BY <1>1, <2>1 DEF KeyOK, Pending
  <2>2. CASE Waiting' = Waiting /\ Len(retryQ) = CacheRetrySize
    <3>1. cache'[id] = inc[h] \/ Queued(id)'
      BY <1>1, <2>2 DEF Door, Dropped, Returns, WritesCache
    <3>2. Queued(id)' => \E i \in Waiting' : i.id = id
      <4>1. \A k \in 1 .. Len(retryQ') : retryQ'[k] # None
        BY <1>2, NoneAssumption DEF QueueTypes
      <4> QED
        BY <4>1 DEF Queued, Waiting
    <3> QED
      BY <1>1, <3>1, <3>2 DEF KeyOK, Pending
  <2> QED
    BY <1>3, <2>1, <2>2
<1>5. FlagOK(id)'
  <2>1. CASE cache'[id] = inc[h]
    BY <1>1, <2>1 DEF FlagOK
  <2>2. CASE cache'[id] = cache[id]
    <3>1. ASSUME NEW g \in Handlers, Deletes(g, id) PROVE Deletes(g, id)'
      BY <3>1 DEF Deletes, WritesCache, Works, Others
    <3> QED
      BY <2>2, <3>1 DEF Coherent, FlagOK
  <2> QED
    BY <2>1, <2>2
<1>6. CopyOK(h, id)'
  BY DEF CopyOK, WritesCache, Works
<1>7. Waiting' \subseteq Waiting \cup {inc[h]}
  BY <1>3
<1> QED
  BY <1>1, <1>4, <1>5, <1>6, <1>7, StepCoheres

(* Giving up, whatever the operation. *)
LEMMA GivesUpCoherently ==
  ASSUME IInv, IInv', NEW h \in Handlers, NEW id \in Ids, Coherent(id), ~Door(id),
         WritesCache(h, id), Others(h), db'[id] = db[id], GiveUp(h), pc'[h] = "idle",
         MayFail("redis"),
         \/ cache'[id] = cache[id]
         \/ req[h].op = "delete" /\ cache'[id] = None
         \/ req[h].op # "delete" /\ cache'[id] = inc[h]
  PROVE  Coherent(id)'
<1>1. CASE req[h].op = "delete"
  <2>1. Waiting' = Waiting
    BY <1>1, WaitingStays DEF GiveUp
  <2>2. Deletes(h, id)
    BY <1>1 DEF Deletes
  <2> QED
    BY <2>1, <2>2, DeleteGivesUp
<1>2. CASE req[h].op # "delete"
  <2>1. Enqueue(inc[h])
    BY <1>2 DEF GiveUp
  <2> QED
    BY <1>2, <2>1, WriteGivesUp
<1> QED
  BY <1>1, <1>2

LEMMA GiveUpElsewhere ==
  ASSUME IInv, NEW h \in Handlers, GiveUp(h), NEW id, id # req[h].id,
         req[h].op # "delete" => inc[h] \in Incident /\ inc[h].id = req[h].id
  PROVE  \A i : i.id = id => (i \in Waiting' <=> i \in Waiting)
<1>1. QueueTypes
  BY Parts DEF IInv
<1>2. CASE req[h].op = "delete"
  BY <1>2, WaitingStays DEF GiveUp
<1>3. CASE req[h].op # "delete"
  <2>1. Enqueue(inc[h])
    BY <1>3 DEF GiveUp
  <2>2. Waiting' = Waiting \cup {inc[h]} \/ Waiting' = Waiting
    BY <1>1, <1>3, <2>1, EnqueueWaits
  <2> QED
    BY <1>3, <2>2
<1> QED
  BY <1>2, <1>3

(* What an attempt does to the incident's key, and how the handler goes on. *)
LEMMA CacheWriteCoheres ==
  ASSUME IInv, IInv', OnlyClientsCancel, NEW h \in Handlers, CacheWrite(h),
         NEW id \in Ids, Coherent(id), ~Door(id)
  PROVE  Coherent(id)'
<1>1. PICK o \in Outcome, gone \in BOOLEAN :
        /\ Answer(h, "redis", o, gone)
        /\ IF ~Executed(o) THEN UNCHANGED cacheVars
           ELSE IF req[h].op = "delete" THEN Delete(req[h].id) ELSE Set(inc[h])
        /\ \/ o = "ok" /\ Return(h) /\ UNCHANGED retryVars
           \/ o # "ok" /\ LastAttempt(h) /\ GiveUp(h)
           \/ /\ o # "ok" /\ ~LastAttempt(h)
              /\ Goto(h, "backoff", gone)
              /\ UNCHANGED <<inc, attempt, retryVars>>
  BY DEF CacheWrite
<1>2. pc[h] = "cacheWrite" /\ db' = db
  BY DEF CacheWrite
<1>3. /\ req[h].id \in Ids /\ cache \in [Ids -> Incident \cup {None}]
      /\ req[h].op # "delete" => inc[h] \in Incident /\ inc[h].id = req[h].id
  BY <1>2 DEF IInv, TypeOK, RequestOK, Request, IncidentOK, Holds
<1>4. \/ cache' = cache /\ o # "ok"
      \/ req[h].op = "delete" /\ cache' = [cache EXCEPT ![req[h].id] = None]
      \/ req[h].op # "delete" /\ cache' = [cache EXCEPT ![req[h].id] = inc[h]]
  BY <1>1, <1>3 DEF Executed, Delete, Set, cacheVars
<1>5. \/ o = "ok" /\ Others(h) /\ pc'[h] = "idle" /\ UNCHANGED retryVars
      \/ o # "ok" /\ GiveUp(h) /\ Others(h) /\ pc'[h] = "idle"
      \/ /\ o # "ok" /\ Others(h) /\ UNCHANGED retryVars
         /\ pc'[h] = "backoff" /\ req'[h] = req[h] /\ inc'[h] = inc[h]
  BY <1>1, ReturnEnds, GotoKeeps DEF GiveUp, Stage
<1>6. CASE id # req[h].id
  <2>1. cache'[id] = cache[id]
    BY <1>3, <1>4, <1>6
  <2>2. \A i : i.id = id => (i \in Waiting' <=> i \in Waiting)
    BY <1>3, <1>5, <1>6, GiveUpElsewhere, WaitingStays
  <2> QED
    BY <1>2, <1>5, <1>6, <2>1, <2>2, AnotherIncident
<1>7. CASE id = req[h].id
  <2>1. WritesCache(h, id)
    BY <1>2, <1>7 DEF WritesCache, Works
  <2>2. \/ cache'[id] = cache[id] /\ o # "ok"
        \/ req[h].op = "delete" /\ cache'[id] = None
        \/ req[h].op # "delete" /\ cache'[id] = inc[h]
    BY <1>3, <1>4, <1>7
  <2>3. CASE pc'[h] = "backoff"
    BY <1>2, <1>5, <2>1, <2>2, <2>3, WriteGoesOn, WaitingStays
  <2>4. CASE o = "ok"
    BY <1>2, <1>5, <2>1, <2>2, <2>4, WriteEnds, WaitingStays
  <2>5. CASE o # "ok" /\ GiveUp(h) /\ Others(h) /\ pc'[h] = "idle"
    <3>1. MayFail("redis")
      BY <1>1, <2>5, CallFailed
    <3> QED
      BY <1>2, <2>1, <2>2, <2>5, <3>1, GivesUpCoherently
  <2> QED
    BY <1>5, <2>3, <2>4, <2>5
<1> QED
  BY <1>6, <1>7

LEMMA BackoffElapsedCoheres ==
  ASSUME IInv, NEW h \in Handlers, BackoffElapsed(h),
         NEW id \in Ids, Coherent(id), ~Door(id)
  PROVE  Coherent(id)'
<1>1. /\ pc[h] = "backoff" /\ Goto(h, "cacheWrite", cancelled[h])
      /\ UNCHANGED <<cache, retryVars, db, inc>>
  BY DEF BackoffElapsed, cacheVars
<1>2. attempt' = [attempt EXCEPT ![h] = @ + 1]
  BY DEF BackoffElapsed
<1>3. Others(h) /\ pc'[h] = "cacheWrite" /\ req'[h] = req[h] /\ inc'[h] = inc[h]
  BY <1>1, <1>2 DEF Goto, Others, IInv, TypeOK
<1>4. Waiting' = Waiting
  BY <1>1, WaitingStays
<1>5. CASE id # req[h].id
  BY <1>1, <1>3, <1>4, <1>5, AnotherIncident
<1>6. CASE id = req[h].id
  <2>1. WritesCache(h, id)
    BY <1>1, <1>6 DEF WritesCache, Works
  <2> QED
    BY <1>1, <1>3, <1>4, <2>1, WriteGoesOn
<1> QED
  BY <1>5, <1>6

LEMMA BackoffCancelledCoheres ==
  ASSUME IInv, IInv', OnlyClientsCancel, NEW h \in Handlers, BackoffCancelled(h),
         NEW id \in Ids, Coherent(id), ~Door(id)
  PROVE  Coherent(id)'
<1>1. pc[h] = "backoff" /\ cancelled[h] /\ GiveUp(h) /\ UNCHANGED <<cache, db>>
  BY DEF BackoffCancelled, cacheVars
<1>2. Others(h) /\ pc'[h] = "idle"
  BY <1>1, ReturnEnds DEF GiveUp
<1>3. /\ req[h].id \in Ids
      /\ req[h].op # "delete" => inc[h] \in Incident /\ inc[h].id = req[h].id
  BY <1>1 DEF IInv, RequestOK, Request, IncidentOK, Holds
<1>4. MayFail("redis")
  BY <1>1 DEF OnlyClientsCancel, MayFail
<1>5. CASE id # req[h].id
  <2>1. \A i : i.id = id => (i \in Waiting' <=> i \in Waiting)
    BY <1>1, <1>3, <1>5, GiveUpElsewhere
  <2> QED
    BY <1>1, <1>2, <1>5, <2>1, AnotherIncident
<1>6. CASE id = req[h].id
  <2>1. WritesCache(h, id)
    BY <1>1, <1>6 DEF WritesCache, Works
  <2> QED
    BY <1>1, <1>2, <1>4, <2>1, GivesUpCoherently
<1> QED
  BY <1>5, <1>6

LEMMA HandlerStepCoheres ==
  ASSUME IInv, IInv', OnlyClientsCancel, MaxAttempts # 0,
         NEW h \in Handlers, HandlerStep(h),
         NEW id \in Ids, Coherent(id), ~Door(id)
  PROVE  Coherent(id)'
BY DBCreateCoheres, CacheGetCoheres, DBGetCoheres, CacheFillCoheres, DBUpdateCoheres,
   DBDeleteCoheres, CacheWriteCoheres, BackoffElapsedCoheres, BackoffCancelledCoheres
   DEF HandlerStep

-----------------------------------------------------------------------------
(* Requests, the process and its environment. *)

LEMMA AcceptCoheres ==
  ASSUME IInv, NEW h \in Handlers, NEW id \in Ids, Coherent(id),
         AcceptCreate(h) \/ AcceptGet(h) \/ AcceptUpdate(h) \/ AcceptDelete(h)
  PROVE  Coherent(id)'
<1>1. /\ pc[h] = "idle" /\ UNCHANGED <<cache, retryVars, db>>
      /\ Others(h) /\ pc'[h] \in {"dbCreate", "cacheGet", "dbDelete"}
  <2>1. PICK stage \in {"dbCreate", "cacheGet", "dbDelete"} : \E r : Accept(h, r, stage)
    <3>1. ASSUME NEW r, NEW stage \in {"dbCreate", "cacheGet", "dbDelete"}, Accept(h, r, stage)
          PROVE  \E s \in {"dbCreate", "cacheGet", "dbDelete"} : \E r2 : Accept(h, r2, s)
      BY <3>1, Zenon
    <3> QED
      BY <3>1 DEF AcceptCreate, AcceptGet, AcceptUpdate, AcceptDelete
  <2>2. \A g \in Handlers \ {h} : inc'[g] = inc[g]
    BY DEF AcceptCreate, AcceptGet, AcceptUpdate, AcceptDelete, IInv, TypeOK
  <2> QED
    BY <2>1, <2>2 DEF Accept, Others, IInv, TypeOK, cacheVars
<1>2. Waiting' = Waiting
  BY <1>1, WaitingStays
<1> QED
  BY <1>1, <1>2, Elsewhere DEF WritesCache, Holding

(* A step that changes nothing the incident's coherence is about. *)
LEMMA NothingMoves ==
  ASSUME UNCHANGED <<pc, req, inc, db, cache, retryVars>>,
         NEW id \in Ids, Coherent(id)
  PROVE  Coherent(id)'
BY WaitingStays
   DEF Coherent, CopyOK, QueueOK, KeyOK, FlagOK, Pending, Deletes, WritesCache, Works

LEMMA WorkerCoheres ==
  ASSUME IInv, IInv', Worker, NEW id \in Ids, Coherent(id), ~Door(id)
  PROVE  Coherent(id)'
<1>1. UNCHANGED <<pc, req, inc, db>>
  BY DEF Worker, handlerVars
<1>2. QueueTypes /\ QueueTypes' /\ cache \in [Ids -> Incident \cup {None}]
  BY DEF IInv, TypeOK, QueueTypes
<1>3. CASE WorkerTake
  <2>1. Waiting' = Waiting /\ UNCHANGED cache
    BY <1>2, <1>3, TakeWaits DEF WorkerTake, cacheVars
  <2> QED
    BY <1>1, <2>1
       DEF Coherent, CopyOK, QueueOK, KeyOK, FlagOK, Pending, Deletes, WritesCache, Works
<1>4. CASE WorkerSet
  <2>1. /\ Waiting' \subseteq Waiting
        /\ Waiting \subseteq Waiting' \cup {worker}
        /\ Buffer(worker) => Waiting' = Waiting \/ Len(retryQ) = CacheRetrySize
    BY <1>2, <1>4, SetWaits
  <2>2. /\ worker \in Incident /\ worker # None /\ worker' = None
        /\ worker \in Waiting
    BY <1>2, <1>4 DEF WorkerSet, QueueTypes, Waiting
  <2>3. \/ cache' = cache /\ Buffer(worker)
        \/ cache' = [cache EXCEPT ![worker.id] = worker]
    BY <1>4 DEF WorkerSet, SetFailed, Executed, Outcomes, Set, cacheVars
  <2>4. QueueOK(id)' /\ \A h \in Handlers : CopyOK(h, id)'
    BY <1>1, <2>1 DEF Coherent, QueueOK, CopyOK, WritesCache, Works
  <2>5. \A h \in Handlers : Deletes(h, id) => Deletes(h, id)'
    BY <1>1 DEF Deletes, WritesCache, Works
  <2>6. CASE worker.id # id
    <3>1. cache'[id] = cache[id]
      BY <1>2, <2>3, <2>6
    <3>2. Pending(id) => Pending(id)'
      BY <1>1, <2>1, <2>6 DEF Pending, WritesCache, Works
    <3> QED
      BY <1>1, <2>4, <2>5, <3>1, <3>2 DEF Coherent, KeyOK, FlagOK
  <2>7. CASE worker.id = id
    <3>1. worker = db[id]
      BY <2>2, <2>7 DEF Coherent, QueueOK
    <3>2. CASE cache' = [cache EXCEPT ![worker.id] = worker]
      <4>1. cache'[id] = db'[id]
        BY <1>1, <1>2, <2>7, <3>1, <3>2
      <4> QED
        BY <2>4, <4>1 DEF Coherent, KeyOK, FlagOK
    <3>3. CASE cache' = cache /\ Buffer(worker)
      <4>1. FlagOK(id)'
        BY <1>1, <2>5, <3>3 DEF Coherent, FlagOK
      <4>2. CASE Waiting' = Waiting
        BY <2>2, <2>4, <2>7, <4>1, <4>2 DEF Coherent, KeyOK, Pending
      <4>3. CASE Len(retryQ) = CacheRetrySize
        <5>1. cache'[id] = worker \/ Queued(id)'
          BY <2>2, <2>7, <4>3 DEF Door, Dropped
        <5>2. Queued(id)' => \E i \in Waiting' : i.id = id
          <6>1. \A k \in 1 .. Len(retryQ') : retryQ'[k] # None
            BY <1>2, NoneAssumption DEF QueueTypes
          <6> QED
            BY <6>1 DEF Queued, Waiting
        <5>3. KeyOK(id)'
          BY <1>1, <3>1, <5>1, <5>2 DEF KeyOK, Pending
        <5> QED
          BY <2>4, <4>1, <5>3 DEF Coherent
      <4> QED
        BY <2>1, <3>3, <4>2, <4>3
    <3> QED
      BY <2>3, <3>2, <3>3
  <2> QED
    BY <2>6, <2>7
<1> QED
  BY <1>3, <1>4 DEF Worker

LEMMA CrashCoheres ==
  ASSUME IInv, Crash, NEW id \in Ids, Coherent(id), ~Door(id)
  PROVE  Coherent(id)'
<1>1. /\ phase = "serving" /\ phase' = "down" /\ retryQ' = <<>> /\ worker' = None
      /\ \A h \in Handlers : pc'[h] = "idle"
      /\ UNCHANGED <<cache, db>>
  BY DEF Crash, cacheVars
<1>2. Waiting' = {}
  BY <1>1 DEF Waiting
<1>3. QueueOK(id)' /\ \A h \in Handlers : CopyOK(h, id)'
  BY <1>1, <1>2 DEF QueueOK, CopyOK, WritesCache, Works
<1>4. /\ ~\E i \in Waiting : i.id = id
      /\ \A h \in Handlers : ~(WritesCache(h, id) /\ req[h].op \in {"update", "delete"})
  <2>1. QueueTypes
    BY Parts DEF IInv
  <2> QED
    BY <1>1, <2>1, QueuedWaits DEF Door, Interrupted, WritesCache
<1>5. \A h \in Handlers : WritesCache(h, id) => req[h].op = "create"
  BY <1>4 DEF IInv, RequestOK, Request, WritesCache, Works
<1>6. cache[id] \in {None, db[id]}
  BY <1>4, <1>5 DEF Coherent, KeyOK, Pending
<1> QED
  BY <1>1, <1>3, <1>6 DEF Coherent, KeyOK, FlagOK

(* A start rewrites the keys of some active rows, and leaves the others. *)
LEMMA StartUpCoheres ==
  ASSUME IInv, DownForgets, StartUp, NEW id \in Ids,
         Coherent(id) \/ Rewritten(id)
  PROVE  Coherent(id)'
<1>1. phase = "down" /\ UNCHANGED <<retryVars, db, handlerVars>>
  BY DEF StartUp
<1>2. retryQ' = <<>> /\ worker' = None /\ \A h \in Handlers : pc'[h] = "idle"
  BY <1>1 DEF DownForgets, retryVars, handlerVars
<1>3. Waiting' = {}
  BY <1>2 DEF Waiting
<1>4. QueueOK(id)' /\ \A h \in Handlers : CopyOK(h, id)'
  BY <1>2, <1>3 DEF QueueOK, CopyOK, WritesCache, Works
<1>5. Coherent(id) => cache[id] \in {None, db[id]}
  BY <1>1, <1>2, <1>3 DEF Coherent, KeyOK, Pending, WritesCache, Works, handlerVars,
                          retryVars, Waiting
<1>6. PICK o \in Outcomes("redis"), ids \in SUBSET Ids :
        /\ IF Executed(o) THEN WarmUp(Seen(ids)) ELSE UNCHANGED cacheVars
        /\ phase' = IF o = "ok" THEN "serving" ELSE "down"
  BY DEF StartUp
<1>7. CASE Executed(o)
  <2>1. /\ cache' = [j \in Ids |-> IF IsActive(Seen(ids)[j]) THEN Seen(ids)[j] ELSE cache[j]]
        /\ activeIds' = {j \in Ids : IsActive(Seen(ids)[j])}
    BY <1>6, <1>7 DEF WarmUp
  <2>2. IsActive(Seen(ids)[id]) => Seen(ids)[id] = db[id]
    BY DEF Seen, IsActive
  <2>3. Rewritten(id) => IsActive(Seen(ids)[id])
    BY <2>1 DEF Rewritten
  <2>4. cache'[id] \in {None, db[id]}
    BY <1>5, <2>1, <2>2, <2>3
  <2> QED
    BY <1>1, <1>4, <2>4 DEF Coherent, KeyOK, FlagOK
<1>8. CASE ~Executed(o)
  <2>1. UNCHANGED cache /\ phase' = "down"
    BY <1>6, <1>8 DEF Executed, cacheVars
  <2>2. cache'[id] \in {None, db[id]}
    BY <1>5, <2>1 DEF Rewritten
  <2> QED
    BY <1>1, <1>4, <2>2 DEF Coherent, KeyOK, FlagOK
<1> QED
  BY <1>7, <1>8

(* Of the process that is down nothing is in memory, and only clients cancel. *)
LEMMA DownForgetsStays ==
  ASSUME IInv, DownForgets, [Next]_vars
  PROVE  DownForgets'
<1>1. CASE \E h \in Handlers : HandlerStep(h)
  <2>1. PICK h \in Handlers : HandlerStep(h)
    BY <1>1
  <2>2. pc[h] # "idle" /\ phase' = phase
    BY <2>1 DEF HandlerStep, DBCreate, CacheGet, DBGet, CacheFill, DBUpdate, DBDelete,
                CacheWrite, BackoffElapsed, BackoffCancelled
  <2> QED
    BY <2>2 DEF DownForgets
<1>2. CASE \E h \in Handlers :
             \/ AcceptCreate(h) \/ AcceptGet(h) \/ AcceptUpdate(h) \/ AcceptDelete(h)
             \/ ClientLeaves(h)
  BY <1>2 DEF AcceptCreate, AcceptGet, AcceptUpdate, AcceptDelete, Accept, ClientLeaves,
              DownForgets
<1>3. CASE Worker
  BY <1>3 DEF Worker, WorkerTake, WorkerSet, DownForgets
<1>4. CASE Crash
  BY <1>4 DEF Crash, DownForgets
<1>5. CASE StartUp
  BY <1>5 DEF StartUp, DownForgets, retryVars, handlerVars
<1>6. CASE StoreChanges \/ UNCHANGED vars
  BY <1>6 DEF StoreChanges, vars, DownForgets, retryVars, handlerVars
<1> QED
  BY <1>1, <1>2, <1>3, <1>4, <1>5, <1>6 DEF Next

LEMMA CancelByReturn ==
  ASSUME IInv, OnlyClientsCancel, NEW h \in Handlers, Return(h)
  PROVE  OnlyClientsCancel'
BY DEF Return, OnlyClientsCancel, IInv, TypeOK

LEMMA CancelByGoto ==
  ASSUME IInv, OnlyClientsCancel, NEW h \in Handlers, NEW stage, NEW gone \in BOOLEAN,
         Goto(h, stage, gone), gone => "client" \in Disturbances
  PROVE  OnlyClientsCancel'
BY DEF Goto, OnlyClientsCancel, IInv, TypeOK

(* A call comes back with the context done only if the client has left. *)
LEMMA GoneByClient ==
  ASSUME OnlyClientsCancel, NEW h \in Handlers, NEW s, NEW o, NEW gone \in BOOLEAN,
         Answer(h, s, o, gone), gone
  PROVE  "client" \in Disturbances
BY DEF OnlyClientsCancel, Answer, CallEnds

LEMMA OnlyClientsCancelStays ==
  ASSUME IInv, OnlyClientsCancel, [Next]_vars
  PROVE  OnlyClientsCancel'
<1>1. ASSUME NEW h \in Handlers,
             \/ DBCreate(h) \/ CacheGet(h) \/ DBGet(h) \/ CacheFill(h)
             \/ DBUpdate(h) \/ DBDelete(h) \/ CacheWrite(h)
      PROVE  OnlyClientsCancel'
  <2>1. \E s \in Store, o \in Outcome, gone \in BOOLEAN :
          /\ Answer(h, s, o, gone)
          /\ Return(h) \/ \E stage \in Stage : Goto(h, stage, gone)
    BY <1>1 DEF DBCreate, CacheGet, DBGet, CacheFill, DBUpdate, DBDelete, CacheWrite,
                StartRetry, Loaded, GiveUp, Stage, Store
  <2> QED
    BY <2>1, GoneByClient, CancelByReturn, CancelByGoto
<1>2. ASSUME NEW h \in Handlers, BackoffElapsed(h)
      PROVE  OnlyClientsCancel'
  <2>1. Goto(h, "cacheWrite", cancelled[h]) /\ cancelled[h] \in BOOLEAN
    BY <1>2 DEF BackoffElapsed, IInv, TypeOK
  <2> QED
    BY <2>1, CancelByGoto DEF OnlyClientsCancel
<1>3. ASSUME NEW h \in Handlers, BackoffCancelled(h)
      PROVE  OnlyClientsCancel'
  BY <1>3, CancelByReturn DEF BackoffCancelled, GiveUp
<1>4. ASSUME NEW h \in Handlers,
             AcceptCreate(h) \/ AcceptGet(h) \/ AcceptUpdate(h) \/ AcceptDelete(h)
      PROVE  OnlyClientsCancel'
  BY <1>4 DEF AcceptCreate, AcceptGet, AcceptUpdate, AcceptDelete, Accept, OnlyClientsCancel
<1>5. ASSUME NEW h \in Handlers, ClientLeaves(h)
      PROVE  OnlyClientsCancel'
  BY <1>5 DEF ClientLeaves, OnlyClientsCancel, IInv, TypeOK
<1>6. CASE StartUp \/ StoreChanges \/ Worker \/ UNCHANGED vars
  BY <1>6 DEF StartUp, StoreChanges, Worker, vars, handlerVars, OnlyClientsCancel
<1>7. CASE Crash
  BY <1>7 DEF Crash, OnlyClientsCancel
<1> QED
  BY <1>1, <1>2, <1>3, <1>4, <1>5, <1>6, <1>7 DEF Next, HandlerStep

-----------------------------------------------------------------------------
(* The invariant. *)

LEMMA StepIsNext == [CNext]_allVars => [Next]_vars
BY DEF CNext, allVars

LEMMA InitCohInv == CInit => CohInv
<1> SUFFICES ASSUME CInit PROVE CohInv
  OBVIOUS
<1>1. /\ \A h \in Handlers : pc[h] = "idle" /\ ~cancelled[h]
      /\ retryQ = <<>> /\ worker = None
      /\ \A id \in Ids : cache[id] = None
  BY DEF CInit, Init, IdleHandlers, RetryInit, CacheInit
<1>2. Waiting = {}
  BY <1>1 DEF Waiting
<1>3. ASSUME NEW id \in Ids PROVE Coherent(id)
  BY <1>1, <1>2 DEF Coherent, CopyOK, QueueOK, KeyOK, FlagOK, WritesCache, Works
<1> QED
  BY <1>1, <1>3 DEF CohInv, DownForgets, OnlyClientsCancel

(* Only a start brings a process that is down to serving. *)
LEMMA OnlyStartsRewrite ==
  ASSUME [Next]_vars, NEW id \in Ids, Rewritten(id)
  PROVE  StartUp
<1>1. phase = "down" /\ phase' = "serving"
  BY DEF Rewritten
<1>2. ASSUME NEW h \in Handlers,
             \/ AcceptCreate(h) \/ AcceptGet(h) \/ AcceptUpdate(h) \/ AcceptDelete(h)
             \/ ClientLeaves(h) \/ HandlerStep(h)
      PROVE  phase' = phase
  BY <1>2 DEF AcceptCreate, AcceptGet, AcceptUpdate, AcceptDelete, Accept, ClientLeaves,
              HandlerStep, DBCreate, CacheGet, DBGet, CacheFill, DBUpdate, DBDelete,
              CacheWrite, BackoffElapsed, BackoffCancelled
<1>3. CASE Crash \/ StoreChanges \/ Worker \/ UNCHANGED vars
  BY <1>1, <1>3 DEF Crash, StoreChanges, Worker, vars
<1> QED
  BY <1>1, <1>2, <1>3 DEF Next

(* What no door has met stays coherent. *)
LEMMA NextCoheres ==
  ASSUME IInv, IInv', MaxAttempts # 0, DownForgets, OnlyClientsCancel,
         [Next]_vars, NEW id \in Ids, ~Door(id), Coherent(id) \/ Rewritten(id)
  PROVE  Coherent(id)'
<1>1. CASE StartUp
  BY <1>1, StartUpCoheres
<1>2. CASE ~StartUp
  <2>1. Coherent(id)
    BY <1>2, OnlyStartsRewrite
  <2>2. CASE \E h \in Handlers : HandlerStep(h)
    BY <2>1, <2>2, HandlerStepCoheres
  <2>3. CASE \E h \in Handlers :
               AcceptCreate(h) \/ AcceptGet(h) \/ AcceptUpdate(h) \/ AcceptDelete(h)
    BY <2>1, <2>3, AcceptCoheres
  <2>4. CASE (\E h \in Handlers : ClientLeaves(h)) \/ StoreChanges \/ UNCHANGED vars
    <3>1. UNCHANGED <<pc, req, inc, db, cache, retryVars>>
      BY <2>4 DEF ClientLeaves, StoreChanges, vars, cacheVars, handlerVars
    <3> QED
      BY <2>1, <3>1, NothingMoves
  <2>5. CASE Worker
    BY <2>1, <2>5, WorkerCoheres
  <2>6. CASE Crash
    BY <2>1, <2>6, CrashCoheres
  <2> QED
    BY <1>2, <2>2, <2>3, <2>4, <2>5, <2>6 DEF Next
<1> QED
  BY <1>1, <1>2

LEMMA NextCohInv ==
  ASSUME MaxAttempts # 0
  PROVE  IInv /\ IInv' /\ CohInv /\ [CNext]_allVars => CohInv'
<1> SUFFICES ASSUME IInv, IInv', CohInv, [CNext]_allVars PROVE CohInv'
  OBVIOUS
<1>1. [Next]_vars
  BY StepIsNext
<1>2. DownForgets' /\ OnlyClientsCancel'
  BY <1>1, DownForgetsStays, OnlyClientsCancelStays DEF CohInv
<1>3. CASE CNext
  <2>1. ASSUME NEW id \in Ids, id \notin tainted' PROVE Coherent(id)'
    <3>1. ~Door(id) /\ (id \in tainted => Rewritten(id))
      BY <1>3, <2>1 DEF CNext, Mark
    <3>2. Coherent(id) \/ Rewritten(id)
      BY <3>1 DEF CohInv
    <3> QED
      BY <1>1, <3>1, <3>2, NextCoheres DEF CohInv
  <2> QED
    BY <1>2, <2>1 DEF CohInv
<1>4. CASE UNCHANGED allVars
  <2>1. tainted' = tainted /\ UNCHANGED <<pc, req, inc, db, cache, retryVars>>
    BY <1>4 DEF allVars, vars, cacheVars, handlerVars
  <2>2. \A id \in Ids : Coherent(id) => Coherent(id)'
    BY <2>1, NothingMoves
  <2> QED
    BY <1>2, <2>1, <2>2 DEF CohInv
<1> QED
  BY <1>3, <1>4

LEMMA StaleByCohInv == IInv /\ CohInv => StaleOnlyThroughDoors
<1> SUFFICES ASSUME IInv, CohInv, NEW id \in Ids \ tainted,
                    ~Queued(id), \A h \in Handlers : ~Works(h, id)
             PROVE  cache[id] \in {None, db[id]}
  BY DEF StaleOnlyThroughDoors
<1>1. KeyOK(id)
  BY DEF CohInv, Coherent
<1>2. ~\E i \in Waiting : i.id = id
  BY QueuedWaits, Parts DEF IInv
<1> QED
  BY <1>1, <1>2 DEF KeyOK, Pending, WritesCache

(***************************************************************************)
(* With retries configured, every copy of an incident that is not tainted  *)
(* is its row or waits to be overwritten by it.                            *)
(***************************************************************************)
THEOREM Coherence ==
  ASSUME MaxAttempts # 0
  PROVE  CSpec => [](IInv /\ CohInv)
<1>1. CInit => IInv /\ CohInv
  BY InitIInv, InitCohInv DEF CInit
<1>2. IInv /\ CohInv /\ [CNext]_allVars => IInv' /\ CohInv'
  BY StepIsNext, NextIInv, NextCohInv
<1> QED
  BY <1>1, <1>2, PTL DEF CSpec

(***************************************************************************)
(* With retries configured there is no eighth way for a stale copy to stay *)
(* in the cache, however many requests, incidents and faults there are.    *)
(***************************************************************************)
THEOREM NoEighthDoor ==
  ASSUME MaxAttempts # 0
  PROVE  CSpec => []StaleOnlyThroughDoors
BY Coherence, StaleByCohInv, PTL

-----------------------------------------------------------------------------
(* The service implements the guarded table, with rows <- db, doors <- tainted. *)

LEMMA CreateKeepsPromise ==
  ASSUME IInv, NEW h \in Handlers, DBCreate(h)
  PROVE  [Promised!GuardedNext]_db
<1>1. db' = [db EXCEPT ![inc[h].id] = inc[h]] \/ db' = db
  BY DEF DBCreate, RowInserted
<1>2. /\ inc[h] \in Incident /\ inc[h].active
      /\ inc[h].id \in Ids /\ db[inc[h].id] = None
  BY DEF DBCreate, IInv, IncidentOK, Incident
<1>3. inc[h] = NewIncident(inc[h].id, inc[h].body) /\ inc[h].body \in Bodies
  BY <1>2 DEF NewIncident, Incident
<1>4. CASE db' = [db EXCEPT ![inc[h].id] = inc[h]]
  <2>1. Promised!Create(inc[h].id)
    BY <1>2, <1>3, <1>4 DEF Promised!Create, Promised!NewIncident, NewIncident
  <2> QED
    BY <1>2, <2>1 DEF Promised!GuardedNext, Promised!Next
<1> QED
  BY <1>1, <1>4

LEMMA UpdateKeepsPromise ==
  ASSUME IInv, CohInv, NEW h \in Handlers, DBUpdate(h)
  PROVE  [Promised!GuardedNext]_db
<1> DEFINE id == inc[h].id
<1>1. db' = [db EXCEPT ![id] = inc[h]] \/ db' = db
  BY DEF DBUpdate, RowOverwritten
<1>2. /\ pc[h] = "dbUpdate" /\ req[h].id = id
      /\ inc[h] \in Incident /\ id \in Ids /\ inc[h].body \in Bodies
      /\ db[id] \in Incident /\ db[id] # None /\ db[id].id = id
  BY DEF DBUpdate, IInv, TypeOK, RowsOK, IncidentOK, Holds, Incident
<1>3. CASE db' = [db EXCEPT ![id] = inc[h]] /\ id \in tainted
  <2>1. Promised!Overwrite(id)
    BY <1>2, <1>3 DEF Promised!Overwrite, Promised!Incident, Incident
  <2> QED
    BY <1>3, <2>1 DEF Promised!GuardedNext
<1>4. CASE db' = [db EXCEPT ![id] = inc[h]] /\ id \notin tainted
  <2>1. inc[h].active = db[id].active
    BY <1>2, <1>4 DEF CohInv, Coherent, CopyOK, Works
  <2>2. inc[h] = Updated(db[id], inc[h].body)
    BY <1>2, <2>1 DEF Updated, Incident
  <2>3. Promised!Amend(id)
    BY <1>2, <1>4, <2>2 DEF Promised!Amend, Promised!Updated, Updated
  <2> QED
    BY <1>2, <2>3 DEF Promised!GuardedNext, Promised!Next
<1> QED
  BY <1>1, <1>3, <1>4

LEMMA DeleteKeepsPromise ==
  ASSUME IInv, NEW h \in Handlers, DBDelete(h)
  PROVE  [Promised!GuardedNext]_db
<1> DEFINE id == req[h].id
<1>1. db' = db \/ (db[id] # None /\ db' = [db EXCEPT ![id].active = FALSE])
  BY DEF DBDelete, RowDeactivated
<1>2. id \in Ids
  BY DEF DBDelete, IInv, RequestOK, Request
<1>3. CASE db[id] # None /\ db' = [db EXCEPT ![id].active = FALSE]
  <2>1. Promised!Deactivate(id)
    BY <1>3 DEF Promised!Deactivate
  <2> QED
    BY <1>2, <2>1 DEF Promised!GuardedNext, Promised!Next
<1> QED
  BY <1>1, <1>3

LEMMA NextKeepsPromise == IInv /\ CohInv /\ [Next]_vars => [Promised!GuardedNext]_db
<1> SUFFICES ASSUME IInv, CohInv, [Next]_vars PROVE [Promised!GuardedNext]_db
  OBVIOUS
<1>1. CASE \E h \in Handlers : HandlerStep(h)
  <2>1. PICK h \in Handlers : HandlerStep(h)
    BY <1>1
  <2>2. CASE DBCreate(h) \/ DBUpdate(h) \/ DBDelete(h)
    BY <2>2, CreateKeepsPromise, UpdateKeepsPromise, DeleteKeepsPromise
  <2>3. CASE CacheGet(h) \/ DBGet(h) \/ CacheFill(h) \/ CacheWrite(h)
             \/ BackoffElapsed(h) \/ BackoffCancelled(h)
    BY <2>3 DEF CacheGet, DBGet, CacheFill, CacheWrite, BackoffElapsed, BackoffCancelled
  <2> QED
    BY <2>1, <2>2, <2>3 DEF HandlerStep
<1>2. CASE \E h \in Handlers :
             \/ AcceptCreate(h) \/ AcceptGet(h) \/ AcceptUpdate(h) \/ AcceptDelete(h)
             \/ ClientLeaves(h)
  BY <1>2 DEF AcceptCreate, AcceptGet, AcceptUpdate, AcceptDelete, Accept, ClientLeaves
<1>3. CASE StartUp \/ Crash \/ StoreChanges \/ Worker
  BY <1>3 DEF StartUp, Crash, StoreChanges, Worker
<1>4. CASE UNCHANGED vars
  BY <1>4 DEF vars
<1> QED
  BY <1>1, <1>2, <1>3, <1>4 DEF Next

(***************************************************************************)
(* With retries configured, the service implements the table the API       *)
(* promises, but for the incidents one of the seven events has met: every  *)
(* other row is created, amended or soft-deleted as IncidentTable says.    *)
(***************************************************************************)
THEOREM KeepsPromise ==
  ASSUME MaxAttempts # 0
  PROVE  CSpec => ImplementsTableButTainted
<1>1. CInit => Promised!Init
  BY DEF CInit, Init, Promised!Init
<1>2. IInv /\ CohInv /\ [CNext]_allVars => [Promised!GuardedNext]_db
  BY StepIsNext, NextKeepsPromise
<1> QED
  BY <1>1, <1>2, Coherence, PTL
     DEF CSpec, ImplementsTableButTainted, Promised!GuardedSpec

-----------------------------------------------------------------------------
(* Without faults, and one request at a time, no door is ever open. *)

LEMMA CallsSucceed ==
  ASSUME Disturbances \subseteq {"receiver"}, Calm, NEW h \in Handlers, NEW s \in Store,
         NEW o, NEW gone \in BOOLEAN, Answer(h, s, o, gone)
  PROVE  o = "ok" /\ ~gone
BY DEF Calm, Answer, CallEnds, Outcomes

LEMMA CalmByReturn ==
  ASSUME IInv, Calm, NEW h \in Handlers, Return(h), UNCHANGED <<up, retryVars>>
  PROVE  Calm'
BY DEF Return, Calm, retryVars, IInv, TypeOK

LEMMA CalmByGoto ==
  ASSUME IInv, Calm, NEW h \in Handlers, NEW stage, stage # "backoff", NEW gone, ~gone,
         Goto(h, stage, gone), UNCHANGED <<up, retryVars>>
  PROVE  Calm'
BY DEF Goto, Calm, retryVars, IInv, TypeOK

LEMMA CalmStays ==
  ASSUME Disturbances \subseteq {"receiver"}, IInv, Calm, [Next]_vars
  PROVE  Calm'
<1>1. ASSUME NEW h \in Handlers,
             \/ DBCreate(h) \/ CacheGet(h) \/ DBGet(h) \/ CacheFill(h)
             \/ DBUpdate(h) \/ DBDelete(h) \/ CacheWrite(h)
      PROVE  Calm'
  <2>1. \E s \in Store, o \in Outcome, gone \in BOOLEAN :
          /\ Answer(h, s, o, gone)
          /\ \/ Return(h) /\ UNCHANGED retryVars
             \/ \E stage \in Stage \ {"backoff"} : Goto(h, stage, gone) /\ UNCHANGED retryVars
             \/ o # "ok"
    BY <1>1 DEF DBCreate, CacheGet, DBGet, CacheFill, DBUpdate, DBDelete, CacheWrite,
                StartRetry, Loaded, Stage, Store
  <2>2. UNCHANGED up
    BY <1>1 DEF DBCreate, CacheGet, DBGet, CacheFill, DBUpdate, DBDelete, CacheWrite
  <2> QED
    BY <2>1, <2>2, CallsSucceed, CalmByReturn, CalmByGoto
<1>2. ASSUME NEW h \in Handlers,
             AcceptCreate(h) \/ AcceptGet(h) \/ AcceptUpdate(h) \/ AcceptDelete(h)
      PROVE  Calm'
  <2>1. \E stage \in {"dbCreate", "cacheGet", "dbDelete"} : pc' = [pc EXCEPT ![h] = stage]
    BY <1>2 DEF AcceptCreate, AcceptGet, AcceptUpdate, AcceptDelete, Accept
  <2>2. UNCHANGED <<up, retryVars, cancelled>>
    BY <1>2 DEF AcceptCreate, AcceptGet, AcceptUpdate, AcceptDelete, Accept
  <2> QED
    BY <2>1, <2>2 DEF Calm, retryVars, IInv, TypeOK
<1>3. ASSUME NEW h \in Handlers, ClientLeaves(h) \/ BackoffElapsed(h) \/ BackoffCancelled(h)
      PROVE  FALSE
  BY <1>3 DEF ClientLeaves, BackoffElapsed, BackoffCancelled, Calm
<1>4. CASE Crash \/ StoreChanges \/ Worker
  <2>1. ~StoreChanges
    BY DEF StoreChanges, Degrade, Recover, Calm, Store
  <2>2. ~Crash
    BY DEF Crash
  <2>3. ~Worker
    BY DEF Worker, WorkerTake, WorkerSet, Calm
  <2> QED
    BY <1>4, <2>1, <2>2, <2>3
<1>5. CASE StartUp \/ UNCHANGED vars
  BY <1>5 DEF StartUp, vars, handlerVars, retryVars, Calm
<1> QED
  BY <1>1, <1>2, <1>3, <1>4, <1>5 DEF Next, HandlerStep

(* The row of an incident is changed by a handler that works on it and moves on. *)
LEMMA ChangesBelong ==
  ASSUME IInv, [Next]_vars, NEW id \in Ids, db'[id] # db[id]
  PROVE  \E h \in Handlers : Works(h, id) /\ pc[h] \in {"dbCreate", "dbUpdate", "dbDelete"}
                              /\ pc'[h] # pc[h]
<1>1. ASSUME NEW h \in Handlers, DBCreate(h) \/ DBUpdate(h) \/ DBDelete(h)
      PROVE  Works(h, id) /\ pc[h] \in {"dbCreate", "dbUpdate", "dbDelete"} /\ pc'[h] # pc[h]
  <2>1. pc[h] \in {"dbCreate", "dbUpdate", "dbDelete"}
    BY <1>1 DEF DBCreate, DBUpdate, DBDelete
  <2>2. \/ db' = db \/ db' = [db EXCEPT ![req[h].id].active = FALSE]
        \/ db' = [db EXCEPT ![req[h].id] = inc[h]]
    BY <1>1 DEF DBCreate, DBUpdate, DBDelete, RowInserted, RowOverwritten, RowDeactivated,
                IInv, IncidentOK, Holds
  <2>3. req[h].id = id
    BY <2>2 DEF IInv, TypeOK
  <2>4. \E stage \in {"idle", "cacheWrite"} : pc' = [pc EXCEPT ![h] = stage]
    BY <1>1 DEF DBCreate, DBUpdate, DBDelete, StartRetry, Return, Goto
  <2>5. pc'[h] # pc[h]
    BY <2>1, <2>4 DEF IInv, TypeOK
  <2> QED
    BY <2>1, <2>3, <2>5 DEF Works
<1>2. ASSUME NEW h \in Handlers,
             \/ CacheGet(h) \/ DBGet(h) \/ CacheFill(h) \/ CacheWrite(h)
             \/ BackoffElapsed(h) \/ BackoffCancelled(h)
             \/ AcceptCreate(h) \/ AcceptGet(h) \/ AcceptUpdate(h) \/ AcceptDelete(h)
             \/ ClientLeaves(h)
      PROVE  FALSE
  BY <1>2 DEF CacheGet, DBGet, CacheFill, CacheWrite, BackoffElapsed, BackoffCancelled,
              AcceptCreate, AcceptGet, AcceptUpdate, AcceptDelete, Accept, ClientLeaves
<1>3. CASE StartUp \/ Crash \/ StoreChanges \/ Worker \/ UNCHANGED vars
  BY <1>3 DEF StartUp, Crash, StoreChanges, Worker, vars
<1> QED
  BY <1>1, <1>2, <1>3 DEF Next, HandlerStep

(* A write of the cache that ends its request, other than by the end of the process, was made. *)
LEMMA WriteMade ==
  ASSUME Disturbances \subseteq {"receiver"}, IInv, Calm, [Next]_vars,
         NEW h \in Handlers, pc[h] = "cacheWrite", pc'[h] = "idle", req[h].op # "delete"
  PROVE  cache'[req[h].id] = inc[h]
<1>1. ASSUME NEW g \in Handlers,
             \/ AcceptCreate(g) \/ AcceptGet(g) \/ AcceptUpdate(g) \/ AcceptDelete(g)
             \/ ClientLeaves(g) \/ HandlerStep(g), ~CacheWrite(h)
      PROVE  FALSE
  <2>1. \/ UNCHANGED pc
        \/ \E stage : pc' = [pc EXCEPT ![g] = stage]
    BY <1>1 DEF AcceptCreate, AcceptGet, AcceptUpdate, AcceptDelete, Accept, ClientLeaves,
                HandlerStep, DBCreate, CacheGet, DBGet, CacheFill, DBUpdate, DBDelete,
                CacheWrite, BackoffElapsed, BackoffCancelled, StartRetry, Loaded, GiveUp,
                Return, Goto
  <2>2. g = h
    BY <2>1 DEF IInv, TypeOK
  <2> QED
    BY <1>1, <2>2 DEF AcceptCreate, AcceptGet, AcceptUpdate, AcceptDelete, Accept,
                ClientLeaves, HandlerStep, DBCreate, CacheGet, DBGet, CacheFill, DBUpdate,
                DBDelete, BackoffElapsed, BackoffCancelled
<1>2. CASE StartUp \/ Crash \/ StoreChanges \/ Worker \/ UNCHANGED vars
  BY <1>2 DEF StartUp, Crash, StoreChanges, Worker, vars, handlerVars
<1>3. CASE CacheWrite(h)
  <2>1. PICK o \in Outcome, gone \in BOOLEAN :
          /\ Answer(h, "redis", o, gone)
          /\ IF ~Executed(o) THEN UNCHANGED cacheVars
             ELSE IF req[h].op = "delete" THEN Delete(req[h].id) ELSE Set(inc[h])
    BY <1>3 DEF CacheWrite
  <2>2. o = "ok"
    BY <2>1, CallsSucceed DEF Store
  <2>3. cache' = [cache EXCEPT ![inc[h].id] = inc[h]]
    BY <2>1, <2>2 DEF Executed, Set
  <2> QED
    BY <2>3 DEF IInv, TypeOK, IncidentOK, Holds, Incident
<1> QED
  BY <1>1, <1>2, <1>3 DEF Next

LEMMA NoDoorOpens ==
  ASSUME Disturbances \subseteq {"receiver"}, IInv, Calm, [Next]_vars,
         NEW id \in Ids, Alone(id)
  PROVE  ~Door(id)
<1>1. ~Crossed(id)
  <2> SUFFICES ASSUME Crossed(id) PROVE FALSE
    OBVIOUS
  <2>1. PICK g \in Handlers : Works(g, id) /\ pc'[g] = pc[g]
    BY DEF Crossed, HoldsCopy
  <2>2. PICK h \in Handlers : Works(h, id) /\ pc'[h] # pc[h]
    BY ChangesBelong DEF Crossed, Changed
  <2> QED
    BY <2>1, <2>2 DEF Alone
<1>2. ~ReadDeleted(id)
  BY DEF ReadDeleted, Alone
<1>3. ~Overtaken(id)
  BY DEF Overtaken, Queued, Calm
<1>4. ~LostCommit(id) /\ ~DeleteGaveUp(id)
  BY DEF LostCommit, DeleteGaveUp, MayFail, Calm, Store
<1>5. ~Dropped(id)
  <2> SUFFICES ASSUME NEW h \in Handlers, Returns(h, id),
                      req[h].op \in {"create", "update"}, pc[h] \in {"cacheWrite", "backoff"},
                      cache'[id] # inc[h]
               PROVE  FALSE
    BY DEF Dropped, Calm
  <2>1. pc[h] = "cacheWrite" /\ pc'[h] = "idle" /\ req[h].id = id
    BY DEF Calm, Returns, Works
  <2> QED
    BY <2>1, WriteMade
<1>6. ~Interrupted(id)
  <2> SUFFICES ASSUME phase = "serving", phase' = "down" PROVE FALSE
    BY DEF Interrupted
  <2>1. ASSUME NEW h \in Handlers,
               \/ AcceptCreate(h) \/ AcceptGet(h) \/ AcceptUpdate(h) \/ AcceptDelete(h)
               \/ ClientLeaves(h) \/ HandlerStep(h)
        PROVE  phase' = phase
    BY <2>1 DEF AcceptCreate, AcceptGet, AcceptUpdate, AcceptDelete, Accept, ClientLeaves,
                HandlerStep, DBCreate, CacheGet, DBGet, CacheFill, DBUpdate, DBDelete,
                CacheWrite, BackoffElapsed, BackoffCancelled
  <2>2. CASE StartUp \/ Crash \/ StoreChanges \/ Worker \/ UNCHANGED vars
    BY <2>2 DEF StartUp, Crash, StoreChanges, Worker, vars
  <2> QED
    BY <2>1, <2>2 DEF Next
<1> QED
  BY <1>1, <1>2, <1>3, <1>4, <1>5, <1>6 DEF Door

LEMMA InitCalm == CInit => Calm
BY DEF CInit, Init, StoresInit, RetryInit, IdleHandlers, Calm

(***************************************************************************)
(* When nothing fails, all seven doors are about requests that meet: an    *)
(* incident of which no two requests are ever under way at once, whatever  *)
(* goes on about the others, is never tainted.                             *)
(***************************************************************************)
THEOREM AloneIsClean ==
  ASSUME Disturbances \subseteq {"receiver"}, NEW id \in Ids
  PROVE  CSpec /\ []Alone(id) => [](id \notin tainted)
<1> DEFINE Clean == id \notin tainted
           SInv == IInv /\ Calm /\ Clean
<1>1. CInit => SInv
  BY InitIInv, InitCalm DEF CInit
<1>2. SInv /\ Alone(id) /\ [CNext]_allVars => SInv'
  <2> SUFFICES ASSUME SInv, Alone(id), [CNext]_allVars PROVE SInv'
    OBVIOUS
  <2>1. [Next]_vars
    BY StepIsNext
  <2>2. ~Door(id)
    BY <2>1, NoDoorOpens
  <2>3. Clean'
    BY <2>2 DEF CNext, Mark, allVars
  <2>4. IInv' /\ Calm'
    BY <2>1, NextIInv, CalmStays
  <2> QED
    BY <2>3, <2>4
<1>3. SInv => Clean
  OBVIOUS
<1> HIDE DEF SInv
<1>4. CSpec /\ []Alone(id) => []Clean
  <2> HIDE DEF Clean
  <2> QED
    BY <1>1, <1>2, <1>3, PTL DEF CSpec
<1> QED
  BY <1>4

(***************************************************************************)
(* So, with retries configured, no fault, and one request per incident at  *)
(* a time, the service is the table the API promises, without exception,   *)
(* and the cache never says anything else when nobody works on a row.      *)
(***************************************************************************)
THEOREM SerialTable ==
  ASSUME Disturbances \subseteq {"receiver"}, MaxAttempts # 0
  PROVE  CSpec /\ []OneAtATime => Table!Spec /\ []CacheTrue
<1> DEFINE SInv == IInv /\ CohInv /\ Calm /\ tainted = {}
<1>1. CInit => SInv /\ Table!Init
  BY InitIInv, InitCohInv, InitCalm DEF CInit, Init, Table!Init
<1>2. SInv /\ OneAtATime /\ [CNext]_allVars => SInv'
  <2> SUFFICES ASSUME SInv, OneAtATime, [CNext]_allVars PROVE SInv'
    OBVIOUS
  <2>1. [Next]_vars
    BY StepIsNext
  <2>2. \A id \in Ids : ~Door(id)
    BY <2>1, NoDoorOpens DEF OneAtATime
  <2>3. tainted' = {}
    BY <2>2 DEF CNext, Mark, allVars
  <2>4. IInv'
    BY <2>1, NextIInv
  <2> QED
    BY <2>1, <2>3, <2>4, CalmStays, NextCohInv
<1>3. SInv /\ [CNext]_allVars => [Table!Next]_db
  <2> SUFFICES ASSUME SInv, [CNext]_allVars PROVE [Table!Next]_db
    OBVIOUS
  <2>1. [Promised!GuardedNext]_db
    BY StepIsNext, NextKeepsPromise
  <2> QED
    BY <2>1 DEF Promised!GuardedNext, Promised!Next, Promised!Create, Promised!Amend,
                Promised!Deactivate, Promised!NewIncident, Promised!Updated,
                Table!Next, Table!Create, Table!Amend, Table!Deactivate,
                Table!NewIncident, Table!Updated
<1>4. SInv => CacheTrue
  <2> SUFFICES ASSUME SInv, NEW id \in Ids, \A h \in Handlers : ~Works(h, id)
               PROVE  cache[id] \in {None, db[id]}
    BY DEF CacheTrue
  <2>1. ~Queued(id)
    BY DEF Calm, Queued
  <2> QED
    BY <2>1, StaleByCohInv DEF StaleOnlyThroughDoors
<1> HIDE DEF SInv
<1> QED
  BY <1>1, <1>2, <1>3, <1>4, PTL DEF CSpec, Table!Spec

-----------------------------------------------------------------------------
(***************************************************************************)
(* When the two statements that fail of the service as a whole do hold.    *)
(***************************************************************************)

(* What the retry worker may do to the copy of id. *)
RetryHarmless(id) ==
  worker # None /\ worker.id = id /\ cache[id] = db[id]
    => worker' = worker \/ cache'[id] = db[id]

LEMMA RetryStep ==
  ASSUME IInv, [Next]_vars, NEW id \in Ids, QueueOK(id)
  PROVE  RetryHarmless(id)
<1> SUFFICES ASSUME worker # None, worker.id = id, cache[id] = db[id], worker' # worker
             PROVE  cache'[id] = db[id]
  BY DEF RetryHarmless
<1>1. worker = db[id] /\ cache \in [Ids -> Incident \cup {None}]
  BY DEF QueueOK, Waiting, IInv, TypeOK
<1>2. CASE Worker
  <2>1. Set(worker) \/ UNCHANGED cacheVars
    BY <1>2 DEF Worker, WorkerTake, WorkerSet
  <2> QED
    BY <1>1, <2>1 DEF Set, cacheVars
<1>3. CASE StartUp \/ Crash \/ StoreChanges \/ UNCHANGED vars
  BY <1>3 DEF StartUp, Crash, StoreChanges, vars, retryVars, cacheVars
<1>4. ASSUME NEW h \in Handlers,
             \/ AcceptCreate(h) \/ AcceptGet(h) \/ AcceptUpdate(h) \/ AcceptDelete(h)
             \/ ClientLeaves(h) \/ HandlerStep(h)
      PROVE  worker' = worker
  BY <1>4 DEF AcceptCreate, AcceptGet, AcceptUpdate, AcceptDelete, Accept, ClientLeaves,
              HandlerStep, DBCreate, CacheGet, DBGet, CacheFill, DBUpdate, DBDelete,
              CacheWrite, BackoffElapsed, BackoffCancelled, GiveUp, Enqueue, retryVars
<1> QED
  BY <1>2, <1>3, <1>4 DEF Next

(***************************************************************************)
(* With retries configured, the retry worker overwrites a copy of the row  *)
(* by an older record only after one of the seven events.                  *)
(***************************************************************************)
THEOREM RetriesHarmOnlyTainted ==
  ASSUME MaxAttempts # 0
  PROVE  CSpec => RetryKeepsCacheFreshButTainted
<1>1. IInv /\ CohInv /\ [CNext]_allVars
        => [\A id \in Ids \ tainted :
              worker # None /\ worker.id = id /\ cache[id] = db[id]
                => worker' = worker \/ cache'[id] = db[id]]_allVars
  <2> SUFFICES ASSUME IInv, CohInv, [CNext]_allVars, NEW id \in Ids \ tainted
               PROVE  RetryHarmless(id)
    BY DEF RetryHarmless
  <2>1. [Next]_vars /\ QueueOK(id)
    BY StepIsNext DEF CohInv, Coherent
  <2> QED
    BY <2>1, RetryStep
<1> QED
  BY <1>1, Coherence, PTL DEF CSpec, RetryKeepsCacheFreshButTainted

(***************************************************************************)
(* With retries configured, a PUT brings back a soft-deleted incident only *)
(* after one of the seven events.                                          *)
(***************************************************************************)
THEOREM RevivedOnlyThroughDoors ==
  ASSUME MaxAttempts # 0
  PROVE  CSpec => [][\A id \in Ids \ tainted :
                       db[id] # None /\ ~db[id].active => ~db'[id].active]_allVars
<1>1. IInv /\ [Promised!GuardedNext]_db
        => [\A id \in Ids \ tainted :
              db[id] # None /\ ~db[id].active => ~db'[id].active]_allVars
  <2> SUFFICES ASSUME IInv, [Promised!GuardedNext]_db,
                      NEW id \in Ids \ tainted, db[id] # None, ~db[id].active
               PROVE  ~db'[id].active
    OBVIOUS
  <2>1. db \in [Ids -> Incident \cup {None}] /\ db[id] \in Incident
    BY DEF IInv, TypeOK
  <2>2. CASE \E j \in tainted : Promised!Overwrite(j)
    BY <2>1, <2>2 DEF Promised!Overwrite
  <2>3. ASSUME NEW j \in Ids, Promised!Create(j) PROVE ~db'[id].active
    BY <2>1, <2>3 DEF Promised!Create
  <2>4. ASSUME NEW j \in Ids, Promised!Amend(j) PROVE ~db'[id].active
    <3>1. PICK b \in Bodies : db' = [db EXCEPT ![j] = Promised!Updated(db[j], b)]
      BY <2>4 DEF Promised!Amend
    <3>2. CASE j = id
      BY <2>1, <3>1, <3>2 DEF Promised!Updated, Incident
    <3>3. CASE j # id
      BY <2>1, <3>1, <3>3
    <3> QED
      BY <3>2, <3>3
  <2>5. ASSUME NEW j \in Ids, Promised!Deactivate(j) PROVE ~db'[id].active
    <3>1. db' = [db EXCEPT ![j].active = FALSE]
      BY <2>5 DEF Promised!Deactivate
    <3>2. CASE j = id
      BY <2>1, <3>1, <3>2 DEF Incident
    <3>3. CASE j # id
      BY <2>1, <3>1, <3>3
    <3> QED
      BY <3>2, <3>3
  <2>6. CASE UNCHANGED db
    BY <2>6
  <2> QED
    BY <2>2, <2>3, <2>4, <2>5, <2>6 DEF Promised!GuardedNext, Promised!Next
<1> QED
  BY <1>1, Coherence, KeepsPromise, PTL
     DEF ImplementsTableButTainted, Promised!GuardedSpec

=============================================================================
