------------------------ MODULE LocationChecksProofs ------------------------
(***************************************************************************)
(* Proofs about LocationChecks for any number of checks, incidents,        *)
(* attempts and resends, and any combination of disturbances.              *)
(***************************************************************************)
EXTENDS LocationChecksInv, SequenceTheorems, FiniteSetTheorems, TLAPS

(* The variables of the worker and of the list, as a part of StageInv. *)
ListOK ==
  /\ queue \in Seq(Task)
  /\ \A k \in 1 .. Len(queue) : queue[k].zones = found[queue[k].check]

WorkerOK ==
  /\ sender \in {"pop", "again", "send", "backoff", "stopped"}
  /\ hand \in SUBSET Task
  /\ attempt \in 0 .. MaxAttempts
  /\ \A t \in hand : t.zones = found[t.check]
  /\ AttemptOK

HandlerTypes ==
  /\ inside \in [Checks -> SUBSET Zones]
  /\ pc \in [Checks -> {"new", "findNearby", "saveHistory", "enqueue", "done"}]
  /\ cancelled \in [Checks -> BOOLEAN]
  /\ found \in [Checks -> SUBSET Zones]
  /\ answer \in [Checks -> {"none", "error", "ok"}]
  /\ history \in [Checks -> {"none", "safe", "danger"}]

OtherTypes ==
  /\ up \in [Store -> BOOLEAN]
  /\ phase \in {"down", "serving", "draining"}
  /\ stopping \in BOOLEAN
  /\ receiving \in BOOLEAN
  /\ delivered \in [Checks -> Nat]

LEMMA Parts ==
  StageInv <=> /\ ListOK /\ WorkerOK /\ HandlerTypes /\ OtherTypes
               /\ \A c \in Checks : CheckOK(c)
BY DEF StageInv, TypeOK, QueueTypeOK, TasksOK,
       ListOK, WorkerOK, HandlerTypes, OtherTypes

LEMMA PartsNext ==
  ASSUME ListOK', WorkerOK', HandlerTypes', OtherTypes', \A c \in Checks : CheckOK(c)'
  PROVE  StageInv'
BY DEF StageInv, TypeOK, QueueTypeOK, TasksOK,
       ListOK, WorkerOK, HandlerTypes, OtherTypes

-----------------------------------------------------------------------------
(* The list. *)

LEMMA PushLeaves ==
  ASSUME ListOK, NEW t \in Task, NEW n \in Nat, Push(t, n),
         t.zones = found[t.check], UNCHANGED found
  PROVE  /\ ListOK'
         /\ \A c \in Checks : Waiting(c)' => Waiting(c) \/ c = t.check
<1> DEFINE s == Copies(t, n)
<1>1. s \in Seq(Task) /\ Len(s) = n /\ \A k \in 1 .. n : s[k] = t
  BY DEF Copies
<1>2. queue \in Seq(Task) /\ Len(queue) \in Nat /\ queue' = queue \o s
  BY DEF Push, ListOK
<1> HIDE DEF s
<1>3. /\ queue' \in Seq(Task)
      /\ Len(queue') = Len(queue) + n
      /\ \A k \in 1 .. Len(queue) + n :
            queue'[k] = IF k <= Len(queue) THEN queue[k] ELSE s[k - Len(queue)]
  BY <1>1, <1>2, ConcatProperties
<1>4. ASSUME NEW k \in 1 .. Len(queue')
      PROVE  queue'[k] = t \/ \E j \in 1 .. Len(queue) : queue'[k] = queue[j]
  <2>1. CASE k <= Len(queue)
    BY <1>2, <1>3, <2>1
  <2>2. CASE ~(k <= Len(queue))
    BY <1>1, <1>2, <1>3, <2>2
  <2> QED
    BY <2>1, <2>2
<1> QED
  BY <1>3, <1>4 DEF ListOK, Waiting

LEMMA PopLeaves ==
  ASSUME ListOK, queue # <<>>, queue' = WithoutNewest, UNCHANGED found
  PROVE  /\ ListOK'
         /\ \A c \in Checks : Waiting(c)' => Waiting(c)
         /\ Newest \in Task /\ Newest.zones = found[Newest.check]
         /\ Waiting(Newest.check)
<1>1. Len(queue) \in Nat \ {0} /\ Len(queue) \in 1 .. Len(queue)
  BY DEF ListOK
<1>2. \A k \in 1 .. Len(queue) - 1 : queue[k] \in Task
  BY <1>1 DEF ListOK
<1>3. /\ queue' \in Seq(Task)
      /\ \A k \in 1 .. Len(queue') : k \in 1 .. Len(queue) /\ queue'[k] = queue[k]
  <2>1. queue' = SubSeq(queue, 1, Len(queue) - 1)
    BY DEF WithoutNewest
  <2>2. /\ queue' \in Seq(Task)
        /\ Len(queue') = IF 1 <= Len(queue) - 1 THEN Len(queue) - 1 ELSE 0
        /\ \A k \in 1 .. Len(queue) - 1 : queue'[k] = queue[k]
    BY <1>1, <1>2, <2>1, SubSeqProperties
  <2> QED
    BY <1>1, <2>2
<1>4. ListOK'
  BY <1>3 DEF ListOK
<1>5. \A c \in Checks : Waiting(c)' => Waiting(c)
  BY <1>3 DEF Waiting
<1>6. /\ Newest \in Task /\ Newest.zones = found[Newest.check]
      /\ Waiting(Newest.check)
  BY <1>1 DEF ListOK, Newest, Waiting
<1> QED
  BY <1>4, <1>5, <1>6

-----------------------------------------------------------------------------
(* The worker: it only takes from the list, and says nothing new. *)

LoopOK == WorkerOK' /\ hand' = {}

LEMMA LoopLeaves ==
  ASSUME WorkerOK, Loop
  PROVE  LoopOK
BY AttemptsAssumption DEF WorkerOK, Loop, AttemptOK, LoopOK

(* A step that reports only what was reported before keeps every check right. *)
LEMMA ReportsStay ==
  ASSUME NEW c \in Checks, CheckOK(c), Reported(c)' => Reported(c),
         UNCHANGED <<pc, found, answer, history>>
  PROVE  CheckOK(c)'
BY DEF CheckOK

LEMMA PopKeeps ==
  ASSUME StageInv, Pop, UNCHANGED <<up, phase, handlerVars>>
  PROVE  StageInv'
<1>1. /\ ListOK /\ WorkerOK /\ HandlerTypes /\ OtherTypes
      /\ \A c \in Checks : CheckOK(c)
  BY Parts
<1>2. /\ queue # <<>> /\ queue' = WithoutNewest /\ Handle(Newest)
      /\ sender = "pop" /\ UNCHANGED <<stopping, receiving, delivered>>
  BY DEF Pop
<1>3. /\ ListOK' /\ \A c \in Checks : Waiting(c)' => Waiting(c)
      /\ Newest \in Task /\ Newest.zones = found[Newest.check]
      /\ Waiting(Newest.check)
  BY <1>1, <1>2, PopLeaves DEF handlerVars
<1>4. WorkerOK' /\ hand' \in SUBSET {Newest}
  <2>1. CASE MaxAttempts = 0
    BY <1>1, <1>2, <2>1, LoopLeaves DEF Handle, LoopOK
  <2>2. CASE MaxAttempts # 0
    BY <1>1, <1>2, <1>3, <2>2, AttemptsAssumption
       DEF Handle, WorkerOK, AttemptOK, handlerVars
  <2> QED
    BY <2>1, <2>2
<1>5. HandlerTypes' /\ OtherTypes'
  BY <1>1, <1>2 DEF HandlerTypes, OtherTypes, handlerVars
<1>6. \A c \in Checks : CheckOK(c)'
  BY <1>1, <1>2, <1>3, <1>4, ReportsStay DEF Reported, handlerVars
<1> QED
  BY <1>3, <1>4, <1>5, <1>6, PartsNext

(* A pop that fails or is cancelled, and what follows: the list shrinks or stays. *)
LEMMA PopLostKeeps ==
  ASSUME StageInv, PopFails \/ Continue \/ PopCancelled, UNCHANGED <<up, phase, handlerVars>>
  PROVE  StageInv'
<1>1. /\ ListOK /\ WorkerOK /\ HandlerTypes /\ OtherTypes
      /\ \A c \in Checks : CheckOK(c)
  BY Parts
<1>2. /\ UNCHANGED queue \/ (queue # <<>> /\ queue' = WithoutNewest)
      /\ UNCHANGED <<stopping, receiving, delivered>>
      /\ \/ Loop
         \/ sender = "pop" /\ sender' = "again" /\ UNCHANGED <<hand, attempt>>
  BY DEF PopFails, Continue, PopCancelled
<1>3. ListOK' /\ \A c \in Checks : Waiting(c)' => Waiting(c)
  <2>1. CASE UNCHANGED queue
    BY <1>1, <2>1 DEF ListOK, Waiting, handlerVars
  <2>2. CASE queue # <<>> /\ queue' = WithoutNewest
    BY <1>1, <2>2, PopLeaves DEF handlerVars
  <2> QED
    BY <1>2, <2>1, <2>2
<1>4. WorkerOK' /\ hand' = {}
  <2>1. CASE Loop
    BY <1>1, <2>1, LoopLeaves DEF LoopOK
  <2>2. CASE sender = "pop" /\ sender' = "again" /\ UNCHANGED <<hand, attempt>>
    BY <1>1, <2>2 DEF WorkerOK, AttemptOK, handlerVars
  <2> QED
    BY <1>2, <2>1, <2>2
<1>5. HandlerTypes' /\ OtherTypes'
  BY <1>1, <1>2 DEF HandlerTypes, OtherTypes, handlerVars
<1>6. \A c \in Checks : CheckOK(c)'
  BY <1>1, <1>2, <1>3, <1>4, ReportsStay DEF Reported, handlerVars
<1> QED
  BY <1>3, <1>4, <1>5, <1>6, PartsNext

LEMMA SendKeeps ==
  ASSUME StageInv, Send, UNCHANGED <<up, phase, handlerVars>>
  PROVE  StageInv'
<1>1. /\ ListOK /\ WorkerOK /\ HandlerTypes /\ OtherTypes
      /\ \A c \in Checks : CheckOK(c)
  BY Parts
<1>2. PICK t \in hand, o \in SendOutcomes :
        /\ Post(t, o)
        /\ IF o = "ok" \/ attempt = MaxAttempts - 1
           THEN Loop
           ELSE sender' = "backoff" /\ UNCHANGED <<hand, attempt>>
  BY DEF Send, LastAttempt
<1>3. sender = "send" /\ UNCHANGED <<queue, stopping, receiving>>
  BY DEF Send
<1>4. t \in Task /\ t.check \in Checks
  BY <1>1 DEF WorkerOK, Task
<1>5. WorkerOK' /\ hand' \in SUBSET hand
  <2>1. CASE Loop
    BY <1>1, <2>1, LoopLeaves DEF LoopOK
  <2>2. CASE /\ attempt # MaxAttempts - 1
             /\ sender' = "backoff" /\ UNCHANGED <<hand, attempt>>
    BY <1>1, <1>3, <2>2, AttemptsAssumption DEF WorkerOK, AttemptOK, handlerVars
  <2> QED
    BY <1>2, <2>1, <2>2
<1>6. /\ delivered' \in [Checks -> Nat]
      /\ \A c \in Checks : delivered'[c] > 0 => delivered[c] > 0 \/ c = t.check
  BY <1>1, <1>2, <1>4 DEF OtherTypes, Post
<1>7. ListOK' /\ HandlerTypes' /\ OtherTypes'
  BY <1>1, <1>3, <1>6 DEF ListOK, HandlerTypes, OtherTypes, handlerVars
<1>8. ASSUME NEW c \in Checks PROVE CheckOK(c)'
  <2>1. Waiting(c)' => Waiting(c)
    BY <1>3 DEF Waiting
  <2>2. Reported(c)' => Reported(c)
    BY <1>5, <1>6, <2>1 DEF Reported
  <2> QED
    BY <1>1, <2>2, ReportsStay DEF handlerVars
<1> QED
  BY <1>5, <1>7, <1>8, PartsNext

LEMMA BackoffKeeps ==
  ASSUME StageInv, BackoffElapsed \/ BackoffCancelled, UNCHANGED <<up, phase, handlerVars>>
  PROVE  StageInv'
<1>1. /\ ListOK /\ WorkerOK /\ HandlerTypes /\ OtherTypes
      /\ \A c \in Checks : CheckOK(c)
  BY Parts
<1>2. UNCHANGED <<queue, stopping, receiving, delivered>>
  BY DEF BackoffElapsed, BackoffCancelled
<1>3. WorkerOK' /\ hand' \in SUBSET hand
  <2>1. CASE BackoffElapsed
    BY <1>1, <2>1, AttemptsAssumption DEF BackoffElapsed, WorkerOK, AttemptOK, handlerVars
  <2>2. CASE BackoffCancelled
    BY <1>1, <2>2, LoopLeaves DEF BackoffCancelled, LoopOK
  <2> QED
    BY <2>1, <2>2
<1>4. ListOK' /\ HandlerTypes' /\ OtherTypes'
  BY <1>1, <1>2 DEF ListOK, HandlerTypes, OtherTypes, handlerVars
<1>5. ASSUME NEW c \in Checks PROVE CheckOK(c)'
  <2>1. Reported(c)' => Reported(c)
    BY <1>2, <1>3 DEF Reported, Waiting
  <2> QED
    BY <1>1, <2>1, ReportsStay DEF handlerVars
<1> QED
  BY <1>3, <1>4, <1>5, PartsNext

-----------------------------------------------------------------------------
(* The handlers. *)

(* A step of c that leaves the list, the worker and the receiver alone. *)
LEMMA HandlerPreserves ==
  ASSUME StageInv, NEW c \in Checks, UNCHANGED <<up, queueVars, phase>>,
         HandlerTypes', CheckOK(c)',
         found'[c] = found[c] \/ ~Reported(c),
         \A d \in Checks \ {c} :
           /\ pc'[d] = pc[d] /\ found'[d] = found[d]
           /\ answer'[d] = answer[d] /\ history'[d] = history[d]
  PROVE  StageInv'
<1>1. /\ ListOK /\ WorkerOK /\ HandlerTypes /\ OtherTypes
      /\ \A d \in Checks : CheckOK(d)
  BY Parts
<1>2. UNCHANGED <<queue, sender, hand, attempt, stopping, receiving, delivered>>
  BY DEF queueVars, workerVars
<1>3. \A d \in Checks : (Waiting(d)' <=> Waiting(d)) /\ (Reported(d)' <=> Reported(d))
  BY <1>2 DEF Waiting, Reported
<1>4. ListOK'
  <2>1. \A k \in 1 .. Len(queue) : queue[k].check \in Checks
    <3>1. \A k \in 1 .. Len(queue) : queue[k] \in Task
      BY <1>1 DEF ListOK
    <3> QED
      BY <3>1 DEF Task
  <2>2. \A k \in 1 .. Len(queue) : found'[queue[k].check] = found[queue[k].check]
    BY <2>1 DEF Reported, Waiting
  <2> QED
    BY <1>1, <1>2, <2>2 DEF ListOK
<1>5. WorkerOK'
  <2>1. \A t \in hand : t.check \in Checks
    BY <1>1 DEF WorkerOK, Task
  <2>2. \A t \in hand : found'[t.check] = found[t.check]
    BY <2>1 DEF Reported
  <2> QED
    BY <1>1, <1>2, <2>2 DEF WorkerOK, AttemptOK
<1>6. OtherTypes'
  BY <1>1, <1>2 DEF OtherTypes
<1>7. ASSUME NEW d \in Checks \ {c} PROVE CheckOK(d)'
  BY <1>1, <1>3 DEF CheckOK
<1> QED
  BY <1>4, <1>5, <1>6, <1>7, PartsNext

LEMMA AcceptKeeps ==
  ASSUME StageInv, NEW c \in Checks, Accept(c)
  PROVE  StageInv'
<1>1. HandlerTypes /\ CheckOK(c)
  BY Parts
<1>2. /\ pc[c] = "new" /\ Goto(c, "findNearby", FALSE)
      /\ UNCHANGED <<up, queueVars, phase, found, answer, history>>
      /\ inside' \in [Checks -> SUBSET Zones]
  BY <1>1 DEF Accept, HandlerTypes
<1>3. HandlerTypes'
  BY <1>1, <1>2 DEF HandlerTypes, Goto
<1>4. pc'[c] = "findNearby" /\ \A d \in Checks \ {c} : pc'[d] = pc[d]
  BY <1>1, <1>2 DEF HandlerTypes, Goto
<1>5. CheckOK(c)'
  <2>1. ~Reported(c) /\ ~Reported(c)'
    BY <1>1, <1>2 DEF CheckOK, Reported, Waiting, queueVars, workerVars
  <2> QED
    BY <1>1, <1>2, <1>4, <2>1 DEF CheckOK
<1> QED
  BY <1>2, <1>3, <1>4, <1>5, HandlerPreserves

LEMMA ClientLeavesKeeps ==
  ASSUME StageInv, NEW c \in Checks, ClientLeaves(c)
  PROVE  StageInv'
<1>1. HandlerTypes /\ CheckOK(c)
  BY Parts
<1>2. /\ cancelled' = [cancelled EXCEPT ![c] = TRUE]
      /\ UNCHANGED <<up, queueVars, phase, inside, pc, found, answer, history>>
  BY DEF ClientLeaves
<1>3. HandlerTypes'
  BY <1>1, <1>2 DEF HandlerTypes
<1>4. CheckOK(c)'
  BY <1>1, <1>2 DEF CheckOK, Reported, Waiting, queueVars, workerVars
<1> QED
  BY <1>2, <1>3, <1>4, HandlerPreserves

LEMMA FindNearbyKeeps ==
  ASSUME StageInv, NEW c \in Checks, FindNearby(c)
  PROVE  StageInv'
<1>1. HandlerTypes /\ CheckOK(c)
  BY Parts
<1>2. PICK gone \in BOOLEAN :
        \/ /\ \E zones \in SUBSET inside[c] : found' = [found EXCEPT ![c] = zones]
           /\ Goto(c, "saveHistory", gone)
           /\ UNCHANGED answer
        \/ Respond(c, "error", gone) /\ UNCHANGED found
  BY DEF FindNearby
<1>3. pc[c] = "findNearby" /\ UNCHANGED <<up, queueVars, phase, inside, history>>
  BY DEF FindNearby
<1>4. ~Reported(c) /\ ~Reported(c)'
  BY <1>1, <1>3 DEF CheckOK, Reported, Waiting, queueVars, workerVars
<1>5. CASE /\ \E zones \in SUBSET inside[c] : found' = [found EXCEPT ![c] = zones]
           /\ Goto(c, "saveHistory", gone)
           /\ UNCHANGED answer
  <2>1. HandlerTypes'
    BY <1>1, <1>3, <1>5 DEF HandlerTypes, Goto
  <2>2. /\ pc'[c] = "saveHistory"
        /\ \A d \in Checks \ {c} : pc'[d] = pc[d] /\ found'[d] = found[d]
    BY <1>1, <1>5 DEF HandlerTypes, Goto
  <2>3. CheckOK(c)'
    BY <1>1, <1>3, <1>4, <1>5, <2>2 DEF CheckOK
  <2> QED
    BY <1>3, <1>4, <1>5, <2>1, <2>2, <2>3, HandlerPreserves
<1>6. CASE Respond(c, "error", gone) /\ UNCHANGED found
  <2>1. HandlerTypes'
    BY <1>1, <1>3, <1>6 DEF HandlerTypes, Respond, Goto
  <2>2. /\ pc'[c] = "done" /\ answer'[c] = "error"
        /\ \A d \in Checks \ {c} : pc'[d] = pc[d] /\ answer'[d] = answer[d]
    BY <1>1, <1>6 DEF HandlerTypes, Respond, Goto
  <2>3. CheckOK(c)'
    BY <1>1, <1>3, <1>4, <1>6, <2>2 DEF CheckOK
  <2> QED
    BY <1>3, <1>4, <1>6, <2>1, <2>2, <2>3, HandlerPreserves
<1> QED
  BY <1>2, <1>5, <1>6

LEMMA SaveHistoryKeeps ==
  ASSUME StageInv, NEW c \in Checks, SaveHistory(c)
  PROVE  StageInv'
<1>1. HandlerTypes /\ CheckOK(c)
  BY Parts
<1>2. PICK gone \in BOOLEAN :
        /\ \/ history' = history
           \/ history' = [history EXCEPT ![c] = IF found[c] = {} THEN "safe" ELSE "danger"]
        /\ IF found[c] = {}
           THEN Respond(c, "ok", gone)
           ELSE Goto(c, "enqueue", gone) /\ UNCHANGED answer
  BY DEF SaveHistory, Alerts
<1>3. pc[c] = "saveHistory" /\ UNCHANGED <<up, queueVars, phase, inside, found>>
  BY DEF SaveHistory
<1>4. ~Reported(c) /\ ~Reported(c)'
  BY <1>1, <1>3 DEF CheckOK, Reported, Waiting, queueVars, workerVars
<1>5. /\ history' \in [Checks -> {"none", "safe", "danger"}]
      /\ history'[c] \in {"none", IF found[c] = {} THEN "safe" ELSE "danger"}
      /\ \A d \in Checks \ {c} : history'[d] = history[d]
  BY <1>1, <1>2, <1>3 DEF HandlerTypes, CheckOK
<1>6. CASE found[c] = {}
  <2>1. Respond(c, "ok", gone)
    BY <1>2, <1>6
  <2>2. HandlerTypes'
    BY <1>1, <1>3, <1>5, <2>1 DEF HandlerTypes, Respond, Goto
  <2>3. /\ pc'[c] = "done" /\ answer'[c] = "ok"
        /\ \A d \in Checks \ {c} : pc'[d] = pc[d] /\ answer'[d] = answer[d]
    BY <1>1, <2>1 DEF HandlerTypes, Respond, Goto
  <2>4. CheckOK(c)'
    BY <1>1, <1>3, <1>4, <1>6, <2>3 DEF CheckOK
  <2> QED
    BY <1>3, <1>5, <2>2, <2>3, <2>4, HandlerPreserves
<1>7. CASE found[c] # {}
  <2>1. Goto(c, "enqueue", gone) /\ UNCHANGED answer
    BY <1>2, <1>7
  <2>2. HandlerTypes'
    BY <1>1, <1>3, <1>5, <2>1 DEF HandlerTypes, Goto
  <2>3. /\ pc'[c] = "enqueue" /\ answer' = answer
        /\ \A d \in Checks \ {c} : pc'[d] = pc[d]
    BY <1>1, <2>1 DEF HandlerTypes, Goto
  <2>4. CheckOK(c)'
    BY <1>1, <1>3, <1>4, <1>5, <1>7, <2>3 DEF CheckOK
  <2> QED
    BY <1>3, <1>5, <2>2, <2>3, <2>4, HandlerPreserves
<1> QED
  BY <1>6, <1>7

LEMMA EnqueueKeeps ==
  ASSUME StageInv, NEW c \in Checks, Enqueue(c)
  PROVE  StageInv'
<1> DEFINE t == [check |-> c, zones |-> found[c]]
<1>1. /\ ListOK /\ WorkerOK /\ HandlerTypes /\ OtherTypes
      /\ \A d \in Checks : CheckOK(d)
  BY Parts
<1>2. PICK n \in Nat : Push(t, n)
  BY AttemptsAssumption DEF Enqueue, EnqueueLocationCheck
<1>3. PICK gone \in BOOLEAN : Respond(c, "ok", gone)
  BY DEF Enqueue
<1>4. /\ pc[c] = "enqueue"
      /\ UNCHANGED <<up, workerVars, stopping, receiving, delivered, phase,
                     inside, found, history>>
  BY DEF Enqueue
<1>5. t \in Task /\ t.check = c /\ t.zones = found[t.check]
  BY <1>1 DEF HandlerTypes, Task
<1> HIDE DEF t
<1>6. ListOK' /\ \A d \in Checks : Waiting(d)' => Waiting(d) \/ d = c
  BY <1>1, <1>2, <1>4, <1>5, PushLeaves
<1>7. WorkerOK' /\ OtherTypes'
  BY <1>1, <1>4 DEF WorkerOK, AttemptOK, OtherTypes, workerVars
<1>8. HandlerTypes'
  BY <1>1, <1>3, <1>4 DEF HandlerTypes, Respond, Goto
<1>9. /\ pc'[c] = "done" /\ answer'[c] = "ok"
      /\ \A d \in Checks \ {c} : pc'[d] = pc[d] /\ answer'[d] = answer[d]
  BY <1>1, <1>3 DEF HandlerTypes, Respond, Goto
<1>10. \A d \in Checks \ {c} : Reported(d)' => Reported(d)
  BY <1>4, <1>6 DEF Reported, workerVars
<1>11. ASSUME NEW d \in Checks PROVE CheckOK(d)'
  <2>1. CASE d = c
    BY <1>1, <1>4, <1>9, <2>1 DEF CheckOK
  <2>2. CASE d # c
    BY <1>1, <1>4, <1>9, <1>10, <2>2 DEF CheckOK
  <2> QED
    BY <2>1, <2>2
<1> QED
  BY <1>6, <1>7, <1>8, <1>11, PartsNext

-----------------------------------------------------------------------------
(* The process and its environment. *)

(* What leaves the handlers, the list, the worker's hand and the receiver alone. *)
LEMMA SurroundingsKeep ==
  ASSUME StageInv, UNCHANGED <<queue, hand, attempt, delivered, handlerVars>>,
         \/ UNCHANGED sender
         \/ sender' \in {"pop", "stopped"} /\ attempt = 0 /\ hand = {},
         up' \in [Store -> BOOLEAN], phase' \in {"down", "serving", "draining"},
         stopping' \in BOOLEAN, receiving' \in BOOLEAN
  PROVE  StageInv'
<1>1. /\ ListOK /\ WorkerOK /\ HandlerTypes /\ OtherTypes
      /\ \A c \in Checks : CheckOK(c)
  BY Parts
<1>2. ListOK' /\ HandlerTypes' /\ OtherTypes'
  BY <1>1 DEF ListOK, HandlerTypes, OtherTypes, handlerVars
<1>3. WorkerOK'
  BY <1>1 DEF WorkerOK, AttemptOK, handlerVars
<1>4. \A c \in Checks : CheckOK(c)'
  BY <1>1 DEF CheckOK, Reported, Waiting, handlerVars
<1> QED
  BY <1>2, <1>3, <1>4, PartsNext

LEMMA ProcessKeeps ==
  ASSUME StageInv,
         \/ BeginStop \/ StopQueue \/ Exit \/ StoreChanges
         \/ ReceiverChanges /\ UNCHANGED <<up, phase, handlerVars>>
         \/ UNCHANGED vars
  PROVE  StageInv'
<1>1. OtherTypes
  BY Parts
<1>2. /\ UNCHANGED <<queue, sender, hand, attempt, delivered, handlerVars>>
      /\ up' \in [Store -> BOOLEAN] /\ phase' \in {"down", "serving", "draining"}
      /\ stopping' \in BOOLEAN /\ receiving' \in BOOLEAN
  BY <1>1 DEF OtherTypes, BeginStop, StopQueue, Exit, StoreChanges, Degrade, Recover,
              ReceiverChanges, vars, queueVars, workerVars
<1> QED
  BY <1>2, SurroundingsKeep

LEMMA StartUpKeeps ==
  ASSUME StageInv, StartUp, sender = "stopped"
  PROVE  StageInv'
<1>1. OtherTypes /\ attempt = 0 /\ hand = {}
  BY Parts DEF WorkerOK, AttemptOK
<1> QED
  BY <1>1, SurroundingsKeep DEF StartUp, OtherTypes

LEMMA CrashKeeps ==
  ASSUME StageInv, Crash
  PROVE  StageInv'
<1>1. /\ ListOK /\ WorkerOK /\ HandlerTypes /\ OtherTypes
      /\ \A c \in Checks : CheckOK(c)
  BY Parts
<1>2. /\ phase' = "down" /\ sender' = "stopped" /\ hand' = {} /\ attempt' = 0
      /\ pc' = [c \in Checks |-> IF Running(c) THEN "done" ELSE pc[c]]
      /\ UNCHANGED <<up, queue, stopping, receiving, delivered, inside, cancelled,
                     found, answer, history>>
  BY DEF Crash
<1>3. ListOK' /\ OtherTypes'
  BY <1>1, <1>2 DEF ListOK, OtherTypes
<1>4. WorkerOK'
  BY <1>2, AttemptsAssumption DEF WorkerOK, AttemptOK
<1>5. HandlerTypes'
  BY <1>1, <1>2 DEF HandlerTypes
<1>6. ASSUME NEW c \in Checks PROVE CheckOK(c)'
  <2>1. Reported(c)' => Reported(c)
    BY <1>2 DEF Reported, Waiting
  <2>2. pc'[c] = "done" \/ pc'[c] = pc[c]
    BY <1>2
  <2>3. pc[c] = "done" => pc'[c] = "done"
    BY <1>2 DEF Running
  <2> QED
    BY <1>1, <1>2, <2>1, <2>2, <2>3 DEF CheckOK
<1> QED
  BY <1>3, <1>4, <1>5, <1>6, PartsNext

-----------------------------------------------------------------------------
(* The invariant and what follows from it. *)

LEMMA InitCheckInv == Init => CheckInv
<1> SUFFICES ASSUME Init PROVE CheckInv
  OBVIOUS
<1>1. ListOK /\ HandlerTypes /\ OtherTypes
  <2>1. ListOK
    BY DEF Init, QueueInit, ListOK
  <2>2. HandlerTypes
    BY DEF Init, HandlerTypes
  <2>3. OtherTypes
    BY DEF Init, QueueInit, StoresInit, OtherTypes
  <2> QED
    BY <2>1, <2>2, <2>3
<1>2. WorkerOK
  BY AttemptsAssumption DEF Init, QueueInit, WorkerOK, AttemptOK
<1>3. \A c \in Checks : CheckOK(c)
  BY DEF Init, QueueInit, CheckOK, Reported, Waiting
<1> QED
  BY <1>1, <1>2, <1>3, Parts DEF Init, QueueInit, CheckInv, DownStops

LEMMA NextStageInv ==
  ASSUME CheckInv, [Next]_vars
  PROVE  StageInv'
<1>1. CASE \E c \in Checks : Accept(c) \/ ClientLeaves(c) \/ HandlerStep(c)
  BY <1>1, AcceptKeeps, ClientLeavesKeeps, FindNearbyKeeps, SaveHistoryKeeps, EnqueueKeeps
     DEF CheckInv, HandlerStep
<1>2. CASE WorkerStep /\ UNCHANGED <<up, phase, handlerVars>>
  BY <1>2, PopKeeps, PopLostKeeps, SendKeeps, BackoffKeeps DEF CheckInv, WorkerStep
<1>3. CASE StartUp
  BY <1>3, StartUpKeeps DEF CheckInv, DownStops, StartUp
<1>4. CASE Crash
  BY <1>4, CrashKeeps DEF CheckInv
<1>5. CASE \/ BeginStop \/ StopQueue \/ Exit \/ StoreChanges
           \/ ReceiverChanges /\ UNCHANGED <<up, phase, handlerVars>>
           \/ UNCHANGED vars
  BY <1>5, ProcessKeeps DEF CheckInv
<1> QED
  BY <1>1, <1>2, <1>3, <1>4, <1>5 DEF Next

LEMMA NextDownStops ==
  ASSUME DownStops, [Next]_vars
  PROVE  DownStops'
<1>1. CASE \E c \in Checks : Accept(c) \/ ClientLeaves(c) \/ HandlerStep(c)
  BY <1>1 DEF DownStops, Accept, ClientLeaves, HandlerStep, FindNearby, SaveHistory,
              Enqueue, queueVars, workerVars
<1>2. CASE WorkerStep /\ UNCHANGED <<up, phase, handlerVars>>
  <2>1. sender # "stopped"
    BY <1>2 DEF WorkerStep, Pop, PopFails, Continue, PopCancelled, Send, BackoffElapsed,
                BackoffCancelled
  <2> QED
    BY <1>2, <2>1 DEF DownStops
<1>3. CASE StartUp \/ BeginStop \/ StopQueue \/ Exit \/ Crash \/ StoreChanges
  BY <1>3 DEF DownStops, StartUp, BeginStop, StopQueue, Exit, Crash, StoreChanges,
              queueVars, workerVars
<1>4. CASE ReceiverChanges /\ UNCHANGED <<up, phase, handlerVars>>
  BY <1>4 DEF DownStops, ReceiverChanges, workerVars
<1>5. CASE UNCHANGED vars
  BY <1>5 DEF DownStops, vars, queueVars, workerVars
<1> QED
  BY <1>1, <1>2, <1>3, <1>4, <1>5 DEF Next

(* The inductive invariant holds in every reachable state. *)
THEOREM Invariance == Spec => []CheckInv
<1>1. CheckInv /\ [Next]_vars => CheckInv'
  BY NextStageInv, NextDownStops DEF CheckInv
<1> QED
  BY <1>1, InitCheckInv, PTL DEF Spec

(* Every variable of the pipeline keeps its type, whatever fails. *)
THEOREM TypeCorrect == Spec => []TypeOK
<1>1. CheckInv => TypeOK
  BY DEF CheckInv, StageInv
<1> QED
  BY <1>1, Invariance, PTL

(***************************************************************************)
(* Whatever fails, is repeated or is cut off, the receiver never hears of  *)
(* a check that was not answered as dangerous or stands in the history as  *)
(* a safe one, and never of other incidents than FindNearby returned.      *)
(***************************************************************************)
THEOREM ReportsAreTrue == Spec => []ReportsMatchChecks
<1>1. CheckInv => ReportsMatchChecks
  BY DEF CheckInv, StageInv, CheckOK, TasksOK, ReportsMatchChecks
<1> QED
  BY <1>1, Invariance, PTL

-----------------------------------------------------------------------------
(* Counting the list and the hand. *)

LEMMA CountIsNat ==
  ASSUME NEW q \in Seq(Task), NEW c
  PROVE  /\ Cardinality({k \in 1 .. Len(q) : q[k].check = c}) \in Nat
         /\ IsFiniteSet({k \in 1 .. Len(q) : q[k].check = c})
<1>1. IsFiniteSet(1 .. Len(q))
  BY FS_Interval
<1>2. {k \in 1 .. Len(q) : q[k].check = c} \in SUBSET (1 .. Len(q))
  OBVIOUS
<1>3. IsFiniteSet({k \in 1 .. Len(q) : q[k].check = c})
  BY <1>1, <1>2, FS_Subset
<1> QED
  BY <1>3, FS_CardinalityType

LEMMA InListPopped ==
  ASSUME queue \in Seq(Task), queue # <<>>, queue' = WithoutNewest, NEW c
  PROVE  /\ InList(c)' = IF Newest.check = c THEN InList(c) - 1 ELSE InList(c)
         /\ InList(c)' \in Nat
<1> DEFINE S == {k \in 1 .. Len(queue) : queue[k].check = c}
           T == {k \in 1 .. Len(queue') : queue'[k].check = c}
<1>1. Len(queue) \in Nat \ {0} /\ Len(queue) \in 1 .. Len(queue)
  OBVIOUS
<1>2. \A k \in 1 .. Len(queue) - 1 : queue[k] \in Task
  BY <1>1
<1>3. /\ queue' \in Seq(Task) /\ Len(queue') = Len(queue) - 1
      /\ \A k \in 1 .. Len(queue) - 1 : queue'[k] = queue[k]
  <2>1. queue' = SubSeq(queue, 1, Len(queue) - 1)
    BY DEF WithoutNewest
  <2>2. /\ queue' \in Seq(Task)
        /\ Len(queue') = IF 1 <= Len(queue) - 1 THEN Len(queue) - 1 ELSE 0
        /\ \A k \in 1 .. Len(queue) - 1 : queue'[k] = queue[k]
    BY <1>1, <1>2, <2>1, SubSeqProperties
  <2>3. \A n \in Nat \ {0} : (IF 1 <= n - 1 THEN n - 1 ELSE 0) = n - 1
    OBVIOUS
  <2>4. Len(queue') = Len(queue) - 1
    BY <1>1, <2>2, <2>3
  <2> QED
    BY <2>2, <2>4
<1>4. T = S \ {Len(queue)}
  BY <1>1, <1>3
<1>5. Newest.check = c <=> Len(queue) \in S
  BY <1>1 DEF Newest
<1>6. IsFiniteSet(S)
  BY CountIsNat
<1>8. InList(c) = Cardinality(S) /\ InList(c)' = Cardinality(T)
  BY DEF InList
<1> HIDE DEF S, T
<1>7. /\ IsFiniteSet(T)
      /\ Cardinality(T) = IF Len(queue) \in S THEN Cardinality(S) - 1 ELSE Cardinality(S)
  BY <1>4, <1>6, FS_RemoveElement
<1>9. Cardinality(T) \in Nat
  BY <1>7, FS_CardinalityType
<1> QED
  BY <1>5, <1>7, <1>8, <1>9

LEMMA InListPushed ==
  ASSUME queue \in Seq(Task), NEW t \in Task, NEW n \in Nat, Push(t, n), NEW c
  PROVE  InList(c)' = IF t.check = c THEN InList(c) + n ELSE InList(c)
<1> DEFINE S == {k \in 1 .. Len(queue) : queue[k].check = c}
           T == {k \in 1 .. Len(queue') : queue'[k].check = c}
           N == Len(queue) + 1 .. Len(queue) + n
           s == Copies(t, n)
<1>1. s \in Seq(Task) /\ Len(s) = n /\ \A k \in 1 .. n : s[k] = t
  BY DEF Copies
<1>2. queue' = queue \o s /\ Len(queue) \in Nat
  BY DEF Push
<1> HIDE DEF s
<1>3. /\ Len(queue') = Len(queue) + n
      /\ \A k \in 1 .. Len(queue) + n :
            queue'[k] = IF k <= Len(queue) THEN queue[k] ELSE s[k - Len(queue)]
  BY <1>1, <1>2, ConcatProperties
<1>4. \A k \in 1 .. Len(queue) : k \in 1 .. Len(queue') /\ queue'[k] = queue[k]
  BY <1>2, <1>3
<1>5. \A k \in N : k \in 1 .. Len(queue') /\ queue'[k] = t
  <2> TAKE k \in N
  <2>1. k \in 1 .. Len(queue) + n /\ ~(k <= Len(queue)) /\ k - Len(queue) \in 1 .. n
    BY <1>2
  <2> QED
    BY <1>1, <1>3, <2>1
<1>6. \A k \in 1 .. Len(queue') : k \in 1 .. Len(queue) \/ k \in N
  BY <1>2, <1>3
<1>7. IsFiniteSet(S) /\ Cardinality(S) \in Nat
  BY CountIsNat
<1>8. InList(c) = Cardinality(S) /\ InList(c)' = Cardinality(T)
  BY DEF InList
<1>9. CASE t.check = c
  <2>1. T = S \cup N
    BY <1>4, <1>5, <1>6, <1>9
  <2>2. S \cap N = {}
    BY <1>2
  <2>3. IsFiniteSet(N) /\ Cardinality(N) = n
    <3>1. Len(queue) + 1 \in Int /\ Len(queue) + n \in Int
      BY <1>2
    <3>2. /\ IsFiniteSet(N)
          /\ Cardinality(N) = IF Len(queue) + 1 > Len(queue) + n THEN 0
                               ELSE (Len(queue) + n) - (Len(queue) + 1) + 1
      BY <3>1, FS_Interval
    <3> QED
      BY <1>2, <3>2
  <2> HIDE DEF S, T, N
  <2>4. Cardinality(T) = Cardinality(S) + n
    <3>1. Cardinality(S \cup N) = Cardinality(S) + Cardinality(N) - Cardinality(S \cap N)
      BY <1>7, <2>3, FS_Union
    <3>2. Cardinality(S \cap N) = 0
      BY <2>2, FS_EmptySet
    <3>3. Cardinality(T) = Cardinality(S \cup N)
      BY <2>1
    <3> QED
      BY <1>7, <2>3, <3>1, <3>2, <3>3
  <2> QED
    BY <1>8, <1>9, <2>4
<1>10. CASE t.check # c
  <2>1. T = S
    BY <1>4, <1>5, <1>6, <1>10
  <2> QED
    BY <1>8, <1>10, <2>1
<1> QED
  BY <1>9, <1>10

LEMMA InHandCount ==
  ASSUME OneInHand, NEW c
  PROVE  /\ InHand(c) \in {0, 1}
         /\ InHand(c) = 1 <=> \E t \in hand : t.check = c
<1> DEFINE S == {t \in hand : t.check = c}
<1>1. InHand(c) = Cardinality(S)
  BY DEF InHand
<1>2. CASE S = {}
  BY <1>1, <1>2, FS_EmptySet
<1>3. CASE S # {}
  <2>1. PICK t \in S : TRUE
    BY <1>3
  <2>2. S = {t}
    BY <2>1 DEF OneInHand
  <2>3. Cardinality(S) = 1
    BY <2>2, FS_Singleton
  <2> QED
    BY <1>1, <2>1, <2>3
<1> QED
  BY <1>2, <1>3

LEMMA HandEmpty ==
  ASSUME hand = {}, NEW c
  PROVE  InHand(c) = 0
BY FS_EmptySet DEF InHand

LEMMA HandEmptied ==
  ASSUME hand' = {}, NEW c
  PROVE  InHand(c)' = 0
<1>1. {t \in hand' : t.check = c} = {}
  OBVIOUS
<1> QED
  BY <1>1, FS_EmptySet DEF InHand

LEMMA HandFilled ==
  ASSUME NEW t, hand' = {t}, NEW c
  PROVE  InHand(c)' = IF t.check = c THEN 1 ELSE 0
<1>1. CASE t.check = c
  <2>1. {s \in hand' : s.check = c} = {t}
    BY <1>1
  <2> QED
    BY <1>1, <2>1, FS_Singleton DEF InHand
<1>2. CASE t.check # c
  <2>1. {s \in hand' : s.check = c} = {}
    BY <1>2
  <2> QED
    BY <1>2, <2>1, FS_EmptySet DEF InHand
<1> QED
  BY <1>1, <1>2

LEMMA CountsStay ==
  ASSUME UNCHANGED <<queue, hand>>, NEW c
  PROVE  InList(c)' = InList(c) /\ InHand(c)' = InHand(c)
BY DEF InList, InHand

LEMMA WorkerFacts ==
  ASSUME CheckInv
  PROVE  /\ sender \in {"pop", "again", "stopped"} => attempt = 0 /\ hand = {}
         /\ sender = "send" => attempt < MaxAttempts
         /\ sender = "backoff" => attempt + 1 < MaxAttempts
         /\ attempt \in Nat /\ hand \subseteq Task /\ queue \in Seq(Task)
         /\ delivered \in [Checks -> Nat]
BY Parts DEF CheckInv, WorkerOK, AttemptOK, ListOK, OtherTypes

LEMMA Distribute ==
  ASSUME NEW m \in Int, NEW a \in Int, NEW b \in Int
  PROVE  m * (a + b) = m * a + m * b
OBVIOUS

(* Popping moves a task from the list into the hand; attempts are for it to come. *)
LEMMA TakeArith ==
  ASSUME NEW m \in Nat, NEW l \in Nat
  PROVE  m * (l - 1) + m = m * l
OBVIOUS

LEMMA Fewer ==
  ASSUME NEW m \in Nat, NEW k \in Nat, NEW l \in Nat, k <= l
  PROVE  m * k <= m * l
<1>1. m * l = m * k + m * (l - k)
  OBVIOUS
<1>2. l - k \in Nat
  OBVIOUS
<1>3. m * (l - k) >= 0
  BY <1>2
<1> QED
  BY <1>1, <1>2, <1>3

LEMMA Numbers ==
  ASSUME CheckInv, OneInHand, NEW c \in Checks
  PROVE  /\ InList(c) \in Nat /\ InHand(c) \in {0, 1} /\ Used \in Nat
         /\ InHand(c) = 1 => Used <= MaxAttempts
         /\ Credit(c) \in Nat /\ delivered[c] \in Nat
         /\ attempt \in Nat /\ hand \subseteq Task /\ queue \in Seq(Task)
<1>1. ListOK /\ WorkerOK /\ OtherTypes
  BY Parts DEF CheckInv
<1>2. InList(c) \in Nat
  BY <1>1, CountIsNat DEF InList, ListOK
<1>3. /\ InHand(c) \in {0, 1}
      /\ InHand(c) = 1 <=> \E t \in hand : t.check = c
  BY InHandCount
<1>4. attempt \in Nat /\ Used \in Nat
  BY <1>1 DEF WorkerOK, Used
<1>5. InHand(c) = 1 => Used <= MaxAttempts
  <2>1. sender \in {"pop", "again", "send", "backoff", "stopped"}
    BY <1>1 DEF WorkerOK
  <2> QED
    BY <1>3, <2>1, WorkerFacts, AttemptsAssumption DEF Used
<1>6. Credit(c) \in Nat
  <2>1. MaxAttempts * 0 <= MaxAttempts * InList(c)
    BY <1>2, AttemptsAssumption, Fewer
  <2>2. MaxAttempts * InList(c) \in Nat
    BY <1>2, <2>1, AttemptsAssumption
  <2>3. (MaxAttempts - Used) * InHand(c) \in Nat
    BY <1>3, <1>4, <1>5, AttemptsAssumption
  <2> QED
    BY <2>2, <2>3 DEF Credit
<1> QED
  BY <1>1, <1>2, <1>3, <1>4, <1>5, <1>6 DEF WorkerOK, ListOK, OtherTypes

-----------------------------------------------------------------------------
(* The promise about alerts: what one step may do to the credit of a check. *)

CreditOK == \A c \in Checks : Credit(c) \in Nat

LEMMA CreditStaysNat ==
  /\ CheckInv /\ OneInHand => CreditOK
  /\ CheckInv' /\ OneInHand' => CreditOK'
<1>1. CheckInv /\ OneInHand => CreditOK
  BY Numbers DEF CreditOK
<1> QED
  BY <1>1, PTL

(* A step that takes from the credit of x at most, with a POST or in vain. *)
SpendsOn(x) ==
  /\ \A c \in Checks \ {x} : Credit(c)' = Credit(c) /\ delivered'[c] = delivered[c]
  /\ Credit(x)' # Credit(x) => Credit(x)' < Credit(x)
  /\ delivered'[x] # delivered[x]
       => delivered'[x] = delivered[x] + 1 /\ Credit(x)' < Credit(x)

LEMMA SpendMaps ==
  ASSUME CheckInv, OneInHand, CheckInv', OneInHand', NEW x \in Checks, Reported(x),
         SpendsOn(x), UNCHANGED <<found, answer, history>>
  PROVE  [Promise!Next]_(Promise!promiseVars)
<1> DEFINE credit == [c \in Checks |-> Credit(c)]
           verdict == [c \in Checks |-> Verdict(c)]
<1>1. credit \in [Checks -> Nat] /\ credit' \in [Checks -> Nat]
  BY CreditStaysNat DEF CreditOK
<1>2. delivered \in [Checks -> Nat] /\ delivered' \in [Checks -> Nat]
  BY DEF CheckInv, StageInv, TypeOK, QueueTypeOK
<1>3. verdict' = verdict
  BY DEF Verdict
<1>4. verdict[x] = "danger" /\ history[x] # "safe"
  BY DEF CheckInv, StageInv, CheckOK, Verdict
<1>5. \A c \in Checks : credit[c] = Credit(c) /\ credit'[c] = Credit(c)'
  OBVIOUS
<1> HIDE DEF credit, verdict
<1>6. credit' = [credit EXCEPT ![x] = credit'[x]]
  BY <1>1, <1>5 DEF SpendsOn
<1>7. CASE Credit(x)' = Credit(x)
  <2>1. credit' = credit /\ delivered' = delivered
    BY <1>1, <1>2, <1>5, <1>7 DEF SpendsOn
  <2> QED
    BY <1>3, <2>1 DEF Promise!promiseVars, credit, verdict
<1>8. CASE Credit(x)' # Credit(x)
  <2>1. credit'[x] < credit[x] /\ credit'[x] \in 0 .. credit[x]
    BY <1>1, <1>5, <1>8 DEF SpendsOn
  <2>2. PICK n \in {0, 1} : delivered' = [delivered EXCEPT ![x] = @ + n]
    BY <1>2 DEF SpendsOn
  <2>3. Promise!Spend(x)
    BY <1>3, <1>4, <1>6, <2>1, <2>2 DEF Promise!Spend, credit, verdict
  <2> QED
    BY <2>3 DEF Promise!Next
<1> QED
  BY <1>7, <1>8

(* A step that leaves every credit alone, ... *)
Quiet ==
  /\ UNCHANGED delivered
  /\ \A c \in Checks : Credit(c)' = Credit(c)

(* ... or takes from that of one check whose alert is on its way. *)
Frugal == Quiet \/ \E x \in Checks : Reported(x) /\ SpendsOn(x)

LEMMA StillQuiet ==
  ASSUME UNCHANGED <<queue, hand, delivered>>, Used' = Used
  PROVE  Quiet
BY CountsStay DEF Quiet, Credit

LEMMA FrugalMaps ==
  ASSUME CheckInv, OneInHand, CheckInv', OneInHand', Frugal,
         UNCHANGED <<found, answer, history>>
  PROVE  [Promise!Next]_(Promise!promiseVars)
<1>1. CASE Quiet
  <2>1. [c \in Checks |-> Credit(c)]' = [c \in Checks |-> Credit(c)]
    BY <1>1 DEF Quiet
  <2>2. [c \in Checks |-> Verdict(c)]' = [c \in Checks |-> Verdict(c)]
    BY DEF Verdict
  <2> QED
    BY <1>1, <2>1, <2>2 DEF Promise!promiseVars, Quiet
<1> QED
  BY <1>1, SpendMaps DEF Frugal

(* BRPOP moves a task from the list to the hand, with its attempts to come. *)
LEMMA PopIsFrugal ==
  ASSUME CheckInv, OneInHand, Pop
  PROVE  OneInHand' /\ Frugal
<1>1. /\ sender = "pop" /\ queue # <<>> /\ queue' = WithoutNewest /\ Handle(Newest)
      /\ UNCHANGED delivered
  BY DEF Pop
<1>2. attempt = 0 /\ hand = {} /\ queue \in Seq(Task)
  BY <1>1, WorkerFacts
<1>3. \A c \in Checks : /\ InList(c)' = IF Newest.check = c THEN InList(c) - 1 ELSE InList(c)
                        /\ InList(c)' \in Nat /\ InList(c) \in Nat /\ InHand(c) = 0
  BY <1>1, <1>2, InListPopped, HandEmpty, Numbers
<1>4. Used = 0
  BY <1>1, <1>2 DEF Used
<1>5. \/ MaxAttempts = 0 /\ Loop
      \/ /\ MaxAttempts # 0
         /\ sender' = "send" /\ hand' = {Newest} /\ attempt' = 0
  BY <1>1, <1>2 DEF Handle
<1>6. Used' = 0 /\ OneInHand'
  BY <1>5 DEF Used, Loop, OneInHand
<1>7. ASSUME NEW c \in Checks PROVE Credit(c)' = Credit(c)
  <2>1. Credit(c) = MaxAttempts * InList(c)
    BY <1>3, <1>4, AttemptsAssumption DEF Credit
  <2>2. CASE MaxAttempts = 0 /\ Loop
    <3>1. InHand(c)' = 0
      BY <2>2, HandEmptied DEF Loop
    <3>2. Credit(c)' = 0
      BY <1>3, <1>6, <2>2, <3>1 DEF Credit
    <3> QED
      BY <1>3, <2>1, <2>2, <3>2
  <2>3. CASE MaxAttempts # 0 /\ hand' = {Newest}
    <3>1. InHand(c)' = IF Newest.check = c THEN 1 ELSE 0
      BY <2>3, HandFilled
    <3>2. CASE Newest.check = c
      <4>1. InHand(c)' = 1 /\ InList(c)' = InList(c) - 1
        BY <1>3, <3>1, <3>2
      <4>2. Credit(c)' = MaxAttempts * (InList(c) - 1) + MaxAttempts
        BY <1>6, <4>1, AttemptsAssumption DEF Credit
      <4> QED
        BY <1>3, <2>1, <4>2, AttemptsAssumption, TakeArith
    <3>3. CASE Newest.check # c
      <4>1. InHand(c)' = 0 /\ InList(c)' = InList(c)
        BY <1>3, <3>1, <3>3
      <4>2. Credit(c)' = MaxAttempts * InList(c)
        BY <1>3, <1>6, <4>1, AttemptsAssumption DEF Credit
      <4> QED
        BY <2>1, <4>2
    <3> QED
      BY <3>2, <3>3
  <2> QED
    BY <1>5, <2>2, <2>3
<1> QED
  BY <1>1, <1>6, <1>7 DEF Frugal, Quiet

(* A BRPOP that fails or is cancelled may take the newest task with it. *)
LEMMA LostPopIsFrugal ==
  ASSUME CheckInv, OneInHand, PopFails \/ Continue \/ PopCancelled
  PROVE  OneInHand' /\ Frugal
<1>1. /\ sender \in {"pop", "again"} /\ UNCHANGED delivered
      /\ UNCHANGED queue \/ (queue # <<>> /\ queue' = WithoutNewest)
      /\ Loop \/ (sender' = "again" /\ UNCHANGED <<hand, attempt>>)
  BY DEF PopFails, Continue, PopCancelled
<1>2. attempt = 0 /\ hand = {} /\ hand' = {} /\ queue \in Seq(Task)
  BY <1>1, WorkerFacts DEF Loop
<1>3. Used = 0 /\ Used' = 0 /\ OneInHand'
  <2>1. attempt' = 0 /\ sender' \in {"pop", "stopped", "again"}
    BY <1>1, <1>2 DEF Loop
  <2> QED
    BY <1>1, <1>2, <2>1 DEF Used, OneInHand
<1>4. CASE UNCHANGED queue
  BY <1>1, <1>2, <1>3, <1>4, StillQuiet DEF Frugal
<1>5. CASE queue # <<>> /\ queue' = WithoutNewest
  <2>1. PICK x \in Checks : x = Newest.check /\ Reported(x)
    <3>1. Len(queue) \in 1 .. Len(queue) /\ queue[Len(queue)] \in Task
      BY <1>2, <1>5
    <3> QED
      BY <3>1 DEF Newest, Reported, Waiting, Task
  <2>2. ASSUME NEW c \in Checks
        PROVE  /\ Credit(c)' # Credit(c) => Credit(c)' < Credit(c)
               /\ c # x => Credit(c)' = Credit(c)
    <3>1. /\ InList(c) \in Nat /\ InList(c)' \in Nat /\ InList(c)' <= InList(c)
          /\ c # x => InList(c)' = InList(c)
      BY <2>1, <1>2, <1>5, InListPopped, Numbers
    <3>2. InHand(c) = 0 /\ InHand(c)' = 0
      BY <1>2, HandEmpty, HandEmptied
    <3>3. Credit(c) = MaxAttempts * InList(c) /\ Credit(c)' = MaxAttempts * InList(c)'
      BY <1>3, <3>1, <3>2, AttemptsAssumption DEF Credit
    <3>4. Credit(c)' <= Credit(c) /\ Credit(c) \in Int /\ Credit(c)' \in Int
      BY <3>1, <3>3, Fewer, AttemptsAssumption
    <3> QED
      BY <3>1, <3>3, <3>4
  <2>3. SpendsOn(x)
    BY <1>1, <2>1, <2>2 DEF SpendsOn
  <2> QED
    BY <1>3, <2>1, <2>3 DEF Frugal
<1> QED
  BY <1>1, <1>4, <1>5

(* Every POST is one of the attempts of the task in the worker's hand. *)
LEMMA SendIsFrugal ==
  ASSUME CheckInv, OneInHand, Send
  PROVE  OneInHand' /\ Frugal
<1>1. PICK t \in hand, o \in SendOutcomes :
        /\ Post(t, o)
        /\ IF o = "ok" \/ LastAttempt
           THEN Loop
           ELSE sender' = "backoff" /\ UNCHANGED <<hand, attempt>>
  BY DEF Send
<1>2. sender = "send" /\ UNCHANGED queue
  BY DEF Send
<1>3. /\ attempt < MaxAttempts /\ attempt \in Nat /\ t \in Task
      /\ delivered \in [Checks -> Nat] /\ \A s \in hand : s = t
  BY <1>1, <1>2, WorkerFacts DEF OneInHand
<1>4. OneInHand' /\ Used = attempt /\ t.check \in Checks /\ Reported(t.check)
  <2>1. OneInHand'
    BY <1>1 DEF Loop, OneInHand
  <2>2. t.check \in Checks /\ Reported(t.check)
    BY <1>1, <1>3 DEF Task, Reported
  <2>3. Used = attempt
    BY <1>2, <1>3 DEF Used
  <2> QED
    BY <2>1, <2>2, <2>3
<1>5. ASSUME NEW c \in Checks
      PROVE  /\ InList(c)' = InList(c) /\ InList(c) \in Nat
             /\ InHand(c) = IF t.check = c THEN 1 ELSE 0
             /\ t.check # c => delivered'[c] = delivered[c]
  <2>1. InList(c)' = InList(c) /\ InList(c) \in Nat /\ InHand(c) \in {0, 1}
    BY <1>2, Numbers DEF InList
  <2>2. InHand(c) = 1 <=> t.check = c
    BY <1>1, <1>3, InHandCount
  <2>3. t.check # c => delivered'[c] = delivered[c]
    BY <1>1, <1>3 DEF Post
  <2> QED
    BY <2>1, <2>2, <2>3
<1>6. ASSUME NEW c \in Checks
      PROVE  IF t.check = c THEN Credit(c)' < Credit(c) ELSE Credit(c)' = Credit(c)
  <2> DEFINE L == MaxAttempts * InList(c)
  <2>1. L \in Int
    BY <1>5, AttemptsAssumption
  <2>2. Credit(c) = L + (MaxAttempts - attempt) * InHand(c)
    BY <1>4 DEF Credit
  <2>3. CASE Loop
    <3>1. InHand(c)' = 0 /\ Used' = 0
      BY <2>3, HandEmptied DEF Loop, Used
    <3>2. Credit(c)' = L
      BY <1>5, <3>1, <2>1, AttemptsAssumption DEF Credit
    <3> HIDE DEF L
    <3> QED
      BY <1>3, <1>5, <2>1, <2>2, <3>2, AttemptsAssumption
  <2>4. CASE sender' = "backoff" /\ UNCHANGED <<hand, attempt>>
    <3>1. InHand(c)' = InHand(c) /\ Used' = attempt + 1
      BY <2>4 DEF InHand, Used
    <3>2. Credit(c)' = L + (MaxAttempts - (attempt + 1)) * InHand(c)
      BY <1>5, <3>1 DEF Credit
    <3> HIDE DEF L
    <3> QED
      BY <1>3, <1>5, <2>1, <2>2, <3>2, AttemptsAssumption
  <2> QED
    BY <1>1, <2>3, <2>4
<1>7. SpendsOn(t.check)
  <2>1. delivered'[t.check] \in {delivered[t.check], delivered[t.check] + 1}
    BY <1>1, <1>3, <1>4 DEF Post
  <2>2. Credit(t.check)' < Credit(t.check)
    BY <1>4, <1>6
  <2>3. \A c \in Checks \ {t.check} : Credit(c)' = Credit(c) /\ delivered'[c] = delivered[c]
    BY <1>5, <1>6
  <2> QED
    BY <2>1, <2>2, <2>3 DEF SpendsOn
<1> QED
  BY <1>4, <1>7 DEF Frugal

(* A task that is dropped from the hand takes the attempts left for it along. *)
LEMMA DropIsFrugal ==
  ASSUME CheckInv, OneInHand, hand' = {}, Used' = 0, UNCHANGED <<queue, delivered>>,
         hand # {}
  PROVE  Frugal
<1>1. PICK t \in hand : \A s \in hand : s = t
  BY DEF OneInHand
<1>2. t.check \in Checks /\ Reported(t.check)
  BY <1>1, WorkerFacts DEF Task, Reported
<1>3. ASSUME NEW c \in Checks
      PROVE  /\ Credit(c)' # Credit(c) => Credit(c)' < Credit(c)
             /\ c # t.check => Credit(c)' = Credit(c)
  <2> DEFINE L == MaxAttempts * InList(c)
             H == (MaxAttempts - Used) * InHand(c)
  <2>1. /\ InList(c) \in Nat /\ InHand(c) \in {0, 1} /\ Used \in Nat
        /\ InHand(c) = 1 => Used <= MaxAttempts
        /\ InHand(c) = 1 <=> t.check = c
    BY <1>1, Numbers, InHandCount
  <2>2. L \in Int /\ H \in Nat /\ (t.check # c => H = 0)
    BY <2>1, AttemptsAssumption
  <2>3. InList(c)' = InList(c) /\ InHand(c)' = 0
    BY HandEmptied DEF InList
  <2>4. Credit(c) = L + H
    BY DEF Credit
  <2>5. Credit(c)' = L
    BY <2>2, <2>3, AttemptsAssumption DEF Credit
  <2> HIDE DEF L, H
  <2> QED
    BY <2>2, <2>4, <2>5
<1>4. SpendsOn(t.check)
  BY <1>2, <1>3 DEF SpendsOn
<1> QED
  BY <1>2, <1>4 DEF Frugal

(* The pause between two attempts is over, or the stop of the worker ends it. *)
LEMMA BackoffIsFrugal ==
  ASSUME CheckInv, OneInHand, BackoffElapsed \/ BackoffCancelled
  PROVE  OneInHand' /\ Frugal
<1>1. sender = "backoff" /\ hand # {} /\ UNCHANGED <<queue, delivered>>
  BY DEF BackoffElapsed, BackoffCancelled, OneInHand
<1>2. CASE BackoffElapsed
  <2>1. Used' = Used /\ UNCHANGED hand
    BY <1>1, <1>2, WorkerFacts DEF BackoffElapsed, Used
  <2> QED
    BY <1>1, <2>1, StillQuiet DEF OneInHand, Frugal
<1>3. CASE BackoffCancelled
  <2>1. Used' = 0 /\ hand' = {} /\ OneInHand'
    BY <1>3 DEF BackoffCancelled, Loop, Used, OneInHand
  <2> QED
    BY <1>1, <2>1, DropIsFrugal
<1> QED
  BY <1>2, <1>3

LEMMA CrashIsFrugal ==
  ASSUME CheckInv, OneInHand, Crash
  PROVE  OneInHand' /\ Frugal
<1>1. /\ hand' = {} /\ Used' = 0 /\ OneInHand' /\ UNCHANGED <<queue, delivered>>
  BY DEF Crash, Used, OneInHand
<1>2. CASE hand # {}
  BY <1>1, <1>2, DropIsFrugal
<1>3. CASE hand = {}
  <2>1. sender \in {"pop", "again", "stopped"} /\ attempt = 0
    <3>1. sender \in {"pop", "again", "send", "backoff", "stopped"}
      BY Parts DEF CheckInv, WorkerOK
    <3> QED
      BY <1>3, <3>1, WorkerFacts DEF OneInHand
  <2>2. Used = 0
    BY <2>1 DEF Used
  <2> QED
    BY <1>1, <1>3, <2>2, StillQuiet DEF Frugal
<1> QED
  BY <1>2, <1>3

(* The steps of a handler leave the worker and, but for Enqueue, the list alone. *)
LEMMA HandlerIsQuiet ==
  ASSUME OneInHand, NEW c \in Checks,
         Accept(c) \/ ClientLeaves(c) \/ FindNearby(c) \/ SaveHistory(c)
  PROVE  OneInHand' /\ Quiet
<1>1. UNCHANGED <<queue, sender, hand, attempt, delivered>>
  BY DEF Accept, ClientLeaves, FindNearby, SaveHistory, queueVars, workerVars
<1>2. Used' = Used /\ OneInHand'
  BY <1>1 DEF Used, OneInHand
<1> QED
  BY <1>1, <1>2, StillQuiet

LEMMA ProcessIsQuiet ==
  ASSUME CheckInv, OneInHand,
         \/ StartUp \/ BeginStop \/ StopQueue \/ Exit \/ StoreChanges
         \/ ReceiverChanges /\ UNCHANGED <<up, phase, handlerVars>>
         \/ UNCHANGED vars
  PROVE  OneInHand' /\ Quiet /\ UNCHANGED <<found, answer, history>>
<1>1. UNCHANGED <<queue, hand, attempt, delivered, found, answer, history>>
  BY DEF BeginStop, StopQueue, Exit, StoreChanges, StartUp, ReceiverChanges,
         vars, queueVars, workerVars, handlerVars
<1>2. UNCHANGED sender \/ (sender = "stopped" /\ sender' = "pop")
  BY DEF BeginStop, StopQueue, Exit, StoreChanges, StartUp, ReceiverChanges,
         vars, queueVars, workerVars, CheckInv, DownStops
<1>3. Used' = Used /\ OneInHand'
  BY <1>1, <1>2 DEF Used, OneInHand
<1> QED
  BY <1>1, <1>3, StillQuiet

(* Only the check whose handler makes the step may get a verdict. *)
LEMMA FindNearbyMaps ==
  ASSUME CheckInv, OneInHand, NEW c \in Checks, FindNearby(c)
  PROVE  [Promise!Next]_(Promise!promiseVars)
<1> DEFINE credit == [d \in Checks |-> Credit(d)]
           verdict == [d \in Checks |-> Verdict(d)]
<1>1. HandlerTypes /\ answer[c] = "none" /\ history[c] = "none"
  BY Parts DEF CheckInv, CheckOK, FindNearby
<1>2. UNCHANGED <<history, delivered>> /\ credit' = credit
  BY HandlerIsQuiet DEF Quiet, FindNearby
<1>3. verdict[c] = "none"
  BY <1>1 DEF Verdict
<1>4. CASE UNCHANGED answer /\ \E zones : found' = [found EXCEPT ![c] = zones]
  <2>1. \A d \in Checks : Verdict(d)' = Verdict(d)
    BY <1>1, <1>4 DEF Verdict, HandlerTypes
  <2>2. verdict' = verdict
    BY <2>1
  <2> QED
    BY <1>2, <2>2 DEF Promise!promiseVars
<1>5. CASE UNCHANGED found /\ answer' = [answer EXCEPT ![c] = "error"]
  <2>1. \A d \in Checks : Verdict(d)' = IF d = c THEN "error" ELSE Verdict(d)
    BY <1>1, <1>5 DEF Verdict, HandlerTypes
  <2>2. verdict' = [verdict EXCEPT ![c] = "error"]
    BY <2>1
  <2> HIDE DEF credit, verdict
  <2>3. Promise!Fail(c)
    BY <1>1, <1>2, <1>3, <2>2 DEF Promise!Fail, Promise!Conclude, credit, verdict
  <2> QED
    BY <2>3 DEF Promise!Next
<1> QED
  BY <1>4, <1>5 DEF FindNearby, Respond

LEMMA SaveHistoryMaps ==
  ASSUME CheckInv, OneInHand, NEW c \in Checks, SaveHistory(c)
  PROVE  [Promise!Next]_(Promise!promiseVars)
<1> DEFINE credit == [d \in Checks |-> Credit(d)]
           verdict == [d \in Checks |-> Verdict(d)]
<1>1. HandlerTypes /\ answer[c] = "none" /\ history[c] = "none"
  BY Parts DEF CheckInv, CheckOK, SaveHistory
<1>2. UNCHANGED <<found, delivered>> /\ credit' = credit
  BY HandlerIsQuiet DEF Quiet, SaveHistory
<1>3. verdict[c] = "none"
  BY <1>1 DEF Verdict
<1>4. CASE found[c] = {}
  <2>1. /\ answer' = [answer EXCEPT ![c] = "ok"]
        /\ history' \in {history, [history EXCEPT ![c] = "safe"]}
    BY <1>4 DEF SaveHistory, Alerts, Respond
  <2>2. \A d \in Checks : Verdict(d)' = IF d = c THEN "safe" ELSE Verdict(d)
    BY <1>1, <1>2, <1>4, <2>1 DEF Verdict, HandlerTypes
  <2>3. verdict' = [verdict EXCEPT ![c] = "safe"]
    BY <2>2
  <2> HIDE DEF credit, verdict
  <2>4. Promise!Reassure(c)
    BY <1>1, <1>2, <1>3, <2>1, <2>3
       DEF Promise!Reassure, Promise!Conclude, credit, verdict
  <2> QED
    BY <2>4 DEF Promise!Next
<1>5. CASE found[c] # {}
  <2>1. /\ UNCHANGED answer
        /\ history' \in {history, [history EXCEPT ![c] = "danger"]}
    BY <1>5 DEF SaveHistory, Alerts, Respond
  <2>2. verdict' = verdict
    BY <1>2, <2>1 DEF Verdict
  <2> HIDE DEF credit, verdict
  <2>3. UNCHANGED history \/ Promise!RecordDanger(c)
    BY <1>1, <1>2, <1>3, <2>1, <2>2 DEF Promise!RecordDanger, credit, verdict
  <2> QED
    BY <1>2, <2>2, <2>3 DEF Promise!Next, Promise!promiseVars, credit, verdict
<1> QED
  BY <1>4, <1>5

(* The one push of a check gives it the credit of the tasks that go-redis wrote. *)
LEMMA EnqueueMaps ==
  ASSUME CheckInv, OneInHand, NEW c \in Checks, Enqueue(c)
  PROVE  OneInHand' /\ [Promise!Next]_(Promise!promiseVars)
<1> DEFINE t == [check |-> c, zones |-> found[c]]
           credit == [d \in Checks |-> Credit(d)]
           verdict == [d \in Checks |-> Verdict(d)]
<1>1. /\ UNCHANGED <<sender, hand, attempt, delivered, found, history>>
      /\ pc[c] = "enqueue" /\ answer' = [answer EXCEPT ![c] = "ok"]
  BY DEF Enqueue, workerVars, Respond
<1>2. /\ HandlerTypes /\ answer[c] = "none" /\ found[c] # {} /\ history[c] # "safe"
      /\ ~Reported(c)
  BY <1>1, Parts DEF CheckInv, CheckOK
<1>3. PICK n \in 0 .. MaxResends + 1 : Push(t, n)
  <2>1. \A n \in 1 .. MaxResends + 1 : n \in 0 .. MaxResends + 1
    OBVIOUS
  <2>2. 0 \in 0 .. MaxResends + 1 /\ 1 \in 0 .. MaxResends + 1
    BY AttemptsAssumption
  <2> QED
    BY <2>1, <2>2 DEF Enqueue, EnqueueLocationCheck
<1>4. t \in Task /\ t.check = c /\ n \in Nat /\ queue \in Seq(Task)
  BY <1>2, <1>3, WorkerFacts, AttemptsAssumption DEF HandlerTypes, Task
<1> HIDE DEF t
<1>5. OneInHand' /\ Used' = Used
  BY <1>1 DEF OneInHand, Used
<1>6. InList(c) = 0 /\ InHand(c) = 0
  <2>1. {k \in 1 .. Len(queue) : queue[k].check = c} = {} /\ {s \in hand : s.check = c} = {}
    BY <1>2 DEF Reported, Waiting
  <2> QED
    BY <2>1, FS_EmptySet DEF InList, InHand
<1>7. ASSUME NEW d \in Checks
      PROVE  Credit(d)' = IF d = c THEN MaxAttempts * n ELSE Credit(d)
  <2>1. InHand(d)' = InHand(d)
    BY <1>1 DEF InHand
  <2>2. InList(d)' = IF c = d THEN InList(d) + n ELSE InList(d)
    BY <1>3, <1>4, InListPushed
  <2>3. CASE d = c
    <3>1. InList(c)' = n /\ InHand(c)' = 0
      BY <1>4, <1>6, <2>1, <2>2, <2>3
    <3>2. Used \in Nat /\ MaxAttempts * n \in Int
      BY <1>4, Numbers, AttemptsAssumption
    <3> QED
      BY <1>5, <2>3, <3>1, <3>2, AttemptsAssumption DEF Credit
  <2>4. CASE d # c
    BY <1>5, <2>1, <2>2, <2>4 DEF Credit
  <2> QED
    BY <2>3, <2>4
<1>8. MaxAttempts * n \in 0 .. MaxAttempts * (MaxResends + 1)
  <2>1. MaxResends + 1 \in Nat /\ n <= MaxResends + 1 /\ MaxAttempts \in Nat
    BY <1>3, AttemptsAssumption
  <2>2. MaxAttempts * 0 <= MaxAttempts * n /\ MaxAttempts * n <= MaxAttempts * (MaxResends + 1)
    BY <1>4, <2>1, Fewer
  <2> QED
    BY <1>4, <2>1, <2>2
<1>9. credit' = [credit EXCEPT ![c] = MaxAttempts * n]
  BY <1>7
<1>10. \A d \in Checks : Verdict(d)' = IF d = c THEN "danger" ELSE Verdict(d)
  BY <1>1, <1>2 DEF Verdict, HandlerTypes
<1>11. verdict' = [verdict EXCEPT ![c] = "danger"] /\ verdict[c] = "none"
  BY <1>2, <1>10 DEF Verdict
<1> HIDE DEF credit, verdict
<1>12. Promise!Alarm(c)
  BY <1>1, <1>2, <1>8, <1>9, <1>11 DEF Promise!Alarm, Promise!Conclude, credit, verdict
<1> QED
  BY <1>5, <1>12 DEF Promise!Next

LEMMA NextKeepsPromise ==
  ASSUME CheckInv, OneInHand, CheckInv', [Next]_vars
  PROVE  OneInHand' /\ [Promise!Next]_(Promise!promiseVars)
<1>1. CASE WorkerStep /\ UNCHANGED <<up, phase, handlerVars>>
  <2>1. OneInHand' /\ Frugal
    BY <1>1, PopIsFrugal, LostPopIsFrugal, SendIsFrugal, BackoffIsFrugal DEF WorkerStep
  <2> QED
    BY <1>1, <2>1, FrugalMaps DEF handlerVars
<1>2. CASE Crash
  BY <1>2, CrashIsFrugal, FrugalMaps DEF Crash
<1>3. CASE \/ StartUp \/ BeginStop \/ StopQueue \/ Exit \/ StoreChanges
           \/ ReceiverChanges /\ UNCHANGED <<up, phase, handlerVars>>
           \/ UNCHANGED vars
  BY <1>3, ProcessIsQuiet, FrugalMaps DEF Frugal
<1>4. ASSUME NEW c \in Checks, Accept(c) \/ ClientLeaves(c)
      PROVE  OneInHand' /\ [Promise!Next]_(Promise!promiseVars)
  BY <1>4, HandlerIsQuiet, FrugalMaps DEF Accept, ClientLeaves, Frugal
<1>5. ASSUME NEW c \in Checks, HandlerStep(c)
      PROVE  OneInHand' /\ [Promise!Next]_(Promise!promiseVars)
  BY <1>5, HandlerIsQuiet, FindNearbyMaps, SaveHistoryMaps, EnqueueMaps DEF HandlerStep
<1> QED
  BY <1>1, <1>2, <1>3, <1>4, <1>5 DEF Next

LEMMA InitKeepsPromise == Init => OneInHand /\ Promise!Init
<1> SUFFICES ASSUME Init PROVE OneInHand /\ Promise!Init
  OBVIOUS
<1>1. /\ queue = <<>> /\ hand = {} /\ sender = "stopped" /\ delivered = [c \in Checks |-> 0]
      /\ answer = [c \in Checks |-> "none"] /\ history = [c \in Checks |-> "none"]
      /\ attempt = 0
  BY DEF Init, QueueInit
<1>2. \A c \in Checks : Verdict(c) = "none"
  BY <1>1 DEF Verdict
<1>3. ASSUME NEW c \in Checks PROVE Credit(c) = 0
  <2>1. {k \in 1 .. Len(queue) : queue[k].check = c} = {}
    BY <1>1
  <2>2. InList(c) = 0 /\ InHand(c) = 0 /\ Used = 0
    BY <1>1, <2>1, HandEmpty, FS_EmptySet DEF InList, Used
  <2> QED
    BY <2>2, AttemptsAssumption DEF Credit
<1>4. OneInHand
  BY <1>1 DEF OneInHand
<1> QED
  BY <1>1, <1>2, <1>3, <1>4 DEF Promise!Init

(***************************************************************************)
(* The list, the worker and the retries of WebhookQueue implement the      *)
(* promise about alerts: each of their steps takes from the credit of one  *)
(* check whose alert is on its way, or from none.                          *)
(***************************************************************************)
THEOREM PromiseKept == Spec => KeepsAlertPromise
<1>1. Init => CheckInv /\ OneInHand /\ Promise!Init
  BY InitCheckInv, InitKeepsPromise
<1>2. CheckInv /\ OneInHand /\ [Next]_vars
        => /\ CheckInv' /\ OneInHand'
           /\ [Promise!Next]_(Promise!promiseVars)
  BY NextStageInv, NextDownStops, NextKeepsPromise DEF CheckInv
<1> QED
  BY <1>1, <1>2, PTL DEF Spec, KeepsAlertPromise, Promise!Spec

(***************************************************************************)
(* However often the process is stopped, killed and started again, the     *)
(* receiver hears of a check at most RETRY_ATTEMPTS times for every RPUSH  *)
(* that go-redis may have made of its one task.  This is the bound of the  *)
(* promise, carried over by the refinement.                                *)
(***************************************************************************)
THEOREM BoundedDeliveries == Spec => []DeliveriesBounded
<1>1. MaxAttempts * (MaxResends + 1) \in Nat
  BY AttemptsAssumption
<1>2. Promise!Spec => []Promise!WithinBudget
  BY <1>1, Promise!BudgetKept
<1>3. CheckInv /\ OneInHand /\ Promise!WithinBudget => DeliveriesBounded
  <2> SUFFICES ASSUME CheckInv, OneInHand, Promise!WithinBudget, NEW c \in Checks
               PROVE  delivered[c] <= MaxAttempts * (MaxResends + 1)
    BY DEF DeliveriesBounded
  <2>1. delivered[c] \in Nat /\ Credit(c) \in Nat
    BY Numbers
  <2>2. delivered[c] + Credit(c) <= MaxAttempts * (MaxResends + 1)
    BY DEF Promise!WithinBudget
  <2> QED
    BY <1>1, <2>1, <2>2
<1>4. Spec => []OneInHand
  <2>1. CheckInv /\ OneInHand /\ [Next]_vars => CheckInv' /\ OneInHand'
    BY NextStageInv, NextDownStops, NextKeepsPromise DEF CheckInv
  <2> QED
    BY <2>1, InitCheckInv, InitKeepsPromise, PTL DEF Spec
<1> QED
  BY <1>2, <1>3, <1>4, Invariance, PromiseKept, PTL DEF KeepsAlertPromise

-----------------------------------------------------------------------------
(* What a check finds, against what there is to find. *)

FoundIsInside == \A c \in Checks : found[c] \subseteq inside[c]

LEMMA NextFoundIsInside == CheckInv /\ FoundIsInside /\ [Next]_vars => FoundIsInside'
<1> SUFFICES ASSUME CheckInv, FoundIsInside, [Next]_vars, NEW c \in Checks
             PROVE  found'[c] \subseteq inside'[c]
  BY DEF FoundIsInside
<1>1. /\ found \in [Checks -> SUBSET Zones] /\ inside \in [Checks -> SUBSET Zones]
      /\ \A d \in Checks : pc[d] = "new" => found[d] = {}
  BY DEF CheckInv, StageInv, TypeOK, CheckOK
<1>2. ASSUME NEW d \in Checks, Accept(d) PROVE found'[c] \subseteq inside'[c]
  <2>1. /\ pc[d] = "new" /\ found' = found
        /\ \E zones \in SUBSET Zones : inside' = [inside EXCEPT ![d] = zones]
    BY <1>2 DEF Accept
  <2> QED
    BY <1>1, <2>1 DEF FoundIsInside
<1>3. ASSUME NEW d \in Checks, FindNearby(d) PROVE found'[c] \subseteq inside'[c]
  <2>1. /\ inside' = inside
        /\ found' = found \/ \E zones \in SUBSET inside[d] :
                                found' = [found EXCEPT ![d] = zones]
    BY <1>3 DEF FindNearby
  <2> QED
    BY <1>1, <2>1 DEF FoundIsInside
<1>4. CASE UNCHANGED <<found, inside>>
  BY <1>4 DEF FoundIsInside
<1>5. ASSUME NEW d \in Checks, ClientLeaves(d) \/ SaveHistory(d) \/ Enqueue(d)
      PROVE  UNCHANGED <<found, inside>>
  BY <1>5 DEF ClientLeaves, SaveHistory, Enqueue
<1>6. CASE \/ StartUp \/ BeginStop \/ StopQueue \/ Exit \/ Crash \/ StoreChanges
           \/ WorkerStep /\ UNCHANGED <<up, phase, handlerVars>>
           \/ ReceiverChanges /\ UNCHANGED <<up, phase, handlerVars>>
           \/ UNCHANGED vars
  BY <1>4, <1>6 DEF StartUp, BeginStop, StopQueue, Exit, Crash, StoreChanges,
                    handlerVars, vars
<1> QED
  BY <1>2, <1>3, <1>4, <1>5, <1>6 DEF Next, HandlerStep

(***************************************************************************)
(* No false alarm: whatever fails, a user is told of a danger only if he   *)
(* is in one, and so are the history and, by ReportsAreTrue, the receiver. *)
(***************************************************************************)
THEOREM NoFalseAlarms == Spec => []FoundIsInside
<1>1. Init => FoundIsInside
  BY DEF Init, FoundIsInside
<1> QED
  BY <1>1, NextFoundIsInside, Invariance, PTL DEF Spec

(* Where the database never fails under a call, what has been found is all there is. *)
AllFound ==
  /\ up["postgres"] /\ \A c \in Checks : ~cancelled[c]
  /\ \A c \in Checks :
       (pc[c] \in {"saveHistory", "enqueue"} \/ answer[c] = "ok") => found[c] = inside[c]

LEMMA NextAllFound ==
  ASSUME "postgres" \notin Disturbances, "client" \notin Disturbances,
         CheckInv, AllFound, [Next]_vars
  PROVE  AllFound'
<1>1. TypeOK /\ \A d \in Checks : pc[d] # "done" => answer[d] = "none"
  BY DEF CheckInv, StageInv, CheckOK
<1>2. ASSUME NEW d \in Checks, Accept(d) PROVE AllFound'
  <2>1. /\ pc[d] = "new" /\ found' = found /\ answer' = answer /\ up' = up
        /\ \E zones \in SUBSET Zones : inside' = [inside EXCEPT ![d] = zones]
        /\ Goto(d, "findNearby", FALSE)
    BY <1>2 DEF Accept
  <2> QED
    BY <1>1, <2>1 DEF AllFound, TypeOK, Goto
<1>3. ASSUME NEW d \in Checks, NEW o \in Outcome, NEW gone \in BOOLEAN,
             CallEnds("postgres", o, cancelled[d], gone)
      PROVE  o = "ok" /\ ~gone
  BY <1>3 DEF CallEnds, Outcomes, AllFound
<1>4. ASSUME NEW d \in Checks, FindNearby(d) PROVE AllFound'
  <2>1. /\ found' = [found EXCEPT ![d] = inside[d]] /\ UNCHANGED <<answer, inside, up>>
        /\ Goto(d, "saveHistory", FALSE)
    BY <1>3, <1>4 DEF FindNearby
  <2> QED
    BY <1>1, <2>1 DEF AllFound, TypeOK, Goto
<1>5. ASSUME NEW d \in Checks, SaveHistory(d) PROVE AllFound'
  <2>1. /\ pc[d] = "saveHistory" /\ UNCHANGED <<found, inside, up>>
        /\ \/ Goto(d, "enqueue", FALSE) /\ UNCHANGED answer
           \/ Respond(d, "ok", FALSE)
    BY <1>3, <1>5 DEF SaveHistory
  <2> QED
    BY <1>1, <2>1 DEF AllFound, TypeOK, Goto, Respond
<1>6. ASSUME NEW d \in Checks, Enqueue(d) PROVE AllFound'
  <2>1. /\ pc[d] = "enqueue" /\ UNCHANGED <<found, inside, up>>
        /\ \E gone \in BOOLEAN : Respond(d, "ok", gone) /\ ~gone
    BY <1>6 DEF Enqueue, EnqueueLocationCheck, CallEnds, AllFound
  <2> QED
    BY <1>1, <2>1 DEF AllFound, TypeOK, Goto, Respond
<1>7. CASE StoreChanges
  <2>1. up'["postgres"] /\ UNCHANGED handlerVars
    BY <1>1, <1>7 DEF StoreChanges, Degrade, Recover, AllFound, TypeOK, Store
  <2> QED
    BY <2>1 DEF AllFound, handlerVars
<1>8. CASE Crash
  BY <1>1, <1>8 DEF Crash, AllFound, TypeOK
<1>9. CASE \/ StartUp \/ BeginStop \/ StopQueue \/ Exit
           \/ WorkerStep /\ UNCHANGED <<up, phase, handlerVars>>
           \/ ReceiverChanges /\ UNCHANGED <<up, phase, handlerVars>>
           \/ UNCHANGED vars
  <2>1. UNCHANGED <<up, handlerVars>>
    BY <1>9 DEF StartUp, BeginStop, StopQueue, Exit, vars
  <2> QED
    BY <2>1 DEF AllFound, handlerVars
<1> QED
  BY <1>2, <1>4, <1>5, <1>6, <1>7, <1>8, <1>9 DEF Next, HandlerStep, ClientLeaves

(***************************************************************************)
(* A check is answered with less than the truth only because of a query    *)
(* that an error of the database, or the client's leaving, cut short: with *)
(* neither, every answer is complete, whatever Redis, the receiver and the *)
(* process do.                                                             *)
(***************************************************************************)
THEOREM CompleteButForPostgres ==
  ASSUME "postgres" \notin Disturbances, "client" \notin Disturbances
  PROVE  Spec => []AnswersComplete
<1>1. Init => AllFound
  BY DEF Init, StoresInit, Store, AllFound
<1>2. CheckInv /\ AllFound /\ [Next]_vars => AllFound'
  BY NextAllFound
<1>3. AllFound => AnswersComplete
  BY DEF AllFound, AnswersComplete
<1> QED
  BY <1>1, <1>2, <1>3, Invariance, PTL DEF Spec

-----------------------------------------------------------------------------
(* Progress of the worker without fairness. *)

(* The one circle: a BRPOP that fails. *)
FailsAgain == ~up["redis"] /\ sender = "pop" /\ sender' = "again" /\ Len(queue') <= Len(queue)

(* What a step of the worker, or its end, owes. *)
Works ==
  \/ UNCHANGED <<queue, workerVars>>
  \/ FailsAgain
  \/ /\ WorkLeft' < WorkLeft
     /\ stopping => /\ sender' # "pop"
                    /\ sender = "pop" \/ StepsLeft' < StepsLeft

LEMMA StepsLeftType ==
  ASSUME CheckInv
  PROVE  StepsLeft \in Nat /\ (sender # "stopped" => StepsLeft > 0)
<1>1. /\ attempt \in Nat
      /\ sender \in {"pop", "again", "send", "backoff", "stopped"}
  BY Parts DEF CheckInv, WorkerOK
<1>2. /\ sender = "send" => attempt < MaxAttempts
      /\ sender = "backoff" => attempt + 1 < MaxAttempts
  BY WorkerFacts
<1> QED
  BY <1>1, <1>2, AttemptsAssumption DEF StepsLeft

(* The length of the list counts as often as one task takes steps at most. *)
LEMMA ListWork ==
  ASSUME CheckInv
  PROVE  /\ (2 * MaxAttempts + 1) * Len(queue) \in Nat
         /\ queue # <<>> /\ queue' = WithoutNewest
              => (2 * MaxAttempts + 1) * Len(queue)
                   = (2 * MaxAttempts + 1) * Len(queue') + (2 * MaxAttempts + 1)
<1> DEFINE K == 2 * MaxAttempts + 1
<1>1. K \in Nat /\ queue \in Seq(Task) /\ Len(queue) \in Nat
  BY WorkerFacts, AttemptsAssumption
<1>2. K * Len(queue) \in Nat
  <2>1. K * 0 <= K * Len(queue)
    BY <1>1, Fewer
  <2> QED
    BY <1>1, <2>1
<1>3. ASSUME queue # <<>>, queue' = WithoutNewest
      PROVE  K * Len(queue) = K * Len(queue') + K
  <2>1. /\ Len(queue) \in Nat \ {0}
        /\ \A k \in 1 .. Len(queue) - 1 : queue[k] \in Task
    BY <1>1, <1>3
  <2> HIDE DEF K
  <2>2. queue' = SubSeq(queue, 1, Len(queue) - 1)
    BY <1>3 DEF WithoutNewest
  <2>3. Len(queue') = IF 1 <= Len(queue) - 1 THEN Len(queue) - 1 ELSE 0
    BY <1>1, <2>1, <2>2, SubSeqProperties
  <2>4. \A n \in Nat \ {0} : (IF 1 <= n - 1 THEN n - 1 ELSE 0) = n - 1
    OBVIOUS
  <2>5. Len(queue) > 0 /\ Len(queue) \in Nat \ {0}
    BY <2>1
  <2>6. Len(queue') = Len(queue) - 1
    BY <2>3, <2>4, <2>5
  <2> QED
    BY <1>1, <2>5, <2>6, TakeArith
<1> QED
  BY <1>2, <1>3

(* The arithmetic of a shorter list, or none, and fewer steps. *)
LEMMA Sums ==
  ASSUME NEW w \in Int, NEW v \in Int, NEW k \in Nat, NEW s \in Nat, NEW t \in Nat,
         w = v + k, t < s + k
  PROVE  v + t < w + s
OBVIOUS

(* Less to do with the task in hand, or none, with the list as it is or shorter. *)
LEMMA LessWork ==
  ASSUME CheckInv, StepsLeft' \in Nat,
         \/ UNCHANGED queue /\ StepsLeft' < StepsLeft
         \/ /\ queue # <<>> /\ queue' = WithoutNewest
            /\ StepsLeft' < StepsLeft + 2 * MaxAttempts + 1
  PROVE  WorkLeft' < WorkLeft
<1>1. StepsLeft \in Nat /\ (2 * MaxAttempts + 1) * Len(queue) \in Int
  BY ListWork, StepsLeftType
<1>2. \E w \in Int : w = (2 * MaxAttempts + 1) * Len(queue)
  BY <1>1
<1>3. PICK w \in Int : w = (2 * MaxAttempts + 1) * Len(queue)
  BY <1>2
<1>4. WorkLeft = w + StepsLeft
  BY <1>3 DEF WorkLeft
<1>5. PICK s \in Nat : s = StepsLeft
  BY <1>1
<1>6. PICK t \in Nat : t = StepsLeft'
  OBVIOUS
<1>7. CASE UNCHANGED queue /\ StepsLeft' < StepsLeft
  <2>1. WorkLeft' = w + t
    BY <1>3, <1>6, <1>7 DEF WorkLeft
  <2>2. t < s
    BY <1>5, <1>6, <1>7
  <2>3. w + t < w + s
    BY <2>2, <1>3, <1>5, <1>6
  <2> QED
    BY <1>4, <1>5, <2>1, <2>3
<1>8. CASE /\ queue # <<>> /\ queue' = WithoutNewest
           /\ StepsLeft' < StepsLeft + 2 * MaxAttempts + 1
  <2>1. Len(queue') \in Nat
    BY <1>8, WorkerFacts DEF WithoutNewest
  <2>2. PICK v \in Int : v = (2 * MaxAttempts + 1) * Len(queue')
    BY <2>1, AttemptsAssumption
  <2>3. PICK k \in Nat : k = 2 * MaxAttempts + 1
    BY AttemptsAssumption
  <2>4. w = v + k
    BY <1>3, <1>8, <2>2, <2>3, ListWork
  <2>5. t < s + k
    BY <1>5, <1>6, <1>8, <2>3, AttemptsAssumption
  <2>6. v + t < w + s
    BY <2>4, <2>5, Sums
  <2>7. WorkLeft' = v + t
    BY <1>6, <2>2 DEF WorkLeft
  <2> QED
    BY <1>4, <1>5, <2>6, <2>7
<1> QED
  BY <1>7, <1>8

LEMMA LoopWorks ==
  ASSUME Loop, sender \in {"pop", "again", "send", "backoff"}, CheckInv,
         \/ UNCHANGED queue /\ (sender = "pop" => stopping)
         \/ queue # <<>> /\ queue' = WithoutNewest
  PROVE  Works
<1>1. StepsLeft' = IF stopping THEN 0 ELSE 1
  BY DEF Loop, StepsLeft
<1>2. sender' = IF stopping THEN "stopped" ELSE "pop"
  BY DEF Loop
<1>3. StepsLeft \in Nat /\ StepsLeft > 0
  BY StepsLeftType
<1>4. sender \in {"again", "send", "backoff"} => StepsLeft > 1
  BY WorkerFacts, AttemptsAssumption DEF StepsLeft
<1>5. \/ UNCHANGED queue /\ StepsLeft' < StepsLeft
      \/ queue # <<>> /\ queue' = WithoutNewest
  BY <1>1, <1>3, <1>4
<1>6. StepsLeft' < StepsLeft + 2 * MaxAttempts + 1
  BY <1>1, <1>3, AttemptsAssumption
<1>7. WorkLeft' < WorkLeft
  BY <1>1, <1>3, <1>5, <1>6, LessWork
<1>8. stopping => StepsLeft' < StepsLeft
  BY <1>1, <1>3
<1> QED
  BY <1>2, <1>7, <1>8 DEF Works

LEMMA WorkerStepWorks ==
  ASSUME CheckInv, WorkerStep
  PROVE  Works
<1>1. CASE Continue \/ PopCancelled
  BY <1>1, LoopWorks DEF Continue, PopCancelled
<1>6. CASE PopFails
  <2>1. queue # <<>> /\ queue' = WithoutNewest => Len(queue') <= Len(queue)
    <3> SUFFICES ASSUME queue # <<>>, queue' = WithoutNewest PROVE Len(queue') <= Len(queue)
      OBVIOUS
    <3>1. /\ queue \in Seq(Task) /\ Len(queue) \in Nat \ {0}
          /\ queue' = SubSeq(queue, 1, Len(queue) - 1)
          /\ \A k \in 1 .. Len(queue) - 1 : queue[k] \in Task
      BY WorkerFacts DEF WithoutNewest
    <3>2. Len(queue') = IF 1 <= Len(queue) - 1 THEN Len(queue) - 1 ELSE 0
      BY <3>1, SubSeqProperties
    <3> QED
      BY <3>1, <3>2
  <2>2. UNCHANGED queue => Len(queue') <= Len(queue)
    <3>1. Len(queue) \in Nat
      BY WorkerFacts
    <3> QED
      BY <3>1
  <2>3. ~up["redis"] /\ sender = "pop" /\ sender' = "again"
        /\ (UNCHANGED queue \/ (queue # <<>> /\ queue' = WithoutNewest))
    BY <1>6 DEF PopFails
  <2> QED
    BY <2>1, <2>2, <2>3 DEF Works, FailsAgain
<1>2. CASE BackoffCancelled
  BY <1>2, LoopWorks DEF BackoffCancelled
<1>3. CASE Pop
  <2>1. sender = "pop" /\ queue # <<>> /\ queue' = WithoutNewest /\ Handle(Newest)
    BY <1>3 DEF Pop
  <2>2. CASE MaxAttempts = 0
    BY <2>1, <2>2, LoopWorks DEF Handle
  <2>3. CASE MaxAttempts # 0
    <3>1. sender' = "send" /\ attempt' = 0
      BY <2>1, <2>3, WorkerFacts DEF Handle
    <3>2. StepsLeft' = 2 * MaxAttempts + 1 /\ StepsLeft = 1
      BY <2>1, <3>1, AttemptsAssumption DEF StepsLeft
    <3>3. WorkLeft' < WorkLeft
      BY <2>1, <3>2, AttemptsAssumption, LessWork
    <3> QED
      BY <2>1, <3>1, <3>3 DEF Works
  <2> QED
    BY <2>2, <2>3
<1>4. CASE Send
  <2>1. /\ sender = "send" /\ UNCHANGED queue
        /\ \/ Loop
           \/ /\ ~LastAttempt /\ sender' = "backoff" /\ UNCHANGED attempt
    BY <1>4 DEF Send
  <2>2. CASE Loop
    BY <2>1, <2>2, LoopWorks
  <2>3. CASE ~LastAttempt /\ sender' = "backoff" /\ UNCHANGED attempt
    <3>1. attempt \in Nat /\ attempt < MaxAttempts
      BY <2>1, WorkerFacts
    <3>2. StepsLeft' \in Nat /\ StepsLeft' < StepsLeft
      BY <2>1, <2>3, <3>1, AttemptsAssumption DEF StepsLeft
    <3>3. WorkLeft' < WorkLeft
      BY <2>1, <3>2, LessWork
    <3> QED
      BY <2>3, <3>2, <3>3 DEF Works
  <2> QED
    BY <2>1, <2>2, <2>3
<1>5. CASE BackoffElapsed
  <2>1. sender = "backoff" /\ sender' = "send" /\ attempt' = attempt + 1 /\ UNCHANGED queue
    BY <1>5 DEF BackoffElapsed
  <2>2. attempt \in Nat /\ attempt + 1 < MaxAttempts
    BY <2>1, WorkerFacts
  <2>3. StepsLeft' \in Nat /\ StepsLeft' < StepsLeft
    BY <2>1, <2>2, AttemptsAssumption DEF StepsLeft
  <2>4. WorkLeft' < WorkLeft
    BY <2>1, <2>3, LessWork
  <2> QED
    BY <2>1, <2>3, <2>4 DEF Works
<1> QED
  BY <1>1, <1>2, <1>3, <1>4, <1>5, <1>6 DEF WorkerStep

(* A worker that dies with the process leaves nothing to do but the list. *)
LEMMA CrashWorks ==
  ASSUME CheckInv, Crash
  PROVE  Works
<1>1. /\ sender' = "stopped" /\ hand' = {} /\ attempt' = 0 /\ UNCHANGED queue
  BY DEF Crash
<1>2. CASE sender = "stopped"
  BY <1>1, <1>2, WorkerFacts DEF Works, workerVars
<1>3. CASE sender # "stopped"
  <2>1. StepsLeft' = 0 /\ StepsLeft \in Nat /\ StepsLeft > 0
    BY <1>1, <1>3, StepsLeftType DEF StepsLeft
  <2>2. WorkLeft' < WorkLeft
    BY <1>1, <2>1, LessWork
  <2> QED
    BY <1>1, <2>1, <2>2 DEF Works
<1> QED
  BY <1>2, <1>3

(***************************************************************************)
(* For any number of attempts, checks and places in the list the worker    *)
(* comes nearer to an empty list with every step but a BRPOP that fails,   *)
(* the one step it may repeat for ever, and only while Redis is down.  A   *)
(* cancelled worker has at most 2 * MaxAttempts + 2 steps left, a BRPOP    *)
(* and one task.                                                           *)
(***************************************************************************)
THEOREM NoOtherCircle == Spec => CirclesOnlyWithoutRedis
<1> DEFINE Step ==
             \/ Works
             \/ UNCHANGED workerVars /\ \E c \in Checks : pc[c] = "enqueue" /\ pc'[c] = "done"
             \/ phase = "down" /\ phase' = "serving" /\ UNCHANGED queue
<1>1. CheckInv /\ [Next]_vars => Step
  <2> SUFFICES ASSUME CheckInv, [Next]_vars PROVE Step
    OBVIOUS
  <2>1. CASE WorkerStep \/ Crash
    BY <2>1, WorkerStepWorks, CrashWorks
  <2>2. CASE StartUp
    BY <2>2 DEF StartUp
  <2>3. ASSUME NEW c \in Checks, Enqueue(c) PROVE Step
    <3>1. pc[c] = "enqueue" /\ UNCHANGED workerVars
          /\ \E gone \in BOOLEAN : Respond(c, "ok", gone)
      BY <2>3 DEF Enqueue
    <3>2. pc'[c] = "done"
      BY <3>1, Parts DEF Respond, Goto, CheckInv, HandlerTypes
    <3> QED
      BY <3>1, <3>2
  <2>4. ASSUME NEW c \in Checks, Accept(c) \/ ClientLeaves(c) \/ FindNearby(c) \/ SaveHistory(c)
        PROVE  UNCHANGED <<queue, workerVars>>
    BY <2>4 DEF Accept, ClientLeaves, FindNearby, SaveHistory, queueVars
  <2>5. CASE \/ BeginStop \/ StopQueue \/ Exit \/ StoreChanges
             \/ ReceiverChanges /\ UNCHANGED <<up, phase, handlerVars>>
             \/ UNCHANGED vars
    <3>1. UNCHANGED <<queue, workerVars>>
      BY <2>5 DEF BeginStop, StopQueue, Exit, StoreChanges, ReceiverChanges, queueVars, vars
    <3> QED
      BY <3>1 DEF Works
  <2> QED
    BY <2>1, <2>2, <2>3, <2>4, <2>5 DEF Next, HandlerStep, Works
<1>2. Step =>
        [\/ UNCHANGED <<queue, workerVars>>
         \/ UNCHANGED workerVars /\ \E c \in Checks : pc[c] = "enqueue" /\ pc'[c] = "done"
         \/ phase = "down" /\ phase' = "serving" /\ UNCHANGED queue
         \/ ~up["redis"] /\ sender = "pop" /\ sender' = "again" /\ Len(queue') <= Len(queue)
         \/ /\ WorkLeft' < WorkLeft
            /\ stopping => /\ sender' # "pop"
                           /\ sender = "pop" \/ StepsLeft' < StepsLeft]_vars
  BY DEF Works, FailsAgain
<1> HIDE DEF Step
<1> QED
  BY <1>1, <1>2, Invariance, PTL DEF Spec, CirclesOnlyWithoutRedis

=============================================================================
