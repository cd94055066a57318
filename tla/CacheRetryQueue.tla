--------------------------- MODULE CacheRetryQueue ---------------------------
(***************************************************************************)
(* The in-memory queue of failed cache writes and its single worker,       *)
(* internal/storage/redis/cache_retry_queue.go.  The queue is a buffered   *)
(* Go channel of capacity CacheRetrySize (DB_REDIS_CACHERETRYSIZE, 0 when  *)
(* the variable is not set).                                               *)
(***************************************************************************)
EXTENDS Naturals, Sequences, Stores, IncidentCache

CONSTANT CacheRetrySize

ASSUME CacheRetrySizeAssumption == CacheRetrySize \in Nat

VARIABLES
  retryQ,     \* the channel's buffer
  worker      \* the incident the worker has received, None at its select

retryVars == <<retryQ, worker>>

RetryInit ==
  /\ retryQ = <<>>
  /\ worker = None

Queued(id) ==
  \/ worker # None /\ worker.id = id
  \/ \E k \in 1 .. Len(retryQ) : retryQ[k].id = id

BufferBlocking(i) ==
  /\ Len(retryQ) < CacheRetrySize
  /\ retryQ' = Append(retryQ, i)

(* A send that finds no receiver waiting: buffered, or dropped when full. *)
Buffer(i) ==
  IF Len(retryQ) < CacheRetrySize
  THEN retryQ' = Append(retryQ, i)
  ELSE UNCHANGED retryQ

(***************************************************************************)
(* CacheRetryQueue.Enqueue, called by a request handler.  The channel      *)
(* hands an incident straight to a worker that waits in its select on an   *)
(* empty buffer.                                                           *)
(***************************************************************************)
Enqueue(i) ==
  \/ Buffer(i) /\ UNCHANGED worker
  \/ retryQ = <<>> /\ worker = None /\ worker' = i /\ UNCHANGED retryQ

(* The worker's receive. *)
WorkerTake ==
  /\ worker = None
  /\ retryQ # <<>>
  /\ worker' = Head(retryQ)
  /\ retryQ' = Tail(retryQ)
  /\ UNCHANGED cacheVars

SetSucceeded(o) == o = "ok"

(* The test of the worker on the error of its Set: try again? *)
SetFailed(o) == o # "ok"

(* One Set by the worker; on an error the incident goes back to the end. *)
WorkerSet ==
  /\ worker # None
  /\ \E o \in Outcomes("redis") :
       /\ IF Executed(o) THEN Set(worker) ELSE UNCHANGED cacheVars
       /\ IF SetFailed(o) THEN Buffer(worker) ELSE UNCHANGED retryQ
  /\ worker' = None

=============================================================================
