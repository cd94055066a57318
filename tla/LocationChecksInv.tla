-------------------------- MODULE LocationChecksInv --------------------------
(***************************************************************************)
(* The inductive invariant of LocationChecks: what is known of a check at  *)
(* every stage of its handler, and of the worker's retry loop.             *)
(***************************************************************************)
EXTENDS LocationChecks

AttemptOK ==
  /\ sender = "send" => attempt < MaxAttempts
  /\ sender = "backoff" => attempt + 1 < MaxAttempts
  /\ sender \in {"pop", "again", "stopped"} => attempt = 0 /\ hand = {}

CheckOK(c) ==
  /\ Reported(c) => pc[c] = "done" /\ found[c] # {} /\ answer[c] = "ok"
  /\ found[c] # {} => answer[c] # "error" /\ history[c] # "safe"
  /\ pc[c] \in {"new", "findNearby"} => found[c] = {}
  /\ pc[c] \in {"new", "findNearby", "saveHistory"} => history[c] = "none"
  /\ pc[c] # "done" => answer[c] = "none"
  /\ pc[c] = "enqueue" => found[c] # {}

TasksOK ==
  /\ \A k \in 1 .. Len(queue) : queue[k].zones = found[queue[k].check]
  /\ \A t \in hand : t.zones = found[t.check]

StageInv ==
  /\ TypeOK
  /\ AttemptOK
  /\ \A c \in Checks : CheckOK(c)
  /\ TasksOK

(* The worker has one task in hand while it sends. *)
OneInHand ==
  /\ \A s, t \in hand : s = t
  /\ sender \in {"send", "backoff"} => hand # {}

DownStops == phase = "down" => sender = "stopped"

(***************************************************************************)
(* The inductive invariant: nothing is reported of a check before its      *)
(* handler is done, what is reported is what FindNearby returned, and no   *)
(* start finds a worker of the last one.                                   *)
(***************************************************************************)
CheckInv == StageInv /\ DownStops

=============================================================================
