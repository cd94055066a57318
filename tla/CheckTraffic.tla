---------------------------- MODULE CheckTraffic ----------------------------
(***************************************************************************)
(* LocationChecks under traffic that does not end: clients ask again and   *)
(* again, and every request is a new check.  The checks of this module are *)
(* the places a check takes; a place whose check is over, and of which no  *)
(* task is left in the list or in the worker's hand, takes the next one.   *)
(***************************************************************************)
EXTENDS LocationChecks

(* The next request: location_service.go gives every check an id of its own. *)
Renew(c) ==
  /\ pc[c] = "done"
  /\ ~Waiting(c) /\ \A t \in hand : t.check # c
  /\ inside' = [inside EXCEPT ![c] = {}]
  /\ pc' = [pc EXCEPT ![c] = "new"]
  /\ cancelled' = [cancelled EXCEPT ![c] = FALSE]
  /\ found' = [found EXCEPT ![c] = {}]
  /\ answer' = [answer EXCEPT ![c] = "none"]
  /\ history' = [history EXCEPT ![c] = "none"]
  /\ delivered' = [delivered EXCEPT ![c] = 0]
  /\ UNCHANGED <<up, queue, workerVars, stopping, receiving, phase>>

TrafficNext == Next \/ \E c \in Checks : Renew(c)

(* The clients owe nothing. *)
FairTrafficSpec == Init /\ [][TrafficNext]_vars /\ Fairness

-----------------------------------------------------------------------------
(* Every accepted check is answered (or dies with the process). *)
ChecksFinish == \A c \in Checks : Running(c) ~> pc[c] = "done"

(* A graceful stop ends, whatever the stores and the receiver do. *)
StopEnds == phase = "draining" ~> phase = "down"

(***************************************************************************)
(* With Redis answering and the process up for good, the list empties once *)
(* nobody pushes any more, though clients go on asking from safe places.   *)
(* The premise is needed: BRPOP takes the end that RPUSH writes to, and    *)
(* the oldest task waits as long as newer ones come (DangerReachesPortal). *)
(***************************************************************************)
QueueDrains ==
  <>[](up["redis"] /\ phase = "serving" /\ \A c \in Checks : pc[c] # "enqueue")
    => <>[](queue = <<>> /\ hand = {})

Failing == ~up["redis"] \/ ~receiving \/ phase # "serving"

(* Other checks go on meeting danger, so that newer alerts come for ever. *)
Starved(c) == []<>(\E d \in Checks \ {c} : pc[d] = "enqueue")

(***************************************************************************)
(* From the moment a check has met danger, it is reported to the receiver, *)
(* whether its history is saved or not, with these exceptions: Redis, the  *)
(* receiver or the process fails before it is; the client leaves, whose    *)
(* context goes as far as the push; or newer alerts come for ever, which   *)
(* the worker takes first.                                                 *)
(***************************************************************************)
DangerIsReported ==
  \A c \in Checks :
    \/ pc[c] = "saveHistory" /\ found[c] # {} ~> delivered[c] > 0 \/ cancelled[c] \/ Failing
    \/ Starved(c)

(***************************************************************************)
(* README.md: a user in a dangerous zone is reported to the news portal at *)
(* once.  In these behaviours nothing fails and nobody leaves.             *)
(***************************************************************************)
DangerReachesPortal ==
  \A c \in Checks : answer[c] = "ok" /\ found[c] # {} ~> delivered[c] > 0

=============================================================================
