----------------------------- MODULE AlertLosses -----------------------------
(***************************************************************************)
(* Where can an alert be lost?  Failures on its way are only logged, so    *)
(* nothing but the state of the stores and of the receiver tells.  This    *)
(* module adds to LocationChecks the auxiliary variables                   *)
(*   pushed[c]    tasks about c that reached the list,                     *)
(*   missed       checks whose push failed, with Redis or with a client    *)
(*                that had left,                                           *)
(*   sent[c]      calls of Sender.Send about c,                            *)
(*   accepted[c]  those of them that the receiver answered with a 200,     *)
(*   lost[c]      tasks about c that went through one of the doors below,  *)
(*   stopLosses   tasks lost since StopQueue was last called,              *)
(* and states that nothing is lost in any other way.                       *)
(***************************************************************************)
EXTENDS LocationChecksInv

VARIABLES pushed, missed, sent, accepted, lost, stopLosses

auxVars == <<pushed, missed, sent, accepted, lost, stopLosses>>
allVars == <<vars, auxVars>>

(* A BRPOP that failed or was cancelled has taken a task the worker has not got. *)
PopLoses(c) ==
  /\ ~up["redis"] \/ stopping
  /\ InList(c)' < InList(c)
  /\ hand = {} /\ hand' = {}

(* The stop cancels the pause before the next attempt. *)
StopLoses(c) == sender = "backoff" /\ stopping /\ hand' = {} /\ InHand(c) = 1

(* The process dies with the task in the worker's hand. *)
CrashLoses(c) == phase # "down" /\ phase' = "down" /\ InHand(c) = 1

Loses(c) == PopLoses(c) \/ StopLoses(c) \/ CrashLoses(c)

(* EnqueueLocationCheck meets a failing Redis, or a client that has left. *)
PushFails(c) ==
  /\ pc[c] = "enqueue" /\ answer'[c] = "ok"
  /\ ~up["redis"] \/ cancelled'[c]
  /\ InList(c)' = InList(c)

Calls(c) == sender = "send" /\ sender' # "send" /\ phase' = phase /\ InHand(c) = 1

LInit ==
  /\ Init
  /\ pushed = [c \in Checks |-> 0]
  /\ missed = {}
  /\ sent = [c \in Checks |-> 0]
  /\ accepted = [c \in Checks |-> 0]
  /\ lost = [c \in Checks |-> 0]
  /\ stopLosses = 0

Account ==
  /\ pushed' = [c \in Checks |->
       pushed[c] + IF InList(c)' > InList(c) THEN InList(c)' - InList(c) ELSE 0]
  /\ missed' = missed \cup {c \in Checks : PushFails(c)}
  /\ sent' = [c \in Checks |-> sent[c] + IF Calls(c) THEN 1 ELSE 0]
  /\ accepted' = [c \in Checks |-> accepted[c] + IF Calls(c) /\ receiving THEN 1 ELSE 0]
  /\ lost' = [c \in Checks |-> lost[c] + IF Loses(c) THEN 1 ELSE 0]
  /\ stopLosses' = IF ~stopping THEN 0
                   ELSE stopLosses + Cardinality({c \in Checks : Loses(c)})

LNext == Next /\ Account

LSpec == LInit /\ [][LNext]_allVars

-----------------------------------------------------------------------------
(* The tasks that are waiting, in work, lost by a door, or accepted with a 200. *)
Known(c) == InList(c) + InHand(c) + lost[c] + accepted[c]

(***************************************************************************)
(* Whoever was answered that he is in danger has a task in the list, but   *)
(* for a push that met a failing Redis or a client that had left; and of   *)
(* the tasks pushed, every one that is not known has been sent in vain as  *)
(* often as the retry strategy says, by calls that got no 200.             *)
(***************************************************************************)
NothingVanishes ==
  \A c \in Checks :
    /\ answer[c] = "ok" /\ found[c] # {} => pushed[c] > 0 \/ c \in missed
    /\ Known(c) <= pushed[c]
    /\ sent[c] >= accepted[c] + MaxAttempts * (pushed[c] - Known(c))

(***************************************************************************)
(* What was sent and what may still be sent about a check stays within     *)
(* MaxAttempts POSTs for every task pushed: nothing restarts the count.    *)
(***************************************************************************)
AttemptsWithinBudget ==
  \A c \in Checks :
    /\ delivered[c] <= sent[c]
    /\ sent[c] + Credit(c) <= MaxAttempts * pushed[c]

(***************************************************************************)
(* StopQueue loses at most the one task the worker has to do with: the     *)
(* rest of the list stays in Redis for the next start.                     *)
(***************************************************************************)
StopLosesAtMostOne == stopLosses <= 1

=============================================================================
