---------------------------- MODULE AlertLossesInv ----------------------------
(***************************************************************************)
(* The inductive invariant of AlertLosses: the account of every check, and *)
(* what a stop has lost so far.                                            *)
(***************************************************************************)
EXTENDS AlertLosses

AccountTypes ==
  /\ pushed \in [Checks -> Nat]
  /\ missed \in SUBSET Checks
  /\ sent \in [Checks -> Nat]
  /\ accepted \in [Checks -> Nat]
  /\ lost \in [Checks -> Nat]
  /\ stopLosses \in Nat

(* The attempts made for the tasks about c and those still to be made. *)
Owed(c) == sent[c] + Credit(c)

(* Nothing is sent beyond the account. *)
Balanced(c) ==
  /\ delivered[c] <= sent[c]
  /\ Owed(c) <= MaxAttempts * pushed[c]

(* The tasks of which every attempt was in vain. *)
GivenUp(c) == pushed[c] - Known(c)

(* The calls without a 200 for the tasks given up and for the one in hand. *)
Traced(c) ==
  /\ GivenUp(c) >= 0
  /\ sent[c] >= accepted[c] + MaxAttempts * GivenUp(c) + Used * InHand(c)

(* An answer of danger comes from a handler that has pushed, or has failed to. *)
Pushed(c) == answer[c] = "ok" /\ found[c] # {} => pushed[c] > 0 \/ c \in missed

(* A check is pushed by one call of EnqueueLocationCheck, its handler's last. *)
PushedOnce(c) ==
  /\ pushed[c] <= MaxResends + 1
  /\ pc[c] # "done" => pushed[c] = 0

(* A worker that has lost a task to a stop has ended, or is about to. *)
StopOK ==
  /\ stopLosses <= 1
  /\ stopping /\ stopLosses > 0 => sender \in {"again", "stopped"}

(***************************************************************************)
(* The inductive invariant: the account of every check is balanced, and a  *)
(* stop that has lost its one task has nothing more to lose.               *)
(***************************************************************************)
AccountInv ==
  /\ AccountTypes
  /\ OneInHand
  /\ \A c \in Checks : Balanced(c) /\ Traced(c) /\ Pushed(c) /\ PushedOnce(c)
  /\ StopOK

=============================================================================
