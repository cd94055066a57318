------------------------------- MODULE Stores -------------------------------
(***************************************************************************)
(* The two network stores of the service, Postgres (through pgxpool) and   *)
(* Redis (through go-redis), as the code in internal/ sees them: every     *)
(* call is made under context.WithTimeout and comes back with a result or  *)
(* an error, and an error does not say whether the store did the work.     *)
(***************************************************************************)

CONSTANT Disturbances   \* what may go wrong in the behaviours considered

ASSUME DisturbancesAssumption ==
  Disturbances \subseteq {"redis", "postgres", "client", "receiver", "process"}

VARIABLE up             \* up[s]: store s answers within the call timeouts

Store == {"redis", "postgres"}

(***************************************************************************)
(* How a call ends.  "ok": executed and answered.  "failed": an error, and *)
(* the store has not executed the command.  "lost": an error although the  *)
(* store has executed it (the answer came too late, or to nobody).         *)
(***************************************************************************)
Outcome == {"ok", "failed", "lost"}

Outcomes(s) == IF up[s] THEN {"ok"} ELSE {"failed", "lost"}

Executed(o) == o # "failed"

(***************************************************************************)
(* Outcome o of a call to store s made for a request; gone and gone2 tell  *)
(* whether the request's context is done when the call starts and when it  *)
(* comes back.  Both clients give up at once on a context that is done; a  *)
(* context that becomes done during the call leaves open whether the store *)
(* executes it.                                                            *)
(***************************************************************************)
CallEnds(s, o, gone, gone2) ==
  \/ ~gone /\ ~gone2 /\ o \in Outcomes(s)
  \/ gone /\ gone2 /\ o = "failed"
  \/ ~gone /\ gone2 /\ "client" \in Disturbances /\ o \in {"failed", "lost"}

StoresInit == up = [s \in Store |-> TRUE]

Degrade(s) ==
  /\ s \in Disturbances
  /\ up[s]
  /\ up' = [up EXCEPT ![s] = FALSE]

Recover(s) ==
  /\ ~up[s]
  /\ up' = [up EXCEPT ![s] = TRUE]

=============================================================================
