---------------------------- MODULE AlertPromise ----------------------------
(***************************************************************************)
(* What the service promises about the alerts of a location check, be they *)
(* carried by whatever list, worker and retries.  A check gets one verdict *)
(* and at most one row of history, which agree.  A verdict of danger comes *)
(* with a credit of POSTs; every POST takes from it, failures and stops    *)
(* may take more, and nothing ever adds to it.                             *)
(***************************************************************************)
EXTENDS Naturals, TLAPS

CONSTANTS
  Checks,
  Budget     \* the most POSTs a check may be worth

VARIABLES
  verdict,   \* verdict[c]: "none" yet, an "error", "safe" or "danger"
  record,    \* record[c]: the row of the history, "none", "safe" or "danger"
  credit,    \* credit[c]: the POSTs about c still to be made
  reports    \* reports[c]: the POSTs about c that reached the receiver

promiseVars == <<verdict, record, credit, reports>>

Init ==
  /\ verdict = [c \in Checks |-> "none"]
  /\ record = [c \in Checks |-> "none"]
  /\ credit = [c \in Checks |-> 0]
  /\ reports = [c \in Checks |-> 0]

Conclude(c, v) ==
  /\ verdict[c] = "none"
  /\ verdict' = [verdict EXCEPT ![c] = v]

Fail(c) ==
  /\ record[c] = "none"
  /\ Conclude(c, "error")
  /\ UNCHANGED <<record, credit, reports>>

(* A safe check may miss its row, when the table could not be written. *)
Reassure(c) ==
  /\ record[c] = "none"
  /\ Conclude(c, "safe")
  /\ record' \in {record, [record EXCEPT ![c] = "safe"]}
  /\ UNCHANGED <<credit, reports>>

(* The row of a check in danger comes before its verdict, if it comes. *)
RecordDanger(c) ==
  /\ verdict[c] = "none" /\ record[c] = "none"
  /\ record' = [record EXCEPT ![c] = "danger"]
  /\ UNCHANGED <<verdict, credit, reports>>

Alarm(c) ==
  /\ record[c] # "safe"
  /\ Conclude(c, "danger")
  /\ \E n \in 0 .. Budget : credit' = [credit EXCEPT ![c] = n]
  /\ UNCHANGED <<record, reports>>

(* Some of the credit is used up, by a POST that arrives or in vain. *)
Spend(c) ==
  /\ verdict[c] = "danger" /\ record[c] # "safe"
  /\ \E n \in 0 .. credit[c] :
       /\ n < credit[c]
       /\ credit' = [credit EXCEPT ![c] = n]
  /\ \E n \in {0, 1} : reports' = [reports EXCEPT ![c] = @ + n]
  /\ UNCHANGED <<verdict, record>>

Next ==
  \E c \in Checks : Fail(c) \/ Reassure(c) \/ RecordDanger(c) \/ Alarm(c) \/ Spend(c)

Spec == Init /\ [][Next]_promiseVars

-----------------------------------------------------------------------------
WithinBudget == \A c \in Checks : reports[c] + credit[c] <= Budget

(* What a receiver hears about a check has been told to the user and recorded. *)
Truthful ==
  \A c \in Checks : reports[c] > 0 => verdict[c] = "danger" /\ record[c] # "safe"

-----------------------------------------------------------------------------
(* Proofs. *)

(* The inductive invariant: no credit and no report before the verdict. *)
PromiseInv ==
  /\ verdict \in [Checks -> {"none", "error", "safe", "danger"}]
  /\ record \in [Checks -> {"none", "safe", "danger"}]
  /\ credit \in [Checks -> Nat]
  /\ reports \in [Checks -> Nat]
  /\ \A c \in Checks :
       /\ verdict[c] # "danger" => reports[c] = 0 /\ credit[c] = 0
       /\ verdict[c] = "danger" => record[c] # "safe"
       /\ reports[c] + credit[c] <= Budget

LEMMA PromiseStep ==
  ASSUME Budget \in Nat, PromiseInv, [Next]_promiseVars
  PROVE  PromiseInv'
<1>1. CASE UNCHANGED promiseVars
  BY <1>1 DEF promiseVars, PromiseInv
<1>2. ASSUME NEW c \in Checks, Fail(c) \/ Reassure(c) \/ RecordDanger(c)
      PROVE  PromiseInv'
  BY <1>2 DEF Fail, Reassure, RecordDanger, Conclude, PromiseInv
<1>3. ASSUME NEW c \in Checks, Alarm(c) PROVE PromiseInv'
  BY <1>3 DEF Alarm, Conclude, PromiseInv
<1>4. ASSUME NEW c \in Checks, Spend(c) PROVE PromiseInv'
  BY <1>4 DEF Spend, PromiseInv
<1> QED
  BY <1>1, <1>2, <1>3, <1>4 DEF Next

LEMMA PromiseInvariance == ASSUME Budget \in Nat PROVE Spec => []PromiseInv
<1>1. Init => PromiseInv
  BY DEF Init, PromiseInv
<1>2. PromiseInv /\ [Next]_promiseVars => PromiseInv'
  BY PromiseStep
<1> QED
  BY <1>1, <1>2, PTL DEF Spec

(* The reports of a check and those still to come are never more than it is worth. *)
THEOREM BudgetKept == ASSUME Budget \in Nat PROVE Spec => []WithinBudget
<1>1. PromiseInv => WithinBudget
  BY DEF PromiseInv, WithinBudget
<1> QED
  BY <1>1, PromiseInvariance, PTL

(* Only a check that met danger is reported, and never against its record. *)
THEOREM ReportsTruthful == ASSUME Budget \in Nat PROVE Spec => []Truthful
<1>1. PromiseInv => Truthful
  BY DEF PromiseInv, Truthful
<1> QED
  BY <1>1, PromiseInvariance, PTL

=============================================================================
