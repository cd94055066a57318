----------------------------- MODULE GuardedTable -----------------------------
(***************************************************************************)
(* The table the API promises, but for the incidents behind a door: a step *)
(* creates, amends or soft-deletes a row as IncidentTable says, or         *)
(* overwrites the row of an incident in doors.                             *)
(***************************************************************************)
EXTENDS IncidentTable

VARIABLE doors

GuardedNext == Next \/ \E id \in doors : Overwrite(id)

GuardedSpec == Init /\ [][GuardedNext]_rows

=============================================================================
