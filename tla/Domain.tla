------------------------------- MODULE Domain -------------------------------
(***************************************************************************)
(* The incident of internal/domain/incident.go, as the stores see it: its  *)
(* id, its IsActive flag and a body that stands for the fields a request   *)
(* supplies (title, description, position, radius, severity and type).     *)
(***************************************************************************)

CONSTANTS Ids, Bodies, None

Incident == [id : Ids, body : Bodies, active : BOOLEAN]

ASSUME NoneAssumption == None \notin Incident \cup Ids \cup Bodies

(* domain.NewIncident: a new incident is active. *)
NewIncident(id, b) == [id |-> id, body |-> b, active |-> TRUE]

(* domain.Incident.Update: overwrites the supplied fields, never IsActive. *)
Updated(i, b) == [i EXCEPT !.body = b]

IsActive(row) == row # None /\ row.active

=============================================================================
