---------------------------- MODULE IncidentTable ----------------------------
(***************************************************************************)
(* What the API promises about one incident, whatever the machinery below: *)
(* a row is created active, may be amended any number of times, and is     *)
(* soft-deleted at most once; nothing removes a row and nothing brings a   *)
(* soft-deleted one back.  The service keeps that (Spec) as long as no two *)
(* requests meet and nothing fails; GuardedTable says how far it does      *)
(* otherwise.  LooseSpec drops the last clause only: a row may be          *)
(* overwritten by any record of the same incident.                         *)
(***************************************************************************)
EXTENDS Domain

VARIABLE rows

Init == rows = [id \in Ids |-> None]

Create(id) ==
  /\ rows[id] = None
  /\ \E b \in Bodies : rows' = [rows EXCEPT ![id] = NewIncident(id, b)]

Amend(id) ==
  /\ rows[id] # None
  /\ \E b \in Bodies : rows' = [rows EXCEPT ![id] = Updated(rows[id], b)]

Deactivate(id) ==
  /\ rows[id] # None
  /\ rows' = [rows EXCEPT ![id].active = FALSE]

Overwrite(id) ==
  /\ rows[id] # None
  /\ \E i \in Incident : i.id = id /\ rows' = [rows EXCEPT ![id] = i]

Next == \E id \in Ids : Create(id) \/ Amend(id) \/ Deactivate(id)

Spec == Init /\ [][Next]_rows

LooseNext == \E id \in Ids : Create(id) \/ Overwrite(id)

LooseSpec == Init /\ [][LooseNext]_rows

=============================================================================
