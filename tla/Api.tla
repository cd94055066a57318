---------------------------------- MODULE Api ----------------------------------
(***************************************************************************)
(* The HTTP interface (internal/web): which requests are refused, in which *)
(* order and with which status, and how the errors of the services become  *)
(* answers.  Of a request only its flaws are kept.  Requests come one at a *)
(* time; what the services do beneath, and overlapping requests, is in     *)
(* Incidents, LocationChecks and IncidentPages.                            *)
(***************************************************************************)
EXTENDS Domain, CheckStats, Sequences

(***************************************************************************)
(* What may be wrong with a request: the key is missing or not AUTH_APIKEY *)
(* (none is right if that is empty), an id is no uuid, the body is no JSON *)
(* of the DTO, a value is out of its range; or ("fit") every check of the  *)
(* service lets it pass and Postgres does not: a type longer than its      *)
(* VARCHAR(50), a NUL in a text, a title longer than VARCHAR(255) where    *)
(* INCIDENT_TITLEMAXLENGTH allows one, a page with a negative OFFSET.      *)
(***************************************************************************)
Flaw == {"key", "id", "form", "value", "fit"}

Route == {"create", "list", "get", "put", "delete", "stats", "check", "health"}

VARIABLES
  table,  \* the incidents
  reply   \* the last request and its answer

vars == <<statsVars, table, reply>>

NoReply == [status |-> 0]

TypeOK ==
  /\ StatsTypeOK
  /\ table \in [Ids -> Incident \cup {None}]
  /\ \/ reply = NoReply
     \/ reply \in [route : Route, flaws : SUBSET Flaw, unknown : BOOLEAN,
                   failed : BOOLEAN,
                   status : {200, 201, 204, 400, 401, 404, 500, 503}]

Init ==
  /\ StatsInit
  /\ table = [id \in Ids |-> None]
  /\ reply = NoReply

(* failed: a call of a store did not succeed, whether or not it was carried out. *)
Reply(route, flaws, unknown, failed, status) ==
  reply' = [route |-> route, flaws |-> flaws, unknown |-> unknown, failed |-> failed,
            status |-> status]

-----------------------------------------------------------------------------
(* What a handler checks before it calls a store, in order. *)

Check(flaw, status) == [flaw |-> flaw, status |-> status]

AuthForbidding == Check("key", 403)

AuthMiddleware == Check("key", 401)

CreateChecks == <<AuthMiddleware, Check("form", 400), Check("value", 400)>>

ListChecks == <<AuthMiddleware>>

GetChecks == <<AuthMiddleware, Check("id", 400)>>

PutChecksPublic == <<Check("id", 400), Check("form", 400), Check("value", 400)>>

PutChecks == <<AuthMiddleware, Check("id", 400), Check("form", 400), Check("value", 400)>>

DeleteChecks == <<AuthMiddleware, Check("id", 400)>>

(* Location.Check of the handler answers an error of validateInput like any other. *)
ValidateInput == <<Check("form", 400), Check("id", 500), Check("value", 500)>>

Refuse(route, checks, flaws) ==
  \E k \in DOMAIN checks :
    /\ checks[k].flaw \in flaws
    /\ \A j \in 1 .. k - 1 : checks[j].flaw \notin flaws
    /\ Reply(route, flaws, FALSE, FALSE, checks[k].status)
    /\ UNCHANGED <<statsVars, table>>

Passes(checks, flaws) == \A k \in DOMAIN checks : checks[k].flaw \notin flaws

-----------------------------------------------------------------------------
(* The handlers, once the checks are passed. *)

(***************************************************************************)
(* Postgres refuses the statement, if it is reached: an error of the       *)
(* database like any other, and no validation error.                       *)
(***************************************************************************)
Unfit(route, flaws, unknown) ==
  /\ "fit" \in flaws
  /\ \E failed \in BOOLEAN : Reply(route, flaws, unknown, failed, 500)
  /\ UNCHANGED <<statsVars, table>>

CreateIncident(id, b, flaws) ==
  /\ table[id] = None
  /\ \/ /\ \E cacheFailed \in BOOLEAN : Reply("create", flaws, FALSE, cacheFailed, 201)
        /\ table' = [table EXCEPT ![id] = NewIncident(id, b)]
     \/ /\ Reply("create", flaws, FALSE, TRUE, 500)
        /\ table' \in {table, [table EXCEPT ![id] = NewIncident(id, b)]}
  /\ UNCHANGED statsVars

Unknown(id) == table[id] = None

(* Query and count. *)
GetAllIncidents(flaws) ==
  /\ Reply("list", flaws, FALSE, FALSE, 200) \/ Reply("list", flaws, FALSE, TRUE, 500)
  /\ UNCHANGED <<statsVars, table>>

GetIncidentByID(id, flaws) ==
  /\ \/ \E cacheFailed \in BOOLEAN :
          Reply("get", flaws, Unknown(id), cacheFailed, IF Unknown(id) THEN 404 ELSE 200)
     \/ Reply("get", flaws, Unknown(id), TRUE, 500)
  /\ UNCHANGED <<statsVars, table>>

(* ErrIncidentNotFound is no validation error: PUT answers it with 500. *)
PutIncident(id, b, flaws) ==
  /\ \/ /\ Unknown(id)
        /\ \E failed \in BOOLEAN : Reply("put", flaws, TRUE, failed, 500)
        /\ UNCHANGED table
     \/ /\ ~Unknown(id)
        /\ \E cacheFailed \in BOOLEAN : Reply("put", flaws, FALSE, cacheFailed, 200)
        /\ table' = [table EXCEPT ![id] = Updated(@, b)]
     \/ /\ ~Unknown(id)
        /\ Reply("put", flaws, FALSE, TRUE, 500)
        /\ table' \in {table, [table EXCEPT ![id] = Updated(@, b)]}
  /\ UNCHANGED statsVars

Deactivated(id) == IF Unknown(id) THEN table ELSE [table EXCEPT ![id].active = FALSE]

(* Postgres.Delete does not tell whether there was a row. *)
DeleteIncident(id, flaws) ==
  /\ \/ Reply("delete", flaws, Unknown(id), FALSE, 204) /\ table' = Deactivated(id)
     \/ Reply("delete", flaws, Unknown(id), TRUE, 500) /\ table' \in {table, Deactivated(id)}
  /\ UNCHANGED statsVars

(* AuthMiddleware is registered after this route, and does not guard it. *)
Stats ==
  /\ Reply("stats", {}, FALSE, FALSE, 200) \/ Reply("stats", {}, FALSE, TRUE, 500)
  /\ UNCHANGED <<statsVars, table>>

(* A history row or a task that could not be written is only logged. *)
CheckLocation(u, flaws) ==
  /\ \/ /\ \E taskFailed \in BOOLEAN : Reply("check", flaws, FALSE, taskFailed, 200)
        /\ SaveCheck(u)
     \/ /\ \E status \in {200, 500} : Reply("check", flaws, FALSE, TRUE, status)
        /\ UNCHANGED history
  /\ UNCHANGED <<clock, zone, table>>

(* System.Health: two pings. *)
HealthStatus(up) == [database |-> "postgres" \in up, redis |-> "redis" \in up]

Health ==
  /\ \E up \in SUBSET {"postgres", "redis"} :
       LET status == HealthStatus(up)
           ok == status.database /\ status.redis
       IN Reply("health", {}, FALSE, ~ok, IF ok THEN 200 ELSE 503)
  /\ UNCHANGED <<statsVars, table>>

Create ==
  \E flaws \in SUBSET {"key", "form", "value", "fit"} :
    \/ Refuse("create", CreateChecks, flaws)
    \/ Passes(CreateChecks, flaws) /\ Unfit("create", flaws, FALSE)
    \/ /\ Passes(CreateChecks, flaws) /\ "fit" \notin flaws
       /\ \E id \in Ids, b \in Bodies : CreateIncident(id, b, flaws)

List ==
  \E flaws \in SUBSET {"key", "fit"} :
    \/ Refuse("list", ListChecks, flaws)
    \/ Passes(ListChecks, flaws) /\ Unfit("list", flaws, FALSE)
    \/ Passes(ListChecks, flaws) /\ "fit" \notin flaws /\ GetAllIncidents(flaws)

Get ==
  \E flaws \in SUBSET {"key", "id"} :
    \/ Refuse("get", GetChecks, flaws)
    \/ Passes(GetChecks, flaws) /\ \E id \in Ids : GetIncidentByID(id, flaws)

Put ==
  \E flaws \in SUBSET Flaw :
    \/ Refuse("put", PutChecks, flaws)
    \/ Passes(PutChecks, flaws) /\ \E id \in Ids : Unfit("put", flaws, Unknown(id))
    \/ /\ Passes(PutChecks, flaws) /\ "fit" \notin flaws
       /\ \E id \in Ids, b \in Bodies : PutIncident(id, b, flaws)

DeleteUnaborted ==
  \E flaws \in SUBSET {"key", "id"}, id \in Ids :
    \/ /\ "key" \in flaws
       /\ Reply("delete", flaws, FALSE, FALSE, 401)
       /\ table' = Deactivated(id)
       /\ UNCHANGED statsVars
    \/ "key" \notin flaws /\ Refuse("delete", DeleteChecks, flaws)
    \/ Passes(DeleteChecks, flaws) /\ DeleteIncident(id, flaws)

Delete ==
  \E flaws \in SUBSET {"key", "id"} :
    \/ Refuse("delete", DeleteChecks, flaws)
    \/ Passes(DeleteChecks, flaws) /\ \E id \in Ids : DeleteIncident(id, flaws)

CheckRoute ==
  \E flaws \in SUBSET {"id", "form", "value"} :
    \/ Refuse("check", ValidateInput, flaws)
    \/ Passes(ValidateInput, flaws) /\ \E u \in Users : CheckLocation(u, flaws)

TimePasses == Tick /\ UNCHANGED <<table, reply>>

Next == Create \/ List \/ Get \/ Put \/ Delete \/ Stats \/ CheckRoute \/ Health \/ TimePasses

Spec == Init /\ [][Next]_vars

-----------------------------------------------------------------------------
(* The statuses the annotations of the handlers list. *)
Documented ==
  [create |-> {201, 400, 500}, list |-> {200, 500}, get |-> {200, 400, 404, 500},
   put |-> {200, 400, 404, 500}, delete |-> {204, 400, 404, 500}, stats |-> {200, 500},
   check |-> {200, 400, 500}, health |-> {200, 500}]

Refused == reply.status \in 400 .. 499

Done == reply.status \in 200 .. 299

(***************************************************************************)
(* Every answer has a status that the API documentation lists for its      *)
(* route, but for the 401 of a missing key and the 503 of a degraded       *)
(* system.                                                                 *)
(***************************************************************************)
DocumentedAnswers ==
  reply # NoReply =>
    \/ reply.status \in Documented[reply.route]
    \/ reply.status = 401 /\ "key" \in reply.flaws
    \/ reply.status = 503 /\ reply.route = "health"

(* The answers that blame the wrong side, or nobody. *)
Misjudged ==
  \/ reply.route = "check" /\ reply.flaws \cap {"id", "value"} # {} /\ "form" \notin reply.flaws
  \/ reply.route \in {"put", "delete"} /\ reply.flaws = {} /\ reply.unknown
  \/ reply.flaws = {"fit"}

(***************************************************************************)
(* The client is refused for its own fault and for no other reason: a      *)
(* flawed request gets a 4xx, a flawless one fails only if a store does,   *)
(* and an incident nobody knows is not found.  Where the code judges       *)
(* otherwise it never blames the client: it answers 500 for a PUT of an    *)
(* unknown incident, for a check with an id or a position that is none,    *)
(* and for values of a POST, a PUT or a page that only Postgres refuses,   *)
(* and 204 (or 500) for a DELETE of an unknown incident.                   *)
(***************************************************************************)
BlameIsRight ==
  reply # NoReply =>
    IF Misjudged THEN reply.status = 500 \/ (reply.status = 204 /\ reply.route = "delete")
    ELSE IF reply.flaws # {} THEN Refused
    ELSE IF reply.unknown THEN reply.status = 404 \/ reply.failed
    ELSE Done \/ (reply.failed /\ reply.status \in {500, 503})

Known == {id \in Ids : ~Unknown(id)}

(***************************************************************************)
(* The annotation of GetStats: "returns the total number of incidents",    *)
(* all of them or the active ones.  What it returns is the number of users *)
(* who checked their location lately, as the README says.                  *)
(***************************************************************************)
StatsCountIncidents ==
  [][Stats /\ reply'.status = 200 =>
       GetStats \in {Cardinality(Known), Cardinality({id \in Known : table[id].active})}]_vars

(***************************************************************************)
(* A request that is refused, by the middleware or by its handler, has     *)
(* changed neither store.                                                  *)
(***************************************************************************)
RefusedChangesNothing ==
  [][clock' = clock /\ Refused' => UNCHANGED <<table, history>>]_vars

=============================================================================
