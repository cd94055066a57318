---------------------------- MODULE IncidentPages ----------------------------
(***************************************************************************)
(* GET /api/v1/incidents: a page of the table and the number of its rows,  *)
(* by two statements with a snapshot each, while other requests insert.    *)
(* A client asks for a page with any parameters, or walks: page 1, 2, ...  *)
(* until one is shorter than its limit.  Rows are never removed, and       *)
(* Postgres.Update leaves created_at alone.                                *)
(***************************************************************************)
EXTENDS Integers, SequencesExt

CONSTANTS
  Ids,           \* incidents
  Times,         \* values of created_at
  MaxInt,        \* the largest int, 2^63 - 1
  DefaultLimit,  \* the limit of a request that names none, 10
  WalkLimits     \* limits with which clients walk

ASSUME TableAssumption ==
  /\ IsFiniteSet(Ids)
  /\ Times \subseteq Int
  /\ MaxInt \in Nat
  /\ Cardinality(Ids) + 1 < MaxInt

Ints == (-MaxInt - 1) .. MaxInt

ASSUME LimitAssumption == DefaultLimit \in 1 .. MaxInt /\ WalkLimits \subseteq 1 .. MaxInt

VARIABLES
  rows,  \* rows[id]: created_at of the incident id, which is in the table
  get,   \* the request being served, and its answer
  walk   \* the walk of the client over the pages

vars == <<rows, get, walk>>

Listed == DOMAIN rows

Stage == {"idle", "query", "count", "answered", "rejected", "failed"}

TypeOK ==
  /\ Listed \subseteq Ids
  /\ \A id \in Listed : rows[id] \in Times
  /\ get \in [stage : Stage, page : 1 .. MaxInt, limit : 1 .. MaxInt,
              items : Seq(Ids), total : 0 .. Cardinality(Ids), cut : BOOLEAN]
  /\ walk \in [on : BOOLEAN, page : 1 .. MaxInt, limit : 1 .. MaxInt, start : SUBSET Ids,
               seen : SUBSET Ids, twice : SUBSET Ids, ended : BOOLEAN, cut : BOOLEAN]

NoRequest ==
  [stage |-> "idle", page |-> 1, limit |-> 1, items |-> <<>>, total |-> 0, cut |-> FALSE]

NoWalk ==
  [on |-> FALSE, page |-> 1, limit |-> 1, start |-> {}, seen |-> {}, twice |-> {},
   ended |-> FALSE, cut |-> FALSE]

Init == rows = <<>> /\ get = NoRequest /\ walk = NoWalk

-----------------------------------------------------------------------------
(***************************************************************************)
(* Incidents.Create takes created_at from the clock of the process before  *)
(* the INSERT: rows come in any order of it, and may have the same.        *)
(***************************************************************************)
Insert(id, t) ==
  /\ id \notin Listed
  /\ rows' = [other \in Listed \cup {id} |-> IF other = id THEN t ELSE rows[other]]
  /\ UNCHANGED <<get, walk>>

-----------------------------------------------------------------------------
(* The handler and its statements. *)

PageLenient(p) == IF p < 0 THEN 1 ELSE p

(* What strconv.Atoi left (0 of no number, the nearest int of one too large) is mended. *)
PageOf(p) == IF p < 1 THEN 1 ELSE p

LimitAsAsked(l) == l

LimitOf(l) == IF l < 1 THEN DefaultLimit ELSE l

Request(p, l) ==
  /\ get.stage = "idle"
  /\ get' = [NoRequest EXCEPT !.stage = "query", !.page = PageOf(p), !.limit = LimitOf(l)]
  /\ UNCHANGED <<rows, walk>>

(* int arithmetic. *)
Wrap(n) == ((n + MaxInt + 1) % (2 * (MaxInt + 1))) - MaxInt - 1

OffsetShort(page, limit) == Wrap((page - 1) * (limit - 1))

Offset(page, limit) == Wrap((page - 1) * limit)

Unordered == SetToSeqs(Listed)

(* ORDER BY created_at DESC: rows with the same created_at come in any order. *)
Ordered ==
  {s \in SetToSeqs(Listed) :
     \A i, j \in DOMAIN s : i < j => rows[s[i]] >= rows[s[j]]}

(* LIMIT limit OFFSET offset. *)
Slice(s, limit, offset) == SubSeq(s, offset + 1, Min({offset + limit, Len(s)}))

(***************************************************************************)
(* The first statement.  Postgres rejects a negative OFFSET.  The loop     *)
(* ends where the connection does, and rows.Err() is not asked: a page     *)
(* that was cut short goes on like a whole one.                            *)
(***************************************************************************)
Query ==
  /\ get.stage = "query"
  /\ LET offset == Offset(get.page, get.limit)
     IN IF offset < 0
        THEN get' = [get EXCEPT !.stage = "rejected"]
        ELSE \E s \in Ordered :
               LET page == Slice(s, get.limit, offset)
               IN \E n \in 0 .. Len(page) :
                    get' = [get EXCEPT !.stage = "count", !.items = SubSeq(page, 1, n),
                                       !.cut = n < Len(page)]
  /\ UNCHANGED <<rows, walk>>

(* The second statement sees what was inserted meanwhile. *)
Count ==
  /\ get.stage = "count"
  /\ get' = [get EXCEPT !.stage = "answered", !.total = Cardinality(Listed)]
  /\ UNCHANGED <<rows, walk>>

(* Either statement may fail: the answer is 500. *)
Fail ==
  /\ get.stage \in {"query", "count"}
  /\ get' = [get EXCEPT !.stage = "failed"]
  /\ UNCHANGED <<rows, walk>>

-----------------------------------------------------------------------------
(* The client. *)

Ask(p, l) == ~walk.on /\ Request(p, l)

StartWalk(limit) ==
  /\ ~walk.on
  /\ get.stage = "idle"
  /\ walk' = [NoWalk EXCEPT !.on = TRUE, !.limit = limit, !.start = Listed]
  /\ UNCHANGED <<rows, get>>

NextPage == walk.on /\ ~walk.ended /\ Request(walk.page, walk.limit)

(* A page ends the walk if it is short; an error breaks it off. *)
Receive ==
  /\ get.stage \in {"answered", "rejected", "failed"}
  /\ get' = NoRequest
  /\ walk' =
       IF ~walk.on THEN walk
       ELSE IF get.stage # "answered" THEN NoWalk
       ELSE [walk EXCEPT !.page = @ + 1,
                         !.seen = @ \cup Range(get.items),
                         !.twice = @ \cup (walk.seen \cap Range(get.items)),
                         !.ended = Len(get.items) < walk.limit,
                         !.cut = @ \/ get.cut]
  /\ UNCHANGED rows

EndWalk == walk.ended /\ walk' = NoWalk /\ UNCHANGED <<rows, get>>

Next ==
  \/ \E id \in Ids, t \in Times : Insert(id, t)
  \/ \E p \in Ints, l \in Ints : Ask(p, l)
  \/ \E l \in WalkLimits : StartWalk(l)
  \/ Query \/ Count \/ Fail
  \/ NextPage \/ Receive \/ EndWalk

Spec == Init /\ [][Next]_vars

-----------------------------------------------------------------------------
Tied(id) == \E other \in Listed \ {id} : rows[other] = rows[id]

(***************************************************************************)
(* A walk that ends has met every incident that was there when it began,   *)
(* however many are inserted meanwhile and wherever, but for those that    *)
(* share their created_at and for a page that was cut short.               *)
(***************************************************************************)
WalkMissesNothing ==
  walk.ended => walk.cut \/ \A id \in walk.start \ walk.seen : Tied(id)

(***************************************************************************)
(* An incident appears on two pages of a walk only if an incident was      *)
(* inserted since it began, or if it shares its created_at.                *)
(***************************************************************************)
WalkRepeatsOnlyAfterInserts ==
  walk.on /\ walk.start = Listed => \A id \in walk.twice : Tied(id)

Fits == (get.page - 1) * get.limit <= MaxInt

(***************************************************************************)
(* As long as (page-1)*limit fits an int, no parameters are rejected, an   *)
(* answer has only rows from where they point to, and the total is never   *)
(* behind the page although it is counted later.                           *)
(***************************************************************************)
PagesAreHonest ==
  Fits =>
    /\ get.stage # "rejected"
    /\ get.stage = "answered" =>
         /\ Len(get.items) <= get.limit
         /\ get.items # <<>> => (get.page - 1) * get.limit + Len(get.items) <= get.total

=============================================================================
