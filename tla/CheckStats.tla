------------------------------ MODULE CheckStats ------------------------------
(***************************************************************************)
(* The history of the location checks and its one report, the number of    *)
(* users who checked their location within STATS_TIME_WINDOW_MINUTES.      *)
(* created_at is a TIMESTAMP without time zone: pgx writes the wall clock  *)
(* of the process, and Postgres reads it in the time zone of the session.  *)
(* The application runs beside the containers, in the zone of its host,    *)
(* which may also change with the season.                                  *)
(***************************************************************************)
EXTENDS Integers, FiniteSetsExt

CONSTANTS
  Users,
  Window,      \* STATS_TIME_WINDOW_MINUTES
  Zones,       \* offsets the zone of the process may have
  DBZone,      \* the offset of the session of Postgres
  MaxClock,    \* bound on the clock
  MaxHistory   \* bound on the rows

ASSUME StatsAssumption ==
  /\ Zones \subseteq Int /\ DBZone \in Int
  /\ Window \in Nat /\ MaxClock \in Nat /\ MaxHistory \in Nat

VARIABLES
  clock,    \* the time
  zone,     \* the offset of the zone of the process
  history   \* location_check_history, with the instant made of each check

statsVars == <<clock, zone, history>>

Now == 0 .. MaxClock

StatsTypeOK ==
  /\ clock \in Now
  /\ zone \in Zones
  /\ history \subseteq [user : Users, made : Now, at : {t + z : t \in Now, z \in Zones}]
  /\ Cardinality(history) <= MaxHistory

StatsInit ==
  /\ clock = 0
  /\ zone \in Zones
  /\ history = {}

Tick ==
  /\ clock < MaxClock
  /\ clock' = clock + 1
  /\ zone' \in Zones
  /\ UNCHANGED history

(* NewLocation, which takes time.Now(), and SaveCheckHistory. *)
SaveCheck(u) ==
  /\ Cardinality(history) < MaxHistory
  /\ history' = history \cup {[user |-> u, made |-> clock, at |-> clock + zone]}

(* created_at >= NOW() - window, as Postgres compares the two. *)
Recent == {r \in history : r.at - DBZone >= clock - Window}

CountChecks == Cardinality(Recent)

(* COUNT(DISTINCT user_id). *)
GetStats == Cardinality({r.user : r \in Recent})

-----------------------------------------------------------------------------
Abs(n) == IF n < 0 THEN -n ELSE n

(* By how much the zone a row was written in differs from that of the database, at most. *)
Skew == Max({0} \cup {Abs(r.at - r.made - DBZone) : r \in history})

CheckedWithin(w) == {r.user : r \in {q \in history : q.made >= clock - w}}

(***************************************************************************)
(* The report counts every user once, as the README of the service says    *)
(* ("unique users"; the annotation of the route speaks of incidents: see   *)
(* StatsCountIncidents in Api), and it is exact if the zones agree;        *)
(* otherwise its window is too long or too short by what they differ.      *)
(***************************************************************************)
StatsWithinSkew ==
  /\ GetStats >= Cardinality(CheckedWithin(Window - Skew))
  /\ GetStats <= Cardinality(CheckedWithin(Window + Skew))

=============================================================================
