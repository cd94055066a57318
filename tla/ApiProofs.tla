------------------------------- MODULE ApiProofs -------------------------------
(***************************************************************************)
(* Proofs about Api: the report over the history of the checks is right    *)
(* for any clock, time zones and window, and requests are refused for a    *)
(* reason and without an effect.                                           *)
(***************************************************************************)
EXTENDS Api, FiniteSetTheorems, FunctionTheorems, WellFoundedInduction, TLAPS

-----------------------------------------------------------------------------
(* The largest of a finite set of numbers. *)

(* By the size of a smallest set that has none. *)
LEMMA FiniteMax ==
  ASSUME NEW S \in SUBSET Int, IsFiniteSet(S), S # {}
  PROVE  \E m \in S : \A y \in S : m >= y
<1> DEFINE HasMax(X) == \E m \in X : \A y \in X : m >= y
           Odd == {X \in SUBSET Int : IsFiniteSet(X) /\ X # {} /\ ~HasMax(X)}
           Sizes == {n \in Nat : \E X \in Odd : Cardinality(X) = n}
<1> SUFFICES ASSUME ~HasMax(S) PROVE FALSE
  OBVIOUS
<1>1. S \in Odd /\ Cardinality(S) \in Nat
  BY FS_CardinalityType
<1>2. Sizes # {} /\ Sizes \subseteq Nat
  BY <1>1
<1>3. PICK n \in Sizes : \A k \in Sizes : ~(k < n)
  <2>1. PICK n \in Sizes : \A k \in Sizes : <<k, n>> \notin OpToRel(<, Nat)
    BY <1>2, NatLessThanWellFounded, WFMin
  <2>2. \A k \in Nat : k < n => <<k, n>> \in OpToRel(<, Nat)
    BY <1>2, <2>1 DEF OpToRel
  <2> QED
    BY <1>2, <2>1, <2>2
<1>4. PICK X \in Odd : Cardinality(X) = n
  BY <1>3
<1>5. X \in SUBSET Int /\ IsFiniteSet(X) /\ X # {} /\ ~HasMax(X)
  BY <1>4
<1>6. PICK x \in X : TRUE
  BY <1>5
<1>7. IsFiniteSet(X \ {x}) /\ Cardinality(X \ {x}) = n - 1
  BY <1>4, <1>5, <1>6, FS_RemoveElement
<1>8. n \in Nat /\ n - 1 \in Nat
  BY <1>2, <1>7, FS_CardinalityType
<1>9. CASE X \ {x} = {}
  <2>1. \A y \in X : x >= y
    BY <1>5, <1>6, <1>9
  <2> QED
    BY <1>5, <1>6, <2>1
<1>10. CASE X \ {x} # {}
  <2>1. HasMax(X \ {x})
    <3>1. n - 1 \notin Sizes
      BY <1>3, <1>8
    <3>2. X \ {x} \notin Odd
      BY <1>7, <1>8, <3>1
    <3> QED
      BY <1>5, <1>7, <1>10, <3>2
  <2>2. PICK m \in X \ {x} : \A y \in X \ {x} : m >= y
    BY <2>1
  <2>3. m \in Int /\ x \in Int /\ \A y \in X : y \in Int
    BY <1>5, <1>6, <2>2
  <2>4. CASE m >= x
    <3>1. \A y \in X : m >= y
      BY <2>2, <2>4
    <3> QED
      BY <1>5, <2>2, <3>1
  <2>5. CASE x >= m
    <3>1. \A y \in X : x >= y
      BY <2>2, <2>3, <2>5
    <3> QED
      BY <1>5, <1>6, <3>1
  <2> QED
    BY <2>3, <2>4, <2>5
<1> QED
  BY <1>9, <1>10

LEMMA MaxBounds ==
  ASSUME NEW S \in SUBSET Int, IsFiniteSet(S), S # {}
  PROVE  Max(S) \in S /\ \A y \in S : Max(S) >= y
BY FiniteMax DEF Max

LEMMA ImageFinite ==
  ASSUME NEW S, IsFiniteSet(S), NEW f
  PROVE  IsFiniteSet({f[x] : x \in S})
<1> DEFINE g == [x \in S |-> f[x]]
           T == {f[x] : x \in S}
<1>1. g \in Surjection(S, T)
  BY DEF Surjection
<1> HIDE DEF g, T
<1>2. IsFiniteSet(T)
  BY <1>1, FS_Surjection
<1> QED
  BY <1>2 DEF T

-----------------------------------------------------------------------------
(* The history and its report. *)

HistoryOK ==
  /\ StatsTypeOK
  /\ IsFiniteSet(history)

LEMMA HistoryNumbers ==
  ASSUME HistoryOK
  PROVE  /\ clock \in Int
         /\ \A r \in history : r.made \in Int /\ r.at \in Int
BY StatsAssumption DEF HistoryOK, StatsTypeOK, Now

LEMMA SkewBounds ==
  ASSUME HistoryOK
  PROVE  Skew \in Int /\ \A r \in history : Abs(r.at - r.made - DBZone) <= Skew
<1> DEFINE f == [r \in history |-> Abs(r.at - r.made - DBZone)]
           D == {f[r] : r \in history}
<1>1. \A r \in history : f[r] = Abs(r.at - r.made - DBZone) /\ f[r] \in Int
  BY HistoryNumbers, StatsAssumption DEF Abs
<1>2. D = {Abs(r.at - r.made - DBZone) : r \in history}
  BY <1>1
<1>3. IsFiniteSet(D)
  BY ImageFinite DEF HistoryOK
<1>4. D \cup {0} = {0} \cup D /\ {0} \cup D \in SUBSET Int /\ {0} \cup D # {}
  BY <1>1
<1>5. \A r \in history : f[r] \in {0} \cup D
  OBVIOUS
<1>6. Skew = Max({0} \cup D)
  BY <1>2 DEF Skew
<1> HIDE DEF f, D
<1>7. IsFiniteSet({0} \cup D)
  BY <1>3, <1>4, FS_AddElement
<1>8. Max({0} \cup D) \in Int /\ \A y \in {0} \cup D : Max({0} \cup D) >= y
  BY <1>4, <1>7, MaxBounds
<1> QED
  BY <1>1, <1>5, <1>6, <1>8

LEMMA ReportWithinSkew ==
  ASSUME HistoryOK
  PROVE  StatsWithinSkew
<1> DEFINE f == [r \in history |-> r.user]
           U == {f[r] : r \in history}
           Counted == {r.user : r \in Recent}
<1>1. IsFiniteSet(U)
  BY ImageFinite DEF HistoryOK
<1>2. Skew \in Int /\ \A r \in history : Abs(r.at - r.made - DBZone) <= Skew
  BY SkewBounds
<1>3. /\ clock \in Int /\ Window \in Int /\ DBZone \in Int
      /\ \A r \in history : r.made \in Int /\ r.at \in Int
  BY HistoryNumbers, StatsAssumption
<1>4. \A r \in history :
        /\ r.made >= clock - (Window - Skew) => r.at - DBZone >= clock - Window
        /\ r.at - DBZone >= clock - Window => r.made >= clock - (Window + Skew)
  BY <1>2, <1>3 DEF Abs
<1>5. CheckedWithin(Window - Skew) \subseteq Counted
  BY <1>4 DEF CheckedWithin, Recent
<1>6. Counted \subseteq CheckedWithin(Window + Skew)
  BY <1>4 DEF CheckedWithin, Recent
<1>7. Counted \subseteq U /\ CheckedWithin(Window + Skew) \subseteq U
  BY DEF CheckedWithin, Recent
<1>8. GetStats = Cardinality(Counted)
  BY DEF GetStats
<1> HIDE DEF f, U, Counted
<1>9. IsFiniteSet(Counted) /\ IsFiniteSet(CheckedWithin(Window + Skew))
  BY <1>1, <1>7, FS_Subset
<1>10. /\ Cardinality(CheckedWithin(Window - Skew)) <= Cardinality(Counted)
       /\ Cardinality(Counted) <= Cardinality(CheckedWithin(Window + Skew))
  BY <1>5, <1>6, <1>9, FS_Subset
<1>11. /\ Cardinality(Counted) \in Nat
       /\ Cardinality(CheckedWithin(Window - Skew)) \in Nat
  <2>1. IsFiniteSet(CheckedWithin(Window - Skew))
    BY <1>5, <1>9, FS_Subset
  <2> QED
    BY <1>9, <2>1, FS_CardinalityType
<1> QED
  BY <1>8, <1>10, <1>11 DEF StatsWithinSkew

-----------------------------------------------------------------------------
(* The answers. *)

Replies ==
  [route : Route, flaws : SUBSET Flaw, unknown : BOOLEAN, failed : BOOLEAN,
   status : {200, 201, 204, 400, 401, 404, 500, 503}]

TableOK == table \in [Ids -> Incident \cup {None}]

(* What every step that answers a request makes of it. *)
AnswerOK ==
  /\ reply \in Replies
  /\ BlameIsRight
  /\ DocumentedAnswers

Harmless == Refused' => UNCHANGED <<table, history>>

(* An answer of the checks: for a flaw, and nothing has happened. *)
RefusedFor(route, flaws) ==
  /\ flaws # {} /\ flaws # {"fit"}
  /\ \E status \in {400, 401, 500} :
       /\ Reply(route, flaws, FALSE, FALSE, status)
       /\ status = 401 => "key" \in flaws /\ route # "check"
       /\ status = 400 => route \in {"create", "get", "put", "delete", "check"}
       /\ status = 400 /\ route = "check" => "form" \in flaws
       /\ status = 500 => /\ route = "check" /\ "form" \notin flaws
                          /\ flaws \cap {"id", "value"} # {}
  /\ UNCHANGED <<statsVars, table>>

LEMMA RefuseRight ==
  ASSUME TypeOK, NEW route \in Route, NEW flaws \in SUBSET Flaw, RefusedFor(route, flaws)
  PROVE  AnswerOK' /\ TableOK' /\ Harmless
<1>1. PICK status \in {400, 401, 500} :
       /\ reply' = [route |-> route, flaws |-> flaws, unknown |-> FALSE, failed |-> FALSE,
                    status |-> status]
       /\ status = 401 => "key" \in flaws /\ route # "check"
       /\ status = 400 => route \in {"create", "get", "put", "delete", "check"}
       /\ status = 400 /\ route = "check" => "form" \in flaws
       /\ status = 500 => /\ route = "check" /\ "form" \notin flaws
                          /\ flaws \cap {"id", "value"} # {}
  BY DEF RefusedFor, Reply
<1>2. flaws # {} /\ flaws # {"fit"} /\ UNCHANGED <<table, history>>
  BY DEF RefusedFor, statsVars
<1>3. reply' \in Replies
  BY <1>1 DEF Replies
<1>4. BlameIsRight'
  <2>1. /\ reply'.route = route /\ reply'.flaws = flaws /\ reply'.unknown = FALSE
        /\ reply'.status = status
    BY <1>1
  <2>2. CASE status = 500
    <3>1. Misjudged' /\ reply'.status = 500
      BY <1>1, <2>1, <2>2 DEF Misjudged
    <3> QED
      BY <3>1 DEF BlameIsRight
  <2>3. CASE status \in {400, 401}
    <3>1. ~Misjudged'
      BY <1>1, <1>2, <2>1, <2>3 DEF Misjudged
    <3>2. Refused' /\ reply'.flaws # {}
      BY <1>2, <2>1, <2>3 DEF Refused
    <3> QED
      BY <3>1, <3>2 DEF BlameIsRight
  <2> QED
    BY <2>2, <2>3
<1>5. DocumentedAnswers'
  BY <1>1 DEF DocumentedAnswers, Documented
<1> QED
  BY <1>2, <1>3, <1>4, <1>5 DEF AnswerOK, TableOK, TypeOK, Harmless

(* Which status a failed check stands for. *)
StatusFits(route, checks) ==
  \A k \in DOMAIN checks :
    /\ checks[k].status \in {400, 401, 500} /\ checks[k].flaw # "fit"
    /\ checks[k].status = 401 => checks[k].flaw = "key" /\ route # "check"
    /\ checks[k].status = 400 => /\ route \in {"create", "get", "put", "delete", "check"}
                                 /\ route = "check" => checks[k].flaw = "form"
    /\ checks[k].status = 500 => /\ route = "check" /\ checks[k].flaw \in {"id", "value"}
                                 /\ \E j \in 1 .. k - 1 : checks[j].flaw = "form"

(* Every flaw but one that Postgres finds is among the checks of its route. *)
LEMMA CheckLists ==
  /\ StatusFits("create", CreateChecks)
  /\ \A flaws \in SUBSET {"key", "form", "value", "fit"} :
       Passes(CreateChecks, flaws) => flaws \subseteq {"fit"}
  /\ StatusFits("list", ListChecks)
  /\ \A flaws \in SUBSET {"key", "fit"} : Passes(ListChecks, flaws) => flaws \subseteq {"fit"}
  /\ StatusFits("get", GetChecks)
  /\ \A flaws \in SUBSET {"key", "id"} : Passes(GetChecks, flaws) => flaws = {}
  /\ StatusFits("put", PutChecks)
  /\ \A flaws \in SUBSET Flaw : Passes(PutChecks, flaws) => flaws \subseteq {"fit"}
  /\ StatusFits("delete", DeleteChecks)
  /\ \A flaws \in SUBSET {"key", "id"} : Passes(DeleteChecks, flaws) => flaws = {}
  /\ StatusFits("check", ValidateInput)
  /\ \A flaws \in SUBSET {"id", "form", "value"} : Passes(ValidateInput, flaws) => flaws = {}
<1>1. /\ DOMAIN CreateChecks = {1, 2, 3}
      /\ CreateChecks[1] = Check("key", 401) /\ CreateChecks[2] = Check("form", 400)
      /\ CreateChecks[3] = Check("value", 400)
  BY DEF CreateChecks, AuthMiddleware
<1>2. DOMAIN ListChecks = {1} /\ ListChecks[1] = Check("key", 401)
  BY DEF ListChecks, AuthMiddleware
<1>3. /\ DOMAIN GetChecks = {1, 2}
      /\ GetChecks[1] = Check("key", 401) /\ GetChecks[2] = Check("id", 400)
  BY DEF GetChecks, AuthMiddleware
<1>4. /\ DOMAIN PutChecks = {1, 2, 3, 4}
      /\ PutChecks[1] = Check("key", 401) /\ PutChecks[2] = Check("id", 400)
      /\ PutChecks[3] = Check("form", 400) /\ PutChecks[4] = Check("value", 400)
  BY DEF PutChecks, AuthMiddleware
<1>5. /\ DOMAIN DeleteChecks = {1, 2}
      /\ DeleteChecks[1] = Check("key", 401) /\ DeleteChecks[2] = Check("id", 400)
  BY DEF DeleteChecks, AuthMiddleware
<1>6. /\ DOMAIN ValidateInput = {1, 2, 3}
      /\ ValidateInput[1] = Check("form", 400) /\ ValidateInput[2] = Check("id", 500)
      /\ ValidateInput[3] = Check("value", 500)
  BY DEF ValidateInput
<1>7. /\ StatusFits("create", CreateChecks) /\ StatusFits("list", ListChecks)
      /\ StatusFits("get", GetChecks) /\ StatusFits("put", PutChecks)
      /\ StatusFits("delete", DeleteChecks)
  BY <1>1, <1>2, <1>3, <1>4, <1>5 DEF StatusFits, Check
<1>8. StatusFits("check", ValidateInput)
  <2>1. 1 \in 1 .. 2 - 1 /\ 1 \in 1 .. 3 - 1
    OBVIOUS
  <2> QED
    BY <1>6, <2>1 DEF StatusFits, Check
<1>9. /\ \A flaws \in SUBSET {"key", "form", "value", "fit"} :
           Passes(CreateChecks, flaws) => flaws \subseteq {"fit"}
      /\ \A flaws \in SUBSET {"key", "fit"} :
           Passes(ListChecks, flaws) => flaws \subseteq {"fit"}
      /\ \A flaws \in SUBSET {"key", "id"} : Passes(GetChecks, flaws) => flaws = {}
  BY <1>1, <1>2, <1>3 DEF Passes, Check
<1>10. /\ \A flaws \in SUBSET Flaw : Passes(PutChecks, flaws) => flaws \subseteq {"fit"}
       /\ \A flaws \in SUBSET {"key", "id"} : Passes(DeleteChecks, flaws) => flaws = {}
       /\ \A flaws \in SUBSET {"id", "form", "value"} : Passes(ValidateInput, flaws) => flaws = {}
  BY <1>4, <1>5, <1>6 DEF Passes, Check, Flaw
<1> QED
  BY <1>7, <1>8, <1>9, <1>10

(* What every step makes of the answer and the incidents. *)
StepOK == AnswerOK' /\ TableOK' /\ Harmless

LEMMA RefuseOK ==
  ASSUME TypeOK, NEW route \in Route, NEW checks, StatusFits(route, checks),
         NEW flaws \in SUBSET Flaw, Refuse(route, checks, flaws)
  PROVE  StepOK /\ UNCHANGED <<statsVars, table>>
<1>1. PICK k \in DOMAIN checks :
        /\ checks[k].flaw \in flaws
        /\ \A j \in 1 .. k - 1 : checks[j].flaw \notin flaws
        /\ Reply(route, flaws, FALSE, FALSE, checks[k].status)
        /\ UNCHANGED <<statsVars, table>>
  BY DEF Refuse
<1>2. RefusedFor(route, flaws)
  <2> DEFINE s == checks[k].status
  <2>1. /\ s \in {400, 401, 500}
        /\ s = 401 => checks[k].flaw = "key" /\ route # "check"
        /\ s = 400 => route \in {"create", "get", "put", "delete", "check"}
        /\ s = 500 => /\ route = "check" /\ checks[k].flaw \in {"id", "value"}
                      /\ \E j \in 1 .. k - 1 : checks[j].flaw = "form"
    BY <1>1 DEF StatusFits
  <2>2. s = 500 => "form" \notin flaws
    BY <1>1, <2>1
  <2>3. s = 500 => flaws \cap {"id", "value"} # {}
    BY <1>1, <2>1
  <2>4. flaws # {} /\ Reply(route, flaws, FALSE, FALSE, s)
    BY <1>1
  <2>11. flaws # {"fit"}
    BY <1>1 DEF StatusFits
  <2>12. s = 400 /\ route = "check" => "form" \in flaws
    BY <1>1 DEF StatusFits
  <2>5. s = 401 => "key" \in flaws /\ route # "check"
    BY <1>1, <2>1
  <2> HIDE DEF s
  <2>6. s = 400 => route \in {"create", "get", "put", "delete", "check"}
    BY <2>1
  <2>7. s = 500 => route = "check"
    BY <2>1
  <2>8. s \in {400, 401, 500} /\ UNCHANGED <<statsVars, table>>
    BY <1>1, <2>1
  <2> DEFINE Fits(status) ==
               /\ Reply(route, flaws, FALSE, FALSE, status)
               /\ status = 401 => "key" \in flaws /\ route # "check"
               /\ status = 400 => route \in {"create", "get", "put", "delete", "check"}
               /\ status = 400 /\ route = "check" => "form" \in flaws
               /\ status = 500 => /\ route = "check" /\ "form" \notin flaws
                                  /\ flaws \cap {"id", "value"} # {}
  <2>9. Fits(s)
    BY <2>2, <2>3, <2>4, <2>5, <2>6, <2>7, <2>12, Zenon
  <2>10. \E status \in {400, 401, 500} : Fits(status)
    <3> HIDE DEF Fits
    <3> QED
      BY <2>8, <2>9
  <2> QED
    BY <2>4, <2>8, <2>10, <2>11, Zenon DEF RefusedFor
<1> QED
  BY <1>1, <1>2, RefuseRight DEF StepOK

(* The values a handler may leave in the table. *)
LEMMA RowTypes ==
  ASSUME TypeOK, NEW id \in Ids, NEW b \in Bodies
  PROVE  /\ [table EXCEPT ![id] = NewIncident(id, b)] \in [Ids -> Incident \cup {None}]
         /\ ~Unknown(id) => [table EXCEPT ![id] = Updated(@, b)] \in [Ids -> Incident \cup {None}]
<1>1. NewIncident(id, b) \in Incident
  BY DEF NewIncident, Incident
<1>2. ~Unknown(id) => Updated(table[id], b) \in Incident
  BY DEF Unknown, Updated, Incident, TypeOK
<1>3. [table EXCEPT ![id] = NewIncident(id, b)] \in [Ids -> Incident \cup {None}]
  BY <1>1 DEF TypeOK
<1>4. ~Unknown(id) => [table EXCEPT ![id] = Updated(@, b)] \in [Ids -> Incident \cup {None}]
  BY <1>2 DEF TypeOK
<1> QED
  BY <1>3, <1>4

LEMMA DeactivatedType ==
  ASSUME TypeOK, NEW id \in Ids
  PROVE  Deactivated(id) \in [Ids -> Incident \cup {None}]
<1>1. CASE Unknown(id)
  BY <1>1 DEF Deactivated, TypeOK
<1>2. CASE ~Unknown(id)
  <2>3. table[id] \in Incident
    <3>1. table[id] \in Incident \cup {None} /\ table[id] # None
      BY <1>2 DEF Unknown, TypeOK
    <3> QED
      BY <3>1
  <2>1. [table[id] EXCEPT !.active = FALSE] \in Incident
    BY <2>3 DEF Incident
  <2>2. [table EXCEPT ![id].active = FALSE]
          = [table EXCEPT ![id] = [table[id] EXCEPT !.active = FALSE]]
    OBVIOUS
  <2> QED
    BY <1>2, <2>1, <2>2 DEF Deactivated, TypeOK
<1> QED
  BY <1>1, <1>2

(* What a handler may answer whose checks are passed: nobody is blamed but for a 404. *)
Handled(r, statuses) ==
  /\ r \in Replies
  /\ r.flaws = {}
  /\ r.status \in statuses
  /\ r.status \in {200, 201, 204, 404, 500, 503}
  /\ r.status \in {500, 503} => r.failed = TRUE \/ (r.unknown = TRUE /\ r.route = "put")
  /\ r.unknown = TRUE /\ r.status \in {200, 201, 204} => r.route = "delete"
  /\ r.status = 404 => r.unknown = TRUE
  /\ r.route = "put" => r.status \in {200, 500}
  /\ r.route = "delete" => r.status \in {204, 500}

LEMMA HandledBlame ==
  ASSUME NEW statuses, Handled(reply', statuses)
  PROVE  BlameIsRight'
<1>1. /\ reply'.flaws = {} /\ reply'.status \in {200, 201, 204, 404, 500, 503}
      /\ reply'.status \in {500, 503}
           => reply'.failed = TRUE \/ (reply'.unknown = TRUE /\ reply'.route = "put")
      /\ reply'.unknown = TRUE /\ reply'.status \in {200, 201, 204} => reply'.route = "delete"
      /\ reply'.status = 404 => reply'.unknown = TRUE
      /\ reply'.route = "put" => reply'.status \in {200, 500}
      /\ reply'.route = "delete" => reply'.status \in {204, 500}
  BY Zenon DEF Handled
<1>2. reply'.unknown \in BOOLEAN
  BY DEF Handled, Replies
<1>3. reply'.status \in {200, 201, 204} => Done'
  BY DEF Done
<1>4. CASE reply'.unknown = TRUE
  <2>1. reply'.unknown
    BY <1>4
  <2>2. reply'.route \in {"put", "delete"} => Misjudged'
    BY <1>1, <2>1 DEF Misjudged
  <2>3. reply'.status = 404 \/ reply'.failed = TRUE \/ reply'.route \in {"put", "delete"}
    BY <1>1, <1>4
  <2>4. ~Misjudged' => reply'.status = 404 \/ reply'.failed
    BY <2>2, <2>3
  <2>5. Misjudged' => reply'.route \in {"put", "delete"}
    BY <1>1 DEF Misjudged
  <2>6. Misjudged' => reply'.status = 500 \/ (reply'.status = 204 /\ reply'.route = "delete")
    BY <1>1, <1>4, <2>5
  <2>7. CASE Misjudged'
    BY <2>6, <2>7 DEF BlameIsRight
  <2>8. CASE ~Misjudged'
    <3>1. reply'.flaws = {} /\ (reply'.status = 404 \/ reply'.failed)
      BY <1>1, <2>4, <2>8
    <3> QED
      BY <2>1, <2>8, <3>1, Zenon DEF BlameIsRight
  <2> QED
    BY <2>7, <2>8
<1>5. CASE reply'.unknown = FALSE
  <2>1. ~reply'.unknown
    BY <1>5
  <2>2. reply'.status # 404 /\ (reply'.status \in {500, 503} => reply'.failed = TRUE)
    BY <1>1, <1>5
  <2>3. reply'.status \in {200, 201, 204} \/ (reply'.failed /\ reply'.status \in {500, 503})
    BY <1>1, <2>2
  <2>4. ~Misjudged'
    BY <1>1, <2>1 DEF Misjudged
  <2> QED
    BY <1>1, <1>3, <2>1, <2>3, <2>4, Zenon DEF BlameIsRight
<1> QED
  BY <1>2, <1>4, <1>5

(* What only Postgres refuses is answered as if Postgres had failed. *)
LEMMA UnfitRight ==
  ASSUME TypeOK, NEW route \in {"create", "list", "put"}, NEW flaws \in SUBSET {"fit"},
         NEW unknown \in BOOLEAN, Unfit(route, flaws, unknown)
  PROVE  AnswerOK' /\ TableOK' /\ Harmless /\ UNCHANGED statsVars
<1>1. PICK failed \in BOOLEAN : Reply(route, flaws, unknown, failed, 500)
  BY DEF Unfit
<1>2. flaws = {"fit"} /\ UNCHANGED <<statsVars, table>>
  BY DEF Unfit
<1>3. reply' = [route |-> route, flaws |-> {"fit"}, unknown |-> unknown, failed |-> failed,
                status |-> 500]
  BY <1>1, <1>2 DEF Reply
<1>4. reply' \in Replies
  BY <1>3 DEF Replies, Route, Flaw
<1>5. BlameIsRight'
  BY <1>3 DEF BlameIsRight, Misjudged
<1>6. DocumentedAnswers'
  BY <1>3 DEF DocumentedAnswers, Documented
<1>7. ~Refused'
  BY <1>3 DEF Refused
<1> QED
  BY <1>2, <1>4, <1>5, <1>6, <1>7 DEF AnswerOK, TableOK, TypeOK, Harmless

LEMMA HandledDocumented ==
  ASSUME NEW statuses, Handled(reply', statuses),
         \/ statuses \subseteq Documented[reply'.route]
         \/ reply'.route = "health" /\ statuses = {200, 503}
  PROVE  DocumentedAnswers'
<1>1. reply'.status \in statuses
  BY Zenon DEF Handled
<1>2. CASE statuses \subseteq Documented[reply'.route]
  BY <1>1, <1>2, Zenon DEF DocumentedAnswers
<1>3. CASE reply'.route = "health" /\ statuses = {200, 503}
  <2>1. 200 \in Documented["health"]
    BY DEF Documented
  <2>2. CASE reply'.status = 200
    BY <1>3, <2>1, <2>2, Zenon DEF DocumentedAnswers
  <2>3. CASE reply'.status = 503
    BY <1>3, <2>3, Zenon DEF DocumentedAnswers
  <2> QED
    BY <1>1, <1>3, <2>2, <2>3
<1> QED
  BY <1>2, <1>3

LEMMA HandledOK ==
  ASSUME NEW statuses, Handled(reply', statuses),
         \/ statuses \subseteq Documented[reply'.route]
         \/ reply'.route = "health" /\ statuses = {200, 503},
         table' \in [Ids -> Incident \cup {None}],
         404 \in statuses => UNCHANGED <<table, history>>
  PROVE  StepOK
<1>1. BlameIsRight' /\ DocumentedAnswers'
  BY HandledBlame, HandledDocumented
<1>2. reply' \in Replies /\ reply'.status \in statuses
  BY Zenon DEF Handled
<1>3. Harmless
  <2>1. reply'.status \in {200, 201, 204, 404, 500, 503}
    BY Zenon DEF Handled
  <2>2. Refused' => reply'.status = 404
    BY <2>1 DEF Refused
  <2>3. reply'.status = 404 => 404 \in statuses
    BY <1>2
  <2>4. Refused' => UNCHANGED <<table, history>>
    BY <2>2, <2>3
  <2> QED
    BY <2>4, Zenon DEF Harmless
<1> QED
  BY <1>1, <1>2, <1>3 DEF StepOK, AnswerOK, TableOK

-----------------------------------------------------------------------------
(* The routes. *)

LEMMA CreateRight ==
  ASSUME TypeOK, Create
  PROVE  StepOK /\ UNCHANGED statsVars
<1>1. PICK flaws \in SUBSET {"key", "form", "value", "fit"} :
        \/ Refuse("create", CreateChecks, flaws)
        \/ Passes(CreateChecks, flaws) /\ Unfit("create", flaws, FALSE)
        \/ /\ Passes(CreateChecks, flaws) /\ "fit" \notin flaws
           /\ \E id \in Ids, b \in Bodies : CreateIncident(id, b, flaws)
  BY DEF Create
<1>2. CASE Refuse("create", CreateChecks, flaws)
  <2>1. flaws \in SUBSET Flaw /\ "create" \in Route
    BY DEF Flaw, Route
  <2> QED
    BY <1>2, <2>1, CheckLists, RefuseOK
<1>3. CASE /\ Passes(CreateChecks, flaws) /\ "fit" \notin flaws
           /\ \E id \in Ids, b \in Bodies : CreateIncident(id, b, flaws)
  <2>1. flaws = {}
    BY <1>3, CheckLists
  <2>2. PICK id \in Ids, b \in Bodies : CreateIncident(id, b, {})
    BY <1>3, <2>1
  <2>3. table' \in [Ids -> Incident \cup {None}]
    <3>1. table' = table \/ table' = [table EXCEPT ![id] = NewIncident(id, b)]
      BY <2>2 DEF CreateIncident
    <3> QED
      BY <3>1, RowTypes DEF TypeOK
  <2>4. Handled(reply', {201, 500})
    <3>1. ASSUME NEW failed \in BOOLEAN, Reply("create", {}, FALSE, failed, 201)
          PROVE  Handled(reply', {201, 500})
      BY <3>1 DEF Handled, Reply, Replies, Route
    <3>2. ASSUME Reply("create", {}, FALSE, TRUE, 500) PROVE Handled(reply', {201, 500})
      BY <3>2 DEF Handled, Reply, Replies, Route
    <3> QED
      BY <2>2, <3>1, <3>2 DEF CreateIncident
  <2>5. reply'.route = "create" /\ Documented["create"] = {201, 400, 500}
    BY <2>2 DEF CreateIncident, Reply, Documented
  <2>6. StepOK
    BY <2>2, <2>3, <2>4, <2>5, HandledOK DEF CreateIncident, statsVars
  <2> QED
    BY <2>2, <2>6 DEF CreateIncident
<1>4. CASE Passes(CreateChecks, flaws) /\ Unfit("create", flaws, FALSE)
  BY <1>4, CheckLists, UnfitRight DEF StepOK
<1> QED
  BY <1>1, <1>2, <1>3, <1>4

LEMMA ListRight ==
  ASSUME TypeOK, List
  PROVE  StepOK /\ UNCHANGED statsVars
<1>1. PICK flaws \in SUBSET {"key", "fit"} :
        \/ Refuse("list", ListChecks, flaws)
        \/ Passes(ListChecks, flaws) /\ Unfit("list", flaws, FALSE)
        \/ Passes(ListChecks, flaws) /\ "fit" \notin flaws /\ GetAllIncidents(flaws)
  BY DEF List
<1>2. CASE Refuse("list", ListChecks, flaws)
  <2>1. flaws \in SUBSET Flaw /\ "list" \in Route
    BY DEF Flaw, Route
  <2> QED
    BY <1>2, <2>1, CheckLists, RefuseOK
<1>3. CASE Passes(ListChecks, flaws) /\ "fit" \notin flaws /\ GetAllIncidents(flaws)
  <2>1. flaws = {}
    BY <1>3, CheckLists
  <2>2. GetAllIncidents({})
    BY <1>3, <2>1
  <2>3. table' \in [Ids -> Incident \cup {None}]
    BY <2>2 DEF GetAllIncidents, TypeOK
  <2>4. Handled(reply', {200, 500})
    <3>1. ASSUME Reply("list", {}, FALSE, FALSE, 200) PROVE Handled(reply', {200, 500})
      BY <3>1 DEF Handled, Reply, Replies, Route
    <3>2. ASSUME Reply("list", {}, FALSE, TRUE, 500) PROVE Handled(reply', {200, 500})
      BY <3>2 DEF Handled, Reply, Replies, Route
    <3> QED
      BY <2>2, <3>1, <3>2 DEF GetAllIncidents
  <2>5. reply'.route = "list" /\ Documented["list"] = {200, 500}
    BY <2>2 DEF GetAllIncidents, Reply, Documented
  <2>6. StepOK
    BY <2>2, <2>3, <2>4, <2>5, HandledOK DEF GetAllIncidents, statsVars
  <2> QED
    BY <2>2, <2>6 DEF GetAllIncidents
<1>4. CASE Passes(ListChecks, flaws) /\ Unfit("list", flaws, FALSE)
  BY <1>4, CheckLists, UnfitRight DEF StepOK
<1> QED
  BY <1>1, <1>2, <1>3, <1>4

LEMMA GetRight ==
  ASSUME TypeOK, Get
  PROVE  StepOK /\ UNCHANGED statsVars
<1>1. PICK flaws \in SUBSET {"key", "id"} :
        \/ Refuse("get", GetChecks, flaws)
        \/ Passes(GetChecks, flaws) /\ \E id \in Ids : GetIncidentByID(id, flaws)
  BY DEF Get
<1>2. CASE Refuse("get", GetChecks, flaws)
  <2>1. flaws \in SUBSET Flaw /\ "get" \in Route
    BY DEF Flaw, Route
  <2> QED
    BY <1>2, <2>1, CheckLists, RefuseOK
<1>3. CASE Passes(GetChecks, flaws) /\ \E id \in Ids : GetIncidentByID(id, flaws)
  <2>1. flaws = {}
    BY <1>3, CheckLists
  <2>2. PICK id \in Ids : GetIncidentByID(id, {})
    BY <1>3, <2>1
  <2>3. table' \in [Ids -> Incident \cup {None}]
    BY <2>2 DEF GetIncidentByID, TypeOK
  <2>4. Handled(reply', {200, 404, 500})
    <3>1. PICK unknown \in BOOLEAN :
            \/ \E failed \in BOOLEAN :
                 Reply("get", {}, unknown, failed, IF unknown THEN 404 ELSE 200)
            \/ Reply("get", {}, unknown, TRUE, 500)
      <4>1. Unknown(id) \in BOOLEAN
        BY DEF Unknown
      <4> QED
        BY <2>2, <4>1, Zenon DEF GetIncidentByID
    <3>2. ASSUME NEW failed \in BOOLEAN,
                 Reply("get", {}, unknown, failed, IF unknown THEN 404 ELSE 200)
          PROVE  Handled(reply', {200, 404, 500})
      BY <3>2 DEF Handled, Reply, Replies, Route
    <3>3. ASSUME Reply("get", {}, unknown, TRUE, 500) PROVE Handled(reply', {200, 404, 500})
      BY <3>3 DEF Handled, Reply, Replies, Route
    <3> QED
      BY <3>1, <3>2, <3>3
  <2>5. reply'.route = "get" /\ Documented["get"] = {200, 400, 404, 500}
    BY <2>2 DEF GetIncidentByID, Reply, Documented
  <2>6. StepOK
    BY <2>2, <2>3, <2>4, <2>5, HandledOK DEF GetIncidentByID, statsVars
  <2> QED
    BY <2>2, <2>6 DEF GetIncidentByID
<1> QED
  BY <1>1, <1>2, <1>3

LEMMA PutRight ==
  ASSUME TypeOK, Put
  PROVE  StepOK /\ UNCHANGED statsVars
<1>1. PICK flaws \in SUBSET Flaw :
        \/ Refuse("put", PutChecks, flaws)
        \/ Passes(PutChecks, flaws) /\ \E id \in Ids : Unfit("put", flaws, Unknown(id))
        \/ /\ Passes(PutChecks, flaws) /\ "fit" \notin flaws
           /\ \E id \in Ids, b \in Bodies : PutIncident(id, b, flaws)
  BY DEF Put
<1>2. CASE Refuse("put", PutChecks, flaws)
  <2>1. flaws \in SUBSET Flaw /\ "put" \in Route
    BY DEF Flaw, Route
  <2> QED
    BY <1>2, <2>1, CheckLists, RefuseOK
<1>3. CASE /\ Passes(PutChecks, flaws) /\ "fit" \notin flaws
           /\ \E id \in Ids, b \in Bodies : PutIncident(id, b, flaws)
  <2>1. flaws = {}
    BY <1>3, CheckLists
  <2>2. PICK id \in Ids, b \in Bodies : PutIncident(id, b, {})
    BY <1>3, <2>1
  <2>3. table' \in [Ids -> Incident \cup {None}]
    <3>1. table' = table \/ (~Unknown(id) /\ table' = [table EXCEPT ![id] = Updated(@, b)])
      BY <2>2 DEF PutIncident
    <3> QED
      BY <3>1, RowTypes DEF TypeOK
  <2>4. Handled(reply', {200, 500})
    <3>1. ASSUME NEW failed \in BOOLEAN, Reply("put", {}, TRUE, failed, 500)
          PROVE  Handled(reply', {200, 500})
      BY <3>1 DEF Handled, Reply, Replies, Route
    <3>2. ASSUME NEW failed \in BOOLEAN, Reply("put", {}, FALSE, failed, 200)
          PROVE  Handled(reply', {200, 500})
      BY <3>2 DEF Handled, Reply, Replies, Route
    <3>3. ASSUME Reply("put", {}, FALSE, TRUE, 500) PROVE Handled(reply', {200, 500})
      BY <3>3 DEF Handled, Reply, Replies, Route
    <3> QED
      BY <2>2, <3>1, <3>2, <3>3 DEF PutIncident
  <2>5. reply'.route = "put" /\ Documented["put"] = {200, 400, 404, 500}
    BY <2>2 DEF PutIncident, Reply, Documented
  <2>6. StepOK
    BY <2>2, <2>3, <2>4, <2>5, HandledOK DEF PutIncident, statsVars
  <2> QED
    BY <2>2, <2>6 DEF PutIncident
<1>4. CASE Passes(PutChecks, flaws) /\ \E id \in Ids : Unfit("put", flaws, Unknown(id))
  <2>1. PICK id \in Ids : Unfit("put", flaws, Unknown(id))
    BY <1>4
  <2>2. Unknown(id) \in BOOLEAN
    BY DEF Unknown
  <2>3. flaws \in SUBSET {"fit"}
    BY <1>4, CheckLists
  <2> QED
    BY <2>1, <2>2, <2>3, UnfitRight DEF StepOK
<1> QED
  BY <1>1, <1>2, <1>3, <1>4

LEMMA DeleteRight ==
  ASSUME TypeOK, Delete
  PROVE  StepOK /\ UNCHANGED statsVars
<1>1. PICK flaws \in SUBSET {"key", "id"} :
        \/ Refuse("delete", DeleteChecks, flaws)
        \/ Passes(DeleteChecks, flaws) /\ \E id \in Ids : DeleteIncident(id, flaws)
  BY DEF Delete
<1>2. CASE Refuse("delete", DeleteChecks, flaws)
  <2>1. flaws \in SUBSET Flaw /\ "delete" \in Route
    BY DEF Flaw, Route
  <2> QED
    BY <1>2, <2>1, CheckLists, RefuseOK
<1>3. CASE Passes(DeleteChecks, flaws) /\ \E id \in Ids : DeleteIncident(id, flaws)
  <2>1. flaws = {}
    BY <1>3, CheckLists
  <2>2. PICK id \in Ids : DeleteIncident(id, {})
    BY <1>3, <2>1
  <2>3. table' \in [Ids -> Incident \cup {None}]
    <3>1. table' = table \/ table' = Deactivated(id)
      BY <2>2 DEF DeleteIncident
    <3> QED
      BY <3>1, DeactivatedType DEF TypeOK
  <2>4. Handled(reply', {204, 500})
    <3>1. ASSUME NEW unknown \in BOOLEAN, Reply("delete", {}, unknown, FALSE, 204)
          PROVE  Handled(reply', {204, 500})
      BY <3>1 DEF Handled, Reply, Replies, Route
    <3>2. ASSUME NEW unknown \in BOOLEAN, Reply("delete", {}, unknown, TRUE, 500)
          PROVE  Handled(reply', {204, 500})
      BY <3>2 DEF Handled, Reply, Replies, Route
    <3>3. Unknown(id) \in BOOLEAN /\ (Unknown(id) = TRUE \/ Unknown(id) = FALSE)
      BY DEF Unknown
    <3> QED
      BY <2>2, <3>1, <3>2, <3>3 DEF DeleteIncident
  <2>5. reply'.route = "delete" /\ Documented["delete"] = {204, 400, 404, 500}
    BY <2>2 DEF DeleteIncident, Reply, Documented
  <2>6. StepOK
    BY <2>2, <2>3, <2>4, <2>5, HandledOK DEF DeleteIncident, statsVars
  <2> QED
    BY <2>2, <2>6 DEF DeleteIncident
<1> QED
  BY <1>1, <1>2, <1>3

LEMMA StatsRight ==
  ASSUME TypeOK, Stats
  PROVE  StepOK /\ UNCHANGED statsVars
<1>1. Handled(reply', {200, 500})
  <2>1. ASSUME Reply("stats", {}, FALSE, FALSE, 200) PROVE Handled(reply', {200, 500})
    BY <2>1 DEF Handled, Reply, Replies, Route
  <2>2. ASSUME Reply("stats", {}, FALSE, TRUE, 500) PROVE Handled(reply', {200, 500})
    BY <2>2 DEF Handled, Reply, Replies, Route
  <2> QED
    BY <2>1, <2>2 DEF Stats
<1>2. reply'.route = "stats" /\ Documented["stats"] = {200, 500}
  BY DEF Stats, Reply, Documented
<1>3. table' \in [Ids -> Incident \cup {None}] /\ UNCHANGED statsVars
  BY DEF Stats, TypeOK
<1> QED
  BY <1>1, <1>2, <1>3, HandledOK DEF statsVars

LEMMA HealthRight ==
  ASSUME TypeOK, Health
  PROVE  StepOK /\ UNCHANGED statsVars
<1>1. Reply("health", {}, FALSE, FALSE, 200) \/ Reply("health", {}, FALSE, TRUE, 503)
  BY DEF Health, HealthStatus
<1>2. Handled(reply', {200, 503}) /\ reply'.route = "health"
  <2>1. ASSUME Reply("health", {}, FALSE, FALSE, 200)
        PROVE  Handled(reply', {200, 503}) /\ reply'.route = "health"
    BY <2>1 DEF Handled, Reply, Replies, Route
  <2>2. ASSUME Reply("health", {}, FALSE, TRUE, 503)
        PROVE  Handled(reply', {200, 503}) /\ reply'.route = "health"
    BY <2>2 DEF Handled, Reply, Replies, Route
  <2> QED
    BY <1>1, <2>1, <2>2
<1>3. table' \in [Ids -> Incident \cup {None}] /\ UNCHANGED statsVars
  BY DEF Health, TypeOK
<1> QED
  BY <1>2, <1>3, HandledOK DEF statsVars

(* A row made now, on the clock of the process. *)
LEMMA SaveCheckKeeps ==
  ASSUME HistoryOK, NEW u \in Users, SaveCheck(u), UNCHANGED <<clock, zone>>
  PROVE  HistoryOK'
<1> DEFINE row == [user |-> u, made |-> clock, at |-> clock + zone]
           Rows == [user : Users, made : Now, at : {t + z : t \in Now, z \in Zones}]
<1>1. row \in Rows
  BY DEF HistoryOK, StatsTypeOK
<1>2. history' = history \cup {row} /\ Cardinality(history) < MaxHistory
  BY DEF SaveCheck
<1>3. /\ history \subseteq Rows /\ IsFiniteSet(history)
      /\ clock \in Now /\ zone \in Zones
  BY DEF HistoryOK, StatsTypeOK
<1> HIDE DEF row, Rows
<1>4. /\ IsFiniteSet(history')
      /\ Cardinality(history') <= Cardinality(history) + 1
      /\ Cardinality(history) \in Nat /\ Cardinality(history') \in Nat
  <2>1. Cardinality(history) \in Nat
    BY <1>3, FS_CardinalityType
  <2>2. /\ IsFiniteSet(history \cup {row})
        /\ Cardinality(history \cup {row}) =
             IF row \in history THEN Cardinality(history) ELSE Cardinality(history) + 1
    BY <1>3, FS_AddElement
  <2> QED
    BY <1>2, <2>1, <2>2
<1>5. Cardinality(history') <= MaxHistory
  BY <1>2, <1>4, StatsAssumption
<1>6. history' \subseteq Rows
  BY <1>1, <1>2, <1>3
<1> QED
  BY <1>3, <1>4, <1>5, <1>6 DEF HistoryOK, StatsTypeOK, Rows, Now

LEMMA HistoryStays ==
  ASSUME HistoryOK, UNCHANGED statsVars
  PROVE  HistoryOK'
BY DEF HistoryOK, StatsTypeOK, statsVars, Now

LEMMA CheckRouteRight ==
  ASSUME TypeOK, HistoryOK, CheckRoute
  PROVE  StepOK /\ HistoryOK'
<1>1. PICK flaws \in SUBSET {"id", "form", "value"} :
        \/ Refuse("check", ValidateInput, flaws)
        \/ Passes(ValidateInput, flaws) /\ \E u \in Users : CheckLocation(u, flaws)
  BY DEF CheckRoute
<1>2. CASE Refuse("check", ValidateInput, flaws)
  <2>1. flaws \in SUBSET Flaw /\ "check" \in Route
    BY DEF Flaw, Route
  <2>2. StepOK /\ UNCHANGED statsVars
    BY <1>2, <2>1, CheckLists, RefuseOK
  <2> QED
    BY <2>2, HistoryStays
<1>3. CASE Passes(ValidateInput, flaws) /\ \E u \in Users : CheckLocation(u, flaws)
  <2>1. flaws = {}
    BY <1>3, CheckLists
  <2>2. PICK u \in Users : CheckLocation(u, {})
    BY <1>3, <2>1
  <2>3. table' \in [Ids -> Incident \cup {None}] /\ UNCHANGED <<clock, zone>>
    BY <2>2 DEF CheckLocation, TypeOK
  <2>4. Handled(reply', {200, 500}) /\ reply'.route = "check"
    <3>1. \/ \E failed \in BOOLEAN : Reply("check", {}, FALSE, failed, 200)
          \/ \E status \in {200, 500} : Reply("check", {}, FALSE, TRUE, status)
      BY <2>2, Zenon DEF CheckLocation
    <3>2. CASE \E failed \in BOOLEAN : Reply("check", {}, FALSE, failed, 200)
      <4>1. PICK failed \in BOOLEAN : Reply("check", {}, FALSE, failed, 200)
        BY <3>2
      <4> QED
        BY <4>1 DEF Handled, Reply, Replies, Route
    <3>3. CASE \E status \in {200, 500} : Reply("check", {}, FALSE, TRUE, status)
      <4>1. PICK status \in {200, 500} : Reply("check", {}, FALSE, TRUE, status)
        BY <3>3
      <4> QED
        BY <4>1 DEF Handled, Reply, Replies, Route
    <3> QED
      BY <3>1, <3>2, <3>3
  <2>5. Documented["check"] = {200, 400, 500}
    BY DEF Documented
  <2>6. StepOK
    BY <2>3, <2>4, <2>5, HandledOK
  <2>7. HistoryOK'
    <3>1. SaveCheck(u) \/ UNCHANGED history
      BY <2>2 DEF CheckLocation
    <3> QED
      BY <2>3, <3>1, SaveCheckKeeps, HistoryStays DEF statsVars
  <2> QED
    BY <2>6, <2>7
<1> QED
  BY <1>1, <1>2, <1>3

LEMMA TickKeeps ==
  ASSUME HistoryOK, Tick
  PROVE  HistoryOK' /\ clock' # clock
<1>1. clock \in 0 .. MaxClock /\ clock < MaxClock /\ clock' = clock + 1
  BY DEF HistoryOK, StatsTypeOK, Now, Tick
<1>2. clock' \in Now /\ clock' # clock
  BY <1>1, StatsAssumption DEF Now
<1> QED
  BY <1>2 DEF HistoryOK, StatsTypeOK, Tick, Now

-----------------------------------------------------------------------------
(* The theorems. *)

(***************************************************************************)
(* The history is a finite set of rows, and the last answer was right.     *)
(***************************************************************************)
ApiInv ==
  /\ TypeOK
  /\ HistoryOK
  /\ BlameIsRight
  /\ DocumentedAnswers

LEMMA InitApiInv == Init => ApiInv
<1> SUFFICES ASSUME Init PROVE ApiInv
  OBVIOUS
<1>1. history = {} /\ clock = 0 /\ zone \in Zones /\ reply = NoReply
  BY DEF Init, StatsInit
<1>2. HistoryOK
  BY <1>1, FS_EmptySet, StatsAssumption DEF HistoryOK, StatsTypeOK, Now
<1>3. TypeOK
  BY <1>1, <1>2 DEF TypeOK, HistoryOK, Init
<1>4. BlameIsRight /\ DocumentedAnswers
  BY <1>1 DEF BlameIsRight, DocumentedAnswers
<1> QED
  BY <1>2, <1>3, <1>4 DEF ApiInv

LEMMA NextApiInv ==
  ASSUME ApiInv, [Next]_vars
  PROVE  ApiInv' /\ (clock' = clock /\ Refused' => UNCHANGED <<table, history>>
                      \/ UNCHANGED vars)
<1>1. TypeOK /\ HistoryOK
  BY DEF ApiInv
<1>2. ASSUME StepOK, HistoryOK'
      PROVE  ApiInv' /\ (Refused' => UNCHANGED <<table, history>>)
  <2>1. TypeOK'
    BY <1>2 DEF StepOK, AnswerOK, TableOK, TypeOK, HistoryOK, Replies
  <2> QED
    BY <1>2, <2>1 DEF StepOK, AnswerOK, Harmless, ApiInv
<1>3. CASE Create \/ List \/ Get \/ Put \/ Delete \/ Stats \/ Health
  <2>1. StepOK /\ UNCHANGED statsVars
    BY <1>1, <1>3, CreateRight, ListRight, GetRight, PutRight, DeleteRight, StatsRight, HealthRight
  <2>2. HistoryOK'
    BY <1>1, <2>1, HistoryStays
  <2> QED
    BY <1>2, <2>1, <2>2
<1>4. CASE CheckRoute
  BY <1>1, <1>2, <1>4, CheckRouteRight
<1>5. CASE TimePasses
  <2>1. Tick /\ UNCHANGED <<table, reply>>
    BY <1>5 DEF TimePasses
  <2>2. HistoryOK' /\ clock' # clock
    BY <1>1, <2>1, TickKeeps
  <2>3. TypeOK' /\ BlameIsRight' /\ DocumentedAnswers'
    <3>1. TypeOK'
      BY <2>1, <2>2 DEF ApiInv, TypeOK, HistoryOK
    <3>2. BlameIsRight'
      BY <2>1 DEF ApiInv, BlameIsRight, Misjudged, Refused, Done
    <3>3. DocumentedAnswers'
      BY <2>1 DEF ApiInv, DocumentedAnswers
    <3> QED
      BY <3>1, <3>2, <3>3
  <2> QED
    BY <2>2, <2>3 DEF ApiInv
<1>6. CASE UNCHANGED vars
  <2>1. UNCHANGED statsVars /\ UNCHANGED <<table, reply>>
    BY <1>6 DEF vars
  <2>2. HistoryOK'
    BY <1>1, <2>1, HistoryStays
  <2>3. TypeOK'
    BY <2>1, <2>2 DEF ApiInv, TypeOK, HistoryOK
  <2>4. BlameIsRight'
    BY <2>1 DEF ApiInv, BlameIsRight, Misjudged, Refused, Done
  <2>5. DocumentedAnswers'
    BY <2>1 DEF ApiInv, DocumentedAnswers
  <2> QED
    BY <1>6, <2>2, <2>3, <2>4, <2>5 DEF ApiInv
<1> QED
  BY <1>3, <1>4, <1>5, <1>6 DEF Next

(* The types, and a history that stays finite, through all requests. *)
THEOREM Invariance == Spec => []ApiInv
<1>1. ApiInv /\ [Next]_vars => ApiInv'
  BY NextApiInv
<1> QED
  BY <1>1, InitApiInv, PTL DEF Spec

(* Every variable keeps its type, through every route and every answer. *)
THEOREM TypeCorrect == Spec => []TypeOK
<1>1. ApiInv => TypeOK
  BY DEF ApiInv
<1> QED
  BY <1>1, Invariance, PTL

(***************************************************************************)
(* GET /incidents/stats counts every user once and is exact but for what   *)
(* the time zones of the process and of the database differ.               *)
(***************************************************************************)
THEOREM ReportsAreExactButForZones == Spec => []StatsWithinSkew
<1>1. ApiInv => StatsWithinSkew
  BY ReportWithinSkew DEF ApiInv
<1> QED
  BY <1>1, Invariance, PTL

(***************************************************************************)
(* A client is refused for a fault of his own only, and a flawless request *)
(* fails only with a store.  The faults of a client that are not refused   *)
(* are those Misjudged names, values that only Postgres refuses among      *)
(* them: they are answered with 500, or 204 by DELETE.                     *)
(***************************************************************************)
THEOREM NobodyElseIsBlamed == Spec => []BlameIsRight
<1>1. ApiInv => BlameIsRight
  BY DEF ApiInv
<1> QED
  BY <1>1, Invariance, PTL

(* Every status that is answered is one the annotations list, 401 and 503 aside. *)
THEOREM AnswersAreDocumented == Spec => []DocumentedAnswers
<1>1. ApiInv => DocumentedAnswers
  BY DEF ApiInv
<1> QED
  BY <1>1, Invariance, PTL

(* A request that is refused has left the incidents and the history alone. *)
THEOREM RefusalsAreHarmless == Spec => RefusedChangesNothing
<1>1. ApiInv /\ [Next]_vars =>
        [clock' = clock /\ Refused' => UNCHANGED <<table, history>>]_vars
  BY NextApiInv
<1> QED
  BY <1>1, Invariance, PTL DEF Spec, RefusedChangesNothing

================================================================================
