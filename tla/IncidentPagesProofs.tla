------------------------- MODULE IncidentPagesProofs -------------------------
(***************************************************************************)
(* The properties of IncidentPages, proved for every table, every clock    *)
(* and every width of int.                                                 *)
(*                                                                         *)
(* An incident whose created_at nobody shares has one place in every order *)
(* the database may choose: behind the rows that are newer (Rank).  A walk *)
(* has passed exactly the places below Skipped, and an insertion only      *)
(* pushes an incident further back.                                        *)
(***************************************************************************)
EXTENDS IncidentPages, FiniteSetTheorems, FunctionTheorems, SequenceTheorems, TLAPS

Newer(id) == {other \in Listed : rows[other] > rows[id]}

Rank(id) == Cardinality(Newer(id))

(* The rows before the next page of the walk, and before the page asked for. *)
Skipped == (walk.page - 1) * walk.limit

Before == (get.page - 1) * get.limit

HasPage == get.stage \in {"count", "answered"}

-----------------------------------------------------------------------------
(* int arithmetic is exact where it does not overflow. *)
LEMMA WrapFits ==
  ASSUME NEW n \in 0 .. MaxInt
  PROVE  Wrap(n) = n
  <1>1. MaxInt \in Nat
    BY TableAssumption
  <1>2. \A x, m \in Int : 0 <= x /\ x < m => x % m = x
    OBVIOUS
  <1>3. (n + MaxInt + 1) % (2 * (MaxInt + 1)) = n + MaxInt + 1
    BY <1>1, <1>2
  <1> QED
    BY <1>1, <1>3 DEF Wrap

LEMMA WrapType ==
  ASSUME NEW n \in Int
  PROVE  Wrap(n) \in Ints
  <1>1. MaxInt \in Nat
    BY TableAssumption
  <1>2. \A x, m \in Int : m > 0 => x % m \in 0 .. m - 1
    OBVIOUS
  <1> QED
    BY <1>1, <1>2 DEF Wrap, Ints

(* A listing in the order asked for names every row, once. *)
LEMMA OrderedType ==
  ASSUME IsFiniteSet(Listed), NEW s \in Ordered
  PROVE  /\ Cardinality(Listed) \in Nat
         /\ s \in [1 .. Cardinality(Listed) -> Listed]
         /\ s \in Seq(Listed)
         /\ Len(s) = Cardinality(Listed)
         /\ \A id \in Listed : \E i \in 1 .. Len(s) : s[i] = id
         /\ \A i, j \in 1 .. Len(s) : i # j => s[i] # s[j]
         /\ \A i, j \in 1 .. Len(s) : i < j => rows[s[i]] >= rows[s[j]]
  <1> DEFINE N == Cardinality(Listed)
  <1>1. N \in Nat
    BY FS_CardinalityType
  <1>2. /\ s \in [1 .. N -> Listed]
        /\ \A i, j \in 1 .. N : i # j => s[i] # s[j]
        /\ \A i, j \in DOMAIN s : i < j => rows[s[i]] >= rows[s[j]]
    BY DEF Ordered, SetToSeqs
  <1>3. s \in Seq(Listed) /\ Len(s) = N
    BY <1>1, <1>2
  <1>4. s \in Injection(1 .. N, Listed)
    BY <1>2 DEF Injection, IsInjective
  <1>5. Cardinality(1 .. N) = N
    BY <1>1, FS_Interval
  <1>6. s \in Surjection(1 .. N, Listed)
    BY <1>4, <1>5, FS_Injection
  <1>7. \A id \in Listed : \E i \in 1 .. N : s[i] = id
    BY <1>6 DEF Surjection
  <1> QED
    BY <1>1, <1>2, <1>3, <1>7

(* The place of a row whose created_at nobody shares. *)
LEMMA Place ==
  ASSUME IsFiniteSet(Listed), \A id \in Listed : rows[id] \in Int,
         NEW s \in Ordered, NEW i \in 1 .. Len(s), ~Tied(s[i])
  PROVE  Rank(s[i]) = i - 1
  <1> DEFINE f == [j \in 1 .. i - 1 |-> s[j]]
  <1>1. /\ \A id \in Listed : \E j \in 1 .. Len(s) : s[j] = id
        /\ \A j, k \in 1 .. Len(s) : j # k => s[j] # s[k]
        /\ \A j, k \in 1 .. Len(s) : j < k => rows[s[j]] >= rows[s[k]]
        /\ \A j \in 1 .. Len(s) : s[j] \in Listed
        /\ Len(s) \in Nat
    BY OrderedType
  <1>2. ASSUME NEW j \in 1 .. i - 1
        PROVE  s[j] \in Newer(s[i])
    <2>1. j \in 1 .. Len(s) /\ j < i
      BY <1>1
    <2>2. rows[s[j]] >= rows[s[i]] /\ s[j] # s[i] /\ s[j] \in Listed /\ s[i] \in Listed
      BY <1>1, <2>1
    <2>3. rows[s[j]] # rows[s[i]]
      BY <2>2 DEF Tied
    <2> QED
      BY <2>2, <2>3 DEF Newer
  <1>3. ASSUME NEW id \in Newer(s[i])
        PROVE  \E j \in 1 .. i - 1 : s[j] = id
    <2>1. id \in Listed /\ rows[id] > rows[s[i]] /\ s[i] \in Listed
      BY <1>1 DEF Newer
    <2>2. PICK j \in 1 .. Len(s) : s[j] = id
      BY <1>1, <2>1
    <2>3. ~(i < j) /\ j # i
      BY <1>1, <2>1, <2>2
    <2> QED
      BY <1>1, <2>2, <2>3
  <1>4. f \in [1 .. i - 1 -> Newer(s[i])]
    BY <1>2
  <1>5. f \in Injection(1 .. i - 1, Newer(s[i]))
    BY <1>1, <1>4 DEF Injection, IsInjective
  <1>6. f \in Surjection(1 .. i - 1, Newer(s[i]))
    BY <1>3, <1>4 DEF Surjection
  <1>7. ExistsBijection(1 .. i - 1, Newer(s[i]))
    BY <1>5, <1>6 DEF ExistsBijection, Bijection
  <1> QED
    BY <1>1, <1>7, FS_CountingElements DEF Rank

(* What a page holds of the listing it is taken from. *)
LEMMA Page ==
  ASSUME IsFiniteSet(Listed), NEW s \in Ordered,
         NEW limit \in Nat, NEW offset \in Nat,
         NEW n \in 0 .. Len(Slice(s, limit, offset))
  PROVE  LET items == SubSeq(Slice(s, limit, offset), 1, n)
             whole == Len(Slice(s, limit, offset))
         IN /\ items \in Seq(Listed)
            /\ Len(items) = n
            /\ whole \in 0 .. limit
            /\ whole > 0 => offset + whole <= Cardinality(Listed)
            /\ whole < limit => offset + whole >= Cardinality(Listed)
            /\ \A i \in 1 .. n : items[i] = s[offset + i]
  <1> DEFINE last == Min({offset + limit, Len(s)})
             page == Slice(s, limit, offset)
  <1>1. s \in Seq(Listed) /\ Len(s) = Cardinality(Listed) /\ Len(s) \in Nat
    BY OrderedType
  <1>2. /\ last \in Int
        /\ last <= offset + limit
        /\ last <= Len(s)
        /\ last = offset + limit \/ last = Len(s)
    <2> DEFINE small == IF offset + limit <= Len(s) THEN offset + limit ELSE Len(s)
    <2>1. small \in {offset + limit, Len(s)} /\ \A y \in {offset + limit, Len(s)} : small <= y
      BY <1>1
    <2>2. last \in {offset + limit, Len(s)} /\ \A y \in {offset + limit, Len(s)} : last <= y
      BY <2>1 DEF Min
    <2> QED
      BY <1>1, <2>2
  <1>3. \A i \in offset + 1 .. last : s[i] \in Listed
    BY <1>1, <1>2
  <1>4. /\ page \in Seq(Listed)
        /\ Len(page) = IF offset + 1 <= last THEN last - offset ELSE 0
        /\ \A i \in 1 .. last - offset : page[i] = s[offset + i]
    <2> HIDE DEF last
    <2>1. /\ SubSeq(s, offset + 1, last) \in Seq(Listed)
          /\ Len(SubSeq(s, offset + 1, last)) =
               IF offset + 1 <= last THEN last - (offset + 1) + 1 ELSE 0
          /\ \A i \in 1 .. last - (offset + 1) + 1 :
               SubSeq(s, offset + 1, last)[i] = s[(offset + 1) + i - 1]
      BY <1>2, <1>3, SubSeqProperties
    <2>2. page = SubSeq(s, offset + 1, last)
      BY DEF Slice, last
    <2>3. /\ last - (offset + 1) + 1 = last - offset
          /\ \A i \in Int : (offset + 1) + i - 1 = offset + i
      BY <1>2
    <2> QED
      BY <2>1, <2>2, <2>3
  <1> HIDE DEF last, page
  <1>5. \A i \in 1 .. n : page[i] \in Listed
    BY <1>4, <1>2 DEF page
  <1>6. /\ SubSeq(page, 1, n) \in Seq(Listed)
        /\ Len(SubSeq(page, 1, n)) = IF 1 <= n THEN n - 1 + 1 ELSE 0
        /\ \A i \in 1 .. n - 1 + 1 : SubSeq(page, 1, n)[i] = page[1 + i - 1]
    <2>1. n \in Int
      BY <1>4 DEF page
    <2> QED
      BY <1>5, <2>1, SubSeqProperties
  <1>7. n \in Nat /\ n <= Len(page)
    BY <1>4 DEF page
  <1>8. Len(SubSeq(page, 1, n)) = n
    BY <1>6, <1>7
  <1>9. ASSUME NEW i \in 1 .. n
        PROVE  SubSeq(page, 1, n)[i] = s[offset + i]
    <2>1. i \in 1 .. n - 1 + 1 /\ 1 + i - 1 = i /\ i \in 1 .. last - offset
      BY <1>2, <1>4, <1>7
    <2> QED
      BY <1>4, <1>6, <2>1
  <1>10. /\ Len(page) \in 0 .. limit
         /\ Len(page) > 0 => offset + Len(page) <= Cardinality(Listed)
         /\ Len(page) < limit => offset + Len(page) >= Cardinality(Listed)
    BY <1>1, <1>2, <1>4
  <1> QED
    BY <1>6, <1>8, <1>9, <1>10 DEF page

-----------------------------------------------------------------------------
(* The inductive invariant. *)

(* A request of the walk is for its next page. *)
InStep ==
  walk.on /\ get.stage # "idle" =>
    get.page = walk.page /\ get.limit = walk.limit /\ ~walk.ended

WalkOK ==
  /\ walk.start \subseteq Listed
  /\ walk.ended => walk.on
  /\ walk.on /\ ~walk.ended => ~walk.cut /\ Skipped <= Cardinality(Listed)

PageOK ==
  /\ get.stage = "rejected" => ~Fits
  /\ HasPage =>
       /\ Len(get.items) <= get.limit
       /\ get.cut => Len(get.items) < get.limit
       /\ Fits /\ get.items # <<>> =>
            Before + Len(get.items) <=
              IF get.stage = "count" THEN Cardinality(Listed) ELSE get.total
  /\ get.stage = "answered" => get.total <= Cardinality(Listed)

(* What the walk has not met lies ahead, or on the page that is under way. *)
Ahead ==
  walk.on /\ ~walk.ended =>
    \A id \in walk.start \ walk.seen : Tied(id) \/ Rank(id) >= Skipped

OnPage ==
  walk.on /\ HasPage /\ ~get.cut =>
    \A id \in walk.start \ walk.seen :
      \/ Tied(id)
      \/ id \in Range(get.items)
      \/ Len(get.items) = get.limit /\ Rank(id) >= Before + get.limit

(* What it has met lies behind, as long as nothing is inserted. *)
Behind ==
  walk.on /\ walk.start = Listed =>
    /\ \A id \in walk.seen : Tied(id) \/ Rank(id) < Skipped
    /\ \A id \in walk.twice : Tied(id)

PageInPlace ==
  walk.on /\ walk.start = Listed /\ HasPage =>
    \A id \in Range(get.items) :
      Tied(id) \/ (Rank(id) >= Before /\ Rank(id) < Before + get.limit)

Inv ==
  TypeOK /\ InStep /\ WalkOK /\ PageOK /\ Ahead /\ OnPage /\ Behind /\ PageInPlace
    /\ WalkMissesNothing

-----------------------------------------------------------------------------
LEMMA ListedFinite ==
  ASSUME TypeOK
  PROVE  /\ IsFiniteSet(Listed)
         /\ Cardinality(Listed) \in 0 .. Cardinality(Ids)
         /\ Cardinality(Ids) \in Nat
         /\ \A id \in Listed : rows[id] \in Int
  <1>1. IsFiniteSet(Ids) /\ Listed \in SUBSET Ids
    BY TableAssumption DEF TypeOK
  <1>2. IsFiniteSet(Listed) /\ Cardinality(Listed) <= Cardinality(Ids)
    BY <1>1, FS_Subset
  <1>3. Cardinality(Listed) \in Nat /\ Cardinality(Ids) \in Nat
    BY <1>1, <1>2, FS_CardinalityType
  <1>4. \A id \in Listed : rows[id] \in Int
    BY TableAssumption DEF TypeOK
  <1> QED
    BY <1>2, <1>3, <1>4

LEMMA RankType ==
  ASSUME IsFiniteSet(Listed), NEW id
  PROVE  Rank(id) \in Nat
  <1>1. Newer(id) \in SUBSET Listed
    BY DEF Newer
  <1> QED
    BY <1>1, FS_Subset, FS_CardinalityType DEF Rank

(* What get and walk are made of. *)
LEMMA Fields ==
  ASSUME TypeOK
  PROVE  /\ get.page \in 1 .. MaxInt /\ get.limit \in 1 .. MaxInt
         /\ walk.page \in 1 .. MaxInt /\ walk.limit \in 1 .. MaxInt
         /\ MaxInt \in Nat
         /\ Before \in Nat /\ Skipped \in Nat
         /\ get.items \in Seq(Ids) /\ Len(get.items) \in Nat
         /\ get.total \in Nat
  <1>1. /\ get.page \in 1 .. MaxInt /\ get.limit \in 1 .. MaxInt
        /\ walk.page \in 1 .. MaxInt /\ walk.limit \in 1 .. MaxInt
        /\ get.items \in Seq(Ids) /\ get.total \in 0 .. Cardinality(Ids)
    BY DEF TypeOK
  <1>2. \A m, n \in Nat : m * n \in Nat
    OBVIOUS
  <1>3. MaxInt \in Nat /\ Cardinality(Ids) \in Nat
    BY TableAssumption, FS_CardinalityType
  <1>4. get.page - 1 \in Nat /\ walk.page - 1 \in Nat /\ get.limit \in Nat /\ walk.limit \in Nat
    BY <1>1, <1>3
  <1>5. Before \in Nat /\ Skipped \in Nat
    BY <1>2, <1>4 DEF Before, Skipped
  <1> QED
    BY <1>1, <1>3, <1>5

LEMMA InitOK ==
  ASSUME Init
  PROVE  Inv
  <1>1. Listed = {} /\ rows = <<>>
    BY DEF Init, Listed
  <1>2. Cardinality({}) = 0 /\ Cardinality(Ids) \in Nat
    BY FS_EmptySet, FS_CardinalityType, TableAssumption
  <1>3. 1 \in 1 .. MaxInt
    BY <1>2, TableAssumption
  <1>4. <<>> \in Seq(Ids)
    OBVIOUS
  <1>5. TypeOK
    BY <1>1, <1>2, <1>3, <1>4 DEF TypeOK, Init, NoRequest, NoWalk, Stage
  <1>6. InStep /\ WalkOK
    BY <1>1, <1>2 DEF Init, InStep, WalkOK, NoRequest, NoWalk
  <1>7. PageOK /\ OnPage /\ PageInPlace
    BY DEF Init, PageOK, HasPage, NoRequest, OnPage, PageInPlace
  <1>8. Ahead /\ Behind /\ WalkMissesNothing
    BY DEF Init, Ahead, Behind, WalkMissesNothing, NoWalk
  <1> QED
    BY <1>5, <1>6, <1>7, <1>8 DEF Inv

(* An insertion pushes back what is listed, and leaves ties. *)
LEMMA InsertPushes ==
  ASSUME TypeOK, NEW id \in Ids, NEW t \in Times, Insert(id, t)
  PROVE  /\ Listed' = Listed \cup {id} /\ id \notin Listed
         /\ \A other \in Listed : rows'[other] = rows[other]
         /\ rows'[id] = t
         /\ Cardinality(Listed') = Cardinality(Listed) + 1
         /\ \A other \in Listed : Tied(other) => Tied(other)'
         /\ \A other \in Listed : Rank(other)' >= Rank(other)
  <1>1. /\ Listed' = Listed \cup {id} /\ id \notin Listed
        /\ \A other \in Listed : rows'[other] = rows[other]
        /\ rows'[id] = t
    BY DEF Insert, Listed
  <1>2. IsFiniteSet(Listed)
    BY ListedFinite
  <1>3. Cardinality(Listed') = Cardinality(Listed) + 1 /\ IsFiniteSet(Listed')
    BY <1>1, <1>2, FS_AddElement
  <1>4. ASSUME NEW other \in Listed, Tied(other)
        PROVE  Tied(other)'
    BY <1>1, <1>4 DEF Tied
  <1>5. ASSUME NEW other \in Listed
        PROVE  Rank(other)' >= Rank(other)
    <2>1. Newer(other) \in SUBSET (Newer(other)')
      BY <1>1 DEF Newer
    <2>2. Newer(other)' \in SUBSET (Listed')
      BY DEF Newer
    <2>3. IsFiniteSet(Newer(other)')
      BY <1>3, <2>2, FS_Subset
    <2>4. Cardinality(Newer(other)) <= Cardinality(Newer(other)')
      BY <2>1, <2>3, FS_Subset
    <2>5. /\ Cardinality(Newer(other)) \in Nat
          /\ Cardinality(Newer(other)') \in Nat
      BY <2>1, <2>3, FS_Subset, FS_CardinalityType
    <2> QED
      BY <2>4, <2>5 DEF Rank
  <1> QED
    BY <1>1, <1>3, <1>4, <1>5

LEMMA SameRows ==
  ASSUME UNCHANGED rows
  PROVE  /\ Listed' = Listed
         /\ \A id : Rank(id)' = Rank(id) /\ (Tied(id)' <=> Tied(id))
  BY DEF Listed, Rank, Newer, Tied

LEMMA InsertKeeps ==
  ASSUME Inv, NEW id \in Ids, NEW t \in Times, Insert(id, t)
  PROVE  Inv'
  <1>1. UNCHANGED <<get, walk>>
    BY DEF Insert
  <1>2. /\ Listed' = Listed \cup {id} /\ id \notin Listed
        /\ \A other \in Listed : rows'[other] = rows[other]
        /\ rows'[id] = t
        /\ Cardinality(Listed') = Cardinality(Listed) + 1
        /\ \A other \in Listed : Tied(other) => Tied(other)'
        /\ \A other \in Listed : Rank(other)' >= Rank(other)
    BY InsertPushes DEF Inv
  <1>3. TypeOK'
    BY <1>1, <1>2 DEF Inv, TypeOK
  <1>4. /\ IsFiniteSet(Listed) /\ IsFiniteSet(Listed') /\ Cardinality(Listed) \in Nat
    BY <1>3, ListedFinite, FS_AddElement, <1>2 DEF Inv
  <1>5. walk.start \subseteq Listed /\ walk.start # Listed'
    BY <1>2 DEF Inv, WalkOK
  <1>6. /\ \A other \in Listed : Rank(other) \in Nat
        /\ \A other \in Listed : Rank(other)' \in Nat
    <2>1. \A other \in Listed : Newer(other)' \in SUBSET (Listed')
      BY DEF Newer
    <2>2. \A other \in Listed : Cardinality(Newer(other)') \in Nat
      BY <2>1, <1>4, FS_Subset, FS_CardinalityType
    <2> QED
      BY <1>4, <2>2, RankType DEF Rank
  <1>7. /\ Before \in Nat /\ Skipped \in Nat /\ Len(get.items) \in Nat
        /\ walk.limit \in Nat /\ get.limit \in Nat /\ get.total \in Nat
        /\ Before' = Before /\ Skipped' = Skipped
        /\ (HasPage' <=> HasPage) /\ (Fits' <=> Fits)
    BY <1>1, Fields DEF Inv, Before, Skipped, HasPage, Fits
  <1>8. InStep'
    BY <1>1 DEF Inv, InStep
  <1>9. WalkOK'
    BY <1>1, <1>2, <1>4, <1>7 DEF Inv, WalkOK
  <1>10. PageOK'
    BY <1>1, <1>2, <1>4, <1>7 DEF Inv, PageOK
  <1>11. Ahead'
    BY <1>1, <1>2, <1>5, <1>6, <1>7 DEF Inv, Ahead
  <1>12. OnPage'
    <2> HIDE DEF Range
    <2> QED
      BY <1>1, <1>2, <1>5, <1>6, <1>7 DEF Inv, OnPage
  <1>13. Behind' /\ PageInPlace'
    BY <1>1, <1>5 DEF Behind, PageInPlace
  <1>14. WalkMissesNothing'
    BY <1>1, <1>2, <1>5 DEF Inv, WalkMissesNothing
  <1> QED
    BY <1>3, <1>8, <1>9, <1>10, <1>11, <1>12, <1>13, <1>14 DEF Inv

-----------------------------------------------------------------------------
(* A step that leaves rows and walk alone may only disturb get. *)
LEMMA WalkUntouched ==
  ASSUME Inv, UNCHANGED <<rows, walk>>
  PROVE  WalkOK' /\ Ahead' /\ Behind' /\ WalkMissesNothing'
  <1>1. Listed' = Listed /\ \A id : Rank(id)' = Rank(id) /\ (Tied(id)' <=> Tied(id))
    BY SameRows
  <1>2. Skipped' = Skipped
    BY DEF Skipped
  <1> QED
    BY <1>1, <1>2 DEF Inv, WalkOK, Ahead, Behind, WalkMissesNothing

LEMMA RequestKeeps ==
  ASSUME Inv, NEW p \in Ints, NEW l \in Ints, Request(p, l),
         walk.on => p = walk.page /\ l = walk.limit /\ ~walk.ended
  PROVE  Inv'
  <1>1. UNCHANGED <<rows, walk>>
    BY DEF Request
  <1>2. WalkOK' /\ Ahead' /\ Behind' /\ WalkMissesNothing'
    BY <1>1, WalkUntouched
  <1>3. MaxInt \in Nat /\ walk.page \in 1 .. MaxInt /\ walk.limit \in 1 .. MaxInt
    BY Fields DEF Inv
  <1>4. /\ PageOf(p) \in 1 .. MaxInt /\ LimitOf(l) \in 1 .. MaxInt
        /\ PageOf(walk.page) = walk.page /\ LimitOf(walk.limit) = walk.limit
    BY <1>3, LimitAssumption, TableAssumption DEF PageOf, LimitOf, Ints
  <1>5. /\ get'.stage = "query" /\ get'.page = PageOf(p) /\ get'.limit = LimitOf(l)
        /\ get'.items = <<>> /\ get'.total = 0 /\ ~get'.cut
    BY DEF Request, NoRequest
  <1>6. TypeOK'
    <2>1. 0 \in 0 .. Cardinality(Ids) /\ <<>> \in Seq(Ids)
      BY ListedFinite DEF Inv
    <2> QED
      BY <1>1, <1>4, <2>1 DEF Inv, TypeOK, Request, NoRequest, Stage, Listed
  <1>7. InStep'
    BY <1>1, <1>4, <1>5 DEF InStep
  <1>8. PageOK' /\ OnPage' /\ PageInPlace'
    BY <1>5 DEF PageOK, HasPage, OnPage, PageInPlace
  <1> QED
    BY <1>2, <1>6, <1>7, <1>8 DEF Inv

(***************************************************************************)
(* Only an OFFSET that does not fit an int is rejected.  On a page of the  *)
(* walk, what is ahead is on the page or behind its last place, for a page *)
(* shorter than its limit reaches the end of the table.                    *)
(***************************************************************************)
LEMMA QueryKeeps ==
  ASSUME Inv, Query
  PROVE  Inv'
  <1> DEFINE offset == Offset(get.page, get.limit)
  <1>1. UNCHANGED <<rows, walk>> /\ get.stage = "query"
    BY DEF Query
  <1>2. WalkOK' /\ Ahead' /\ Behind' /\ WalkMissesNothing'
    BY <1>1, WalkUntouched
  <1>3. /\ get.page \in 1 .. MaxInt /\ get.limit \in 1 .. MaxInt /\ MaxInt \in Nat
        /\ Before \in Nat /\ Skipped \in Nat
        /\ IsFiniteSet(Listed) /\ Cardinality(Listed) \in Nat
        /\ Cardinality(Listed) < MaxInt /\ Cardinality(Ids) \in Nat
        /\ \A id \in Listed : rows[id] \in Int
    BY Fields, ListedFinite, TableAssumption DEF Inv
  <1>4. Fits <=> Before <= MaxInt
    BY DEF Fits, Before
  <1>5. Fits => offset = Before
    BY <1>3, <1>4, WrapFits DEF Offset, Before
  <1>6. offset \in Int
    BY <1>3, WrapType DEF Offset, Ints, Before
  <1> HIDE DEF offset
  <1>7. CASE offset < 0
    <2>1. get' = [get EXCEPT !.stage = "rejected"]
      BY <1>7 DEF Query, offset
    <2>2. get' = [get EXCEPT !.stage = "rejected"] /\ get'.stage = "rejected"
          /\ get'.page = get.page /\ get'.limit = get.limit
      BY <2>1 DEF Inv, TypeOK
    <2>3. TypeOK'
      BY <1>1, <2>1 DEF Inv, TypeOK, Stage, Listed
    <2>4. ~Fits /\ ~Fits'
      BY <1>3, <1>5, <1>7, <2>2 DEF Fits
    <2>5. InStep'
      BY <1>1, <2>2 DEF Inv, InStep
    <2>6. PageOK' /\ OnPage' /\ PageInPlace'
      BY <2>2, <2>4 DEF PageOK, HasPage, OnPage, PageInPlace
    <2> QED
      BY <1>2, <2>3, <2>5, <2>6 DEF Inv
  <1>8. CASE offset >= 0
    <2> DEFINE whole(s) == Len(Slice(s, get.limit, offset))
    <2>0. PICK s \in Ordered : \E n \in 0 .. whole(s) :
             get' = [get EXCEPT !.stage = "count",
                                !.items = SubSeq(Slice(s, get.limit, offset), 1, n),
                                !.cut = n < whole(s)]
      <3>1. ~(offset < 0)
        BY <1>6, <1>8
      <3> QED
        BY <3>1, Zenon DEF Query, offset
    <2>1. PICK n \in 0 .. whole(s) :
            get' = [get EXCEPT !.stage = "count",
                               !.items = SubSeq(Slice(s, get.limit, offset), 1, n),
                               !.cut = n < whole(s)]
      BY <2>0
    <2>2. get.limit \in Nat /\ offset \in Nat
      BY <1>3, <1>6, <1>8
    <2> DEFINE items == SubSeq(Slice(s, get.limit, offset), 1, n)
    <2>3. /\ items \in Seq(Listed)
          /\ Len(items) = n
          /\ whole(s) \in 0 .. get.limit
          /\ whole(s) > 0 => offset + whole(s) <= Cardinality(Listed)
          /\ whole(s) < get.limit => offset + whole(s) >= Cardinality(Listed)
          /\ \A i \in 1 .. n : items[i] = s[offset + i]
      BY <1>3, <2>2, Page
    <2>4. /\ get'.stage = "count" /\ get'.page = get.page /\ get'.limit = get.limit
          /\ get'.items = items /\ get'.total = get.total /\ get'.cut = (n < whole(s))
      BY <2>1 DEF Inv, TypeOK
    <2> HIDE DEF items, whole
    <2>5. Listed' = Listed /\ \A id : Rank(id)' = Rank(id) /\ (Tied(id)' <=> Tied(id))
      BY <1>1, SameRows
    <2>6. n \in Nat /\ whole(s) \in Nat /\ n <= whole(s)
      BY <2>3 DEF whole
    <2>7. TypeOK'
      <3>1. items \in Seq(Ids)
        BY <2>3 DEF Inv, TypeOK
      <3>2. (n < whole(s)) \in BOOLEAN
        OBVIOUS
      <3>3. get' = [get EXCEPT !.stage = "count", !.items = items, !.cut = n < whole(s)]
        BY <2>1 DEF items, whole
      <3> QED
        BY <1>1, <3>1, <3>2, <3>3 DEF Inv, TypeOK, Stage, Listed
    <2>8. InStep'
      BY <1>1, <2>4 DEF Inv, InStep
    <2>9. Before' = Before /\ (Fits' <=> Fits) /\ HasPage' /\ (get'.cut <=> n < whole(s))
      BY <2>4 DEF Before, Fits, HasPage
    <2>10. PageOK'
      <3>1. get'.cut => Len(items) < get.limit
        BY <1>3, <2>3, <2>6, <2>9
      <3>2. Fits /\ items # <<>> => Before + Len(items) <= Cardinality(Listed)
        <4>1. items # <<>> => n > 0
          BY <2>3, <2>6
        <4> QED
          BY <1>3, <1>5, <2>3, <2>6, <4>1
      <3> QED
        BY <1>3, <2>3, <2>4, <2>5, <2>6, <2>9, <3>1, <3>2 DEF PageOK
    <2>11. /\ s \in [1 .. Cardinality(Listed) -> Listed]
           /\ Len(s) = Cardinality(Listed)
           /\ \A id \in Listed : \E i \in 1 .. Len(s) : s[i] = id
           /\ \A i \in 1 .. Len(s) : Tied(s[i]) \/ Rank(s[i]) = i - 1
      BY <1>3, OrderedType, Place
    <2>12. walk.on => offset = Before /\ Skipped = Before /\ ~walk.ended
      BY <1>1, <1>3, <1>4, <1>5 DEF Inv, InStep, WalkOK, Skipped, Before
    <2>13. OnPage'
      <3>1. ASSUME walk.on, ~get'.cut, NEW id \in walk.start \ walk.seen, ~Tied(id),
                   id \notin Range(items)
            PROVE  Len(items) = get.limit /\ Rank(id) >= Before + get.limit
        <4>1. id \in Listed /\ Rank(id) >= Before
          BY <2>12, <3>1 DEF Inv, WalkOK, Ahead
        <4>2. PICK i \in 1 .. Len(s) : s[i] = id /\ Rank(id) = i - 1
          BY <2>11, <3>1, <4>1
        <4>3. n = whole(s)
          BY <2>6, <2>9, <3>1
        <4>4. \A j \in 1 .. n : items[j] # id
          <5>1. DOMAIN items = 1 .. n
            BY <2>3
          <5> QED
            BY <3>1, <5>1 DEF Range
        <4>5. ~(i - offset \in 1 .. n)
          BY <2>3, <4>2, <4>4, <1>6
        <4>6. i > offset + n
          BY <1>3, <2>6, <2>12, <3>1, <4>1, <4>2, <4>5
        <4>7. whole(s) = get.limit
          BY <1>3, <1>6, <2>3, <2>6, <2>11, <4>2, <4>3, <4>6
        <4> QED
          BY <1>3, <2>3, <2>12, <3>1, <4>2, <4>3, <4>6, <4>7
      <3> QED
        BY <1>1, <2>4, <2>5, <2>9, <3>1 DEF OnPage
    <2>14. PageInPlace'
      <3>1. ASSUME walk.on, NEW id \in Range(items), ~Tied(id)
            PROVE  Rank(id) >= Before /\ Rank(id) < Before + get.limit
        <4>1. PICK i \in 1 .. n : items[i] = id
          BY <2>3, <3>1 DEF Range
        <4>2. s[offset + i] = id
          BY <2>3, <4>1
        <4>3. offset + i \in 1 .. Len(s)
          BY <1>3, <2>2, <2>3, <2>6, <2>11, <4>1
        <4>4. Rank(id) = offset + i - 1
          <5>1. PICK k \in 1 .. Len(s) : k = offset + i
            BY <4>3
          <5>2. s[k] = id /\ (Tied(s[k]) \/ Rank(s[k]) = k - 1)
            BY <2>11, <4>2, <5>1
          <5> QED
            BY <2>2, <2>6, <3>1, <5>1, <5>2
        <4> QED
          BY <1>3, <2>3, <2>6, <2>12, <3>1, <4>1, <4>4
      <3> QED
        BY <1>1, <2>4, <2>5, <2>9, <3>1 DEF PageInPlace
    <2> QED
      BY <1>2, <2>7, <2>8, <2>10, <2>13, <2>14 DEF Inv
  <1> QED
    BY <1>6, <1>7, <1>8

LEMMA CountKeeps ==
  ASSUME Inv, Count
  PROVE  Inv'
  <1>1. UNCHANGED <<rows, walk>> /\ get.stage = "count"
    BY DEF Count
  <1>2. WalkOK' /\ Ahead' /\ Behind' /\ WalkMissesNothing'
    BY <1>1, WalkUntouched
  <1>3. get' = [get EXCEPT !.stage = "answered", !.total = Cardinality(Listed)]
    BY DEF Count
  <1>4. /\ get'.stage = "answered" /\ get'.page = get.page /\ get'.limit = get.limit
        /\ get'.items = get.items /\ get'.total = Cardinality(Listed) /\ get'.cut = get.cut
    BY <1>3 DEF Inv, TypeOK
  <1>5. Listed' = Listed /\ \A id : Rank(id)' = Rank(id) /\ (Tied(id)' <=> Tied(id))
    BY <1>1, SameRows
  <1>6. Cardinality(Listed) \in 0 .. Cardinality(Ids) /\ Cardinality(Ids) \in Nat
    BY ListedFinite DEF Inv
  <1>7. TypeOK'
    BY <1>1, <1>3, <1>6 DEF Inv, TypeOK, Stage, Listed
  <1>8. Before' = Before /\ (Fits' <=> Fits) /\ HasPage /\ HasPage'
    BY <1>1, <1>4 DEF Before, Fits, HasPage
  <1>9. InStep'
    BY <1>1, <1>4 DEF Inv, InStep
  <1>10. PageOK'
    BY <1>1, <1>4, <1>5, <1>6, <1>8 DEF Inv, PageOK
  <1>11. OnPage' /\ PageInPlace'
    BY <1>1, <1>4, <1>5, <1>8 DEF Inv, OnPage, PageInPlace
  <1> QED
    BY <1>2, <1>7, <1>9, <1>10, <1>11 DEF Inv

LEMMA FailKeeps ==
  ASSUME Inv, Fail
  PROVE  Inv'
  <1>1. UNCHANGED <<rows, walk>> /\ get.stage # "idle"
    BY DEF Fail
  <1>2. WalkOK' /\ Ahead' /\ Behind' /\ WalkMissesNothing'
    BY <1>1, WalkUntouched
  <1>3. get' = [get EXCEPT !.stage = "failed"]
    BY DEF Fail
  <1>4. get'.stage = "failed" /\ get'.page = get.page /\ get'.limit = get.limit
    BY <1>3 DEF Inv, TypeOK
  <1>5. TypeOK'
    BY <1>1, <1>3 DEF Inv, TypeOK, Stage, Listed
  <1>6. InStep'
    BY <1>1, <1>4 DEF Inv, InStep
  <1>7. PageOK' /\ OnPage' /\ PageInPlace'
    BY <1>4 DEF PageOK, HasPage, OnPage, PageInPlace
  <1> QED
    BY <1>2, <1>5, <1>6, <1>7 DEF Inv

LEMMA NoWalkKeeps ==
  ASSUME Inv, UNCHANGED rows, walk' = NoWalk, UNCHANGED get \/ get' = NoRequest
  PROVE  Inv'
  <1>1. ~walk'.on /\ walk'.start = {} /\ ~walk'.ended
    BY DEF NoWalk
  <1>2. Listed' = Listed /\ 1 \in 1 .. MaxInt /\ Cardinality(Ids) \in Nat
    BY SameRows, TableAssumption, FS_CardinalityType
  <1>3. TypeOK'
    <2>1. 0 \in 0 .. Cardinality(Ids) /\ <<>> \in Seq(Ids)
      BY <1>2
    <2>2. /\ NoRequest \in [stage : Stage, page : 1 .. MaxInt, limit : 1 .. MaxInt,
                             items : Seq(Ids), total : 0 .. Cardinality(Ids), cut : BOOLEAN]
          /\ NoWalk \in [on : BOOLEAN, page : 1 .. MaxInt, limit : 1 .. MaxInt,
                          start : SUBSET Ids, seen : SUBSET Ids, twice : SUBSET Ids,
                          ended : BOOLEAN, cut : BOOLEAN]
      BY <1>2, <2>1 DEF NoWalk, NoRequest, Stage
    <2> QED
      BY <1>2, <2>2 DEF Inv, TypeOK, Listed
  <1>4. PageOK'
    <2>1. CASE UNCHANGED get
      BY <1>2, <2>1 DEF Inv, PageOK, Fits, Before, HasPage
    <2>2. CASE get' = NoRequest
      BY <2>2 DEF NoRequest, PageOK, HasPage
    <2> QED
      BY <2>1, <2>2
  <1>5. InStep' /\ WalkOK' /\ Ahead' /\ OnPage' /\ Behind' /\ PageInPlace' /\ WalkMissesNothing'
    BY <1>1 DEF InStep, WalkOK, Ahead, OnPage, Behind, PageInPlace, WalkMissesNothing
  <1> QED
    BY <1>3, <1>4, <1>5 DEF Inv

LEMMA StartWalkKeeps ==
  ASSUME Inv, NEW limit \in WalkLimits, StartWalk(limit)
  PROVE  Inv'
  <1>1. UNCHANGED <<rows, get>> /\ get.stage = "idle"
    BY DEF StartWalk
  <1>2. /\ walk'.on /\ walk'.page = 1 /\ walk'.limit = limit /\ walk'.start = Listed
        /\ walk'.seen = {} /\ walk'.twice = {} /\ ~walk'.ended /\ ~walk'.cut
    BY DEF StartWalk, NoWalk
  <1>3. limit \in 1 .. MaxInt /\ MaxInt \in Nat /\ Cardinality(Listed) \in Nat
    BY LimitAssumption, TableAssumption, ListedFinite DEF Inv
  <1>4. Skipped' = 0
    BY <1>2, <1>3 DEF Skipped
  <1>5. Listed' = Listed /\ \A id : Rank(id)' = Rank(id) /\ (Tied(id)' <=> Tied(id))
    BY <1>1, SameRows
  <1>6. TypeOK'
    <2>1. 1 \in 1 .. MaxInt
      BY <1>3
    <2> QED
      BY <1>1, <1>3, <2>1 DEF Inv, TypeOK, StartWalk, NoWalk, Listed
  <1>7. \A id : Rank(id) \in Nat
    BY RankType, ListedFinite DEF Inv
  <1>8. WalkOK'
    BY <1>2, <1>3, <1>4, <1>5 DEF WalkOK
  <1>9. PageOK'
    BY <1>1 DEF PageOK, HasPage
  <1>10. Ahead'
    BY <1>2, <1>4, <1>5, <1>7 DEF Ahead
  <1>11. InStep' /\ OnPage' /\ PageInPlace'
    BY <1>1 DEF InStep, OnPage, PageInPlace, HasPage
  <1>12. Behind' /\ WalkMissesNothing'
    BY <1>2 DEF Behind, WalkMissesNothing
  <1> QED
    BY <1>6, <1>8, <1>9, <1>10, <1>11, <1>12 DEF Inv

(***************************************************************************)
(* The next page begins where a full page ended, and a page that was not   *)
(* full was the last, or was cut short.                                    *)
(***************************************************************************)
LEMMA ReceiveKeeps ==
  ASSUME Inv, Receive
  PROVE  Inv'
  <1>1. UNCHANGED rows /\ get' = NoRequest /\ get.stage # "idle"
    BY DEF Receive
  <1>2. CASE ~walk.on
    <2>1. UNCHANGED walk
      BY <1>2 DEF Receive
    <2>2. WalkOK' /\ Ahead' /\ Behind' /\ WalkMissesNothing'
      BY <1>1, <2>1, WalkUntouched
    <2>3. TypeOK'
      <3>1. 0 \in 0 .. Cardinality(Ids) /\ <<>> \in Seq(Ids) /\ 1 \in 1 .. MaxInt
        BY ListedFinite, Fields DEF Inv
      <3> QED
        BY <1>1, <2>1, <3>1 DEF Inv, TypeOK, NoRequest, Stage, Listed
    <2>4. get'.stage = "idle"
      BY <1>1 DEF NoRequest
    <2>5. InStep' /\ PageOK' /\ OnPage' /\ PageInPlace'
      BY <2>4 DEF InStep, PageOK, HasPage, OnPage, PageInPlace
    <2> QED
      BY <2>2, <2>3, <2>5 DEF Inv
  <1>3. CASE walk.on /\ get.stage # "answered"
    <2>1. walk' = NoWalk
      BY <1>3 DEF Receive
    <2> QED
      BY <1>1, <2>1, NoWalkKeeps
  <1>4. CASE walk.on /\ get.stage = "answered"
    <2>1. walk' = [walk EXCEPT !.page = walk.page + 1,
                               !.seen = walk.seen \cup Range(get.items),
                               !.twice = walk.twice \cup (walk.seen \cap Range(get.items)),
                               !.ended = Len(get.items) < walk.limit,
                               !.cut = walk.cut \/ get.cut]
      BY <1>4 DEF Receive
    <2>2. /\ walk'.on /\ walk'.page = walk.page + 1 /\ walk'.limit = walk.limit
          /\ walk'.start = walk.start
          /\ walk'.seen = walk.seen \cup Range(get.items)
          /\ walk'.twice = walk.twice \cup (walk.seen \cap Range(get.items))
          /\ walk'.ended <=> Len(get.items) < walk.limit
          /\ walk'.cut <=> walk.cut \/ get.cut
      BY <1>4, <2>1 DEF Inv, TypeOK
    <2>3. /\ get.page = walk.page /\ get.limit = walk.limit /\ ~walk.ended /\ ~walk.cut
          /\ Skipped <= Cardinality(Listed) /\ Before = Skipped
      BY <1>4 DEF Inv, InStep, WalkOK, Before, Skipped
    <2>4. /\ walk.page \in 1 .. MaxInt /\ walk.limit \in 1 .. MaxInt /\ MaxInt \in Nat
          /\ Skipped \in Nat /\ get.items \in Seq(Ids) /\ Len(get.items) \in Nat
          /\ Cardinality(Listed) \in 0 .. Cardinality(Ids) /\ Cardinality(Ids) \in Nat
          /\ Cardinality(Ids) + 1 < MaxInt /\ get.total \in Nat
      BY Fields, ListedFinite, TableAssumption DEF Inv
    <2>5. Listed' = Listed /\ \A id : Rank(id)' = Rank(id) /\ (Tied(id)' <=> Tied(id))
      BY <1>1, SameRows
    <2>6. \A id : Rank(id) \in Nat
      BY RankType, ListedFinite DEF Inv
    <2>7. Skipped' = Skipped + walk.limit
      BY <2>2, <2>4 DEF Skipped
    <2>8. Fits
      BY <2>3, <2>4 DEF Fits, Before
    <2>9. /\ Len(get.items) <= walk.limit
          /\ get.cut => Len(get.items) < walk.limit
          /\ Len(get.items) > 0 => Skipped + Len(get.items) <= Cardinality(Listed)
      BY <1>4, <2>3, <2>4, <2>8 DEF Inv, PageOK, HasPage
    <2>10. TypeOK'
      <3>1. walk.page + 1 \in 1 .. MaxInt
        <4>1. walk.page - 1 <= Skipped
          BY <2>4 DEF Skipped
        <4> QED
          BY <2>3, <2>4, <4>1
      <3>2. Range(get.items) \subseteq Ids
        BY <2>4, RangeOfSeq
      <3>3. 0 \in 0 .. Cardinality(Ids) /\ <<>> \in Seq(Ids) /\ 1 \in 1 .. MaxInt
        BY <2>4
      <3>4. (Len(get.items) < walk.limit) \in BOOLEAN /\ (walk.cut \/ get.cut) \in BOOLEAN
        OBVIOUS
      <3> HIDE DEF Range
      <3>5. walk' \in [on : BOOLEAN, page : 1 .. MaxInt, limit : 1 .. MaxInt,
                       start : SUBSET Ids, seen : SUBSET Ids, twice : SUBSET Ids,
                       ended : BOOLEAN, cut : BOOLEAN]
        BY <2>1, <3>1, <3>2, <3>4 DEF Inv, TypeOK
      <3> QED
        BY <1>1, <3>3, <3>5 DEF Inv, TypeOK, NoRequest, Stage, Listed
    <2>11. WalkOK'
      BY <2>2, <2>3, <2>4, <2>5, <2>7, <2>9 DEF Inv, WalkOK
    <2>12. Ahead' /\ WalkMissesNothing'
      <3>1. ~get.cut =>
              \A id \in walk'.start \ walk'.seen :
                Tied(id) \/ (Len(get.items) = walk.limit /\ Rank(id) >= Skipped + walk.limit)
        BY <1>4, <2>2, <2>3 DEF Inv, OnPage, HasPage
      <3>2. walk'.ended => Len(get.items) # walk.limit
        BY <2>2, <2>4
      <3>3. ~walk'.ended => ~get.cut
        BY <2>2, <2>9
      <3>4. Ahead'
        BY <2>5, <2>7, <3>1, <3>3 DEF Ahead
      <3>5. WalkMissesNothing'
        BY <2>2, <2>5, <3>1, <3>2 DEF WalkMissesNothing
      <3> QED
        BY <3>4, <3>5
    <2>13. Behind'
      <3>1. ASSUME walk.start = Listed
            PROVE  /\ \A id \in walk'.seen : Tied(id) \/ Rank(id) < Skipped + walk.limit
                   /\ \A id \in walk'.twice : Tied(id)
        <4>1. /\ \A id \in walk.seen : Tied(id) \/ Rank(id) < Skipped
              /\ \A id \in walk.twice : Tied(id)
          BY <1>4, <3>1 DEF Inv, Behind
        <4>2. \A id \in Range(get.items) :
                Tied(id) \/ (Rank(id) >= Skipped /\ Rank(id) < Skipped + walk.limit)
          BY <1>4, <2>3, <3>1 DEF Inv, PageInPlace, HasPage
        <4> HIDE DEF Range
        <4> QED
          BY <2>2, <2>4, <2>6, <4>1, <4>2
      <3> QED
        BY <2>2, <2>5, <2>7, <3>1 DEF Behind
    <2>14. get'.stage = "idle"
      BY <1>1 DEF NoRequest
    <2>15. InStep' /\ PageOK' /\ OnPage' /\ PageInPlace'
      BY <2>14 DEF InStep, PageOK, HasPage, OnPage, PageInPlace
    <2> QED
      BY <2>10, <2>11, <2>12, <2>13, <2>15 DEF Inv
  <1> QED
    BY <1>2, <1>3, <1>4

LEMMA Unmoved ==
  ASSUME Inv, UNCHANGED vars
  PROVE  Inv'
  <1>1. UNCHANGED <<rows, get, walk>>
    BY DEF vars
  <1>2. WalkOK' /\ Ahead' /\ Behind' /\ WalkMissesNothing'
    BY <1>1, WalkUntouched
  <1>3. Listed' = Listed /\ \A id : Rank(id)' = Rank(id) /\ (Tied(id)' <=> Tied(id))
    BY <1>1, SameRows
  <1>4. TypeOK' /\ InStep' /\ PageOK'
    BY <1>1, <1>3 DEF Inv, TypeOK, InStep, PageOK, Before, HasPage, Fits
  <1>5. OnPage' /\ PageInPlace'
    BY <1>1, <1>3 DEF Inv, OnPage, PageInPlace, Before, HasPage
  <1> QED
    BY <1>2, <1>4, <1>5 DEF Inv

LEMMA Step ==
  ASSUME Inv, [Next]_vars
  PROVE  Inv'
  <1>1. ASSUME NEW id \in Ids, NEW t \in Times, Insert(id, t) PROVE Inv'
    BY <1>1, InsertKeeps
  <1>2. ASSUME NEW p \in Ints, NEW l \in Ints, Ask(p, l) PROVE Inv'
    BY <1>2, RequestKeeps DEF Ask
  <1>3. ASSUME NEW l \in WalkLimits, StartWalk(l) PROVE Inv'
    BY <1>3, StartWalkKeeps
  <1>4. ASSUME NextPage PROVE Inv'
    <2>1. walk.page \in Ints /\ walk.limit \in Ints
      BY Fields DEF Inv, Ints
    <2> QED
      BY <1>4, <2>1, RequestKeeps DEF NextPage
  <1>5. ASSUME EndWalk PROVE Inv'
    BY <1>5, NoWalkKeeps DEF EndWalk
  <1> QED
    BY <1>1, <1>2, <1>3, <1>4, <1>5, QueryKeeps, CountKeeps, FailKeeps, ReceiveKeeps, Unmoved
       DEF Next

(* Inv holds of GET /api/v1/incidents whatever is inserted meanwhile. *)
THEOREM Invariance == Spec => []Inv
  BY InitOK, Step, PTL DEF Spec

(* get and walk keep their types: no page number of a walk overflows. *)
THEOREM TypeCorrect == Spec => []TypeOK
  <1>1. Inv => TypeOK
    BY DEF Inv
  <1> QED
    BY <1>1, Invariance, PTL

(* A walk over the pages misses nothing that was there when it began. *)
THEOREM WalksMissNothing == Spec => []WalkMissesNothing
  <1>1. Inv => WalkMissesNothing
    BY DEF Inv
  <1> QED
    BY <1>1, Invariance, PTL

(* A walk meets nothing twice unless something was inserted. *)
THEOREM WalksRepeatOnlyAfterInserts == Spec => []WalkRepeatsOnlyAfterInserts
  <1>1. Inv => WalkRepeatsOnlyAfterInserts
    BY DEF Inv, Behind, WalkRepeatsOnlyAfterInserts
  <1> QED
    BY <1>1, Invariance, PTL

(* Every page is a part of the table, and its total is not behind it. *)
THEOREM HonestPages == Spec => []PagesAreHonest
  <1>1. Inv => PagesAreHonest
    BY DEF Inv, PageOK, PagesAreHonest, HasPage, Before
  <1> QED
    BY <1>1, Invariance, PTL

=============================================================================
