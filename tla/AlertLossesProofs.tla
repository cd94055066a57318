--------------------------- MODULE AlertLossesProofs ---------------------------
(***************************************************************************)
(* Proofs about AlertLosses: where alerts go, for any number of checks,    *)
(* incidents, attempts and resends, and any combination of disturbances.   *)
(***************************************************************************)
EXTENDS AlertLossesInv, LocationChecksProofs

(* The checks of which a step loses a task. *)
Losing == {c \in Checks : Loses(c)}

(* The right-hand sides of Account, for one check. *)
Pushes(c) == IF InList(c)' > InList(c) THEN InList(c)' - InList(c) ELSE 0

Sends(c) == IF Calls(c) THEN 1 ELSE 0

Takes(c) == IF Calls(c) /\ receiving THEN 1 ELSE 0

Losts(c) == IF Loses(c) THEN 1 ELSE 0

(* The tasks about c that a step gives up after the last attempt. *)
Ends(c) == (InList(c) + InHand(c) + Pushes(c)) - (InList(c)' + InHand(c)' + Losts(c) + Takes(c))

InDanger(c) == answer[c] = "ok" /\ found[c] # {}

(* A handler that is done stays so. *)
DoneStays == \A c \in Checks : pc[c] = "done" => pc'[c] = "done"

(* Nobody is newly answered that he is in danger. *)
NoNewDanger == \A c \in Checks : InDanger(c)' => InDanger(c)

-----------------------------------------------------------------------------
(* The books: what one step does to the account of one check. *)

LEMMA AccountNumbers ==
  ASSUME CheckInv, AccountInv, NEW c \in Checks
  PROVE  /\ InList(c) \in Nat /\ InHand(c) \in {0, 1} /\ Used \in Nat
         /\ Credit(c) \in Nat /\ Owed(c) = sent[c] + Credit(c)
         /\ sent[c] \in Nat /\ pushed[c] \in Nat /\ delivered[c] \in Nat
         /\ lost[c] \in Nat /\ accepted[c] \in Nat
         /\ attempt \in Nat /\ hand \subseteq Task /\ queue \in Seq(Task)
BY Numbers DEF AccountInv, AccountTypes, Owed

LEMMA OwedNext ==
  ASSUME NEW c, InList(c)' \in Nat, InHand(c)' \in Nat, Used' \in Nat, sent'[c] \in Nat
  PROVE  Owed(c)' = sent'[c] + Credit(c)' /\ Credit(c)' \in Int
BY AttemptsAssumption DEF Owed, Credit

LEMMA AccountAt ==
  ASSUME Account, NEW c \in Checks
  PROVE  /\ pushed'[c] = pushed[c] + Pushes(c)
         /\ sent'[c] = sent[c] + Sends(c)
         /\ accepted'[c] = accepted[c] + Takes(c)
         /\ lost'[c] = lost[c] + Losts(c)
         /\ c \in missed' <=> c \in missed \/ PushFails(c)
BY DEF Account, Pushes, Sends, Takes, Losts

LEMMA BalanceKept ==
  ASSUME CheckInv, AccountInv, Account, NEW c \in Checks,
         Pushes(c) \in Nat, Sends(c) \in Nat,
         InList(c)' \in Nat, InHand(c)' \in Nat, Used' \in Nat, delivered'[c] \in Nat,
         delivered[c] <= delivered'[c], delivered'[c] <= delivered[c] + Sends(c),
         Credit(c)' + Sends(c) <= Credit(c) + MaxAttempts * Pushes(c)
  PROVE  Balanced(c)'
<1>1. /\ Credit(c) \in Int /\ Owed(c) = sent[c] + Credit(c)
      /\ sent[c] \in Nat /\ pushed[c] \in Nat /\ delivered[c] \in Nat
  BY AccountNumbers
<1>2. pushed'[c] = pushed[c] + Pushes(c) /\ sent'[c] = sent[c] + Sends(c)
  BY AccountAt
<1>3. Owed(c)' = sent'[c] + Credit(c)' /\ Credit(c)' \in Int
  BY <1>1, <1>2, OwedNext
<1>4. MaxAttempts * pushed'[c] = MaxAttempts * pushed[c] + MaxAttempts * Pushes(c)
  BY <1>1, <1>2, AttemptsAssumption, Distribute
<1>5. MaxAttempts * pushed[c] \in Int /\ MaxAttempts * Pushes(c) \in Int
  BY <1>1, AttemptsAssumption
<1>6. Balanced(c)
  BY DEF AccountInv
<1>7. delivered'[c] <= sent'[c]
  BY <1>1, <1>2, <1>6 DEF Balanced
<1>8. Owed(c)' <= MaxAttempts * pushed'[c]
  BY <1>1, <1>2, <1>3, <1>4, <1>5, <1>6 DEF Balanced
<1> QED
  BY <1>7, <1>8 DEF Balanced

LEMMA TraceNumbers ==
  ASSUME CheckInv, AccountInv, NEW c \in Checks
  PROVE  /\ InList(c) \in Nat /\ InHand(c) \in Nat /\ Used \in Nat /\ sent[c] \in Nat
         /\ pushed[c] \in Nat /\ lost[c] \in Nat /\ accepted[c] \in Nat
<1>1. /\ InList(c) \in Nat /\ Used \in Nat /\ sent[c] \in Nat
      /\ pushed[c] \in Nat /\ lost[c] \in Nat /\ accepted[c] \in Nat
  BY AccountNumbers
<1>2. InHand(c) \in {0, 1}
  BY AccountNumbers
<1>3. InHand(c) \in Nat
  BY <1>2
<1> QED
  BY <1>1, <1>3

(* A step gives up a task only when all its attempts have been made in vain. *)
LEMMA TraceKept ==
  ASSUME CheckInv, AccountInv, Account, NEW c \in Checks,
         Pushes(c) \in Nat, Sends(c) \in Nat, Ends(c) \in Nat,
         InList(c)' \in Nat, InHand(c)' \in Nat, Used' \in Nat,
         Takes(c) + MaxAttempts * Ends(c) + Used' * InHand(c)' <= Sends(c) + Used * InHand(c)
  PROVE  Traced(c)'
<1>1. /\ InList(c) \in Nat /\ InHand(c) \in Nat /\ Used \in Nat /\ sent[c] \in Nat
      /\ pushed[c] \in Nat /\ lost[c] \in Nat /\ accepted[c] \in Nat
  BY TraceNumbers
<1>2. /\ pushed'[c] = pushed[c] + Pushes(c) /\ sent'[c] = sent[c] + Sends(c)
      /\ accepted'[c] = accepted[c] + Takes(c) /\ lost'[c] = lost[c] + Losts(c)
  BY AccountAt
<1>3. Takes(c) \in Nat /\ Losts(c) \in Nat
  BY DEF Takes, Losts
<1>4. GivenUp(c)' = GivenUp(c) + Ends(c) /\ GivenUp(c) \in Int
  BY <1>1, <1>2, <1>3 DEF GivenUp, Known, Ends
<1>5. Traced(c)
  BY DEF AccountInv
<1>6. MaxAttempts * GivenUp(c)' = MaxAttempts * GivenUp(c) + MaxAttempts * Ends(c)
  BY <1>4, AttemptsAssumption, Distribute
<1>7. PICK g \in Int, e \in Int, u \in Int, v \in Int :
        /\ g = MaxAttempts * GivenUp(c) /\ e = MaxAttempts * Ends(c)
        /\ u = Used * InHand(c) /\ v = Used' * InHand(c)'
  <2>1. \A a, b \in Int : a * b \in Int
    OBVIOUS
  <2> QED
    BY <1>1, <1>4, <2>1, AttemptsAssumption
<1>8. sent[c] >= accepted[c] + g + u /\ Takes(c) + e + v <= Sends(c) + u
  BY <1>5, <1>7 DEF Traced
<1>9. sent'[c] >= accepted'[c] + (g + e) + v
  BY <1>1, <1>2, <1>3, <1>8
<1>10. GivenUp(c)' >= 0
  BY <1>4, <1>5 DEF Traced
<1> QED
  BY <1>6, <1>7, <1>9, <1>10 DEF Traced

(* A step that ends no task but by a loss, and leaves no attempt uncounted. *)
LEMMA TraceCalm ==
  ASSUME CheckInv, AccountInv, Account, NEW c \in Checks,
         Pushes(c) \in Nat, Sends(c) \in Nat, Takes(c) = 0,
         Ends(c) \in Nat, Ends(c) = 0 \/ MaxAttempts = 0,
         InList(c)' \in Nat, InHand(c)' \in Nat, Used' \in Nat,
         \/ Used' * InHand(c)' = 0
         \/ Used' * InHand(c)' = Used * InHand(c)
  PROVE  Traced(c)'
<1>1. MaxAttempts * Ends(c) = 0
  BY AttemptsAssumption
<1>2. PICK m \in Nat, n \in Nat : m = Used /\ n = InHand(c)
  BY TraceNumbers
<1>3. \A a, b \in Nat : a * b \in Int /\ a * b >= 0
  OBVIOUS
<1>4. PICK u \in Int : u = Used * InHand(c) /\ u >= 0
  BY <1>2, <1>3
<1>5. Used' * InHand(c)' <= u /\ Used' * InHand(c)' \in Int
  BY <1>4
<1>6. Takes(c) + MaxAttempts * Ends(c) + Used' * InHand(c)' <= Sends(c) + Used * InHand(c)
  BY <1>1, <1>4, <1>5
<1> QED
  BY <1>6, TraceKept

(* A cancelled worker that is here has ended, or ends with its next step. *)
Ended == {"again", "stopped"}

(* Of a stop: it may lose the task of one check, and that ends the worker. *)
LEMMA StopKept ==
  ASSUME AccountInv, Account, NEW x, Losing \subseteq {x},
         Losing # {} /\ stopping => sender \notin Ended /\ sender' \in Ended,
         sender \in Ended /\ stopping => sender' \in Ended \/ ~stopping'
  PROVE  StopOK' /\ stopLosses' \in Nat
<1>1. stopLosses' = IF ~stopping THEN 0 ELSE stopLosses + Cardinality(Losing)
  BY DEF Account, Losing
<1>2. StopOK /\ stopLosses \in Nat
  BY DEF AccountInv, AccountTypes
<1>3. Losing = {} \/ Losing = {x}
  OBVIOUS
<1>4. Cardinality({}) = 0 /\ Cardinality({x}) = 1
  BY FS_EmptySet, FS_Singleton
<1>5. CASE ~stopping
  BY <1>1, <1>5 DEF StopOK
<1>6. CASE stopping /\ Losing = {}
  <2>1. stopLosses' = stopLosses
    BY <1>1, <1>2, <1>4, <1>6
  <2> QED
    BY <1>2, <1>6, <2>1 DEF StopOK, Ended
<1>7. CASE stopping /\ Losing = {x}
  <2>1. stopLosses = 0 /\ sender' \in Ended
    BY <1>2, <1>7 DEF StopOK, Ended
  <2>2. stopLosses' = 1
    BY <1>1, <1>4, <1>7, <2>1
  <2> QED
    BY <2>1, <2>2 DEF StopOK, Ended
<1> QED
  BY <1>3, <1>5, <1>6, <1>7

(* Putting a step together. *)
LEMMA AccountKept ==
  ASSUME AccountInv, Account, DoneStays, OneInHand', StopOK', stopLosses' \in Nat,
         \A c \in Checks :
           /\ Balanced(c)' /\ Traced(c)' /\ Pushes(c) \in Nat /\ Sends(c) \in Nat
           /\ InDanger(c)' => InDanger(c) \/ Pushes(c) > 0 \/ PushFails(c),
         \A c \in Checks :
           Pushes(c) > 0 => pc[c] # "done" /\ pc'[c] = "done" /\ Pushes(c) <= MaxResends + 1
  PROVE  AccountInv'
<1>1. AccountTypes'
  BY DEF AccountInv, AccountTypes, Account, Pushes, Sends
<1>3. ASSUME NEW c \in Checks PROVE Pushed(c)'
  <2>1. /\ pushed'[c] = pushed[c] + Pushes(c) /\ Pushes(c) \in Nat /\ pushed[c] \in Nat
        /\ c \in missed' <=> c \in missed \/ PushFails(c)
    BY AccountAt DEF AccountInv, AccountTypes
  <2>2. Pushed(c)
    BY DEF AccountInv
  <2> QED
    BY <2>1, <2>2 DEF Pushed, InDanger
<1>2. ASSUME NEW c \in Checks PROVE PushedOnce(c)'
  <2>1. pushed'[c] = pushed[c] + Pushes(c) /\ Pushes(c) \in Nat /\ pushed[c] \in Nat
    BY AccountAt DEF AccountInv, AccountTypes
  <2>2. PushedOnce(c)
    BY DEF AccountInv
  <2>3. CASE Pushes(c) = 0
    BY <2>1, <2>2, <2>3 DEF PushedOnce, DoneStays
  <2>4. CASE Pushes(c) > 0
    BY <2>1, <2>2, <2>4 DEF PushedOnce
  <2> QED
    BY <2>1, <2>3, <2>4
<1> QED
  BY <1>1, <1>2, <1>3 DEF AccountInv

-----------------------------------------------------------------------------
(* The steps of the worker. *)

LEMMA PopAccounts ==
  ASSUME CheckInv, AccountInv, Account, Pop, UNCHANGED <<up, phase, handlerVars>>
  PROVE  AccountInv'
<1>1. /\ sender = "pop" /\ queue # <<>> /\ queue' = WithoutNewest /\ Handle(Newest)
      /\ UNCHANGED <<phase, pc, answer, found, stopping, delivered>>
  BY DEF Pop, handlerVars
<1>2. /\ attempt = 0 /\ hand = {} /\ queue \in Seq(Task)
      /\ delivered \in [Checks -> Nat]
  BY <1>1, WorkerFacts
<1>3. \A c \in Checks : /\ InList(c)' = IF Newest.check = c THEN InList(c) - 1 ELSE InList(c)
                        /\ InList(c)' \in Nat /\ InList(c) \in Nat /\ InHand(c) = 0
  BY <1>1, <1>2, InListPopped, HandEmpty, AccountNumbers
<1>4. Used = 0
  BY <1>1, <1>2 DEF Used
<1>5. \/ MaxAttempts = 0 /\ Loop
      \/ /\ MaxAttempts # 0
         /\ sender' = "send" /\ hand' = {Newest} /\ attempt' = 0
  BY <1>1, <1>2 DEF Handle
<1>6. Used' = 0 /\ sender' \in {"send", "pop", "stopped"} /\ OneInHand'
  BY <1>5 DEF Used, Loop, OneInHand
<1>7. ASSUME NEW c \in Checks
      PROVE  /\ Pushes(c) = 0 /\ Sends(c) = 0 /\ Takes(c) = 0
             /\ InHand(c)' \in Nat /\ Credit(c)' = Credit(c)
             /\ Ends(c) \in Nat /\ (Ends(c) = 0 \/ MaxAttempts = 0)
  <2>1. /\ Pushes(c) = 0 /\ Sends(c) = 0 /\ Takes(c) = 0
        /\ Losts(c) \in {0, 1} /\ (Losts(c) = 1 => hand' = {} /\ InList(c)' < InList(c))
    <3>1. InList(c)' <= InList(c) /\ sender # "send"
      BY <1>1, <1>3
    <3>2. Loses(c) => hand' = {} /\ InList(c)' < InList(c)
      BY <1>1 DEF Loses, PopLoses, StopLoses, CrashLoses
    <3> QED
      BY <1>3, <3>1, <3>2 DEF Pushes, Sends, Takes, Calls, Losts
  <2>2. Credit(c) = MaxAttempts * InList(c)
    BY <1>3, <1>4, AttemptsAssumption DEF Credit
  <2>3. CASE MaxAttempts = 0 /\ Loop
    <3>1. InHand(c)' = 0
      BY <2>3, HandEmptied DEF Loop
    <3>2. Credit(c)' = 0
      BY <1>3, <1>6, <2>3, <3>1 DEF Credit
    <3>3. Ends(c) \in Nat
      BY <1>3, <2>1, <3>1 DEF Ends
    <3> QED
      BY <1>3, <2>1, <2>2, <2>3, <3>1, <3>2, <3>3
  <2>4. CASE MaxAttempts # 0 /\ hand' = {Newest}
    <3>1. InHand(c)' = IF Newest.check = c THEN 1 ELSE 0
      BY <2>4, HandFilled
    <3>2. CASE Newest.check = c
      <4>1. InHand(c)' = 1 /\ InList(c)' = InList(c) - 1
        BY <1>3, <3>1, <3>2
      <4>2. Credit(c)' = MaxAttempts * (InList(c) - 1) + MaxAttempts
        BY <1>6, <4>1, AttemptsAssumption DEF Credit
      <4>3. Ends(c) = 0
        BY <1>3, <2>1, <2>4, <4>1 DEF Ends
      <4> QED
        BY <1>3, <2>1, <2>2, <4>1, <4>2, <4>3, AttemptsAssumption, TakeArith
    <3>3. CASE Newest.check # c
      <4>1. InHand(c)' = 0 /\ InList(c)' = InList(c)
        BY <1>3, <3>1, <3>3
      <4>2. Credit(c)' = MaxAttempts * InList(c)
        BY <1>3, <1>6, <4>1, AttemptsAssumption DEF Credit
      <4>3. Ends(c) = 0
        BY <1>3, <2>1, <2>4, <4>1 DEF Ends
      <4> QED
        BY <2>1, <2>2, <4>1, <4>2, <4>3
    <3> QED
      BY <3>2, <3>3
  <2> QED
    BY <1>5, <2>3, <2>4
<1>11. ASSUME NEW c \in Checks PROVE Traced(c)'
  <2>1. Used' * InHand(c)' = 0
    BY <1>6, <1>7
  <2>2. /\ Pushes(c) \in Nat /\ Sends(c) \in Nat /\ Takes(c) = 0 /\ Ends(c) \in Nat
        /\ Ends(c) = 0 \/ MaxAttempts = 0
        /\ InList(c)' \in Nat /\ InHand(c)' \in Nat /\ Used' \in Nat
    BY <1>3, <1>6, <1>7
  <2> QED
    BY <2>1, <2>2, TraceCalm
<1>8. ASSUME NEW c \in Checks PROVE Balanced(c)'
  <2>1. Credit(c) \in Int /\ MaxAttempts * Pushes(c) = 0
    BY <1>7, AccountNumbers, AttemptsAssumption
  <2> QED
    BY <1>1, <1>2, <1>3, <1>6, <1>7, <2>1, BalanceKept
<1>9. StopOK' /\ stopLosses' \in Nat
  <2>1. ASSUME NEW c \in Losing PROVE c = Newest.check /\ hand' = {}
    BY <1>1, <1>3, <2>1 DEF Losing, Loses, PopLoses, StopLoses, CrashLoses
  <2>2. Losing \subseteq {Newest.check}
    BY <2>1
  <2>3. Losing # {} /\ stopping => sender' = "stopped"
    BY <1>5, <2>1 DEF Loop
  <2> QED
    BY <1>1, <2>2, <2>3, StopKept DEF Ended
<1>10. DoneStays /\ NoNewDanger
  BY <1>1 DEF DoneStays, NoNewDanger, InDanger
<1> QED
  BY <1>6, <1>7, <1>8, <1>9, <1>10, <1>11, AccountKept DEF NoNewDanger

LEMMA PopLostAccounts ==
  ASSUME CheckInv, AccountInv, Account, PopFails \/ Continue \/ PopCancelled,
         UNCHANGED <<up, phase, handlerVars>>
  PROVE  AccountInv'
<1>1. /\ \/ sender = "pop" /\ (~up["redis"] \/ stopping)
         \/ sender = "again" /\ UNCHANGED queue
      /\ \/ Loop
         \/ sender = "pop" /\ sender' = "again" /\ UNCHANGED <<hand, attempt>>
      /\ UNCHANGED queue \/ (queue # <<>> /\ queue' = WithoutNewest)
      /\ UNCHANGED <<phase, pc, answer, found, stopping, delivered>>
  BY DEF PopFails, Continue, PopCancelled, handlerVars
<1>2. /\ attempt = 0 /\ hand = {} /\ queue \in Seq(Task)
      /\ delivered \in [Checks -> Nat]
  BY <1>1, WorkerFacts
<1>3. /\ hand' = {} /\ attempt' = 0 /\ sender' \in {"pop", "again", "stopped"}
      /\ stopping => sender' \in Ended
  BY <1>1, <1>2 DEF Loop, Ended
<1>4. ASSUME NEW c \in Checks
      PROVE  /\ InList(c)' \in Nat /\ InList(c) \in Nat /\ InList(c)' <= InList(c)
             /\ InList(c)' < InList(c) => Newest.check = c /\ InList(c)' = InList(c) - 1
  <2>1. InList(c) \in Nat
    BY AccountNumbers
  <2>2. CASE UNCHANGED queue
    BY <2>1, <2>2 DEF InList
  <2>3. CASE queue # <<>> /\ queue' = WithoutNewest
    BY <1>2, <2>1, <2>3, InListPopped
  <2> QED
    BY <1>1, <2>2, <2>3
<1>5. Used = 0 /\ Used' = 0 /\ OneInHand'
  BY <1>1, <1>2, <1>3 DEF Used, OneInHand
<1>10. ASSUME NEW c \in Checks PROVE Loses(c) <=> InList(c)' < InList(c)
  <2>1. UNCHANGED queue => InList(c)' = InList(c)
    BY DEF InList
  <2> QED
    BY <1>1, <1>2, <1>3, <1>4, <2>1 DEF Loses, PopLoses, StopLoses, CrashLoses
<1>6. ASSUME NEW c \in Checks
      PROVE  /\ Pushes(c) = 0 /\ Sends(c) = 0 /\ InHand(c)' = 0
             /\ Takes(c) = 0 /\ Ends(c) = 0
             /\ Credit(c) = MaxAttempts * InList(c)
             /\ Credit(c)' = MaxAttempts * InList(c)'
  <2>1. InHand(c) = 0 /\ InHand(c)' = 0
    BY <1>2, <1>3, HandEmpty, HandEmptied
  <2>2. Pushes(c) = 0 /\ Sends(c) = 0 /\ Takes(c) = 0
    BY <1>1, <1>4 DEF Pushes, Sends, Takes, Calls
  <2>3. Losts(c) = InList(c) - InList(c)'
    BY <1>4, <1>10 DEF Losts
  <2>4. Ends(c) = 0
    BY <1>4, <2>1, <2>2, <2>3 DEF Ends
  <2> QED
    BY <1>4, <1>5, <2>1, <2>2, <2>4, AttemptsAssumption DEF Credit
<1>11. ASSUME NEW c \in Checks PROVE Traced(c)'
  <2>1. Used' * InHand(c)' = 0
    BY <1>5, <1>6
  <2> QED
    BY <1>4, <1>5, <1>6, <2>1, TraceCalm
<1>7. ASSUME NEW c \in Checks PROVE Balanced(c)'
  <2>1. /\ Credit(c) \in Int /\ Credit(c)' \in Int /\ MaxAttempts * Pushes(c) = 0
        /\ Credit(c)' <= Credit(c)
    BY <1>4, <1>6, AccountNumbers, AttemptsAssumption, Fewer
  <2> QED
    BY <1>1, <1>2, <1>4, <1>5, <1>6, <2>1, BalanceKept
<1>8. StopOK' /\ stopLosses' \in Nat
  <2>1. Losing \subseteq {Newest.check}
    BY <1>4, <1>10 DEF Losing
  <2>2. Losing # {} => sender = "pop"
    <3>1. UNCHANGED queue => \A c \in Checks : InList(c)' = InList(c)
      BY DEF InList
    <3> QED
      BY <1>1, <1>4, <1>10, <3>1 DEF Losing
  <2> QED
    BY <1>3, <2>1, <2>2, StopKept DEF Ended
<1>9. DoneStays /\ NoNewDanger
  BY <1>1 DEF DoneStays, NoNewDanger, InDanger
<1> QED
  BY <1>5, <1>6, <1>7, <1>8, <1>9, <1>11, AccountKept DEF NoNewDanger


LEMMA SendAccounts ==
  ASSUME CheckInv, AccountInv, Account, Send, UNCHANGED <<up, phase, handlerVars>>
  PROVE  AccountInv'
<1>1. PICK t \in hand, o \in SendOutcomes :
        /\ Post(t, o)
        /\ IF o = "ok" \/ LastAttempt
           THEN Loop
           ELSE sender' = "backoff" /\ UNCHANGED <<hand, attempt>>
  BY DEF Send
<1>2. sender = "send" /\ UNCHANGED <<queue, phase, pc, answer, found, stopping>>
  BY DEF Send, handlerVars
<1>3. /\ attempt < MaxAttempts /\ attempt \in Nat /\ t \in Task
      /\ delivered \in [Checks -> Nat] /\ \A s \in hand : s = t
  BY <1>1, <1>2, WorkerFacts DEF AccountInv, OneInHand
<1>4. /\ OneInHand' /\ sender' \in {"pop", "stopped", "backoff"}
      /\ Used = attempt /\ Losing = {}
  <2>1. Loop => OneInHand'
    BY DEF Loop, OneInHand
  <2>2. sender' = "backoff" /\ UNCHANGED hand => OneInHand'
    BY <1>1 DEF AccountInv, OneInHand
  <2>3. OneInHand' /\ sender' \in {"pop", "stopped", "backoff"}
    <3>1. Loop => sender' \in {"pop", "stopped", "backoff"}
      BY DEF Loop
    <3> QED
      BY <1>1, <2>1, <2>2, <3>1
  <2>4. Used = attempt
    BY <1>2, <1>3 DEF Used
  <2>5. ASSUME NEW c \in Checks PROVE ~Loses(c)
    <3>1. InList(c)' = InList(c) /\ InList(c) \in Nat
      BY <1>2, AccountNumbers DEF InList
    <3> QED
      BY <1>2, <3>1 DEF Loses, PopLoses, StopLoses, CrashLoses
  <2> QED
    BY <2>3, <2>4, <2>5 DEF Losing
<1>5. ASSUME NEW c \in Checks
      PROVE  /\ Pushes(c) = 0 /\ Sends(c) = InHand(c) /\ ~Loses(c) /\ Losts(c) = 0
             /\ Takes(c) = IF receiving THEN InHand(c) ELSE 0
             /\ InList(c)' = InList(c) /\ InList(c) \in Nat
             /\ InHand(c) = IF t.check = c THEN 1 ELSE 0
  <2>1. InList(c)' = InList(c) /\ InList(c) \in Nat /\ InHand(c) \in {0, 1}
    BY <1>2, AccountNumbers DEF InList
  <2>2. InHand(c) = 1 <=> t.check = c
    BY <1>1, <1>3, InHandCount DEF AccountInv
  <2> QED
    BY <1>2, <1>4, <2>1, <2>2 DEF Pushes, Sends, Takes, Calls, Losing, Losts
<1>6. ASSUME NEW c \in Checks
      PROVE  /\ delivered'[c] \in Nat /\ delivered[c] <= delivered'[c]
             /\ delivered'[c] <= delivered[c] + Sends(c)
  <2>1. t.check \in Checks /\ delivered[c] \in Nat
    BY <1>3 DEF Task
  <2>2. CASE t.check = c
    BY <1>1, <1>3, <1>5, <2>1, <2>2 DEF Post, Executed
  <2>3. CASE t.check # c
    BY <1>1, <1>3, <1>5, <2>1, <2>3 DEF Post
  <2> QED
    BY <2>2, <2>3
<1>7. ASSUME NEW c \in Checks
      PROVE  /\ InHand(c)' \in Nat /\ Used' \in Nat
             /\ Credit(c)' + Sends(c) <= Credit(c)
  <2> DEFINE L == MaxAttempts * InList(c)
  <2>1. L \in Int
    BY <1>5, AttemptsAssumption
  <2>2. Credit(c) = L + (MaxAttempts - attempt) * InHand(c)
    BY <1>4 DEF Credit
  <2>3. CASE Loop
    <3>1. InHand(c)' = 0 /\ Used' = 0
      BY <2>3, HandEmptied DEF Loop, Used
    <3>2. Credit(c)' = L
      BY <1>5, <3>1, <2>1, AttemptsAssumption DEF Credit
    <3> HIDE DEF L
    <3> QED
      BY <1>3, <1>5, <2>1, <2>2, <3>1, <3>2, AttemptsAssumption
  <2>4. CASE sender' = "backoff" /\ UNCHANGED <<hand, attempt>>
    <3>1. InHand(c)' = InHand(c) /\ Used' = attempt + 1
      BY <2>4 DEF InHand, Used
    <3>2. Credit(c)' = L + (MaxAttempts - (attempt + 1)) * InHand(c)
      BY <1>5, <3>1 DEF Credit
    <3> HIDE DEF L
    <3> QED
      BY <1>3, <1>5, <2>1, <2>2, <3>1, <3>2, AttemptsAssumption
  <2> QED
    BY <1>1, <2>3, <2>4
<1>8. ASSUME NEW c \in Checks PROVE Balanced(c)'
  <2>1. Credit(c) \in Int /\ MaxAttempts * Pushes(c) = 0 /\ Sends(c) \in Nat
    BY <1>5, AccountNumbers, AttemptsAssumption
  <2>2. Credit(c) + MaxAttempts * Pushes(c) = Credit(c)
    BY <2>1
  <2> QED
    BY <1>5, <1>6, <1>7, <2>1, <2>2, BalanceKept
<1>12. ASSUME NEW c \in Checks PROVE Traced(c)'
  <2>1. InHand(c) \in {0, 1} /\ Used = attempt
    BY <1>4, <1>5
  <2>2. CASE Loop
    <3>1. InHand(c)' = 0 /\ Used' \in Nat /\ Used' = 0
      BY <2>2, HandEmptied DEF Loop, Used
    <3>2. Used' * InHand(c)' = 0
      BY <3>1
    <3>3. Ends(c) = InHand(c) - Takes(c)
      BY <1>5, <2>1, <3>1 DEF Ends
    <3>4. ~receiving => attempt = MaxAttempts - 1
      BY <1>1, <1>3, <2>2 DEF SendOutcomes, LastAttempt, Loop
    <3>5. /\ Ends(c) \in Nat
          /\ Takes(c) + MaxAttempts * Ends(c) <= Sends(c) + Used * InHand(c)
      <4>1. CASE receiving
        <5>1. Takes(c) = InHand(c) /\ Ends(c) = 0 /\ MaxAttempts * Ends(c) = 0
          BY <1>5, <2>1, <3>3, <4>1, AttemptsAssumption
        <5> QED
          BY <1>3, <1>5, <2>1, <5>1
      <4>2. CASE ~receiving /\ InHand(c) = 0
        <5>1. Takes(c) = 0 /\ Ends(c) = 0 /\ MaxAttempts * Ends(c) = 0
          BY <1>5, <2>1, <3>3, <4>2, AttemptsAssumption
        <5> QED
          BY <1>3, <1>5, <2>1, <4>2, <5>1
      <4>3. CASE ~receiving /\ InHand(c) = 1
        <5>1. Takes(c) = 0 /\ Ends(c) = 1 /\ MaxAttempts * Ends(c) = MaxAttempts
          BY <1>5, <2>1, <3>3, <4>3, AttemptsAssumption
        <5> QED
          BY <1>3, <1>5, <2>1, <3>4, <4>3, <5>1, AttemptsAssumption
      <4> QED
        BY <2>1, <4>1, <4>2, <4>3
    <3>6. Takes(c) + MaxAttempts * Ends(c) + Used' * InHand(c)' <= Sends(c) + Used * InHand(c)
      <4>1. Takes(c) \in Nat /\ MaxAttempts * Ends(c) \in Int
        BY <1>5, <2>1, <3>5, AttemptsAssumption
      <4> QED
        BY <3>2, <3>5, <4>1
    <3>7. /\ Pushes(c) \in Nat /\ Sends(c) \in Nat
          /\ InList(c)' \in Nat /\ InHand(c)' \in Nat
      BY <1>5, <2>1, <3>1
    <3> QED
      BY <3>1, <3>5, <3>6, <3>7, TraceKept
  <2>3. CASE ~receiving /\ sender' = "backoff" /\ UNCHANGED <<hand, attempt>>
    <3>1. InHand(c)' = InHand(c) /\ Used' = attempt + 1 /\ Used' \in Nat
      BY <1>3, <2>3 DEF InHand, Used
    <3>2. Takes(c) = 0 /\ Ends(c) = 0 /\ MaxAttempts * Ends(c) = 0
      <4>1. Takes(c) = 0 /\ Ends(c) = 0
        BY <1>5, <2>1, <2>3, <3>1 DEF Ends
      <4> QED
        BY <4>1, AttemptsAssumption
    <3>3. Used' * InHand(c)' <= Sends(c) + Used * InHand(c) /\ Used' * InHand(c)' \in Int
      <4>1. CASE InHand(c) = 0
        BY <1>3, <1>5, <2>1, <3>1, <4>1
      <4>2. CASE InHand(c) = 1
        BY <1>3, <1>5, <2>1, <3>1, <4>2
      <4> QED
        BY <2>1, <4>1, <4>2
    <3>4. Takes(c) + MaxAttempts * Ends(c) + Used' * InHand(c)' <= Sends(c) + Used * InHand(c)
      BY <3>2, <3>3
    <3>5. /\ Pushes(c) \in Nat /\ Sends(c) \in Nat /\ Ends(c) \in Nat
          /\ InList(c)' \in Nat /\ InHand(c)' \in Nat
      BY <1>5, <2>1, <3>1, <3>2
    <3> QED
      BY <3>1, <3>4, <3>5, TraceKept
  <2>4. Loop \/ (~receiving /\ sender' = "backoff" /\ UNCHANGED <<hand, attempt>>)
    BY <1>1 DEF SendOutcomes
  <2> QED
    BY <2>2, <2>3, <2>4
<1>9. StopOK' /\ stopLosses' \in Nat
  BY <1>2, <1>4, StopKept DEF Ended
<1>10. DoneStays /\ NoNewDanger
  BY <1>2 DEF DoneStays, NoNewDanger, InDanger
<1>11. \A c \in Checks : Pushes(c) \in Nat /\ Sends(c) \in Nat
  BY <1>5
<1> QED
  BY <1>4, <1>5, <1>8, <1>9, <1>10, <1>11, <1>12, AccountKept DEF NoNewDanger

LEMMA BackoffAccounts ==
  ASSUME CheckInv, AccountInv, Account, BackoffElapsed \/ BackoffCancelled,
         UNCHANGED <<up, phase, handlerVars>>
  PROVE  AccountInv'
<1>1. /\ sender = "backoff" /\ UNCHANGED <<queue, phase, pc, answer, found, stopping, delivered>>
      /\ hand # {}
  BY DEF BackoffElapsed, BackoffCancelled, handlerVars, AccountInv, OneInHand
<1>2. PICK t \in hand : \A s \in hand : s = t
  BY <1>1 DEF AccountInv, OneInHand
<1>3. /\ attempt + 1 < MaxAttempts /\ attempt \in Nat
      /\ delivered \in [Checks -> Nat] /\ Used = attempt + 1
  BY <1>1, WorkerFacts DEF Used
<1>4. \/ sender' = "send" /\ attempt' = attempt + 1 /\ UNCHANGED hand
      \/ stopping /\ sender' = "stopped" /\ hand' = {} /\ attempt' = 0
  BY <1>1 DEF BackoffElapsed, BackoffCancelled, Loop
<1>5. OneInHand' /\ Used' \in Nat
  BY <1>3, <1>4 DEF AccountInv, OneInHand, Used
<1>6. ASSUME NEW c \in Checks
      PROVE  /\ Pushes(c) = 0 /\ Sends(c) = 0 /\ Takes(c) = 0
             /\ InList(c)' = InList(c) /\ InList(c) \in Nat
             /\ InHand(c) \in {0, 1} /\ InHand(c)' \in {0, 1}
             /\ InHand(c) = 1 <=> t.check = c
  <2>1. InList(c)' = InList(c) /\ InList(c) \in Nat /\ InHand(c) \in {0, 1}
    BY <1>1, AccountNumbers DEF InList
  <2>2. InHand(c)' = InHand(c) \/ InHand(c)' = 0
    BY <1>4, HandEmptied DEF InHand
  <2>3. InHand(c) = 1 <=> t.check = c
    BY <1>2, InHandCount DEF AccountInv
  <2> QED
    BY <1>1, <2>1, <2>2, <2>3 DEF Pushes, Sends, Takes, Calls
<1>7. ASSUME NEW c \in Checks
      PROVE  /\ Credit(c)' <= Credit(c) /\ Ends(c) = 0
             /\ Used' * InHand(c)' = 0 \/ Used' * InHand(c)' = Used * InHand(c)
  <2> DEFINE L == MaxAttempts * InList(c)
  <2>1. L \in Int
    BY <1>6, AttemptsAssumption
  <2>2. Credit(c) = L + (MaxAttempts - (attempt + 1)) * InHand(c)
    BY <1>3 DEF Credit
  <2>3. CASE sender' = "send" /\ attempt' = attempt + 1 /\ UNCHANGED hand
    <3>1. InHand(c)' = InHand(c) /\ Used' = Used
      BY <1>3, <2>3 DEF InHand, Used
    <3>2. Credit(c)' = Credit(c)
      BY <1>6, <3>1 DEF Credit
    <3>3. ~Loses(c)
      BY <1>1, <2>3 DEF Loses, PopLoses, StopLoses, CrashLoses
    <3>4. Ends(c) = 0
      BY <1>6, <3>1, <3>3 DEF Ends, Losts
    <3> QED
      BY <3>1, <3>2, <3>4, AccountNumbers
  <2>4. CASE stopping /\ sender' = "stopped" /\ hand' = {} /\ attempt' = 0
    <3>1. InHand(c)' = 0 /\ Used' = 0
      BY <2>4, HandEmptied DEF Used
    <3>2. Credit(c)' = L
      BY <1>6, <2>1, <3>1, AttemptsAssumption DEF Credit
    <3>3. Loses(c) <=> InHand(c) = 1
      BY <1>1, <1>6, <2>4 DEF Loses, PopLoses, StopLoses, CrashLoses
    <3>4. Ends(c) = 0
      BY <1>6, <3>1, <3>3 DEF Ends, Losts
    <3>5. Used' * InHand(c)' = 0
      BY <3>1
    <3> HIDE DEF L
    <3>6. Credit(c)' <= Credit(c)
      BY <1>3, <1>6, <2>1, <2>2, <3>2, AttemptsAssumption
    <3> QED
      BY <3>4, <3>5, <3>6
  <2> QED
    BY <1>4, <2>3, <2>4
<1>8. ASSUME NEW c \in Checks PROVE Balanced(c)'
  <2>4. Credit(c)' \in Int
    <3>1. \A a, b \in Int : a * b \in Int
      OBVIOUS
    <3>2. /\ MaxAttempts \in Int /\ MaxAttempts - Used' \in Int
          /\ InList(c)' \in Int /\ InHand(c)' \in Int
      BY <1>5, <1>6, AttemptsAssumption
    <3> QED
      BY <3>1, <3>2 DEF Credit
  <2>1. /\ Credit(c) \in Int /\ Credit(c)' \in Int /\ MaxAttempts * Pushes(c) = 0
        /\ sent[c] \in Nat /\ delivered[c] \in Nat
    BY <1>6, <2>4, AccountNumbers, AttemptsAssumption
  <2>2. Credit(c)' + Sends(c) <= Credit(c) + MaxAttempts * Pushes(c)
    BY <1>6, <1>7, <2>1
  <2>3. /\ delivered'[c] = delivered[c] /\ Sends(c) \in Nat /\ Pushes(c) \in Nat
        /\ delivered'[c] <= delivered[c] + Sends(c)
    BY <1>1, <1>6, <2>1
  <2> QED
    BY <1>5, <1>6, <2>1, <2>2, <2>3, BalanceKept
<1>12. ASSUME NEW c \in Checks PROVE Traced(c)'
  <2>1. /\ Pushes(c) \in Nat /\ Sends(c) \in Nat /\ Takes(c) = 0
        /\ Ends(c) \in Nat /\ Ends(c) = 0
        /\ InList(c)' \in Nat /\ InHand(c)' \in Nat /\ Used' \in Nat
    BY <1>5, <1>6, <1>7
  <2> QED
    BY <1>7, <2>1, TraceCalm
<1>9. StopOK' /\ stopLosses' \in Nat
  <2>1. ASSUME NEW c \in Losing PROVE c = t.check /\ hand' = {}
    BY <1>1, <1>6, <2>1 DEF Losing, Loses, PopLoses, StopLoses, CrashLoses
  <2>2. Losing \subseteq {t.check} /\ (Losing # {} => hand' = {})
    BY <2>1
  <2>3. Losing # {} /\ stopping => sender' = "stopped"
    BY <1>1, <1>4, <2>2
  <2> QED
    BY <1>1, <2>2, <2>3, StopKept DEF Ended
<1>10. DoneStays /\ NoNewDanger
  BY <1>1 DEF DoneStays, NoNewDanger, InDanger
<1>11. \A c \in Checks : Pushes(c) = 0 /\ Pushes(c) \in Nat /\ Sends(c) \in Nat
  BY <1>6
<1> QED
  BY <1>5, <1>8, <1>9, <1>10, <1>11, <1>12, AccountKept DEF NoNewDanger


-----------------------------------------------------------------------------
(* The other steps. *)

(* A step that touches neither the tasks nor the loop of the attempts. *)
LEMMA QuietAccounts ==
  ASSUME CheckInv, AccountInv, Account, DoneStays, NoNewDanger,
         UNCHANGED <<queue, hand, attempt, delivered>>,
         \/ UNCHANGED sender
         \/ sender \in {"pop", "stopped"} /\ sender' \in {"pop", "stopped"},
         sender \in Ended /\ stopping => sender' \in Ended \/ ~stopping',
         phase' = "down" => phase = "down" \/ hand = {}
  PROVE  AccountInv'
<1>1. OneInHand' /\ Used' = Used
  BY DEF AccountInv, OneInHand, Used
<1>2. ASSUME NEW c \in Checks
      PROVE  /\ Pushes(c) = 0 /\ Sends(c) = 0 /\ ~Loses(c) /\ Takes(c) = 0 /\ Ends(c) = 0
             /\ InList(c)' \in Nat /\ InHand(c)' \in Nat /\ Credit(c)' = Credit(c)
             /\ Used' * InHand(c)' = Used * InHand(c)
  <2>1. /\ InList(c)' = InList(c) /\ InHand(c)' = InHand(c)
        /\ InList(c) \in Nat /\ InHand(c) \in {0, 1}
        /\ hand = {} => InHand(c) = 0
    BY CountsStay, AccountNumbers, HandEmpty
  <2>2. Pushes(c) = 0 /\ Sends(c) = 0 /\ Takes(c) = 0
    BY <2>1 DEF Pushes, Sends, Takes, Calls
  <2>3. ~Loses(c)
    BY <2>1 DEF Loses, PopLoses, StopLoses, CrashLoses
  <2>4. Ends(c) = 0
    BY <2>1, <2>2, <2>3 DEF Ends, Losts
  <2>5. Credit(c)' = Credit(c) /\ Used' * InHand(c)' = Used * InHand(c)
    BY <1>1, <2>1 DEF Credit
  <2> QED
    BY <2>1, <2>2, <2>3, <2>4, <2>5
<1>3. ASSUME NEW c \in Checks PROVE Balanced(c)'
  <2>1. /\ Credit(c) \in Int /\ MaxAttempts * Pushes(c) = 0 /\ Used \in Nat
        /\ delivered[c] \in Nat
    BY <1>2, AccountNumbers, AttemptsAssumption
  <2> QED
    BY <1>1, <1>2, <2>1, BalanceKept
<1>6. ASSUME NEW c \in Checks PROVE Traced(c)'
  <2>1. /\ Pushes(c) \in Nat /\ Sends(c) \in Nat /\ Takes(c) = 0
        /\ Ends(c) \in Nat /\ Ends(c) = 0
        /\ InList(c)' \in Nat /\ InHand(c)' \in Nat /\ Used' \in Nat
    BY <1>1, <1>2, TraceNumbers
  <2> QED
    BY <1>2, <2>1, TraceCalm
<1>4. StopOK' /\ stopLosses' \in Nat
  <2>1. Losing = {}
    BY <1>2 DEF Losing
  <2> QED
    BY <2>1, StopKept
<1>5. \A c \in Checks : Pushes(c) = 0 /\ Pushes(c) \in Nat /\ Sends(c) \in Nat
  BY <1>2
<1> QED
  BY <1>1, <1>3, <1>4, <1>5, <1>6, AccountKept DEF NoNewDanger

LEMMA EnqueueAccounts ==
  ASSUME CheckInv, AccountInv, Account, NEW d \in Checks, Enqueue(d)
  PROVE  AccountInv'
<1> DEFINE t == [check |-> d, zones |-> found[d]]
<1>1. /\ UNCHANGED <<sender, hand, attempt, stopping, delivered, phase>>
      /\ pc[d] = "enqueue"
  BY DEF Enqueue, workerVars
<1>2. /\ pc' = [pc EXCEPT ![d] = "done"]
      /\ answer' = [answer EXCEPT ![d] = "ok"] /\ UNCHANGED found
  BY DEF Enqueue, Respond, Goto
<1>3. PICK n \in 0 .. MaxResends + 1 :
        Push(t, n) /\ (n = 0 => ~up["redis"] \/ cancelled'[d])
  <2>1. \A n \in 1 .. MaxResends + 1 : n \in 0 .. MaxResends + 1
    OBVIOUS
  <2>2. 0 \in 0 .. MaxResends + 1 /\ 1 \in 0 .. MaxResends + 1
    BY AttemptsAssumption
  <2>3. PICK gone \in BOOLEAN :
          /\ EnqueueLocationCheck(t, cancelled[d], gone)
          /\ cancelled' = [cancelled EXCEPT ![d] = gone]
    BY DEF Enqueue, Respond, Goto
  <2>4. gone => cancelled'[d]
    BY <2>3, Parts DEF CheckInv, HandlerTypes
  <2>5. PICK o \in Outcome :
          /\ CallEnds("redis", o, cancelled[d], gone)
          /\ IF o = "lost" THEN \E n \in 1 .. MaxResends + 1 : Push(t, n)
             ELSE Push(t, IF o = "ok" THEN 1 ELSE 0)
    BY <2>3 DEF EnqueueLocationCheck
  <2>6. CASE o = "lost"
    <3>1. PICK n \in 1 .. MaxResends + 1 : Push(t, n)
      BY <2>5, <2>6
    <3> QED
      BY <2>1, <3>1
  <2>7. CASE o = "ok"
    BY <2>2, <2>5, <2>7
  <2>8. CASE o = "failed"
    <3>1. ~up["redis"] \/ gone
      BY <2>5, <2>8 DEF CallEnds, Outcomes
    <3>2. Push(t, 0)
      BY <2>5, <2>8
    <3> QED
      BY <2>2, <2>4, <3>1, <3>2
  <2> QED
    BY <2>6, <2>7, <2>8 DEF Outcome
<1>4. /\ HandlerTypes /\ t \in Task /\ t.check = d /\ n \in Nat
      /\ queue \in Seq(Task) /\ n <= MaxResends + 1
  <2>1. HandlerTypes /\ queue \in Seq(Task)
    BY Parts DEF CheckInv, ListOK
  <2>2. t \in Task
    BY <2>1 DEF HandlerTypes, Task
  <2> QED
    BY <1>3, <2>1, <2>2, AttemptsAssumption
<1> HIDE DEF t
<1>5. pc'[d] = "done" /\ DoneStays
  BY <1>1, <1>2, <1>4 DEF HandlerTypes, DoneStays
<1>6. OneInHand' /\ Used' = Used
  BY <1>1 DEF AccountInv, OneInHand, Used
<1>7. ASSUME NEW c \in Checks
      PROVE  /\ InList(c) \in Nat /\ InList(c)' \in Nat /\ InHand(c)' = InHand(c)
             /\ InList(c)' = InList(c) + Pushes(c)
             /\ Pushes(c) = IF d = c THEN n ELSE 0
             /\ Sends(c) = 0 /\ ~Loses(c) /\ Takes(c) = 0 /\ Ends(c) = 0
             /\ InHand(c) \in {0, 1}
  <2>1. InList(c) \in Nat /\ InHand(c) \in {0, 1} /\ (hand = {} => InHand(c) = 0)
    BY AccountNumbers, HandEmpty
  <2>2. InHand(c)' = InHand(c)
    BY <1>1 DEF InHand
  <2>3. InList(c)' = IF d = c THEN InList(c) + n ELSE InList(c)
    BY <1>3, <1>4, InListPushed
  <2>4. /\ Pushes(c) = IF d = c THEN n ELSE 0
        /\ ~(InList(c)' < InList(c))
    BY <1>4, <2>1, <2>3 DEF Pushes
  <2>5. Sends(c) = 0 /\ ~Loses(c) /\ Takes(c) = 0
    BY <1>1, <2>1, <2>4 DEF Sends, Takes, Calls, Loses, PopLoses, StopLoses, CrashLoses
  <2>6. Ends(c) = 0
    BY <1>4, <2>1, <2>2, <2>3, <2>4, <2>5 DEF Ends, Losts
  <2> QED
    BY <1>4, <2>1, <2>2, <2>3, <2>4, <2>5, <2>6
<1>8. \A c \in Checks : Pushes(c) \in Nat /\ Sends(c) \in Nat
  BY <1>4, <1>7
<1>9. ASSUME NEW c \in Checks
      PROVE  Credit(c)' = Credit(c) + MaxAttempts * Pushes(c) /\ MaxAttempts * Pushes(c) \in Int
  <2> DEFINE L == MaxAttempts * InList(c)
             P == MaxAttempts * Pushes(c)
             H == (MaxAttempts - Used) * InHand(c)
  <2>1. L \in Int /\ P \in Int /\ H \in Int
    <3>1. InHand(c) \in Int /\ MaxAttempts - Used \in Int
      BY AccountNumbers, AttemptsAssumption
    <3>2. L \in Int /\ P \in Int
      BY <1>7, <1>8, AttemptsAssumption
    <3>3. \A a, b \in Int : a * b \in Int
      OBVIOUS
    <3> QED
      BY <3>1, <3>2, <3>3
  <2>2. MaxAttempts * InList(c)' = L + P
    BY <1>7, <1>8, Distribute, AttemptsAssumption
  <2>3. Credit(c)' = MaxAttempts * InList(c)' + H
    BY <1>6, <1>7 DEF Credit
  <2>4. Credit(c) = L + H
    BY DEF Credit
  <2> HIDE DEF L, P, H
  <2>5. Credit(c)' = Credit(c) + P
    BY <2>1, <2>2, <2>3, <2>4
  <2> QED
    BY <2>1, <2>5 DEF P
<1>10. ASSUME NEW c \in Checks PROVE Balanced(c)'
  <2>1. Credit(c) \in Int /\ Used \in Nat /\ delivered[c] \in Nat /\ InHand(c) \in {0, 1}
    BY AccountNumbers
  <2>2. Credit(c)' + Sends(c) <= Credit(c) + MaxAttempts * Pushes(c)
    BY <1>7, <1>9, <2>1
  <2>3. /\ delivered'[c] \in Nat /\ delivered[c] <= delivered'[c]
        /\ delivered'[c] <= delivered[c] + Sends(c)
    BY <1>1, <1>7, <2>1
  <2> QED
    BY <1>6, <1>7, <1>8, <2>1, <2>2, <2>3, BalanceKept
<1>13. ASSUME NEW c \in Checks PROVE Traced(c)'
  <2>1. /\ Ends(c) \in Nat /\ InHand(c)' \in Nat /\ Used' \in Nat
        /\ Used' * InHand(c)' = Used * InHand(c)
    BY <1>6, <1>7, TraceNumbers
  <2> QED
    BY <1>7, <1>8, <2>1, TraceCalm
<1>14. ASSUME NEW c \in Checks, InDanger(c)'
       PROVE  InDanger(c) \/ Pushes(c) > 0 \/ PushFails(c)
  <2>1. CASE c # d
    BY <1>2, <1>4, <1>14, <2>1 DEF InDanger, HandlerTypes
  <2>2. CASE c = d /\ n > 0
    BY <1>7, <2>2
  <2>3. CASE c = d /\ n = 0
    <3>1. InList(d)' = InList(d)
      BY <1>7, <2>3
    <3>2. answer'[d] = "ok"
      BY <1>2, <1>4 DEF HandlerTypes
    <3> QED
      BY <1>1, <1>3, <2>3, <3>1, <3>2 DEF PushFails
  <2> QED
    BY <1>4, <2>1, <2>2, <2>3
<1>11. StopOK' /\ stopLosses' \in Nat
  <2>1. Losing = {}
    BY <1>7 DEF Losing
  <2> QED
    BY <1>1, <2>1, StopKept DEF Ended
<1>12. ASSUME NEW c \in Checks, Pushes(c) > 0
       PROVE  pc[c] # "done" /\ pc'[c] = "done" /\ Pushes(c) <= MaxResends + 1
  BY <1>1, <1>4, <1>5, <1>7, <1>12
<1> QED
  BY <1>5, <1>6, <1>8, <1>10, <1>11, <1>12, <1>13, <1>14, AccountKept

LEMMA CrashAccounts ==
  ASSUME CheckInv, AccountInv, Account, Crash
  PROVE  AccountInv'
<1>1. /\ phase # "down" /\ phase' = "down" /\ sender' = "stopped" /\ hand' = {}
      /\ attempt' = 0 /\ UNCHANGED <<queue, stopping, delivered, answer, found>>
      /\ pc' = [c \in Checks |-> IF Running(c) THEN "done" ELSE pc[c]]
  BY DEF Crash
<1>2. OneInHand' /\ Used' = 0 /\ DoneStays /\ NoNewDanger
  BY <1>1 DEF OneInHand, Used, DoneStays, NoNewDanger, InDanger
<1>3. hand # {} => sender \in {"send", "backoff"} /\ Used < MaxAttempts
  <2>1. sender \in {"pop", "again", "send", "backoff", "stopped"}
    BY Parts DEF CheckInv, WorkerOK
  <2> QED
    BY <2>1, WorkerFacts, AttemptsAssumption DEF Used
<1>4. ASSUME NEW c \in Checks
      PROVE  /\ Pushes(c) = 0 /\ Sends(c) = 0 /\ Takes(c) = 0 /\ Ends(c) = 0
             /\ InList(c)' = InList(c) /\ InList(c) \in Nat /\ InHand(c)' = 0
             /\ InHand(c) \in {0, 1}
             /\ InHand(c) = 1 <=> \E t \in hand : t.check = c
             /\ Loses(c) <=> InHand(c) = 1
  <2>1. InList(c)' = InList(c) /\ InList(c) \in Nat /\ InHand(c) \in {0, 1}
    BY <1>1, AccountNumbers DEF InList
  <2>2. InHand(c)' = 0
    BY <1>1, HandEmptied
  <2>3. InHand(c) = 1 <=> \E t \in hand : t.check = c
    BY InHandCount DEF AccountInv
  <2>4. Pushes(c) = 0 /\ Sends(c) = 0 /\ Takes(c) = 0
    BY <1>1, <2>1 DEF Pushes, Sends, Takes, Calls
  <2>5. Loses(c) <=> InHand(c) = 1
    BY <1>1, <2>1 DEF Loses, PopLoses, StopLoses, CrashLoses
  <2>6. Ends(c) = 0
    BY <2>1, <2>2, <2>4, <2>5 DEF Ends, Losts
  <2> QED
    BY <2>1, <2>2, <2>3, <2>4, <2>5, <2>6
<1>5. ASSUME NEW c \in Checks
      PROVE  Credit(c)' \in Int /\ Credit(c)' <= Credit(c)
  <2> DEFINE L == MaxAttempts * InList(c)
  <2>1. L \in Int
    BY <1>4, AttemptsAssumption
  <2>2. Credit(c) = L + (MaxAttempts - Used) * InHand(c) /\ Used \in Nat
    BY AccountNumbers DEF Credit
  <2>3. Credit(c)' = L
    BY <1>2, <1>4, <2>1, AttemptsAssumption DEF Credit
  <2>4. InHand(c) = 1 => Used < MaxAttempts
    BY <1>3, <1>4
  <2>6. InHand(c) \in {0, 1} /\ MaxAttempts \in Nat
    BY <1>4, AttemptsAssumption
  <2> HIDE DEF L
  <2>7. CASE InHand(c) = 0
    BY <2>1, <2>2, <2>3, <2>6, <2>7
  <2>8. CASE InHand(c) = 1
    BY <2>1, <2>2, <2>3, <2>4, <2>6, <2>8
  <2> QED
    BY <2>6, <2>7, <2>8
<1>6. ASSUME NEW c \in Checks PROVE Balanced(c)'
  <2>1. /\ Credit(c) \in Int /\ MaxAttempts * Pushes(c) = 0 /\ delivered[c] \in Nat
    BY <1>4, AccountNumbers, AttemptsAssumption
  <2>2. Credit(c)' + Sends(c) <= Credit(c) + MaxAttempts * Pushes(c)
    BY <1>4, <1>5, <2>1
  <2>3. /\ delivered'[c] = delivered[c] /\ Sends(c) \in Nat /\ Pushes(c) \in Nat
        /\ delivered'[c] <= delivered[c] + Sends(c)
    BY <1>1, <1>4, <2>1
  <2> QED
    BY <1>2, <1>4, <2>1, <2>2, <2>3, BalanceKept
<1>9. ASSUME NEW c \in Checks PROVE Traced(c)'
  <2>1. Used' * InHand(c)' = 0 /\ InHand(c)' \in Nat /\ Used' \in Nat
    BY <1>2, <1>4
  <2>2. /\ Pushes(c) \in Nat /\ Sends(c) \in Nat /\ Takes(c) = 0
        /\ Ends(c) \in Nat /\ Ends(c) = 0 /\ InList(c)' \in Nat
    BY <1>4
  <2> QED
    BY <2>1, <2>2, TraceCalm
<1>7. StopOK' /\ stopLosses' \in Nat
  <2>1. CASE hand = {}
    <3>1. Losing = {}
      BY <1>4, <2>1 DEF Losing
    <3> QED
      BY <1>1, <3>1, StopKept DEF Ended
  <2>2. CASE hand # {}
    <3>1. PICK t \in hand : \A s \in hand : s = t
      BY <2>2 DEF AccountInv, OneInHand
    <3>2. Losing \subseteq {t.check}
      BY <1>4, <3>1 DEF Losing
    <3> QED
      BY <1>1, <1>3, <2>2, <3>2, StopKept DEF Ended
  <2> QED
    BY <2>1, <2>2
<1>8. \A c \in Checks : Pushes(c) = 0 /\ Pushes(c) \in Nat /\ Sends(c) \in Nat
  BY <1>4
<1> QED
  BY <1>2, <1>6, <1>7, <1>8, <1>9, AccountKept DEF NoNewDanger

(* Everything else is quiet. *)
LEMMA HandlerAccounts ==
  ASSUME CheckInv, AccountInv, Account, NEW c \in Checks,
         Accept(c) \/ ClientLeaves(c) \/ FindNearby(c) \/ SaveHistory(c)
  PROVE  AccountInv'
<1>1. UNCHANGED <<queue, hand, attempt, delivered, sender, stopping, phase>>
  BY DEF Accept, ClientLeaves, FindNearby, SaveHistory, queueVars, workerVars
<1>2. DoneStays
  <2>1. HandlerTypes
    BY Parts DEF CheckInv
  <2>2. \/ UNCHANGED pc
        \/ /\ pc[c] # "done"
           /\ \E stage \in {"findNearby", "saveHistory", "enqueue", "done"} :
                pc' = [pc EXCEPT ![c] = stage]
    BY DEF Accept, ClientLeaves, FindNearby, SaveHistory, Respond, Goto
  <2> QED
    BY <2>1, <2>2 DEF DoneStays, HandlerTypes
<1>3. NoNewDanger
  <2>1. HandlerTypes /\ CheckOK(c)
    BY Parts DEF CheckInv
  <2>2. CASE Accept(c) \/ ClientLeaves(c)
    BY <2>2 DEF Accept, ClientLeaves, NoNewDanger, InDanger
  <2>3. CASE FindNearby(c)
    <3>1. answer[c] = "none"
      BY <2>1, <2>3 DEF FindNearby, CheckOK
    <3>2. PICK zones \in SUBSET Zones :
            \/ found' = [found EXCEPT ![c] = zones] /\ UNCHANGED answer
            \/ answer' = [answer EXCEPT ![c] = "error"] /\ UNCHANGED found
      BY <2>1, <2>3 DEF FindNearby, Respond, HandlerTypes
    <3> QED
      BY <2>1, <3>1, <3>2 DEF NoNewDanger, InDanger, HandlerTypes
  <2>4. CASE SaveHistory(c)
    <3>1. /\ UNCHANGED found
          /\ \E o \in Outcome, gone \in BOOLEAN :
               IF Alerts(c, o) THEN Goto(c, "enqueue", gone) /\ UNCHANGED answer
               ELSE Respond(c, "ok", gone)
      BY <2>4 DEF SaveHistory
    <3>2. UNCHANGED answer \/ (found[c] = {} /\ answer' = [answer EXCEPT ![c] = "ok"])
      BY <3>1 DEF Respond, Alerts
    <3> QED
      BY <2>1, <3>1, <3>2 DEF NoNewDanger, InDanger, HandlerTypes
  <2> QED
    BY <2>2, <2>3, <2>4
<1> QED
  BY <1>1, <1>2, <1>3, QuietAccounts DEF Ended

LEMMA ProcessAccounts ==
  ASSUME CheckInv, AccountInv, Account,
         \/ BeginStop \/ StopQueue \/ Exit \/ StoreChanges \/ StartUp
         \/ ReceiverChanges /\ UNCHANGED <<up, phase, handlerVars>>
         \/ UNCHANGED vars
  PROVE  AccountInv'
<1>1. UNCHANGED <<queue, hand, attempt, delivered, pc, answer, found>>
  BY DEF BeginStop, StopQueue, Exit, StoreChanges, StartUp, ReceiverChanges,
         vars, queueVars, workerVars, handlerVars
<1>2. DoneStays /\ NoNewDanger
  BY <1>1 DEF DoneStays, NoNewDanger, InDanger
<1>3. CASE StartUp
  <2>1. sender = "stopped" /\ sender' = "pop" /\ stopping' = FALSE /\ phase' = "serving"
    BY <1>3 DEF StartUp, CheckInv, DownStops
  <2> QED
    BY <1>1, <1>2, <2>1, QuietAccounts DEF Ended
<1>4. CASE ~StartUp
  <2>1. UNCHANGED sender
    BY <1>4 DEF BeginStop, StopQueue, Exit, StoreChanges, ReceiverChanges,
                vars, queueVars, workerVars
  <2>2. phase' = "down" => phase = "down" \/ sender = "stopped"
    BY <1>4 DEF BeginStop, StopQueue, Exit, StoreChanges, ReceiverChanges, vars
  <2>3. sender = "stopped" => hand = {}
    BY WorkerFacts
  <2> QED
    BY <1>1, <1>2, <2>1, <2>2, <2>3, QuietAccounts DEF Ended
<1> QED
  BY <1>3, <1>4

LEMMA NextAccountInv ==
  ASSUME CheckInv, AccountInv, LNext
  PROVE  AccountInv'
<1>1. Account /\ Next
  BY DEF LNext
<1>2. CASE \E c \in Checks : Accept(c) \/ ClientLeaves(c) \/ HandlerStep(c)
  BY <1>1, <1>2, HandlerAccounts, EnqueueAccounts DEF HandlerStep
<1>3. CASE WorkerStep /\ UNCHANGED <<up, phase, handlerVars>>
  BY <1>1, <1>3, PopAccounts, PopLostAccounts, SendAccounts, BackoffAccounts DEF WorkerStep
<1>4. CASE Crash
  BY <1>1, <1>4, CrashAccounts
<1>5. CASE \/ StartUp \/ BeginStop \/ StopQueue \/ Exit \/ StoreChanges
           \/ ReceiverChanges /\ UNCHANGED <<up, phase, handlerVars>>
  BY <1>1, <1>5, ProcessAccounts
<1> QED
  BY <1>1, <1>2, <1>3, <1>4, <1>5 DEF Next

LEMMA StutterAccounts ==
  ASSUME AccountInv, UNCHANGED allVars
  PROVE  AccountInv'
<1>1. /\ UNCHANGED <<queue, sender, hand, attempt, stopping, delivered, pc, answer, found>>
      /\ UNCHANGED <<pushed, missed, sent, accepted, lost, stopLosses>>
  BY DEF allVars, auxVars, vars, queueVars, workerVars, handlerVars
<1>2. AccountTypes' /\ OneInHand' /\ StopOK'
  BY <1>1 DEF AccountInv, AccountTypes, OneInHand, StopOK
<1>3. ASSUME NEW c \in Checks PROVE Balanced(c)' /\ Traced(c)' /\ Pushed(c)' /\ PushedOnce(c)'
  <2>1. Balanced(c) /\ Traced(c) /\ Pushed(c) /\ PushedOnce(c)
    BY DEF AccountInv
  <2>2. InList(c)' = InList(c) /\ InHand(c)' = InHand(c) /\ Used' = Used
    BY <1>1, CountsStay DEF Used
  <2>3. Balanced(c)' /\ Pushed(c)' /\ PushedOnce(c)'
    BY <1>1, <2>1, <2>2 DEF Balanced, Pushed, PushedOnce, Owed, Credit
  <2>4. Traced(c)'
    BY <1>1, <2>1, <2>2 DEF Traced, GivenUp, Known
  <2> QED
    BY <2>3, <2>4
<1> QED
  BY <1>2, <1>3 DEF AccountInv

LEMMA InitAccountInv == LInit => CheckInv /\ AccountInv
<1> SUFFICES ASSUME LInit PROVE CheckInv /\ AccountInv
  OBVIOUS
<1>1. Init /\ CheckInv
  BY InitCheckInv DEF LInit
<1>2. /\ queue = <<>> /\ hand = {} /\ sender = "stopped" /\ attempt = 0
      /\ stopping = FALSE /\ delivered = [c \in Checks |-> 0]
      /\ pushed = [c \in Checks |-> 0] /\ sent = [c \in Checks |-> 0]
      /\ accepted = [c \in Checks |-> 0] /\ lost = [c \in Checks |-> 0]
      /\ missed = {} /\ stopLosses = 0 /\ answer = [c \in Checks |-> "none"]
  BY <1>1 DEF LInit, Init, QueueInit
<1>3. AccountTypes /\ OneInHand /\ StopOK
  BY <1>2 DEF AccountTypes, OneInHand, StopOK
<1>4. ASSUME NEW c \in Checks PROVE Balanced(c) /\ Traced(c) /\ Pushed(c) /\ PushedOnce(c)
  <2>1. InHand(c) = 0
    BY <1>2, HandEmpty
  <2>2. InList(c) = 0
    <3>1. {k \in 1 .. Len(queue) : queue[k].check = c} = {}
      BY <1>2
    <3> QED
      BY <3>1, FS_EmptySet DEF InList
  <2>3. Owed(c) = 0 /\ MaxAttempts * pushed[c] = 0
    BY <1>2, <2>1, <2>2, AttemptsAssumption DEF Owed, Credit, Used
  <2>4. GivenUp(c) = 0 /\ MaxAttempts * GivenUp(c) = 0 /\ Used * InHand(c) = 0
    BY <1>2, <2>1, <2>2, AttemptsAssumption DEF GivenUp, Known, Used
  <2>5. Traced(c) /\ Pushed(c)
    BY <1>2, <2>4 DEF Traced, Pushed
  <2> QED
    BY <1>2, <2>3, <2>5, AttemptsAssumption DEF Balanced, PushedOnce
<1> QED
  BY <1>1, <1>3, <1>4 DEF AccountInv

-----------------------------------------------------------------------------
(* The theorems. *)

(* The account of every check balances, whatever fails: AccountInv is inductive. *)
THEOREM Accounts == LSpec => [](CheckInv /\ AccountInv)
<1>1. ASSUME CheckInv, AccountInv, [LNext]_allVars
      PROVE  CheckInv' /\ AccountInv'
  <2>1. [Next]_vars
    BY <1>1 DEF LNext, allVars
  <2>2. CheckInv'
    BY <1>1, <2>1, NextStageInv, NextDownStops DEF CheckInv
  <2> QED
    BY <1>1, <2>2, NextAccountInv, StutterAccounts
<1>2. CheckInv /\ AccountInv /\ [LNext]_allVars => (CheckInv /\ AccountInv)'
  BY <1>1
<1> QED
  BY <1>2, InitAccountInv, PTL DEF LSpec

(***************************************************************************)
(* No restart, resend or stop makes the service call the receiver more     *)
(* often about a check than RETRY_ATTEMPTS for every task that was pushed. *)
(***************************************************************************)
THEOREM AttemptsStayInBudget == LSpec => []AttemptsWithinBudget
<1>1. AccountInv => AttemptsWithinBudget
  BY DEF AccountInv, Balanced, Owed, AttemptsWithinBudget
<1> QED
  BY <1>1, Accounts, PTL

(***************************************************************************)
(* An alert goes astray through a door only: a push or a BRPOP that failed *)
(* or was cancelled, a pause that a stop cut short, or a crash.  Any other *)
(* task that is gone was accepted with a 200 or has had all its attempts.  *)
(***************************************************************************)
THEOREM NoOtherDoor == LSpec => []NothingVanishes
<1>1. ASSUME CheckInv, AccountInv PROVE NothingVanishes
  <2> SUFFICES ASSUME NEW c \in Checks
               PROVE  /\ answer[c] = "ok" /\ found[c] # {} => pushed[c] > 0 \/ c \in missed
                      /\ Known(c) <= pushed[c]
                      /\ sent[c] >= accepted[c] + MaxAttempts * (pushed[c] - Known(c))
    BY DEF NothingVanishes
  <2>1. Traced(c) /\ Pushed(c)
    BY <1>1 DEF AccountInv
  <2>2. /\ InList(c) \in Nat /\ InHand(c) \in Nat /\ Used \in Nat /\ sent[c] \in Nat
        /\ pushed[c] \in Nat /\ lost[c] \in Nat /\ accepted[c] \in Nat
    BY <1>1, TraceNumbers
  <2>3. GivenUp(c) = pushed[c] - Known(c) /\ Known(c) \in Nat
    BY <2>2 DEF GivenUp, Known
  <2>4. Known(c) <= pushed[c]
    BY <2>1, <2>2, <2>3 DEF Traced
  <2>5. \A a, b \in Nat : a * b \in Int /\ a * b >= 0
    OBVIOUS
  <2>6. PICK u \in Int, g \in Int :
          u = Used * InHand(c) /\ g = MaxAttempts * GivenUp(c) /\ u >= 0
    <3>1. Used * InHand(c) \in Int /\ Used * InHand(c) >= 0
      BY <2>2, <2>5
    <3>2. MaxAttempts * GivenUp(c) \in Int
      <4>1. \A a, b \in Int : a * b \in Int
        OBVIOUS
      <4>2. GivenUp(c) \in Int /\ MaxAttempts \in Int
        BY <2>2, <2>3, AttemptsAssumption
      <4> QED
        BY <4>1, <4>2
    <3> QED
      BY <3>1, <3>2
  <2>7. sent[c] >= accepted[c] + g + u
    BY <2>1, <2>6 DEF Traced
  <2>8. sent[c] >= accepted[c] + g
    BY <2>2, <2>6, <2>7
  <2> QED
    BY <2>1, <2>3, <2>4, <2>6, <2>8 DEF Pushed
<1> QED
  BY <1>1, Accounts, PTL

(* A graceful stop costs at most the one alert the worker has to do with. *)
THEOREM OneLossPerStop == LSpec => []StopLosesAtMostOne
<1>1. AccountInv => StopLosesAtMostOne
  BY DEF AccountInv, StopOK, StopLosesAtMostOne
<1> QED
  BY <1>1, Accounts, PTL

=============================================================================
