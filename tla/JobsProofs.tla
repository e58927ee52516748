----------------------------- MODULE JobsProofs -----------------------------
(***************************************************************************)
(* Proofs about the work of Celery's periodic tasks, and about the figures *)
(* that the reports they make print.                                       *)
(*                                                                         *)
(* Alerts, for any rules, exceptions, workers, requests and staff:         *)
(* OneLiveAlert is inductive beside the types: the index guards the two    *)
(* steps that make an alert live, and every other step only closes alerts. *)
(*                                                                         *)
(* Reports, for any calendar, timings, periodic runs and changes: what     *)
(* calculate_next_run returns is shown against RunsAt for each frequency,  *)
(* and an invariant of the transactions and the changes under way keeps it *)
(* true of the schedule.                                                   *)
(*                                                                         *)
(* Figures, for any items, prices, attempts and calendar: an invariant of  *)
(* the rows says which attempt paid an order and which item a refund is    *)
(* of. Every figure is then a sum over rows, and two figures that must     *)
(* agree are the same sum split in classes (by provider, day, seller,      *)
(* product, status) or carried from rows to their images (the lines of     *)
(* refunds to their events).                                               *)
(***************************************************************************)
EXTENDS Alerts, Reports, Figures, SumTheorems, SequenceTheorems, TLAPS

LEMMA HeadAndTail ==
    ASSUME NEW S, NEW s \in Seq(S), s # <<>>
    PROVE  /\ Head(s) \in S
           /\ Len(s) # 1 => Tail(s) \in Seq(S) /\ Tail(s) # <<>>
<1>1. Head(s) \in S /\ Tail(s) \in Seq(S) /\ Len(Tail(s)) = Len(s) - 1
  BY HeadTailProperties
<1>2. Len(s) # 1 => Len(Tail(s)) # 0
  BY <1>1, EmptySeq
<1>3. Tail(s) = <<>> => Len(Tail(s)) = 0
  BY EmptySeq
<1> QED
  BY <1>1, <1>2, <1>3

LEMMA NoneIsNoAlert == None \notin Fingerprints /\ None \notin Alerts
BY AlertsAssumption

(***************************************************************************)
(* What the steps of a caller do to caller.                                *)
(***************************************************************************)
CallersOK ==
    /\ caller \in [Callers -> CallerRow]
    /\ \A p \in Callers : caller[p].todo = <<>> <=> caller[p].step = "idle"

LEMMA SetCaller ==
    ASSUME TypeOK, NEW p \in Callers, NEW row \in CallerRow,
           row.todo = <<>> <=> row.step = "idle",
           caller' = [caller EXCEPT ![p] = row]
    PROVE  CallersOK'
BY DEF TypeOK, CallersOK

LEMMA GotoType ==
    ASSUME TypeOK, NEW p \in Callers, NEW s \in {"look", "update", "insert", "again"},
           ~At(p, "idle"), Goto(p, s)
    PROVE  CallersOK'
BY DEF TypeOK, CallersOK, CallerRow, At, Goto

LEMMA ReportType ==
    ASSUME TypeOK, NEW p \in Callers,
           NEW todo \in Seq(Item), todo # <<>>,
           Report(p, todo)
    PROVE  CallersOK'
BY SetCaller DEF CallerRow, Report

LEMMA IdleType == Idle \in CallerRow /\ (Idle.todo = <<>> <=> Idle.step = "idle")
<1>1. <<>> \in Seq(Item)
  OBVIOUS
<1> QED
  BY <1>1 DEF Idle, CallerRow

LEMMA AbortType ==
    ASSUME TypeOK, NEW p \in Callers, Abort(p)
    PROVE  CallersOK'
BY SetCaller, IdleType DEF Abort

LEMMA AdvanceType ==
    ASSUME TypeOK, NEW p \in Callers, ~At(p, "idle"), Advance(p)
    PROVE  CallersOK'
<1>1. /\ caller[p].todo \in Seq(Item)
      /\ caller[p].todo # <<>>
  BY DEF TypeOK, CallerRow, At
<1>2. CASE Len(caller[p].todo) = 1
  <2>1. caller' = [caller EXCEPT ![p] = Idle]
    BY <1>2 DEF Advance
  <2> QED
    BY <2>1, SetCaller, IdleType
<1>3. CASE Len(caller[p].todo) # 1
  <2>1. /\ Tail(caller[p].todo) \in Seq(Item)
        /\ Tail(caller[p].todo) # <<>>
    BY <1>1, <1>3, HeadAndTail
  <2>2. Report(p, Tail(caller[p].todo))
    BY <1>3 DEF Advance, Report
  <2> QED
    BY <2>1, <2>2, ReportType
<1> QED
  BY <1>2, <1>3

LEMMA CurrentType ==
    ASSUME TypeOK, NEW p \in Callers, ~At(p, "idle")
    PROVE  Current(p) \in Item /\ Current(p).of \in Fingerprints
<1> DEFINE todo == caller[p].todo
<1>1. todo \in Seq(Item) /\ todo # <<>>
  BY DEF TypeOK, CallerRow, At
<1>2. Head(todo) \in Item
  BY <1>1, HeadAndTail
<1> QED
  BY <1>2, AlertsAssumption DEF Current, Item, Fingerprints

(***************************************************************************)
(* Types                                                                   *)
(***************************************************************************)
LEMMA InitTypes == Init => TypeOK
BY DEF Init, TypeOK, AlertRow, NoAlert, Reading, CallerRow, Idle, StaffRow, Away

LEMMA CollectTypes ==
    ASSUME TypeOK, NEW w \in Workers, Collect(w)
    PROVE  TypeOK'
<1> DEFINE todo == [i \in DOMAIN RuleOrder |->
        [of |-> RuleOrder[i],
         reading |-> IF RuleOrder[i] \in Counted THEN "later" ELSE health[RuleOrder[i]]]]
<1>1. RuleOrder \in Seq(Rules) /\ RuleOrder # <<>>
  BY AlertsAssumption DEF Collect
<1>2. \A i \in DOMAIN RuleOrder : RuleOrder[i] \in Rules
  BY DEF Rules
<1>3. todo \in Seq(Item)
  <2>1. DOMAIN RuleOrder = 1..Len(RuleOrder) /\ Len(RuleOrder) \in Nat
    BY <1>1
  <2>2. \A i \in 1..Len(RuleOrder) : todo[i] \in Item
    BY <1>2, <2>1 DEF TypeOK, Fingerprints, Item
  <2> QED
    BY <2>1, <2>2
<1>4. todo # <<>>
  <2>1. DOMAIN todo = DOMAIN RuleOrder
    OBVIOUS
  <2>2. Len(RuleOrder) # 0
    BY <1>1
  <2> QED
    BY <1>1, <2>1, <2>2
<1>5. w \in Callers
  BY DEF Callers
<1>6. Report(w, todo)
  BY DEF Collect
<1> HIDE DEF todo
<1>7. CallersOK'
  BY <1>3, <1>4, <1>5, <1>6, ReportType
<1> QED
  BY <1>7 DEF TypeOK, CallersOK, Collect

LEMMA RaiseTypes ==
    ASSUME TypeOK, NEW r \in Requests, NEW f \in Exceptions, Raise(r, f)
    PROVE  TypeOK'
<1> DEFINE todo == <<[of |-> f, reading |-> "bad"]>>
<1>1. todo \in Seq(Item) /\ todo # <<>>
  BY DEF Fingerprints, Reading, Item
<1>2. r \in Callers /\ Report(r, todo)
  BY DEF Callers, Raise
<1>3. CallersOK'
  BY <1>1, <1>2, ReportType
<1> QED
  BY <1>3 DEF TypeOK, CallersOK, Raise, Event

LEMMA WorkTypes ==
    ASSUME TypeOK, NEW p \in Callers, Work(p)
    PROVE  TypeOK'
<1>1. ~At(p, "idle")
  BY DEF Work, Count, Recover, Skip, Look, Update, Insert, Collide, LookAgain, At
<1>9. CASE Count(p)
  <2> DEFINE todo == caller[p].todo
             item == [todo[1] EXCEPT !.reading = health[todo[1].of]]
  <2>1. todo \in Seq(Item) /\ todo # <<>> /\ Head(todo) = todo[1]
    BY <1>1 DEF TypeOK, CallerRow, At
  <2>2. todo[1] \in Item /\ todo[1].reading = "later"
    BY <1>1, <1>9, <2>1, CurrentType DEF Count, Current
  <2>3. item \in Item
    BY <2>2, AlertsAssumption DEF Item, TypeOK, Reading, Fingerprints
  <2> DEFINE counted == [todo EXCEPT ![1] = item]
  <2>4. counted \in Seq(Item) /\ counted # <<>>
    <3> HIDE DEF item
    <3> QED
      BY <2>1, <2>3, ExceptSeq, EmptySeq
  <2>5. Report(p, counted)
    BY <1>9, <2>1 DEF Count, Current
  <2>6. CallersOK'
    <3> HIDE DEF counted
    <3> QED
      BY <2>4, <2>5, ReportType
  <2> QED
    BY <1>9, <2>6 DEF TypeOK, CallersOK, Count
<1>2. CASE Recover(p)
  <2>1. CallersOK'
    BY <1>1, <1>2, AdvanceType DEF Recover
  <2>2. alert' \in [Alerts -> AlertRow]
    BY <1>2 DEF TypeOK, Recover, AlertRow
  <2> QED
    BY <1>2, <2>1, <2>2 DEF TypeOK, CallersOK, Recover
<1>3. CASE Skip(p)
  <2>1. CallersOK'
    BY <1>1, <1>3, AdvanceType DEF Skip
  <2> QED
    BY <1>3, <2>1 DEF TypeOK, CallersOK, Skip
<1>4. CASE Look(p)
  <2>1. CallersOK'
    BY <1>1, <1>4, GotoType DEF Look
  <2> QED
    BY <1>4, <2>1 DEF TypeOK, CallersOK, Look
<1>5. CASE Update(p)
  <2>1. CallersOK'
    BY <1>1, <1>5, AdvanceType DEF Update
  <2> QED
    BY <1>5, <2>1 DEF TypeOK, CallersOK, Update
<1>6. CASE Insert(p)
  <2>1. CallersOK'
    BY <1>1, <1>6, AdvanceType DEF Insert
  <2>2. alert' \in [Alerts -> AlertRow]
    BY <1>1, <1>6, CurrentType DEF TypeOK, Insert, AlertRow, LiveStatus
  <2> QED
    BY <1>6, <2>1, <2>2 DEF TypeOK, CallersOK, Insert
<1>7. CASE Collide(p)
  <2>1. CallersOK'
    BY <1>1, <1>7, GotoType DEF Collide
  <2> QED
    BY <1>7, <2>1 DEF TypeOK, CallersOK, Collide
<1>8. CASE LookAgain(p)
  <2>1. CallersOK'
    BY <1>1, <1>8, AdvanceType, AbortType DEF LookAgain
  <2> QED
    BY <1>8, <2>1 DEF TypeOK, CallersOK, LookAgain
<1> QED
  BY <1>2, <1>3, <1>4, <1>5, <1>6, <1>7, <1>8, <1>9 DEF Work

LEMMA StaffTypes ==
    ASSUME TypeOK, NEW m \in Staff,
           \/ \E a \in Alerts : Acknowledge(m, a) \/ Resolve(m, a)
           \/ SaveAcknowledge(m) \/ SaveResolve(m)
    PROVE  TypeOK'
<1>1. CASE \E a \in Alerts : Acknowledge(m, a)
  BY <1>1, NoneIsNoAlert DEF TypeOK, Acknowledge, StaffRow, Event
<1>2. CASE \E a \in Alerts : Resolve(m, a)
  BY <1>2, NoneIsNoAlert DEF TypeOK, Resolve, StaffRow, Event
<1>3. CASE SaveAcknowledge(m)
  <2>1. alert' \in [Alerts -> AlertRow]
    BY <1>3 DEF TypeOK, SaveAcknowledge, AlertRow, StaffRow, LiveStatus
  <2> QED
    BY <1>3, <2>1 DEF TypeOK, SaveAcknowledge, StaffRow, Away
<1>4. CASE SaveResolve(m)
  <2>1. alert' \in [Alerts -> AlertRow]
    BY SMTT(30), <1>4 DEF TypeOK, SaveResolve, AlertRow, StaffRow
  <2> QED
    BY <1>4, <2>1 DEF TypeOK, SaveResolve, StaffRow, Away
<1> QED
  BY <1>1, <1>2, <1>3, <1>4

LEMMA NextTypes == TypeOK /\ [Next]_vars => TypeOK'
<1> SUFFICES ASSUME TypeOK, [Next]_vars PROVE TypeOK'
  OBVIOUS
<1>1. CASE \E f \in Rules, reading \in Reading : Change(f, reading)
  BY <1>1 DEF TypeOK, Change, Event
<1>2. CASE \E p \in Callers : Work(p)
  BY <1>2, WorkTypes
<1>3. CASE \E p \in Callers : Crash(p)
  BY <1>3, AbortType DEF TypeOK, CallersOK, Crash, Event
<1>4. CASE \E w \in Workers : Collect(w)
  BY <1>4, CollectTypes
<1>5. CASE \E r \in Requests, f \in Exceptions : Raise(r, f)
  BY <1>5, RaiseTypes
<1>6. CASE \E m \in Staff :
              \/ \E a \in Alerts : Acknowledge(m, a) \/ Resolve(m, a)
              \/ SaveAcknowledge(m) \/ SaveResolve(m)
  BY <1>6, StaffTypes
<1>7. CASE UNCHANGED vars
  BY <1>7 DEF TypeOK, vars
<1> QED
  BY <1>1, <1>2, <1>3, <1>4, <1>5, <1>6, <1>7 DEF Next

(***************************************************************************)
(* Alerts, workers, requests and the staff's requests keep their types.    *)
(***************************************************************************)
THEOREM TypesAreCorrect == Spec => []TypeOK
BY InitTypes, NextTypes, PTL DEF Spec

(***************************************************************************)
(* One live alert                                                          *)
(***************************************************************************)
\* A step that makes no alert live keeps the invariant.
LEMMA OnlyCloses ==
    ASSUME OneLiveAlert,
           \A a \in Alerts : alert'[a].status \in LiveStatus =>
               alert[a].status \in LiveStatus /\ alert'[a].of = alert[a].of
    PROVE  OneLiveAlert'
BY DEF OneLiveAlert, LiveStatus

\* Neither does one that makes a live when no other alert is live for it.
LEMMA GoesLive ==
    ASSUME OneLiveAlert, TypeOK, NEW a \in Alerts, NEW row \in AlertRow,
           alert' = [alert EXCEPT ![a] = row], ~Taken(row.of, a)
    PROVE  OneLiveAlert'
BY DEF OneLiveAlert, TypeOK, Taken, LiveStatus

LEMMA RecoverOnlyCloses ==
    ASSUME OneLiveAlert, TypeOK, NEW p \in Callers, Recover(p)
    PROVE  OneLiveAlert'
<1>1. \A a \in Alerts : alert'[a] = alert[a] \/ alert'[a].status = "resolved"
  BY DEF TypeOK, AlertRow, Recover
<1> QED
  BY <1>1, OnlyCloses DEF LiveStatus

LEMMA InsertGoesLive ==
    ASSUME OneLiveAlert, TypeOK, NEW p \in Callers, Insert(p)
    PROVE  OneLiveAlert'
<1>1. Current(p).of \in Fingerprints
  BY CurrentType DEF Insert, At, TypeOK
<1>2. PICK a \in Alerts :
        /\ ~Taken(Current(p).of, a)
        /\ alert' = [alert EXCEPT ![a] = [of |-> Current(p).of, status |-> "open"]]
  BY DEF Insert
<1> DEFINE row == [of |-> Current(p).of, status |-> "open"]
<1>3. row \in AlertRow /\ row.of = Current(p).of
  BY <1>1 DEF AlertRow, LiveStatus
<1> HIDE DEF row
<1> QED
  BY <1>2, <1>3, GoesLive DEF row

LEMMA AcknowledgeGoesLive ==
    ASSUME OneLiveAlert, TypeOK, NEW m \in Staff, SaveAcknowledge(m)
    PROVE  OneLiveAlert'
<1> DEFINE a == staff[m].row
<1>1. a \in Alerts
  BY DEF TypeOK, StaffRow, SaveAcknowledge
<1>2. CASE Taken(alert[a].of, a)
  BY <1>2, OnlyCloses DEF SaveAcknowledge
<1>3. CASE ~Taken(alert[a].of, a)
  <2> DEFINE row == [alert[a] EXCEPT !.status = "acknowledged"]
  <2>1. row \in AlertRow /\ row.of = alert[a].of
    BY <1>1 DEF TypeOK, AlertRow, LiveStatus
  <2>2. alert' = [alert EXCEPT ![a] = row]
    BY <1>3 DEF SaveAcknowledge
  <2> HIDE DEF row
  <2> QED
    BY <1>1, <1>3, <2>1, <2>2, GoesLive
<1> QED
  BY <1>2, <1>3

LEMMA ResolveOnlyCloses ==
    ASSUME OneLiveAlert, TypeOK, NEW m \in Staff, SaveResolve(m)
    PROVE  OneLiveAlert'
<1>1. staff[m].row \in Alerts
  BY DEF TypeOK, StaffRow, SaveResolve
<1>2. \A a \in Alerts : alert'[a] = alert[a] \/ alert'[a].status = "resolved"
  BY <1>1 DEF TypeOK, AlertRow, SaveResolve
<1> QED
  BY <1>2, OnlyCloses DEF LiveStatus

LEMMA NextOneLive == OneLiveAlert /\ TypeOK /\ [Next]_vars => OneLiveAlert'
<1> SUFFICES ASSUME OneLiveAlert, TypeOK, [Next]_vars PROVE OneLiveAlert'
  OBVIOUS
<1>1. CASE UNCHANGED alert
  BY <1>1 DEF OneLiveAlert
<1>2. CASE \E p \in Callers : Recover(p)
  BY <1>2, RecoverOnlyCloses
<1>3. CASE \E p \in Callers : Insert(p)
  BY <1>3, InsertGoesLive
<1>4. CASE \E m \in Staff : SaveAcknowledge(m)
  BY <1>4, AcknowledgeGoesLive
<1>5. CASE \E m \in Staff : SaveResolve(m)
  BY <1>5, ResolveOnlyCloses
<1> QED
  BY <1>1, <1>2, <1>3, <1>4, <1>5
     DEF Next, vars, Work, Change, Crash, Collect, Raise, Count, Skip, Look, Update, Collide,
         LookAgain, Acknowledge, Resolve

(***************************************************************************)
(* However evaluations, exceptions and staff overlap, there is never a     *)
(* second live alert for a fingerprint.                                    *)
(***************************************************************************)
THEOREM OneLiveAlertAlways == Spec => []OneLiveAlert
<1>1. Init => OneLiveAlert
  BY DEF Init, OneLiveAlert, NoAlert
<1> QED
  BY <1>1, InitTypes, NextTypes, NextOneLive, PTL DEF Spec

(***************************************************************************)
(* What is settled stays so                                                *)
(***************************************************************************)
LEMMA SettledStays ==
    ASSUME TypeOK, [Next]_vars, NEW a \in Alerts, Settled(a)
    PROVE  Settled(a)'
<1>1. CASE UNCHANGED <<alert, staff>>
  BY <1>1 DEF Settled
<1>2. CASE \E p \in Callers : Recover(p)
  BY <1>2 DEF Settled, Recover, LiveOf, LiveStatus
<1>3. CASE \E p \in Callers : Insert(p)
  BY <1>3 DEF Settled, Insert, TypeOK
<1>4. CASE \E m \in Staff, b \in Alerts : Acknowledge(m, b)
  BY <1>4 DEF Settled, Acknowledge, TypeOK
<1>5. CASE \E m \in Staff, b \in Alerts : Resolve(m, b)
  BY <1>5 DEF Settled, Resolve, TypeOK
<1>6. CASE \E m \in Staff : SaveAcknowledge(m)
  <2>1. PICK m \in Staff : SaveAcknowledge(m)
    BY <1>6
  <2>2. staff[m].row # a
    BY <2>1 DEF Settled, SaveAcknowledge, TypeOK, StaffRow
  <2> QED
    BY <2>1, <2>2 DEF Settled, SaveAcknowledge, TypeOK, Away
<1>7. CASE \E m \in Staff : SaveResolve(m)
  BY <1>7 DEF Settled, SaveResolve, TypeOK, AlertRow, Away
<1> QED
  BY <1>1, <1>2, <1>3, <1>4, <1>5, <1>6, <1>7
     DEF Next, vars, Work, Change, Crash, Collect, Raise, Count, Skip, Look, Update, Collide, LookAgain

(***************************************************************************)
(* An alert that was resolved while nobody was acknowledging it is never   *)
(* live again.                                                             *)
(***************************************************************************)
THEOREM SettledAlertsStaySettled == Spec => SettledForever
<1>1. TypeOK /\ [Next]_vars => [\A a \in Alerts : Settled(a) => Settled(a)']_vars
  BY SettledStays
<1> QED
  BY <1>1, TypesAreCorrect, PTL DEF Spec, SettledForever

(***************************************************************************)
(* Division: a number is a multiple of W and a remainder, in one way.      *)
(***************************************************************************)
LEMMA DivMod ==
    ASSUME NEW W \in Nat, W > 0, NEW a \in Int
    PROVE  a \div W \in Int /\ a % W \in 0..W - 1 /\ a = W * (a \div W) + (a % W)
OBVIOUS

LEMMA Distribute ==
    ASSUME NEW W \in Int, NEW a \in Int, NEW b \in Int
    PROVE  /\ W * a \in Int /\ W * b \in Int
           /\ W * (a + b) = W * a + W * b
           /\ W * (a - b) = W * a - W * b
OBVIOUS

LEMMA DivModIs ==
    ASSUME NEW W \in Nat, W > 0, NEW q \in Int, NEW r \in 0..W - 1, NEW a \in Int,
           a = W * q + r
    PROVE  a % W = r /\ a \div W = q
OBVIOUS

LEMMA ModIs ==
    ASSUME NEW W \in Nat, W > 0, NEW q \in Int, NEW a \in Int, 0 <= a - W * q, a - W * q < W
    PROVE  a % W = a - W * q
<1>1. PICK r \in 0..W - 1 : r = a - W * q
  <2>1. W * q \in Int
    OBVIOUS
  <2> QED BY <2>1
<1>2. a = W * q + r
  BY <1>1
<1>3. a % W = r
  BY <1>2, DivModIs
<1> QED BY <1>1, <1>3

LEMMA WeekdayMeets ==
    ASSUME NEW W \in Nat, W > 0, NEW j \in Int, NEW day \in 0..W - 1,
           NEW b \in Int, b = W * j + day, NEW c \in Int, c = b + W
    PROVE  b % W = day /\ c % W = day
<1>1. W * (j + 1) = W * j + W /\ W * j \in Int
  BY Distribute
<1>2. PICK n \in Int : n = j + 1
  OBVIOUS
<1>3. c = W * n + day
  BY <1>1, <1>2
<1>4. c % W = day
  BY <1>3
<1>5. b % W = day
  BY DivModIs
<1> QED
  BY <1>4, <1>5

LEMMA WeekdayOnce ==
    ASSUME NEW W \in Nat, W > 0, NEW j \in Int, NEW s \in 0..W - 1, NEW day \in 0..W - 1,
           NEW p \in Int, NEW b \in 0..W - 1, b = (W * p + day) - (W * j + day) + s
    PROVE  b = s
<1>1. W * p \in Int /\ W * j \in Int /\ W * (p - j) = W * p - W * j
  BY Distribute
<1>2. PICK n \in Int : n = p - j
  OBVIOUS
<1>3. b = W * n + s /\ b \in Int
  BY <1>1, <1>2
<1>4. b % W = s
  BY <1>3, DivModIs
<1>5. b % W = b
  OBVIOUS
<1> QED
  BY <1>4, <1>5

(***************************************************************************)
(* The calendar: days, weekdays, months                                    *)
(***************************************************************************)
LEMMA LeastIn ==
    ASSUME NEW S \in SUBSET Nat, S # {}
    PROVE  \E n \in S : \A m \in S : n <= m
<1>1. PICK k \in S : TRUE
  OBVIOUS
<1> DEFINE Bad == {0..n : n \in {m \in S : m <= k}}
<1>2. Bad \in SUBSET SUBSET (0..k) /\ Bad # {}
  BY <1>1
<1>3. IsFiniteSet(0..k)
  BY <1>1, FS_Interval
<1>4. PICK T \in Bad : \A U \in Bad : ~ (U \subseteq T /\ U # T)
  <2> DEFINE whole == 0..k
  <2>1. IsFiniteSet(whole) /\ Bad \in SUBSET SUBSET whole /\ Bad # {}
    BY <1>2, <1>3
  <2> HIDE DEF Bad, whole
  <2> QED
    BY <2>1, SmallestSubset
<1>5. PICK n \in S : T = 0..n /\ n <= k
  BY <1>4
<1>6. ASSUME NEW m \in S, m < n PROVE FALSE
  <2>1. 0..m \in Bad
    BY <1>1, <1>5, <1>6
  <2>2. 0..m \subseteq 0..n /\ 0..m # 0..n
    BY <1>5, <1>6
  <2> HIDE DEF Bad
  <2> QED
    BY <1>4, <1>5, <2>1, <2>2
<1> QED
  BY <1>6

LEMMA Lengths ==
    /\ DayLength \in Nat /\ DayLength > 0
    /\ WeekLength \in Nat /\ WeekLength > 0
BY PeriodAssumption

LEMMA DayHolds ==
    ASSUME NEW t \in Int
    PROVE  /\ Day(t) \in Int /\ Midnight(Day(t)) \in Int
           /\ Midnight(Day(t)) <= t /\ t < Midnight(Day(t)) + DayLength
BY Lengths DEF Day, Midnight

LEMMA DaysFollow ==
    ASSUME NEW d \in Int, NEW e \in Int, d < e
    PROVE  /\ Midnight(d) \in Int /\ Midnight(e) \in Int
           /\ Midnight(d) + DayLength <= Midnight(e)
BY Lengths DEF Midnight

LEMMA DayIs ==
    ASSUME NEW d \in Int, NEW h \in 0..DayLength - 1
    PROVE  Midnight(d) \in Int /\ Day(Midnight(d) + h) = d
BY Lengths DEF Day, Midnight

\* A timing as a schedule has it.
Plain(timing) ==
    timing \in [frequency : Frequencies, day : Nat, hour : 0..DayLength - 1]

LEMMA OnDayIs ==
    ASSUME NEW timing, Plain(timing), NEW d \in Int
    PROVE  OnDay(timing, d) \in Int /\ Day(OnDay(timing, d)) = d
BY DayIs, Lengths DEF OnDay, Plain

\* Runs of a timing are in the order of their days.
LEMMA RunsInOrder ==
    ASSUME NEW timing, Plain(timing), NEW d \in Int, NEW e \in Int
    PROVE  OnDay(timing, d) < OnDay(timing, e) <=> d < e
<1>1. timing.hour \in Int
  BY Lengths DEF Plain
<1>2. DayLength \in Int /\ DayLength > 0
  BY Lengths
<1>3. d < e => OnDay(timing, d) < OnDay(timing, e)
  BY <1>1, <1>2, DaysFollow DEF OnDay
<1>4. e < d => OnDay(timing, e) < OnDay(timing, d)
  BY <1>1, <1>2, DaysFollow DEF OnDay
<1>5. OnDay(timing, d) \in Int /\ OnDay(timing, e) \in Int
  BY OnDayIs
<1> QED
  BY <1>3, <1>4, <1>5

\* What runs after an instant runs that day or later, and what is before has passed.
LEMMA RunsAhead ==
    ASSUME NEW timing, Plain(timing), NEW after \in Int, NEW d \in Int
    PROVE  /\ d > Day(after) => OnDay(timing, d) > after
           /\ OnDay(timing, d) > after => d >= Day(after)
<1>1. timing.hour \in Int /\ 0 <= timing.hour /\ timing.hour < DayLength
  BY Lengths DEF Plain
<1>2. DayLength \in Int
  BY Lengths
<1>3. /\ Day(after) \in Int /\ Midnight(Day(after)) \in Int
      /\ Midnight(Day(after)) <= after /\ after < Midnight(Day(after)) + DayLength
  BY DayHolds
<1>4. Midnight(d) \in Int
  BY DayIs, <1>1, <1>2
<1>5. ASSUME d > Day(after) PROVE OnDay(timing, d) > after
  <2>1. Midnight(Day(after)) + DayLength <= Midnight(d)
    BY <1>3, <1>5, DaysFollow
  <2> QED
    BY <1>1, <1>2, <1>3, <1>4, <2>1 DEF OnDay
<1>6. ASSUME d < Day(after) PROVE OnDay(timing, d) <= after
  <2>1. Midnight(d) + DayLength <= Midnight(Day(after))
    BY <1>3, <1>6, DaysFollow
  <2> QED
    BY <1>1, <1>2, <1>3, <1>4, <2>1 DEF OnDay
<1>7. OnDay(timing, d) \in Int
  BY OnDayIs
<1> QED
  BY <1>3, <1>5, <1>6, <1>7

(***************************************************************************)
(* The claim about a computed run: it is ahead, the calendar names it, and *)
(* nothing the calendar names is between.                                  *)
(***************************************************************************)
IsNextRun(timing, last, after, next) ==
    /\ next \in Int /\ next > after
    /\ RunsAt(timing, last, after, next)
    /\ \A t \in after + 1 .. next - 1 : ~RunsAt(timing, last, after, t)

\* The next run is on the first day whose instant is ahead, of the days the timing names.
LEMMA FirstDayAhead ==
    ASSUME NEW timing, Plain(timing), NEW last, NEW after \in Int, NEW Days \in SUBSET Int,
           \A t \in Int : RunsAt(timing, last, after, t)
                              <=> t = OnDay(timing, Day(t)) /\ Day(t) \in Days,
           NEW n \in Days, OnDay(timing, n) > after,
           \A e \in Days : e < n => OnDay(timing, e) <= after
    PROVE  IsNextRun(timing, last, after, OnDay(timing, n))
<1>1. PICK next \in Int : next = OnDay(timing, n) /\ Day(next) = n
  BY OnDayIs
<1>2. RunsAt(timing, last, after, next) /\ next > after
  BY <1>1
<1>3. ASSUME NEW t \in after + 1 .. next - 1, RunsAt(timing, last, after, t) PROVE FALSE
  <2>1. t \in Int /\ t > after /\ t < next
    BY <1>1
  <2>2. t = OnDay(timing, Day(t)) /\ Day(t) \in Days
    BY <1>3, <2>1
  <2>3. PICK e \in Days : e = Day(t)
    BY <2>2
  <2>4. OnDay(timing, e) < OnDay(timing, n) /\ OnDay(timing, e) > after
    BY <1>1, <2>1, <2>2, <2>3
  <2>5. e < n
    BY <2>4, RunsInOrder
  <2>6. OnDay(timing, e) <= after /\ OnDay(timing, e) \in Int
    BY <2>5, OnDayIs
  <2> QED
    BY <2>4, <2>6
<1>4. IsNextRun(timing, last, after, next)
  BY <1>2, <1>3 DEF IsNextRun
<1> QED
  BY <1>1, <1>4

LEMMA DailyRuns ==
    ASSUME NEW timing, Plain(timing), timing.frequency = "daily",
           NEW last, NEW after \in Int
    PROVE  IsNextRun(timing, last, after, daily_next_run(timing, after))
<1>1. PICK d \in Int : d = Day(after)
  BY DayHolds
<1>2. \A t \in Int : RunsAt(timing, last, after, t)
                        <=> t = OnDay(timing, Day(t)) /\ Day(t) \in Int
  BY DayHolds DEF RunsAt
<1>3. PICK next : next = daily_next_run(timing, after)
  OBVIOUS
<1>4. OnDay(timing, d) \in Int
  BY OnDayIs
<1>5. CASE OnDay(timing, d) <= after
  <2>1. PICK n \in Int : n = d + 1
    OBVIOUS
  <2>2. next = OnDay(timing, n)
    <3>1. timing.hour \in Int
      BY Lengths DEF Plain
    <3>2. next = OnDay(timing, d) + DayLength
      BY <1>1, <1>3, <1>5 DEF daily_next_run
    <3>3. OnDay(timing, n) = OnDay(timing, d) + DayLength
      BY <2>1, <3>1, Lengths DEF OnDay, Midnight
    <3> QED
      BY <3>2, <3>3
  <2>3. OnDay(timing, n) > after
    BY <1>1, <2>1, RunsAhead
  <2>4. ASSUME NEW e \in Int, e < n PROVE OnDay(timing, e) <= after
    <3>1. e < d \/ e = d
      BY <2>1, <2>4
    <3>2. OnDay(timing, e) \in Int
      BY OnDayIs
    <3> QED
      BY <1>1, <1>5, <3>1, <3>2, RunsAhead
  <2>5. IsNextRun(timing, last, after, OnDay(timing, n))
    BY <1>2, <2>3, <2>4, FirstDayAhead
  <2> QED
    BY <1>3, <2>2, <2>5
<1>6. CASE ~(OnDay(timing, d) <= after)
  <2>1. next = OnDay(timing, d) /\ OnDay(timing, d) > after
    BY <1>1, <1>3, <1>4, <1>6 DEF daily_next_run
  <2>2. ASSUME NEW e \in Int, e < d PROVE OnDay(timing, e) <= after
    <3>1. OnDay(timing, e) \in Int
      BY OnDayIs
    <3> QED
      BY <1>1, <2>2, <3>1, RunsAhead
  <2>3. IsNextRun(timing, last, after, OnDay(timing, d))
    BY <1>2, <2>1, <2>2, FirstDayAhead
  <2> QED
    BY <1>3, <2>1, <2>3
<1> QED
  BY <1>5, <1>6

\* The days from a day to the next with a weekday.
Ahead(day, d) == (day - Weekday(d)) % WeekLength

\* The days that follow a day meet a weekday once a week, first when the weekdays between
\* have passed.
LEMMA WeekdayAhead ==
    ASSUME NEW a \in Int, NEW day \in 0..WeekLength - 1
    PROVE  /\ Ahead(day, a) \in 0..WeekLength - 1
           /\ (a + Ahead(day, a)) % WeekLength = day
           /\ (a + Ahead(day, a) + WeekLength) % WeekLength = day
           /\ \A e \in Int : e >= a /\ e - a < WeekLength /\ e % WeekLength = day
                                 => e - a = Ahead(day, a)
<1>0. PICK W \in Nat : W = WeekLength /\ W > 0
  BY Lengths
<1>1. PICK q \in Int, r \in 0..W - 1 : a = W * q + r /\ r = Weekday(a)
  BY <1>0, DivMod DEF Weekday
<1>2. day \in Int /\ day - r \in Int
  BY <1>0, <1>1
<1>3. PICK s : s = Ahead(day, a) /\ s = (day - r) % W
  BY <1>0, <1>1 DEF Ahead
<1>4. PICK k \in Int : s \in 0..W - 1 /\ day - r = W * k + s
  <2>1. (day - r) \div W \in Int /\ (day - r) % W \in 0..W - 1
        /\ day - r = W * ((day - r) \div W) + ((day - r) % W)
    BY <1>0, <1>2, DivMod
  <2> QED
    BY <1>3, <2>1
<1>5. W * q \in Int /\ W * k \in Int /\ W * (q - k) = W * q - W * k
  BY <1>1, <1>4, Distribute
<1>6. PICK j \in Int : a + s = W * j + day
  <2>1. PICK x \in Int, y \in Int : x = W * q /\ y = W * k
    BY <1>5
  <2>2. W * (q - k) = x - y
    BY <1>5, <2>1
  <2>3. a = x + r /\ day - r = y + s
    BY <1>1, <1>4, <2>1
  <2>4. a + s = x - y + day
    BY <1>2, <1>4, <2>3
  <2> QED
    BY <2>2, <2>4
<1>7. (a + s) % W = day /\ (a + s + W) % W = day
  <2>1. PICK b \in Int, c \in Int : b = a + s /\ c = a + s + W
    BY <1>4
  <2>2. b = W * j + day /\ c = b + W
    BY <1>4, <1>6, <2>1
  <2>3. b % W = day /\ c % W = day
    BY <1>0, <2>2, WeekdayMeets
  <2> QED
    BY <2>1, <2>3
<1>8. ASSUME NEW e \in Int, e >= a, e - a < W, e % W = day
      PROVE  e - a = s
  <2>1. PICK p \in Int : e = W * p + day
    BY <1>0, <1>8, DivMod
  <2>2. PICK b \in 0..W - 1 : b = e - a
    BY <1>8
  <2>3. b = (W * p + day) - (W * j + day) + s
    <3>1. W * p \in Int /\ W * j \in Int
      BY Distribute
    <3> QED
      BY <1>4, <1>6, <2>1, <2>2, <3>1
  <2>4. b = s
    BY <1>0, <1>4, <2>3, WeekdayOnce
  <2> QED
    BY <2>2, <2>4
<1> QED
  BY <1>0, <1>3, <1>4, <1>7, <1>8

LEMMA WeeklyRuns ==
    ASSUME NEW timing, Plain(timing), timing.frequency = "weekly", ValidTiming(timing),
           NEW last, NEW after \in Int
    PROVE  IsNextRun(timing, last, after, weekly_next_run(timing, after))
<1>0. PICK W \in Nat : W = WeekLength /\ W > 0
  BY Lengths
<1>1. PICK d \in Int : d = Day(after)
  BY DayHolds
<1>2. PICK day \in 0..W - 1 : day = timing.day
  BY <1>0 DEF ValidTiming
<1>3. PICK s : s = Ahead(day, d)
  OBVIOUS
<1>4. /\ s \in 0..W - 1
      /\ (d + s) % W = day
      /\ (d + s + W) % W = day
      /\ \A e \in Int : e >= d /\ e - d < W /\ e % W = day => e - d = s
  BY <1>0, <1>3, WeekdayAhead
<1> DEFINE Days == {e \in Int : e % W = day}
<1>5. \A t \in Int : RunsAt(timing, last, after, t)
                        <=> t = OnDay(timing, Day(t)) /\ Day(t) \in Days
  BY <1>0, <1>2, DayHolds DEF RunsAt, Weekday
<1>6. PICK a \in Days, b \in Days : a = d + s /\ b = d + s + W
  BY <1>4
<1>7. \A e \in Days : e \in Int /\ (e >= d /\ e - d < W => e - d = s)
  BY <1>4
<1>8. Days \in SUBSET Int
  OBVIOUS
<1> HIDE DEF Days
<1>9. PICK next : next = weekly_next_run(timing, after)
  OBVIOUS
<1>10. next = IF OnDay(timing, a) <= after THEN OnDay(timing, a) + W * DayLength
                                           ELSE OnDay(timing, a)
  BY <1>0, <1>1, <1>2, <1>3, <1>6, <1>9 DEF weekly_next_run, Ahead
<1>11. s \in Int /\ 0 <= s /\ s < W /\ a \in Int /\ b \in Int
  BY <1>4, <1>7
<1>12. CASE OnDay(timing, a) <= after
  <2>1. next = OnDay(timing, b)
    <3>1. b * DayLength = a * DayLength + W * DayLength /\ a * DayLength \in Int
          /\ W * DayLength \in Int
      BY <1>6, <1>11, Lengths
    <3>2. timing.hour \in Int
      BY Lengths DEF Plain
    <3> QED
      BY <1>10, <1>12, <3>1, <3>2 DEF OnDay, Midnight
  <2>2. ~(a > d)
    <3>1. OnDay(timing, a) \in Int
      BY <1>11, OnDayIs
    <3>2. a > d => OnDay(timing, a) > after
      BY <1>1, <1>11, RunsAhead
    <3> QED
      BY <1>12, <3>1, <3>2
  <2>3. s = 0 /\ a = d /\ b = d + W
    BY <1>6, <1>11, <2>2
  <2>4. OnDay(timing, b) > after
    BY <1>1, <1>11, <2>3, RunsAhead
  <2>5. ASSUME NEW e \in Days, e < b PROVE OnDay(timing, e) <= after
    <3>1. e \in Int /\ OnDay(timing, e) \in Int
      BY <1>7, OnDayIs
    <3>2. CASE e < d
      BY <1>1, <3>1, <3>2, RunsAhead
    <3>3. CASE e >= d
      <4>1. e - d < W
        BY <1>11, <2>3, <2>5, <3>1
      <4>2. e = a
        BY <1>7, <1>11, <2>3, <3>1, <3>3, <4>1
      <4> QED
        BY <1>12, <4>2
    <3> QED
      BY <3>1, <3>2, <3>3
  <2>6. IsNextRun(timing, last, after, OnDay(timing, b))
    BY <1>5, <1>8, <2>4, <2>5, FirstDayAhead
  <2> QED
    BY <1>9, <2>1, <2>6
<1>13. CASE ~(OnDay(timing, a) <= after)
  <2>1. next = OnDay(timing, a) /\ OnDay(timing, a) > after
    BY <1>10, <1>11, <1>13, OnDayIs
  <2>2. ASSUME NEW e \in Days, e < a PROVE OnDay(timing, e) <= after
    <3>1. e \in Int /\ OnDay(timing, e) \in Int
      BY <1>7, OnDayIs
    <3>2. ~(e >= d)
      <4> SUFFICES ASSUME e >= d PROVE FALSE
        OBVIOUS
      <4>1. e - d < W /\ e - d < s
        BY <1>6, <1>11, <2>2, <3>1
      <4> QED
        BY <1>7, <1>11, <3>1, <4>1
    <3> QED
      BY <1>1, <3>1, <3>2, RunsAhead
  <2>3. IsNextRun(timing, last, after, OnDay(timing, a))
    BY <1>5, <1>8, <2>1, <2>2, FirstDayAhead
  <2> QED
    BY <1>9, <2>1, <2>3
<1> QED
  BY <1>12, <1>13

LEMMA MonthsAre ==
    /\ DOMAIN MonthLengths = 1..Len(MonthLengths) /\ Len(MonthLengths) \in Nat
    /\ \A m \in DOMAIN MonthLengths : MonthLengths[m] \in Nat /\ MonthLengths[m] > 0
BY PeriodAssumption

\* The first day of a month that has a number is the sum of the months before it.
LEMMA MonthStarts ==
    ASSUME NEW m \in DOMAIN MonthLengths
    PROVE  /\ m \in Nat /\ m > 0
           /\ FirstDay[m] = SumFunctionOnSet(MonthLengths, 1..m - 1)
           /\ FirstDay[m] \in Nat
           /\ IsFiniteSet(1..m - 1) /\ \A x \in 1..m - 1 : MonthLengths[x] \in Nat
<1>1. m \in Nat /\ m > 0 /\ \A x \in 1..m - 1 : MonthLengths[x] \in Nat
  BY MonthsAre
<1>2. FirstDay[m] = SumFunctionOnSet(MonthLengths, 1..m - 1)
  BY DEF FirstDay
<1>3. IsFiniteSet(1..m - 1)
  BY <1>1, FS_Interval
<1>4. SumFunctionOnSet(MonthLengths, 1..m - 1) \in Nat
  BY <1>1, <1>3, SumNat
<1> QED
  BY <1>1, <1>2, <1>3, <1>4

LEMMA MonthFollows ==
    ASSUME NEW m \in DOMAIN MonthLengths, m + 1 \in DOMAIN MonthLengths
    PROVE  FirstDay[m + 1] = FirstDay[m] + MonthLengths[m]
<1>1. /\ m \in Nat /\ m > 0 /\ IsFiniteSet(1..m - 1) /\ \A x \in 1..m - 1 : MonthLengths[x] \in Nat
      /\ FirstDay[m] = SumFunctionOnSet(MonthLengths, 1..m - 1)
  BY MonthStarts
<1>2. FirstDay[m + 1] = SumFunctionOnSet(MonthLengths, 1..m + 1 - 1)
  BY MonthStarts
<1>3. 1..m + 1 - 1 = (1..m - 1) \cup {m} /\ m \notin 1..m - 1
  BY <1>1
<1>4. MonthLengths[m] \in Nat
  BY MonthsAre
<1> DEFINE S == 1..m - 1
<1>5. IsFiniteSet(S) /\ m \notin S /\ \A x \in S \cup {m} : MonthLengths[x] \in Int
  BY <1>1, <1>3, <1>4
<1>6. FirstDay[m] = SumFunctionOnSet(MonthLengths, S)
      /\ FirstDay[m + 1] = SumFunctionOnSet(MonthLengths, S \cup {m})
  BY <1>1, <1>2, <1>3
<1> HIDE DEF S
<1> QED
  BY <1>5, <1>6, SumAdd

LEMMA MonthsInOrder ==
    ASSUME NEW m \in DOMAIN MonthLengths, NEW n \in DOMAIN MonthLengths, m < n
    PROVE  FirstDay[m] + MonthLengths[m] <= FirstDay[n]
<1>1. /\ m \in Nat /\ n \in Nat /\ IsFiniteSet(1..n - 1)
      /\ \A x \in 1..n - 1 : MonthLengths[x] \in Nat
      /\ FirstDay[n] = SumFunctionOnSet(MonthLengths, 1..n - 1)
  BY MonthStarts
<1>2. m + 1 \in DOMAIN MonthLengths /\ m + 1 \in Nat
  BY <1>1, MonthsAre
<1>3. FirstDay[m + 1] = FirstDay[m] + MonthLengths[m]
  BY <1>2, MonthFollows
<1>4. FirstDay[m + 1] = SumFunctionOnSet(MonthLengths, 1..m + 1 - 1)
  BY <1>2, MonthStarts
<1> DEFINE S == 1..n - 1
           T == 1..m + 1 - 1
<1>5. T \in SUBSET S /\ IsFiniteSet(S) /\ \A x \in S : MonthLengths[x] \in Nat
  BY <1>1
<1> HIDE DEF S, T
<1>6. SumFunctionOnSet(MonthLengths, T) <= SumFunctionOnSet(MonthLengths, S)
  BY <1>5, SumPart
<1> QED
  BY <1>1, <1>3, <1>4, <1>6 DEF S, T

\* The days of a month, and the month of a day.
InMonth(d, m) == FirstDay[m] <= d /\ d < FirstDay[m] + MonthLengths[m]

LEMMA MonthIs ==
    ASSUME NEW d \in Int, NEW m \in DOMAIN MonthLengths, InMonth(d, m)
    PROVE  Month(d) = m
<1>1. ASSUME NEW n \in DOMAIN MonthLengths, InMonth(d, n) PROVE n = m
  <2>1. n \in Int /\ m \in Int /\ FirstDay[n] \in Int /\ FirstDay[m] \in Int
        /\ MonthLengths[n] \in Int /\ MonthLengths[m] \in Int
    BY MonthStarts, MonthsAre
  <2>2. ~(n < m)
    BY <1>1, <2>1, MonthsInOrder DEF InMonth
  <2>3. ~(m < n)
    BY <1>1, <2>1, MonthsInOrder DEF InMonth
  <2> QED
    BY <2>1, <2>2, <2>3
<1> QED
  BY <1>1 DEF Month, InMonth

LEMMA MonthExists ==
    ASSUME NEW d \in Nat, NEW h \in DOMAIN MonthLengths, d < FirstDay[h]
    PROVE  \E m \in DOMAIN MonthLengths : InMonth(d, m) /\ m + 1 \in DOMAIN MonthLengths
<1> DEFINE Later == {m \in DOMAIN MonthLengths : d < FirstDay[m]}
<1>1. Later \in SUBSET Nat /\ h \in Later
  BY MonthsAre
<1>2. PICK n \in Later : \A m \in Later : n <= m
  <2> HIDE DEF Later
  <2> QED
    BY <1>1, LeastIn
<1>3. n \in DOMAIN MonthLengths /\ d < FirstDay[n] /\ n \in Nat /\ n > 0
  BY <1>2, MonthStarts
<1>4. n # 1
  <2>1. ASSUME n = 1 PROVE FALSE
    <3>1. FirstDay[n] = SumFunctionOnSet(MonthLengths, 1..n - 1)
      BY <1>3, MonthStarts
    <3>2. 1..n - 1 = {}
      BY <2>1
    <3>3. FirstDay[n] = 0
      BY <3>1, <3>2, SumEmpty
    <3> QED
      BY <1>3, <3>3
  <2> QED
    BY <2>1
<1>5. PICK m \in Nat : m + 1 = n /\ m > 0
  BY <1>3, <1>4
<1>6. m \in DOMAIN MonthLengths /\ m + 1 \in DOMAIN MonthLengths
  BY <1>3, <1>5, MonthsAre
<1>7. m \notin Later
  BY <1>2, <1>5
<1>8. FirstDay[m] \in Int /\ FirstDay[m] <= d
  BY <1>6, <1>7, MonthStarts
<1>9. FirstDay[n] = FirstDay[m] + MonthLengths[m]
  BY <1>5, <1>6, MonthFollows
<1> QED
  BY <1>3, <1>6, <1>8, <1>9 DEF InMonth

\* The day of a month on which a monthly timing runs.
RunDay(timing, m) == FirstDay[m] + MonthDay(timing, m) - 1
NamesDay(timing, d, m) ==
    \/ d - FirstDay[m] + 1 = timing.day
    \/ timing.day > MonthLengths[m] /\ d + 1 = FirstDay[m] + MonthLengths[m]

LEMMA RunDayIs ==
    ASSUME NEW timing, Plain(timing), timing.day > 0, NEW m \in DOMAIN MonthLengths
    PROVE  /\ RunDay(timing, m) \in Int /\ InMonth(RunDay(timing, m), m)
           /\ NamesDay(timing, RunDay(timing, m), m)
           /\ \A d \in Int : InMonth(d, m) /\ NamesDay(timing, d, m) => d = RunDay(timing, m)
<1>1. FirstDay[m] \in Int /\ MonthLengths[m] \in Int /\ MonthLengths[m] > 0
  BY MonthStarts, MonthsAre
<1>2. timing.day \in Int
  BY DEF Plain
<1> QED
  BY <1>1, <1>2 DEF RunDay, MonthDay, InMonth, NamesDay

LEMMA MonthlyRuns ==
    ASSUME NEW timing, Plain(timing), timing.frequency = "monthly", ValidTiming(timing),
           NEW last, NEW after \in Nat,
           NEW h \in DOMAIN MonthLengths, Day(after) < FirstDay[h]
    PROVE  IsNextRun(timing, last, after, monthly_next_run(timing, after))
<1>1. PICK d \in Nat : d = Day(after)
  BY Lengths DEF Day
<1>2. PICK m \in DOMAIN MonthLengths : InMonth(d, m) /\ m + 1 \in DOMAIN MonthLengths
  BY <1>1, MonthExists
<1>3. Month(d) = m
  BY <1>2, MonthIs
<1>4. timing.day > 0 /\ timing.day \in Int
  BY DEF ValidTiming, Plain
<1>5. PICK k \in DOMAIN MonthLengths : k = m + 1
  BY <1>2
<1>6. PICK a \in Int, b \in Int : a = RunDay(timing, m) /\ b = RunDay(timing, k)
  BY <1>4, RunDayIs
<1>7. InMonth(a, m) /\ NamesDay(timing, a, m) /\ InMonth(b, k) /\ NamesDay(timing, b, k)
  BY <1>4, <1>6, RunDayIs
<1>8. \A e \in Int : /\ InMonth(e, m) /\ NamesDay(timing, e, m) => e = a
                     /\ InMonth(e, k) /\ NamesDay(timing, e, k) => e = b
  BY <1>4, <1>6, RunDayIs
<1>9. Month(a) = m /\ Month(b) = k
  BY <1>7, MonthIs
<1> DEFINE Days == {e \in Int : NamesDay(timing, e, Month(e))}
<1>10. \A t \in Int : RunsAt(timing, last, after, t)
                        <=> t = OnDay(timing, Day(t)) /\ Day(t) \in Days
  BY DayHolds DEF RunsAt, NamesDay
<1>11. a \in Days /\ b \in Days /\ Days \in SUBSET Int
  BY <1>7, <1>9
<1>12. \A e \in Days : e \in Int /\ NamesDay(timing, e, Month(e))
  OBVIOUS
<1> HIDE DEF Days
<1>13. PICK next : next = monthly_next_run(timing, after)
  OBVIOUS
<1>14. next = IF OnDay(timing, a) <= after THEN OnDay(timing, b) ELSE OnDay(timing, a)
  <2>1. /\ monthly_candidate(timing, m) = OnDay(timing, a)
        /\ monthly_candidate(timing, m + 1) = OnDay(timing, b)
    BY <1>5, <1>6 DEF monthly_candidate, RunDay
  <2> QED
    BY <1>1, <1>3, <1>13, <2>1 DEF monthly_next_run
<1>15. /\ FirstDay[m] \in Int /\ FirstDay[k] \in Int /\ MonthLengths[m] \in Int
       /\ MonthLengths[k] \in Int /\ FirstDay[k] = FirstDay[m] + MonthLengths[m]
  <2>1. FirstDay[m] \in Int /\ FirstDay[k] \in Int
    BY MonthStarts
  <2>2. MonthLengths[m] \in Int /\ MonthLengths[k] \in Int
    BY MonthsAre
  <2>3. FirstDay[k] = FirstDay[m] + MonthLengths[m]
    BY <1>2, <1>5, MonthFollows
  <2> QED
    BY <2>1, <2>2, <2>3
\* The days from this one to the end of next month.
<1>16. ASSUME NEW e \in Days, e >= d, e < FirstDay[k] + MonthLengths[k]
       PROVE  (e = a /\ InMonth(e, m)) \/ (e = b /\ InMonth(e, k))
  <2>1. e \in Int /\ (InMonth(e, m) \/ InMonth(e, k))
    BY <1>2, <1>12, <1>15, <1>16 DEF InMonth
  <2>2. CASE InMonth(e, m)
    <3>1. Month(e) = m
      BY <2>1, <2>2, MonthIs
    <3> QED
      BY <1>8, <1>12, <2>1, <2>2, <3>1
  <2>3. CASE InMonth(e, k)
    <3>1. Month(e) = k
      BY <2>1, <2>3, MonthIs
    <3> QED
      BY <1>8, <1>12, <2>1, <2>3, <3>1
  <2> QED
    BY <2>1, <2>2, <2>3
<1>17. ASSUME NEW e \in Days, e < d PROVE OnDay(timing, e) <= after
  <2>1. e \in Int /\ OnDay(timing, e) \in Int
    BY <1>12, OnDayIs
  <2> QED
    BY <1>1, <1>17, <2>1, RunsAhead
<1>18. CASE OnDay(timing, a) <= after
  <2>1. b > d
    BY <1>2, <1>7, <1>15 DEF InMonth
  <2>2. OnDay(timing, b) > after
    BY <1>1, <2>1, RunsAhead
  <2>3. ASSUME NEW e \in Days, e < b PROVE OnDay(timing, e) <= after
    <3>1. e \in Int /\ e < FirstDay[k] + MonthLengths[k]
      BY <1>7, <1>12, <1>15, <2>3 DEF InMonth
    <3>2. CASE e >= d
      BY <1>16, <1>18, <2>3, <3>1, <3>2
    <3> QED
      BY <1>17, <3>1, <3>2
  <2>4. IsNextRun(timing, last, after, OnDay(timing, b))
    BY <1>10, <1>11, <2>2, <2>3, FirstDayAhead
  <2> QED
    BY <1>13, <1>14, <1>18, <2>4
<1>19. CASE ~(OnDay(timing, a) <= after)
  <2>1. OnDay(timing, a) > after
    BY <1>19, OnDayIs
  <2>2. ASSUME NEW e \in Days, e < a PROVE OnDay(timing, e) <= after
    <3>1. e \in Int /\ e < FirstDay[m] + MonthLengths[m] /\ e < FirstDay[k] + MonthLengths[k]
      <4>1. MonthLengths[k] > 0 /\ MonthLengths[k] \in Int /\ e \in Int
        BY <1>12, <2>2, MonthsAre
      <4>2. a < FirstDay[m] + MonthLengths[m]
        BY <1>7 DEF InMonth
      <4> QED
        BY <1>15, <2>2, <4>1, <4>2
    <3>2. CASE e >= d
      <4>1. ~InMonth(e, k)
        BY <1>15, <3>1 DEF InMonth
      <4> QED
        BY <1>16, <2>2, <3>1, <3>2, <4>1
    <3> QED
      BY <1>17, <3>1, <3>2
  <2>3. IsNextRun(timing, last, after, OnDay(timing, a))
    BY <1>10, <1>11, <2>1, <2>2, FirstDayAhead
  <2> QED
    BY <1>13, <1>14, <1>19, <2>3
<1> QED
  BY <1>18, <1>19

\* Instants a whole number of steps apart, on days that are as many days apart.
LEMMA StepsApart ==
    ASSUME NEW timing, Plain(timing), NEW f \in Int, NEW N \in Int, NEW k \in Int,
           NEW e, e = f + N * k
    PROVE  e \in Int /\ OnDay(timing, e) = OnDay(timing, f) + N * DayLength * k
<1>1. timing.hour \in Int /\ DayLength \in Int
  BY Lengths DEF Plain
<1>2. PICK x \in Int : x = N * k
  OBVIOUS
<1>3. (f + x) * DayLength = f * DayLength + x * DayLength /\ f * DayLength \in Int
      /\ x * DayLength \in Int
  BY <1>1
<1>4. x * DayLength = N * DayLength * k
  BY <1>1, <1>2
<1> QED
  BY <1>1, <1>2, <1>3, <1>4 DEF OnDay, Midnight

LEMMA InOrder ==
    ASSUME NEW S \in Int, S > 0, NEW j \in Int, NEW k \in Int
    PROVE  /\ j < k => S * j < S * k
           /\ S * j < S * k => j < k
OBVIOUS

LEMMA NextStep ==
    ASSUME NEW S \in Nat, S > 0, NEW x \in Int, NEW k, k = x \div S + 1
    PROVE  k \in Int /\ x < S * k /\ S * (k - 1) <= x /\ (x >= 0 => k >= 1)
<1>1. PICK q \in Int : q = x \div S /\ x = S * q + (x % S) /\ (x % S) \in 0..S - 1
  BY DivMod
<1>2. k \in Int /\ k - 1 = q /\ k = q + 1
  BY <1>1
<1>3. S * (q + 1) = S * q + S /\ S * q \in Int
  BY Distribute
<1>4. S * k = S * q + S /\ S * (k - 1) = S * q
  BY <1>2, <1>3
<1>5. x < S * k /\ S * (k - 1) <= x
  BY <1>1, <1>3, <1>4
<1>6. ASSUME x >= 0 PROVE q >= 0
  <2>1. S * q + S > 0
    BY <1>1, <1>3, <1>6
  <2>2. S * 0 < S * (q + 1)
    BY <1>3, <2>1
  <2>3. 0 < q + 1
    BY <2>2, InOrder
  <2> QED
    BY <2>3
<1> QED
  BY <1>2, <1>5, <1>6

\* The days a whole number of steps after a day, the day itself or the next being the first.
StepDay(e, base, N, floor) == (e - base) % N = 0 /\ e - base > floor
StepsFrom(f, N) == {f + N * j : j \in Nat}
FirstStep(f, base, N, floor) == (f = base /\ floor = -1) \/ (f = base + N /\ floor = 0)

LEMMA StepDays ==
    ASSUME NEW N \in Nat, N > 0, NEW base \in Int, NEW f \in Int, NEW floor \in Int,
           FirstStep(f, base, N, floor),
           NEW e \in Int
    PROVE  StepDay(e, base, N, floor) <=> e \in StepsFrom(f, N)
<1>1. PICK p \in Int : p = e - base
  OBVIOUS
<1>2. PICK q \in Int : q = p \div N /\ p = N * q + (p % N) /\ (p % N) \in 0..N - 1
  BY DivMod
<1>3. PICK shift \in {0, 1} : f = base + N * shift /\ floor = shift - 1
  BY DEF FirstStep
<1>4. ASSUME p % N = 0, p > floor PROVE \E j \in Nat : e = f + N * j
  <2>1. p = N * q /\ p >= shift
    BY <1>2, <1>3, <1>4
  <2>2. N * (q - shift) = N * q - N * shift /\ N * q \in Int /\ N * shift \in Int
    BY <1>3, Distribute
  <2>3. PICK j \in Int : j = q - shift
    BY <1>3
  <2>4. e = f + N * j
    BY <1>1, <1>3, <2>1, <2>2, <2>3
  <2>5. j >= 0
    <3>1. CASE shift = 0
      <4>1. ASSUME q < 0 PROVE FALSE
        <5>1. N * q < N * 0
          BY <4>1, InOrder
        <5> QED
          BY <2>1, <3>1, <5>1
      <4> QED
        BY <2>3, <3>1, <4>1
    <3>2. CASE shift = 1
      <4>1. N * 0 < N * q
        BY <2>1, <3>2
      <4>2. 0 < q
        BY <4>1, InOrder
      <4> QED
        BY <2>3, <3>2, <4>2
    <3> QED
      BY <3>1, <3>2
  <2>6. j \in Nat
    BY <2>3, <2>5
  <2> QED
    BY <2>4, <2>6, Zenon
<1>5. ASSUME NEW j \in Nat, e = f + N * j PROVE p % N = 0 /\ p > floor
  <2>1. PICK n \in Int : n = j + shift
    BY <1>3
  <2>2. N * (j + shift) = N * j + N * shift /\ N * j \in Int /\ N * shift \in Int
    BY <1>3, Distribute
  <2>3. p = N * n
    BY <1>1, <1>3, <1>5, <2>1, <2>2
  <2>4. p = N * n + 0 /\ 0 \in 0..N - 1
    BY <2>3
  <2>5. p % N = 0
    BY <2>4, DivModIs
  <2>6. p > floor
    <3>1. N * j >= 0
      BY SMT
    <3>2. CASE shift = 0
      BY <1>3, <2>1, <2>3, <3>1, <3>2
    <3>3. CASE shift = 1
      BY <1>1, <1>3, <1>5, <3>1, <3>3
    <3> QED
      BY <3>2, <3>3
  <2> QED
    BY <2>5, <2>6
<1> QED
  BY <1>1, <1>4, <1>5 DEF StepDay, StepsFrom

LEMMA EveryNDaysRuns ==
    ASSUME NEW timing, Plain(timing), timing.frequency = "every_n_days", ValidTiming(timing),
           NEW last \in Int, NEW after \in Int
    PROVE  IsNextRun(timing, last, after, every_n_days_next_run(timing, last, after))
<1>1. PICK N \in Nat : N = timing.day /\ N > 0
  BY DEF ValidTiming, Plain
<1>2. PICK base \in Int : base = Day(IF last = NotYet THEN after ELSE last)
  BY DayHolds
<1>3. PICK f \in Int : f = IF last = NotYet THEN base ELSE base + N
  OBVIOUS
<1>4. PICK floor \in Int : floor = IF last = NotYet THEN -1 ELSE 0
  OBVIOUS
<1> DEFINE Days == {e \in Int : StepDay(e, base, N, floor)}
<1>5. \A t \in Int : RunsAt(timing, last, after, t)
                        <=> t = OnDay(timing, Day(t)) /\ Day(t) \in Days
  BY <1>1, <1>2, <1>4, DayHolds DEF RunsAt, StepDay
<1>6. \A e \in Int : e \in Days <=> \E j \in Nat : e = f + N * j
  <2>1. FirstStep(f, base, N, floor)
    BY <1>3, <1>4 DEF FirstStep
  <2>2. ASSUME NEW e \in Int PROVE e \in Days <=> StepDay(e, base, N, floor)
    OBVIOUS
  <2> HIDE DEF Days
  <2>3. ASSUME NEW e \in Int
        PROVE  StepDay(e, base, N, floor) <=> e \in StepsFrom(f, N)
    BY <1>1, <2>1, StepDays
  <2> QED
    BY <2>2, <2>3, Zenon DEF StepsFrom
<1>7. Days \in SUBSET Int
  OBVIOUS
<1> HIDE DEF Days
<1>8. PICK first \in Int : first = OnDay(timing, f)
  BY OnDayIs
<1>9. PICK S \in Nat : S = N * DayLength /\ S > 0
  BY <1>1, Lengths
<1>10. PICK next : next = every_n_days_next_run(timing, last, after)
  OBVIOUS
<1>11. next = IF after < first THEN first ELSE first + S * ((after - first) \div S + 1)
  BY <1>1, <1>2, <1>3, <1>8, <1>9, <1>10 DEF every_n_days_next_run
<1>12. ASSUME NEW k \in Int, NEW e, e = f + N * k
       PROVE  e \in Int /\ OnDay(timing, e) = first + S * k
  <2>1. e \in Int /\ OnDay(timing, e) = OnDay(timing, f) + N * DayLength * k
    BY <1>1, <1>12, StepsApart
  <2> QED
    BY <1>8, <1>9, <2>1
<1>13. CASE after < first
  <2>1. f \in Days
    <3>1. f = f + N * 0
      BY <1>1
    <3> QED
      BY <1>6, <3>1
  <2>2. \A e \in Days : ~(e < f)
    <3>1. ASSUME NEW e \in Days, e < f PROVE FALSE
      <4>1. PICK j \in Nat : e = f + N * j
        BY <1>6, <1>7, <3>1
      <4>2. N * j >= 0 /\ N * j \in Int
        BY <1>1
      <4> QED
        BY <3>1, <4>1, <4>2
    <3> QED
      BY <3>1
  <2>3. IsNextRun(timing, last, after, OnDay(timing, f))
    BY <1>5, <1>7, <1>8, <1>13, <2>1, <2>2, FirstDayAhead
  <2> QED
    BY <1>8, <1>10, <1>11, <1>13, <2>3
<1>14. CASE ~(after < first)
  <2>1. PICK x \in Nat : x = after - first
    BY <1>14
  <2>2. PICK k : k = x \div S + 1
    OBVIOUS
  <2>3. k \in Int /\ x < S * k /\ S * (k - 1) <= x /\ k >= 1
    BY <1>9, <2>2, NextStep
  <2>4. next = first + S * k
    BY <1>11, <1>14, <2>1, <2>2
  <2>5. PICK n \in Int : n = f + N * k
    BY <1>12, <2>3
  <2>6. n \in Days
    BY <1>6, <2>3, <2>5
  <2>7. OnDay(timing, n) = first + S * k
    BY <1>12, <2>3, <2>5
  <2>8. OnDay(timing, n) > after
    <3>1. PICK y \in Int : y = S * k
      BY <2>3
    <3> QED
      BY <2>1, <2>3, <2>7, <3>1
  <2>9. ASSUME NEW e \in Days, e < n PROVE OnDay(timing, e) <= after
    <3>1. PICK j \in Nat : e = f + N * j
      BY <1>6, <1>7, <2>9
    <3>2. N * j < N * k
      <4>1. N * j \in Int /\ N * k \in Int
        BY <2>3
      <4> QED
        BY <2>5, <2>9, <3>1, <4>1
    <3>3. j < k
      BY <1>1, <2>3, <3>2, InOrder
    <3>4. j = k - 1 \/ j < k - 1
      BY <2>3, <3>3
    <3>5. PICK l \in Int : l = k - 1
      BY <2>3
    <3>6. S * j <= S * l
      BY <1>9, <3>4, <3>5, InOrder
    <3>7. S * l <= x /\ S * l \in Int /\ S * j \in Int
      BY <2>3, <3>5
    <3>8. OnDay(timing, e) = first + S * j
      BY <1>12, <3>1
    <3> QED
      BY <2>1, <3>6, <3>7, <3>8
  <2>10. IsNextRun(timing, last, after, OnDay(timing, n))
    BY <1>5, <1>7, <2>6, <2>8, <2>9, FirstDayAhead
  <2> QED
    BY <1>10, <2>4, <2>7, <2>10
<1> QED
  BY <1>13, <1>14

(***************************************************************************)
(* Whatever the frequency, what is computed is the next run.               *)
(***************************************************************************)
LEMMA NextRunIsRight ==
    ASSUME NEW timing, Plain(timing), ValidTiming(timing),
           NEW last \in Int, NEW after \in Nat,
           NEW h \in DOMAIN MonthLengths, Day(after) < FirstDay[h]
    PROVE  IsNextRun(timing, last, after, calculate_next_run(timing, last, after))
<1>1. after \in Int /\ timing.frequency \in Frequencies
  BY DEF Plain
<1>2. CASE timing.frequency = "daily"
  BY <1>1, <1>2, DailyRuns DEF calculate_next_run
<1>3. CASE timing.frequency = "weekly"
  BY <1>1, <1>3, WeeklyRuns DEF calculate_next_run
<1>4. CASE timing.frequency = "monthly"
  BY <1>4, MonthlyRuns DEF calculate_next_run
<1>5. CASE timing.frequency = "every_n_days"
  BY <1>1, <1>5, EveryNDaysRuns DEF calculate_next_run
<1> QED
  BY <1>1, <1>2, <1>3, <1>4, <1>5 DEF Frequencies

TimingsAreValid ==
    /\ ValidTiming(schedule.timing)
    /\ \A e \in Editors : editor[e].step # "idle" => ValidTiming(editor[e].row.timing)

TimesAreInOrder ==
    /\ computed.at \in 0..now /\ schedule.last <= computed.at
    /\ \A e \in Editors : editor[e].step # "idle" => editor[e].row.last <= computed.at
    /\ \A p \in Periodic : task[p].at <= now

InTransaction(p) == task[p].step \in {"created", "queued"}

OneTransaction ==
    /\ \A p \in Periodic, o \in Periodic : InTransaction(p) /\ InTransaction(o) => p = o
    /\ \A p \in Periodic : InTransaction(p) => task[p].made \in ReportIds
    /\ Locked => schedule.next <= now

EditIsCurrent(e) ==
    editor[e].step = "save" /\ editor[e].row.last = schedule.last
        => editor[e].row.next = schedule.next

Undisturbed ==
    /\ ~rerun
    /\ schedule.next > computed.at
    /\ \A x \in ran : x <= computed.at \/ (Locked /\ x = schedule.next)
    /\ \A e \in Editors, o \in Editors :
           editor[e].step # "idle" /\ editor[o].step # "idle" => e = o
    /\ \A e \in Editors : EditIsCurrent(e)
    /\ (\A e \in Editors : editor[e].step # "next")
           => IsNextRun(schedule.timing, computed.last, computed.at, schedule.next)

ReportInv ==
    /\ ReportTypeOK /\ TimingsAreValid /\ TimesAreInOrder /\ OneTransaction
    /\ (~disrupted => Undisturbed)

(***************************************************************************)
(* The clock stays below the horizon of the months, and the next run of a  *)
(* timing that was validated is right.                                     *)
(***************************************************************************)
LEMMA DaysInOrder ==
    ASSUME NEW s \in Int, NEW t \in Int, s <= t
    PROVE  Day(s) \in Int /\ Day(t) \in Int /\ Day(s) <= Day(t)
<1>1. /\ Day(s) \in Int /\ Day(t) \in Int
      /\ Midnight(Day(s)) \in Int /\ Midnight(Day(t)) \in Int
      /\ Midnight(Day(s)) <= s /\ t < Midnight(Day(t)) + DayLength
  BY DayHolds
<1>2. ~(Day(t) < Day(s))
  <2>1. ASSUME Day(t) < Day(s) PROVE FALSE
    <3>1. Midnight(Day(t)) + DayLength <= Midnight(Day(s))
      BY <1>1, <2>1, DaysFollow
    <3> QED
      BY <1>1, <3>1, Lengths
  <2> QED
    BY <2>1
<1> QED
  BY <1>1, <1>2

LEMMA NextRun ==
    ASSUME NEW timing \in Timings, ValidTiming(timing), NEW last \in Int,
           NEW t \in 0..LastInstant
    PROVE  /\ calculate_next_run(timing, last, t) \in Int
           /\ calculate_next_run(timing, last, t) > t
           /\ IsNextRun(timing, last, t, calculate_next_run(timing, last, t))
<1>1. PICK h \in DOMAIN MonthLengths : Day(LastInstant) < FirstDay[h]
  BY ReportAssumption
<1>2. LastInstant \in Nat
  BY PeriodAssumption
<1>3. t \in Nat /\ t <= LastInstant
  BY <1>2
<1>4. Day(t) < FirstDay[h]
  <2>1. Day(t) \in Int /\ Day(LastInstant) \in Int /\ Day(t) <= Day(LastInstant)
    BY <1>2, <1>3, DaysInOrder
  <2>2. FirstDay[h] \in Int
    BY MonthStarts
  <2> QED
    BY <1>1, <2>1, <2>2
<1>5. Plain(timing)
  BY ReportAssumption DEF Plain
<1>6. IsNextRun(timing, last, t, calculate_next_run(timing, last, t))
  BY <1>3, <1>4, <1>5, NextRunIsRight
<1> QED
  BY <1>6 DEF IsNextRun

(***************************************************************************)
(* Types.                                                                  *)
(***************************************************************************)
LEMMA SomeOfEach ==
    ASSUME Timings # {}
    PROVE  /\ NoEdit \in Editor /\ NotRunning \in Task /\ NoReport \in ReportRow
           /\ NotRunning.step = "idle" /\ NotRunning.at = 0 /\ NoEdit.step = "idle"
BY ReportAssumption DEF NoEdit, Editor, Schedule, NotRunning, Task, NoReport, ReportRow, States,
                        AllTime, NotYet

LEMMA ReportInitHolds == ReportInit => ReportInv
<1> SUFFICES ASSUME ReportInit PROVE ReportInv
  OBVIOUS
<1>1. PICK t \in Timings : /\ ValidTiming(t)
                           /\ schedule = [timing |-> t, active |-> TRUE, last |-> NotYet,
                                          next |-> calculate_next_run(t, NotYet, 0)]
  BY DEF ReportInit
<1>2. NotYet \in Int /\ NotYet <= 0 /\ 0 \in 0..LastInstant
  BY PeriodAssumption DEF NotYet
<1>3. PICK n \in Int : n = calculate_next_run(t, NotYet, 0) /\ n > 0 /\ IsNextRun(t, NotYet, 0, n)
  BY <1>1, <1>2, NextRun
<1>4. schedule = [timing |-> t, active |-> TRUE, last |-> NotYet, next |-> n]
  BY <1>1, <1>3
<1>5. /\ schedule.timing = t /\ schedule.last = NotYet /\ schedule.next = n
      /\ computed.at = 0 /\ computed.last = NotYet /\ now = 0
      /\ computed \in [last : Int, at : Int]
  BY <1>2, <1>4 DEF ReportInit
<1>6. schedule \in Schedule
  BY <1>2, <1>4 DEF Schedule
<1>7. /\ \A p \in Periodic : task[p].step = "idle" /\ task[p].at = 0
      /\ \A e \in Editors : editor[e].step = "idle"
      /\ task \in [Periodic -> Task] /\ editor \in [Editors -> Editor]
      /\ report \in [ReportIds -> ReportRow]
  BY SomeOfEach DEF ReportInit
<1>8. ~Locked /\ \A p \in Periodic : ~InTransaction(p)
  BY <1>7 DEF Locked, InTransaction
<1>9. ran = {} /\ rerun = FALSE /\ disrupted = FALSE /\ queue = {} /\ revisions = 0
  BY DEF ReportInit
<1>10. ReportTypeOK
  <2>1. now \in 0..LastInstant /\ revisions \in 0..MaxRevisions
    BY <1>5, <1>9, PeriodAssumption, ReportAssumption
  <2>2. rerun \in BOOLEAN /\ disrupted \in BOOLEAN /\ ran \subseteq Int /\ queue \subseteq ReportIds
    BY <1>9
  <2> QED
    BY <1>5, <1>6, <1>7, <2>1, <2>2 DEF ReportTypeOK
<1>11. TimingsAreValid
  BY <1>1, <1>5, <1>7 DEF TimingsAreValid
<1>12. TimesAreInOrder
  BY <1>2, <1>5, <1>7 DEF TimesAreInOrder
<1>13. OneTransaction
  BY <1>8 DEF OneTransaction
<1>14. Undisturbed
  BY <1>3, <1>5, <1>7, <1>9 DEF Undisturbed, EditIsCurrent
<1> QED
  BY <1>10, <1>11, <1>12, <1>13, <1>14 DEF ReportInv

(***************************************************************************)
(* Steps of the workers and of requests for a report: the schedule, its    *)
(* runs and its changes stay as they are.                                  *)
(***************************************************************************)
LEMMA ReportRowsStay ==
    ASSUME ReportInv, now' \in 0..LastInstant, now <= now',
           schedule' = schedule, task' = task, editor' = editor, revisions' = revisions,
           computed' = computed, ran' = ran, rerun' = rerun, disrupted' = disrupted,
           report' \in [ReportIds -> ReportRow], queue' \subseteq ReportIds
    PROVE  ReportInv'
<1>1. ReportTypeOK'
  BY DEF ReportInv, ReportTypeOK
<1>2. TimingsAreValid'
  BY DEF ReportInv, TimingsAreValid
<1>3. now \in Int /\ now' \in Int /\ schedule.next \in Int /\ \A p \in Periodic : task[p].at \in Int
      /\ computed.at \in Int
  BY ReportAssumption DEF ReportInv, ReportTypeOK, Schedule, Task
<1>4. TimesAreInOrder'
  BY <1>3 DEF ReportInv, TimesAreInOrder
<1>5. OneTransaction'
  BY <1>3 DEF ReportInv, OneTransaction, Locked, InTransaction
<1>6. Undisturbed' = Undisturbed
  BY DEF Undisturbed, EditIsCurrent, Locked, IsNextRun
<1> QED
  BY <1>1, <1>2, <1>4, <1>5, <1>6 DEF ReportInv

LEMMA ElapseHolds == ReportInv /\ Elapse => ReportInv'
<1> SUFFICES ASSUME ReportInv, Elapse PROVE ReportInv'
  OBVIOUS
<1>1. LastInstant \in Nat
  BY PeriodAssumption
<1>2. now' \in 0..LastInstant /\ now <= now'
  BY <1>1 DEF Elapse, ReportInv, ReportTypeOK
<1>3. report' \in [ReportIds -> ReportRow] /\ queue' \subseteq ReportIds
  BY DEF Elapse, ReportInv, ReportTypeOK
<1> QED
  BY <1>2, <1>3, ReportRowsStay DEF Elapse

LEMMA RangeType ==
    ASSUME NEW period, NEW t \in Int
    PROVE  get_date_range(period, NoDates, t) \in [bounded : BOOLEAN, from : Int, to : Int]
<1>1. Midnight(Day(t)) \in Int
  BY DayHolds
<1>2. period \in DOMAIN PeriodDays => PeriodDays[period] * DayLength \in Int
  BY PeriodAssumption
<1> QED
  BY <1>1, <1>2 DEF get_date_range, NoDates, Between, AllTime

LEMMA RowsSet ==
    ASSUME NEW row \in ReportRow
    PROVE  /\ \A s \in States : [row EXCEPT !.state = s] \in ReportRow
           /\ \A s \in States, b \in BOOLEAN : [row EXCEPT !.state = s, !.lost = b] \in ReportRow
           /\ \A b \in BOOLEAN : [row EXCEPT !.lost = b] \in ReportRow
           /\ \A s \in States, p \in Requested :
                  [row EXCEPT !.state = s, !.period = p] \in ReportRow
           /\ \A s \in States, p \in Requested, b \in BOOLEAN :
                  [row EXCEPT !.state = s, !.period = p, !.lost = b] \in ReportRow
           /\ \A s \in States, c \in [bounded : BOOLEAN, from : Int, to : Int] :
                  [row EXCEPT !.state = s, !.covers = c] \in ReportRow
BY DEF ReportRow

LEMMA RangeMoves ==
    ASSUME NEW range \in [bounded : BOOLEAN, from : Int, to : Int], NEW today \in Int
    PROVE  [range EXCEPT !.from = range.from - today, !.to = range.to - today]
               \in [bounded : BOOLEAN, from : Int, to : Int]
<1>1. PICK a \in Int, b \in Int : a = range.from - today /\ b = range.to - today
  <2>1. range.from \in Int /\ range.to \in Int
    OBVIOUS
  <2> QED BY <2>1
<1>2. [range EXCEPT !.from = a, !.to = b] \in [bounded : BOOLEAN, from : Int, to : Int]
  OBVIOUS
<1> QED BY <1>1, <1>2

LEMMA WorkersHold ==
    ASSUME ReportInv, NEW r \in ReportIds,
           \/ StartReport(r) \/ FinishReport(r) \/ LoseReport(r)
           \/ \E period \in Requested : GenerateNow(r, period)
    PROVE  ReportInv'
<1>1. now' = now /\ UNCHANGED <<schedule, task, editor, revisions, computed, ran, rerun, disrupted>>
  BY DEF StartReport, FinishReport, LoseReport, GenerateNow
<1>2. now \in 0..LastInstant /\ now \in Int /\ now <= now
  BY ReportAssumption DEF ReportInv, ReportTypeOK
<1>3. report \in [ReportIds -> ReportRow] /\ queue \subseteq ReportIds
  BY DEF ReportInv, ReportTypeOK
<1>4. queue' \subseteq ReportIds
  BY <1>3 DEF StartReport, FinishReport, LoseReport, GenerateNow
<1>5. report' \in [ReportIds -> ReportRow]
  <2> DEFINE row == report[r]
  <2>0. row \in ReportRow
    BY <1>3
  <2>1. CASE StartReport(r)
    <3>1. PICK s \in States, b \in BOOLEAN :
              /\ s = IF row.state = "pending" THEN "processing" ELSE row.state
              /\ b = (row.lost \/ row.state = "uncommitted")
      BY <2>0 DEF ReportRow, States
    <3>2. report' = [report EXCEPT ![r] = [row EXCEPT !.state = s, !.lost = b]]
      BY <2>1, <3>1 DEF StartReport
    <3>3. [row EXCEPT !.state = s, !.lost = b] \in ReportRow
      BY <2>0, RowsSet
    <3> QED
      BY <1>3, <3>2, <3>3
  <2>2. CASE FinishReport(r)
    <3>1. PICK range \in [bounded : BOOLEAN, from : Int, to : Int] :
              range = get_date_range(row.period, NoDates, now)
      BY <1>2, RangeType
    <3>2. PICK today \in Int : today = IF range.bounded THEN Midnight(Day(now)) ELSE 0
      <4>1. Midnight(Day(now)) \in Int
        BY <1>2, DayHolds
      <4> QED
        BY <4>1
    <3>3. PICK c \in [bounded : BOOLEAN, from : Int, to : Int] :
              c = [range EXCEPT !.from = range.from - today, !.to = range.to - today]
      BY RangeMoves
    <3>4. \/ report' = [report EXCEPT ![r] = [row EXCEPT !.state = "success", !.covers = c]]
          \/ report' = [report EXCEPT ![r] = [row EXCEPT !.state = "failed"]]
      <4>1. \/ report' = [report EXCEPT
                             ![r].state = "success",
                             ![r].covers = [range EXCEPT !.from = range.from - today,
                                                         !.to = range.to - today]]
            \/ report' = [report EXCEPT ![r].state = "failed"]
        BY <2>2, <3>1, <3>2 DEF FinishReport
      <4>2. \/ report' = [report EXCEPT ![r].state = "success", ![r].covers = c]
            \/ report' = [report EXCEPT ![r].state = "failed"]
        BY <3>3, <4>1
      <4> QED
        BY <4>2
    <3>5. {"success", "failed"} \subseteq States
      BY DEF States
    <3>6. /\ [row EXCEPT !.state = "success", !.covers = c] \in ReportRow
          /\ [row EXCEPT !.state = "failed"] \in ReportRow
      BY <2>0, <3>5, RowsSet
    <3> QED
      BY <1>3, <3>4, <3>6
  <2>3. CASE LoseReport(r)
    <3>1. report' = [report EXCEPT ![r] = [row EXCEPT !.lost = TRUE]]
      BY <2>3 DEF LoseReport
    <3>2. [row EXCEPT !.lost = TRUE] \in ReportRow
      BY <2>0, RowsSet
    <3> QED
      BY <1>3, <3>1, <3>2
  <2>4. ASSUME NEW period \in Requested, GenerateNow(r, period)
        PROVE  report' \in [ReportIds -> ReportRow]
    <3>1. \/ report' = [report EXCEPT ![r] = [row EXCEPT !.state = "pending", !.period = period]]
          \/ report' = [report EXCEPT ![r] = [row EXCEPT !.state = "pending", !.period = period,
                                                         !.lost = TRUE]]
      BY <2>4 DEF GenerateNow
    <3>2. "pending" \in States
      BY DEF States
    <3>3. /\ [row EXCEPT !.state = "pending", !.period = period] \in ReportRow
          /\ [row EXCEPT !.state = "pending", !.period = period, !.lost = TRUE] \in ReportRow
      BY <2>0, <3>2, RowsSet
    <3> QED
      BY <1>3, <3>1, <3>3
  <2> QED
    BY <2>1, <2>2, <2>3, <2>4
<1> QED
  BY <1>1, <1>2, <1>4, <1>5, ReportRowsStay

(***************************************************************************)
(* Steps of a run of the periodic task.                                    *)
(***************************************************************************)
LEMMA TaskTypes ==
    ASSUME ReportInv
    PROVE  /\ now \in Int /\ computed.at \in Int /\ computed.last \in Int
           /\ schedule \in Schedule /\ schedule.next \in Int /\ schedule.last \in Int
           /\ task \in [Periodic -> Task]
           /\ \A p \in Periodic : /\ task[p] \in Task /\ task[p].at \in Int
                                  /\ task[p].step \in {"idle", "listed", "created", "queued"}
           /\ editor \in [Editors -> Editor]
           /\ \A e \in Editors : editor[e].row \in Schedule /\ editor[e].row.last \in Int
           /\ ran \subseteq Int
BY ReportAssumption DEF ReportInv, ReportTypeOK, Schedule, Task, Editor

\* What is due stays so, and no transaction begins or ends.
LEMMA TaskMoves ==
    ASSUME ReportInv, NEW p \in Periodic, NEW row \in Task, row.at <= now,
           row.step \in {"created", "queued"} <=> InTransaction(p),
           InTransaction(p) => row.made = task[p].made,
           task' = [task EXCEPT ![p] = row],
           UNCHANGED <<now, schedule, editor, revisions, report, computed, ran, rerun, disrupted>>,
           queue' \subseteq ReportIds
    PROVE  ReportInv'
<1>1. ReportTypeOK'
  BY DEF ReportInv, ReportTypeOK
<1>2. TimingsAreValid'
  BY DEF ReportInv, TimingsAreValid
<1>3. /\ task'[p] = row
      /\ \A o \in Periodic : o # p => task'[o] = task[o]
  BY TaskTypes
<1>4. \A o \in Periodic : InTransaction(o)' <=> InTransaction(o)
  BY <1>3 DEF InTransaction
<1>5. Locked' <=> Locked
  BY <1>4 DEF Locked, InTransaction
<1>6. TimesAreInOrder'
  BY <1>3 DEF ReportInv, TimesAreInOrder
<1>7. \A o \in Periodic : InTransaction(o) => task'[o].made = task[o].made
  BY <1>3
<1>8. OneTransaction'
  BY <1>4, <1>5, <1>7 DEF ReportInv, OneTransaction
<1>9. Undisturbed' <=> Undisturbed
  BY <1>5 DEF Undisturbed, EditIsCurrent, IsNextRun
<1> QED
  BY <1>1, <1>2, <1>6, <1>8, <1>9 DEF ReportInv

LEMMA ListDueHolds ==
    ASSUME ReportInv, NEW p \in Periodic, ListDue(p)
    PROVE  ReportInv'
<1> DEFINE row == [step |-> "listed", at |-> now, made |-> 0]
<1>1. row \in Task /\ row.at <= now /\ row.step = "listed" /\ row.at = now
  BY TaskTypes, ReportAssumption DEF Task
<1>2. task' = [task EXCEPT ![p] = row] /\ ~InTransaction(p)
  BY DEF ListDue, InTransaction
<1>3. queue' \subseteq ReportIds
  BY DEF ListDue, ReportInv, ReportTypeOK
<1>4. UNCHANGED <<now, schedule, editor, revisions, report, computed, ran, rerun, disrupted>>
  BY DEF ListDue
<1> HIDE DEF row
<1> QED
  BY <1>1, <1>2, <1>3, <1>4, TaskMoves

LEMMA EnqueueHolds ==
    ASSUME ReportInv, NEW p \in Periodic, Enqueue(p)
    PROVE  ReportInv'
<1>1. PICK row : row = [task[p] EXCEPT !.step = "queued"]
  OBVIOUS
<1>2. task[p] \in Task /\ task[p].step = "created"
  BY TaskTypes DEF Enqueue
<1>3. row \in Task /\ row.step = "queued" /\ row.at = task[p].at /\ row.made = task[p].made
  BY <1>1, <1>2 DEF Task
<1>4. task' = [task EXCEPT ![p] = row] /\ InTransaction(p)
  BY <1>1, <1>2 DEF Enqueue, InTransaction
<1>5. row.at <= now
  BY <1>3 DEF ReportInv, TimesAreInOrder
<1>6. queue' \subseteq ReportIds
  BY <1>4 DEF Enqueue, ReportInv, ReportTypeOK, OneTransaction
<1>7. UNCHANGED <<now, schedule, editor, revisions, report, computed, ran, rerun, disrupted>>
  BY DEF Enqueue
<1> QED
  BY <1>3, <1>4, <1>5, <1>6, <1>7, TaskMoves

LEMMA TakeScheduleHolds ==
    ASSUME ReportInv, NEW p \in Periodic, TakeSchedule(p)
    PROVE  ReportInv'
<1>0. task[p] \in Task /\ task[p].step = "listed" /\ task[p].at \in Int
      /\ task[p].at <= now /\ now \in Int /\ computed.at >= 0 /\ computed.at <= now
      /\ computed.at \in Int /\ schedule.next \in Int /\ ran \subseteq Int
  BY TaskTypes DEF TakeSchedule, ReportInv, TimesAreInOrder
<1>1. ~Locked /\ \A o \in Periodic : ~InTransaction(o)
  BY DEF TakeSchedule, Locked, InTransaction
<1>2. UNCHANGED <<now, schedule, editor, revisions, queue, computed, disrupted>>
  BY DEF TakeSchedule
<1>3. CASE Due(task[p].at)
  <2>1. PICK r \in ReportIds, period \in Requested :
            /\ report' = [report EXCEPT ![r].state = "uncommitted", ![r].period = period]
            /\ task' = [task EXCEPT ![p].step = "created", ![p].made = r]
    BY <1>3 DEF TakeSchedule
  <2>2. rerun' = (rerun \/ schedule.next \in ran) /\ ran' = ran \cup {schedule.next}
    BY <1>3 DEF TakeSchedule
  <2>3. PICK row : row = [task[p] EXCEPT !.step = "created", !.made = r]
    OBVIOUS
  <2>4. row \in Task /\ row.step = "created" /\ row.at = task[p].at /\ row.made = r
    <3>1. r \in 0..MaxReports
      BY ReportAssumption DEF ReportIds
    <3> QED
      BY <1>0, <2>3, <3>1 DEF Task
  <2>5. /\ task' \in [Periodic -> Task] /\ task'[p] = row
        /\ \A o \in Periodic : o # p => task'[o] = task[o]
    BY <2>1, <2>3, <2>4, TaskTypes
  <2>6. report' \in [ReportIds -> ReportRow]
    <3>1. report \in [ReportIds -> ReportRow] /\ "uncommitted" \in States
      BY DEF ReportInv, ReportTypeOK, States
    <3>2. [report[r] EXCEPT !.state = "uncommitted", !.period = period] \in ReportRow
      BY <3>1, RowsSet
    <3>3. report' = [report EXCEPT ![r] = [report[r] EXCEPT !.state = "uncommitted",
                                                            !.period = period]]
      BY <2>1
    <3> QED
      BY <3>1, <3>2, <3>3
  <2>7. ReportTypeOK'
    BY <1>0, <1>2, <2>2, <2>5, <2>6 DEF ReportInv, ReportTypeOK
  <2>8. TimingsAreValid'
    BY <1>2 DEF ReportInv, TimingsAreValid
  <2>9. \A o \in Periodic : InTransaction(o)' <=> o = p
    BY <1>1, <2>4, <2>5 DEF InTransaction
  <2>10. Locked'
    BY <2>4, <2>5 DEF Locked
  <2>11. TimesAreInOrder'
    BY <1>0, <1>2, <2>4, <2>5 DEF ReportInv, TimesAreInOrder
  <2>12. schedule.next <= now
    BY <1>0, <1>3 DEF Due
  <2>13. OneTransaction'
    BY <1>2, <2>4, <2>5, <2>9, <2>12 DEF OneTransaction
  <2>14. ASSUME ~disrupted' PROVE Undisturbed'
    <3>1. Undisturbed
      BY <1>2, <2>14 DEF ReportInv
    <3>2. \A x \in ran : x <= computed.at
      BY <1>1, <3>1 DEF Undisturbed
    <3>3. schedule.next > computed.at
      BY <3>1 DEF Undisturbed
    <3>4. schedule.next \notin ran
      BY <1>0, <3>2, <3>3
    <3>5. ~rerun'
      BY <2>2, <3>1, <3>4 DEF Undisturbed
    <3>6. \A x \in ran' : x <= computed.at \/ x = schedule.next
      BY <2>2, <3>2
    <3> QED
      BY <1>2, <2>10, <3>1, <3>5, <3>6 DEF Undisturbed, EditIsCurrent, IsNextRun
  <2> QED
    BY <2>7, <2>8, <2>11, <2>13, <2>14 DEF ReportInv
<1>4. CASE ~Due(task[p].at)
  <2>1. task' = [task EXCEPT ![p] = NotRunning] /\ UNCHANGED <<report, rerun, ran>>
    BY <1>4 DEF TakeSchedule
  <2>2. NotRunning \in Task /\ NotRunning.step = "idle" /\ NotRunning.at <= now
    BY <1>0, ReportAssumption DEF NotRunning, Task
  <2>3. ~InTransaction(p) /\ queue' \subseteq ReportIds
    BY <1>1, <1>2 DEF ReportInv, ReportTypeOK
  <2> QED
    BY <1>2, <2>1, <2>2, <2>3, TaskMoves
<1> QED
  BY <1>3, <1>4

\* The end of a transaction leaves no other.
LEMMA TransactionEnds ==
    ASSUME ReportInv, NEW p \in Periodic, InTransaction(p),
           task' = [task EXCEPT ![p] = NotRunning]
    PROVE  /\ task' \in [Periodic -> Task]
           /\ \A o \in Periodic : ~InTransaction(o)'
           /\ ~Locked'
           /\ \A o \in Periodic : task'[o].at = task[o].at \/ task'[o].at = 0
<1>1. NotRunning \in Task /\ NotRunning.step = "idle" /\ NotRunning.at = 0
  BY ReportAssumption DEF NotRunning, Task
<1>2. /\ task' \in [Periodic -> Task] /\ task'[p] = NotRunning
      /\ \A o \in Periodic : o # p => task'[o] = task[o]
  BY <1>1, TaskTypes
<1>3. \A o \in Periodic : InTransaction(o) => o = p
  BY DEF ReportInv, OneTransaction
<1>4. \A o \in Periodic : ~InTransaction(o)'
  BY <1>1, <1>2, <1>3 DEF InTransaction
<1>5. ~Locked'
  BY <1>4 DEF Locked, InTransaction
<1>6. \A o \in Periodic : task'[o].at = task[o].at \/ task'[o].at = 0
  BY <1>1, <1>2
<1> QED
  BY <1>2, <1>4, <1>5, <1>6

LEMMA ReportState ==
    ASSUME ReportInv, NEW r \in ReportIds, NEW s \in States,
           report' = [report EXCEPT ![r].state = s]
    PROVE  report' \in [ReportIds -> ReportRow]
<1>1. report \in [ReportIds -> ReportRow]
  BY DEF ReportInv, ReportTypeOK
<1>2. [report[r] EXCEPT !.state = s] \in ReportRow
  BY <1>1, RowsSet
<1>3. report' = [report EXCEPT ![r] = [report[r] EXCEPT !.state = s]]
  OBVIOUS
<1> QED
  BY <1>1, <1>2, <1>3

LEMMA CommitRunHolds ==
    ASSUME ReportInv, NEW p \in Periodic, CommitRun(p)
    PROVE  ReportInv'
<1>0. /\ now \in Int /\ computed.at \in Int /\ 0 <= computed.at /\ computed.at <= now
      /\ schedule.next \in Int /\ schedule.last \in Int /\ schedule \in Schedule
      /\ schedule.timing \in Timings /\ schedule.last <= computed.at /\ now \in 0..LastInstant
      /\ ran \subseteq Int /\ computed \in [last : Int, at : Int]
  BY TaskTypes DEF ReportInv, ReportTypeOK, TimesAreInOrder, Schedule
<1>1. InTransaction(p) /\ task[p].made \in ReportIds /\ schedule.next <= now
  BY DEF CommitRun, InTransaction, ReportInv, OneTransaction, Locked
<1>2. UNCHANGED <<now, editor, revisions, queue, ran, rerun, disrupted>>
  BY DEF CommitRun
<1>3. PICK n : n = calculate_next_run(schedule.timing, now, now)
  OBVIOUS
<1>4. n \in Int /\ n > now /\ IsNextRun(schedule.timing, now, now, n)
  <2>1. ValidTiming(schedule.timing)
    BY DEF ReportInv, TimingsAreValid
  <2> QED
    BY <1>0, <1>3, <2>1, NextRun
<1>5. schedule' = [schedule EXCEPT !.last = now, !.next = n]
  BY <1>3 DEF CommitRun
<1>6. /\ schedule' \in Schedule /\ schedule'.timing = schedule.timing
      /\ schedule'.last = now /\ schedule'.next = n
  BY <1>0, <1>4, <1>5 DEF Schedule
<1>7. computed' = [computed EXCEPT !.last = now, !.at = now]
  BY DEF CommitRun
<1>8. computed' \in [last : Int, at : Int] /\ computed'.last = now /\ computed'.at = now
  BY <1>0, <1>7
<1>9. task' = [task EXCEPT ![p] = NotRunning]
  BY DEF CommitRun
<1>10. /\ task' \in [Periodic -> Task] /\ \A o \in Periodic : ~InTransaction(o)'
       /\ ~Locked' /\ \A o \in Periodic : task'[o].at = task[o].at \/ task'[o].at = 0
  BY <1>1, <1>9, TransactionEnds
<1>11. report' \in [ReportIds -> ReportRow]
  <2>1. "pending" \in States
    BY DEF States
  <2>2. report' = [report EXCEPT ![task[p].made].state = "pending"]
    BY DEF CommitRun
  <2> QED
    BY <1>1, <2>1, <2>2, ReportState
<1>12. ReportTypeOK'
  BY <1>2, <1>6, <1>8, <1>10, <1>11 DEF ReportInv, ReportTypeOK
<1>13. TimingsAreValid'
  BY <1>2, <1>6 DEF ReportInv, TimingsAreValid
<1>14. TimesAreInOrder'
  <2>1. \A e \in Editors : editor[e].step # "idle" => editor[e].row.last <= now
    BY <1>0, TaskTypes DEF ReportInv, TimesAreInOrder
  <2>2. \A o \in Periodic : task'[o].at <= now
    BY <1>0, <1>10 DEF ReportInv, TimesAreInOrder
  <2>3. computed'.at \in 0..now /\ schedule'.last <= computed'.at
    BY <1>0, <1>6, <1>8
  <2> QED
    BY <1>2, <1>8, <2>1, <2>2, <2>3 DEF TimesAreInOrder
<1>15. OneTransaction'
  BY <1>10 DEF OneTransaction
<1>16. ASSUME ~disrupted' PROVE Undisturbed'
  <2>1. Undisturbed
    BY <1>2, <1>16 DEF ReportInv
  <2>2. ASSUME NEW x \in ran PROVE x <= now
    <3>1. x \in Int /\ (x <= computed.at \/ x = schedule.next)
      BY <1>0, <2>1 DEF Undisturbed
    <3> QED
      BY <1>0, <1>1, <3>1
  \* A change under way saw an earlier run.
  <2>3. ASSUME NEW e \in Editors, editor[e].step = "save" PROVE editor[e].row.last # now
    <3>1. editor[e].row.last <= computed.at /\ editor[e].row.last \in Int
      BY <2>3, TaskTypes DEF ReportInv, TimesAreInOrder
    <3>2. computed.at < now
      BY <1>0, <1>1, <2>1 DEF Undisturbed
    <3> QED
      BY <1>0, <3>1, <3>2
  <2>4. \A e \in Editors : EditIsCurrent(e)'
    BY <1>2, <1>6, <2>3 DEF EditIsCurrent
  <2> QED
    BY <1>2, <1>4, <1>6, <1>8, <2>1, <2>2, <2>4 DEF Undisturbed
<1> QED
  BY <1>12, <1>13, <1>14, <1>15, <1>16 DEF ReportInv

LEMMA RollBackHolds ==
    ASSUME ReportInv, NEW p \in Periodic, RollBack(p)
    PROVE  ReportInv'
<1>0. now \in Int /\ 0 <= now
  BY TaskTypes DEF ReportInv, TimesAreInOrder
<1>1. InTransaction(p) /\ task[p].made \in ReportIds
  BY DEF RollBack, InTransaction, ReportInv, OneTransaction
<1>2. UNCHANGED <<now, schedule, editor, revisions, queue, computed, rerun, disrupted>>
  BY DEF RollBack
<1>3. task' = [task EXCEPT ![p] = NotRunning] /\ ran' = ran \ {schedule.next}
  BY DEF RollBack
<1>4. /\ task' \in [Periodic -> Task] /\ \A o \in Periodic : ~InTransaction(o)'
      /\ ~Locked' /\ \A o \in Periodic : task'[o].at = task[o].at \/ task'[o].at = 0
  BY <1>1, <1>3, TransactionEnds
<1>5. report' \in [ReportIds -> ReportRow]
  <2>1. "rolled back" \in States
    BY DEF States
  <2>2. report' = [report EXCEPT ![task[p].made].state = "rolled back"]
    BY DEF RollBack
  <2> QED
    BY <1>1, <2>1, <2>2, ReportState
<1>6. ReportTypeOK'
  BY <1>2, <1>3, <1>4, <1>5 DEF ReportInv, ReportTypeOK
<1>7. TimingsAreValid'
  BY <1>2 DEF ReportInv, TimingsAreValid
<1>8. TimesAreInOrder'
  BY <1>0, <1>2, <1>4 DEF ReportInv, TimesAreInOrder
<1>9. OneTransaction'
  BY <1>4 DEF OneTransaction
<1>10. ASSUME ~disrupted' PROVE Undisturbed'
  <2>1. Undisturbed
    BY <1>2, <1>10 DEF ReportInv
  <2>2. \A x \in ran' : x <= computed.at
    BY <1>3, <2>1 DEF Undisturbed
  <2> QED
    BY <1>2, <2>1, <2>2 DEF Undisturbed, EditIsCurrent, IsNextRun
<1> QED
  BY <1>6, <1>7, <1>8, <1>9, <1>10 DEF ReportInv

(***************************************************************************)
(* Steps of a request that changes the schedule.                           *)
(***************************************************************************)
LEMMA EditTypes ==
    ASSUME ReportInv, NEW e \in Editors, editor[e].step # "idle"
    PROVE  /\ editor[e] \in Editor /\ editor[e].row \in Schedule
           /\ editor[e].row.timing \in Timings /\ ValidTiming(editor[e].row.timing)
           /\ editor[e].row.last \in Int /\ editor[e].row.next \in Int
           /\ editor[e].row.last <= computed.at
BY DEF ReportInv, ReportTypeOK, Editor, Schedule, TimingsAreValid, TimesAreInOrder

LEMMA SomeTiming == ReportInv => Timings # {}
BY DEF ReportInv, ReportTypeOK, Schedule

LEMMA EditScheduleHolds ==
    ASSUME ReportInv, NEW e \in Editors, NEW row \in Schedule,
           row.last = schedule.last, row.next = schedule.next,
           EditSchedule(e, row)
    PROVE  ReportInv'
<1>1. UNCHANGED <<now, schedule, task, report, queue, computed, ran, rerun>>
  BY DEF EditSchedule
<1>2. PICK new : new = [step |-> "save", row |-> row]
  OBVIOUS
<1>3. new \in Editor /\ new.step = "save" /\ new.row = row
  BY <1>2 DEF Editor
<1>4. editor' = [editor EXCEPT ![e] = new] /\ editor[e].step = "idle" /\ ValidTiming(row.timing)
  BY <1>2 DEF EditSchedule
<1>5. /\ editor' \in [Editors -> Editor] /\ editor'[e] = new
      /\ \A o \in Editors : o # e => editor'[o] = editor[o]
  BY <1>3, <1>4, TaskTypes
<1>6. revisions' \in 0..MaxRevisions
  BY ReportAssumption DEF EditSchedule, ReportInv, ReportTypeOK
<1>7. disrupted' = (disrupted \/ Overlap)
  BY DEF EditSchedule
<1>8. ReportTypeOK'
  BY <1>1, <1>5, <1>6, <1>7 DEF ReportInv, ReportTypeOK
<1>9. TimingsAreValid'
  BY <1>1, <1>3, <1>4, <1>5 DEF ReportInv, TimingsAreValid
<1>10. TimesAreInOrder'
  <2>1. row.last <= computed.at
    BY DEF ReportInv, TimesAreInOrder
  <2> QED
    BY <1>1, <1>3, <1>5, <2>1 DEF ReportInv, TimesAreInOrder
<1>11. OneTransaction'
  BY <1>1 DEF ReportInv, OneTransaction, Locked, InTransaction
<1>12. ASSUME ~disrupted' PROVE Undisturbed'
  <2>1. ~disrupted /\ ~Overlap
    BY <1>7, <1>12
  <2>2. Undisturbed
    BY <2>1 DEF ReportInv
  <2>3. \A o \in Editors : editor[o].step = "idle"
    BY <2>1 DEF Overlap
  <2>4. \A o \in Editors : editor'[o].step # "idle" => o = e
    BY <1>5, <2>3
  <2>5. \A o \in Editors : EditIsCurrent(o)'
    BY <1>1, <1>3, <1>5, <2>4 DEF EditIsCurrent
  <2>6. IsNextRun(schedule.timing, computed.last, computed.at, schedule.next)
    BY <2>2, <2>3 DEF Undisturbed
  <2>7. Locked' <=> Locked
    BY <1>1 DEF Locked
  <2>8. ~rerun /\ schedule.next > computed.at
        /\ \A x \in ran : x <= computed.at \/ (Locked /\ x = schedule.next)
    BY <2>2 DEF Undisturbed
  <2> QED
    BY <1>1, <2>4, <2>5, <2>6, <2>7, <2>8 DEF Undisturbed
<1> QED
  BY <1>8, <1>9, <1>10, <1>11, <1>12 DEF ReportInv

LEMMA SaveScheduleHolds ==
    ASSUME ReportInv, NEW e \in Editors, SaveSchedule(e)
    PROVE  ReportInv'
<1>1. UNCHANGED <<now, task, revisions, report, queue, computed, ran, rerun>>
  BY DEF SaveSchedule
<1>2. /\ editor[e] \in Editor /\ editor[e].row \in Schedule
      /\ editor[e].row.timing \in Timings /\ ValidTiming(editor[e].row.timing)
      /\ editor[e].row.last \in Int /\ editor[e].row.next \in Int
      /\ editor[e].row.last <= computed.at
  BY EditTypes DEF SaveSchedule
<1>3. schedule' = editor[e].row /\ editor[e].step = "save" /\ ~Locked
  BY DEF SaveSchedule
<1>4. PICK new : new = [editor[e] EXCEPT !.step = "next"]
  OBVIOUS
<1>5. new \in Editor /\ new.step = "next" /\ new.row = editor[e].row
  BY <1>2, <1>4 DEF Editor
<1>6. editor' = [editor EXCEPT ![e] = new]
  BY <1>4 DEF SaveSchedule
<1>7. /\ editor' \in [Editors -> Editor] /\ editor'[e] = new
      /\ \A o \in Editors : o # e => editor'[o] = editor[o]
  BY <1>5, <1>6, TaskTypes
<1>8. disrupted' = (disrupted \/ editor[e].row.last # schedule.last
                              \/ \E p \in Periodic : task[p].step # "idle")
  BY DEF SaveSchedule
<1>9. ReportTypeOK'
  BY <1>1, <1>2, <1>3, <1>7, <1>8 DEF ReportInv, ReportTypeOK
<1>10. TimingsAreValid'
  BY <1>2, <1>3, <1>5, <1>7 DEF ReportInv, TimingsAreValid
<1>11. TimesAreInOrder'
  BY <1>1, <1>2, <1>3, <1>5, <1>7 DEF ReportInv, TimesAreInOrder
<1>12. ~Locked' /\ \A p \in Periodic : ~InTransaction(p)'
  BY <1>1, <1>3 DEF Locked, InTransaction
<1>13. OneTransaction'
  BY <1>12 DEF OneTransaction
<1>14. ASSUME ~disrupted' PROVE Undisturbed'
  <2>1. ~disrupted /\ (\A p \in Periodic : task[p].step = "idle") /\ editor[e].row.last = schedule.last
    BY <1>8, <1>14
  <2>2. Undisturbed
    BY <2>1 DEF ReportInv
  <2>3. schedule'.next = schedule.next
    BY <1>3, <2>1, <2>2 DEF Undisturbed, EditIsCurrent
  <2>4. \A o \in Editors : editor'[o].step # "idle" => o = e
    BY <1>3, <1>7, <2>2 DEF Undisturbed
  <2>5. \A o \in Editors : EditIsCurrent(o)'
    BY <1>5, <1>7, <2>4 DEF EditIsCurrent
  <2>6. ~(\A o \in Editors : editor'[o].step # "next")
    BY <1>5, <1>7
  <2>7. ~rerun /\ schedule.next > computed.at /\ \A x \in ran : x <= computed.at
    BY <1>3, <2>2 DEF Undisturbed
  <2> QED
    BY <1>1, <2>3, <2>4, <2>5, <2>6, <2>7 DEF Undisturbed
<1> QED
  BY <1>9, <1>10, <1>11, <1>13, <1>14 DEF ReportInv

LEMMA RecomputeNextRunHolds ==
    ASSUME ReportInv, NEW e \in Editors, RecomputeNextRun(e)
    PROVE  ReportInv'
<1>1. UNCHANGED <<now, task, revisions, report, queue, ran, rerun>>
  BY DEF RecomputeNextRun
<1>2. /\ editor[e].row.timing \in Timings /\ ValidTiming(editor[e].row.timing)
      /\ editor[e].row.last \in Int /\ editor[e].row.last <= computed.at
  BY EditTypes DEF RecomputeNextRun
<1>3. /\ now \in Int /\ computed.at \in Int /\ 0 <= computed.at /\ computed.at <= now
      /\ now \in 0..LastInstant /\ schedule \in Schedule /\ computed \in [last : Int, at : Int]
      /\ schedule.last \in Int /\ schedule.last <= computed.at /\ ran \subseteq Int
  BY TaskTypes DEF ReportInv, ReportTypeOK, TimesAreInOrder
<1>4. PICK n : n = calculate_next_run(editor[e].row.timing, editor[e].row.last, now)
  OBVIOUS
<1>5. n \in Int /\ n > now /\ IsNextRun(editor[e].row.timing, editor[e].row.last, now, n)
  BY <1>2, <1>3, <1>4, NextRun
<1>6. schedule' = [schedule EXCEPT !.next = n] /\ ~Locked
  BY <1>4 DEF RecomputeNextRun
<1>7. /\ schedule' \in Schedule /\ schedule'.timing = schedule.timing
      /\ schedule'.last = schedule.last /\ schedule'.next = n
  BY <1>3, <1>5, <1>6 DEF Schedule
<1>8. computed' = [computed EXCEPT !.last = editor[e].row.last, !.at = now]
  BY DEF RecomputeNextRun
<1>9. computed' \in [last : Int, at : Int] /\ computed'.last = editor[e].row.last
      /\ computed'.at = now
  BY <1>2, <1>3, <1>8
<1>10. editor' = [editor EXCEPT ![e] = NoEdit]
  BY DEF RecomputeNextRun
<1>11. NoEdit \in Editor /\ NoEdit.step = "idle"
  BY SomeTiming, SomeOfEach
<1>12. /\ editor' \in [Editors -> Editor] /\ editor'[e] = NoEdit
       /\ \A o \in Editors : o # e => editor'[o] = editor[o]
  BY <1>10, <1>11, TaskTypes
<1>13. disrupted' = (disrupted \/ editor[e].row.last # schedule.last
                               \/ editor[e].row.timing # schedule.timing)
  BY DEF RecomputeNextRun
<1>14. ReportTypeOK'
  BY <1>1, <1>7, <1>9, <1>12, <1>13 DEF ReportInv, ReportTypeOK
<1>15. TimingsAreValid'
  BY <1>7, <1>11, <1>12 DEF ReportInv, TimingsAreValid
<1>16. TimesAreInOrder'
  <2>1. schedule.last <= now
    BY <1>3
  <2>2. ASSUME NEW o \in Editors, editor'[o].step # "idle" PROVE editor'[o].row.last <= now
    <3>1. editor[o].step # "idle" /\ editor'[o] = editor[o]
      BY <1>11, <1>12, <2>2
    <3>2. editor[o].row.last <= computed.at /\ editor[o].row.last \in Int
      BY <3>1, EditTypes
    <3> QED
      BY <1>3, <3>1, <3>2
  <2> QED
    BY <1>1, <1>3, <1>7, <1>9, <2>1, <2>2 DEF ReportInv, TimesAreInOrder
<1>17. ~Locked' /\ \A p \in Periodic : ~InTransaction(p)'
  BY <1>1, <1>6 DEF Locked, InTransaction
<1>18. OneTransaction'
  BY <1>17 DEF OneTransaction
<1>19. ASSUME ~disrupted' PROVE Undisturbed'
  <2>1. ~disrupted /\ editor[e].row.timing = schedule.timing
    BY <1>13, <1>19
  <2>2. Undisturbed
    BY <2>1 DEF ReportInv
  <2>3. \A o \in Editors : editor[o].step # "idle" => o = e
    BY <2>2 DEF Undisturbed, RecomputeNextRun
  <2>4. \A o \in Editors : editor'[o].step = "idle"
    BY <1>11, <1>12, <2>3
  <2>5. \A o \in Editors : EditIsCurrent(o)'
    BY <2>4 DEF EditIsCurrent
  <2>6. ASSUME NEW x \in ran PROVE x <= now
    <3>1. x \in Int /\ x <= computed.at
      BY <1>3, <1>6, <2>2 DEF Undisturbed
    <3> QED
      BY <1>3, <3>1
  <2> QED
    BY <1>1, <1>5, <1>7, <1>9, <2>1, <2>2, <2>4, <2>5, <2>6 DEF Undisturbed
<1> QED
  BY <1>14, <1>15, <1>16, <1>18, <1>19 DEF ReportInv

LEMMA CutOffEditHolds ==
    ASSUME ReportInv, NEW e \in Editors, CutOffEdit(e)
    PROVE  ReportInv'
<1>1. UNCHANGED <<now, schedule, task, revisions, report, queue, computed, ran, rerun>>
      /\ disrupted' = TRUE /\ editor' = [editor EXCEPT ![e] = NoEdit]
  BY DEF CutOffEdit
<1>2. NoEdit \in Editor /\ NoEdit.step = "idle"
  BY SomeTiming, SomeOfEach
<1>3. /\ editor' \in [Editors -> Editor] /\ editor'[e] = NoEdit
      /\ \A o \in Editors : o # e => editor'[o] = editor[o]
  BY <1>1, <1>2, TaskTypes
<1>4. ReportTypeOK'
  BY <1>1, <1>3 DEF ReportInv, ReportTypeOK
<1>5. TimingsAreValid'
  BY <1>1, <1>2, <1>3 DEF ReportInv, TimingsAreValid
<1>6. TimesAreInOrder'
  BY <1>1, <1>2, <1>3 DEF ReportInv, TimesAreInOrder
<1>7. OneTransaction'
  BY <1>1 DEF ReportInv, OneTransaction, Locked, InTransaction
<1> QED
  BY <1>1, <1>4, <1>5, <1>6, <1>7 DEF ReportInv

(***************************************************************************)
(* The theorem.                                                            *)
(***************************************************************************)
LEMMA ReportStepHolds == ReportInv /\ [ReportNext]_reportVars => ReportInv'
<1> SUFFICES ASSUME ReportInv, [ReportNext]_reportVars PROVE ReportInv'
  OBVIOUS
<1>1. CASE Elapse
  BY <1>1, ElapseHolds
<1>2. CASE ScheduleStep
  BY <1>2, ListDueHolds, TakeScheduleHolds, EnqueueHolds, CommitRunHolds, RollBackHolds
     DEF ScheduleStep
<1>3. CASE \E r \in ReportIds :
               WorkerStep(r) \/ LoseReport(r) \/ \E period \in Requested : GenerateNow(r, period)
  BY <1>3, WorkersHold DEF WorkerStep
<1>4. ASSUME NEW e \in Editors, SaveSchedule(e) \/ RecomputeNextRun(e) \/ CutOffEdit(e)
      PROVE  ReportInv'
  BY <1>4, SaveScheduleHolds, RecomputeNextRunHolds, CutOffEditHolds
<1>5. ASSUME NEW e \in Editors, NEW timing \in NewTimings,
             EditSchedule(e, [schedule EXCEPT !.timing = timing])
      PROVE  ReportInv'
  <2>1. PICK row : row = [schedule EXCEPT !.timing = timing]
    OBVIOUS
  <2>2. timing \in Timings
    BY ReportAssumption
  <2>3. row \in Schedule /\ row.last = schedule.last /\ row.next = schedule.next
    BY <2>1, <2>2, TaskTypes DEF Schedule
  <2> QED
    BY <1>5, <2>1, <2>3, EditScheduleHolds
<1>6. ASSUME NEW e \in Editors, EditSchedule(e, [schedule EXCEPT !.active = ~schedule.active])
      PROVE  ReportInv'
  <2>1. PICK row : row = [schedule EXCEPT !.active = ~schedule.active]
    OBVIOUS
  <2>2. row \in Schedule /\ row.last = schedule.last /\ row.next = schedule.next
    BY <2>1, TaskTypes DEF Schedule
  <2> QED
    BY <1>6, <2>1, <2>2, EditScheduleHolds
<1>7. CASE UNCHANGED reportVars
  BY <1>7 DEF reportVars, ReportInv, ReportTypeOK, TimingsAreValid, TimesAreInOrder,
              OneTransaction, Undisturbed, EditIsCurrent, Locked, InTransaction, IsNextRun
<1> QED
  BY <1>1, <1>2, <1>3, <1>4, <1>5, <1>6, <1>7 DEF ReportNext

LEMMA ReportInvShows == ReportInv => RunsWhenTheCalendarSays
BY DEF ReportInv, Undisturbed, IsNextRun, RunsWhenTheCalendarSays

\* A schedule that is not being changed waits for the first instant its calendar names
\* after the time it was computed, and each such instant is run once.
THEOREM SchedulesFollowTheCalendar == ReportSpec => []RunsWhenTheCalendarSays
<1>1. ReportInit => ReportInv
  BY ReportInitHolds
<1>2. ReportInv /\ [ReportNext]_reportVars => ReportInv'
  BY ReportStepHolds
<1>3. ReportInv => RunsWhenTheCalendarSays
  BY ReportInvShows
<1> QED
  BY <1>1, <1>2, <1>3, PTL DEF ReportSpec

(***************************************************************************)
(* Figures: the invariant of the rows that figures are made of.            *)
(***************************************************************************)
OrderRow == [created : Int, status : OrderStatuses \cup {"none"}, paid : BOOLEAN]
AttemptRow == [order : Orders \cup {NoOne}, provider : Providers \cup {NoOne},
               status : {"none", "pending", "success", "failed", "cancelled", "refunded"},
               created : Int, paid : Int, refunded : Int]

\* The two columns of an order fit: one that is not paid waits or was cancelled, and one
\* that is paid is on its way.
Waiting == {"pending_payment", "cancelled"}
OnTheWay == {"paid", "processing", "shipped", "delivered"}
Fits(row) ==
    IF row.created = Never THEN row.status = "none" /\ ~row.paid
    ELSE row.status \in (IF row.paid THEN OnTheWay ELSE Waiting)
OrdersFit == \A o \in Orders : Fits(order[o])

\* An attempt that was made has an order, a provider and its times; while it is
\* pending its order is not paid.
Made(p) == payment[p].status # "none"
AttemptsFit ==
    \A p \in Attempts : Made(p) =>
        /\ payment[p].order \in Orders /\ payment[p].provider \in Providers
        /\ order[payment[p].order].created # Never
        /\ payment[p].created \in 0..now
        /\ payment[p].status = "pending" => ~order[payment[p].order].paid
        /\ p \in Captured => payment[p].paid \in 0..LastInstant
        /\ payment[p].status = "refunded" => payment[p].refunded \in 0..LastInstant

\* An order is paid by one attempt that was captured.
PaidByOne ==
    /\ \A o \in Orders : order[o].paid <=> \E p \in Captured : payment[p].order = o
    /\ \A p, q \in Captured : payment[p].order = payment[q].order => p = q

\* With the ledger on, the items of an order have the seller they had at checkout.
SnapshotsFit ==
    /\ ledger => \A i \in Items : IF order[i.order].created = Never THEN sold[i] = NoOne
                                                                  ELSE sold[i] \in Sellers
    /\ ~ledger => \A i \in Items : sold[i] = NoOne

\* Refunds are numbered, are of captured payments and of items that have a seller.
RefundsFit ==
    /\ IsFiniteSet(refund)
    /\ \A r \in refund : /\ r.n < Cardinality(refund)
                         /\ r.payment \in Captured /\ sold[r.item] \in Sellers
    /\ \A r, t \in refund : r.n = t.n => r = t

\* A ticket, return, review or account has a status of its table.
EntriesFit == \A e \in Entries : entry[e] = NoEntry \/ entry[e].status \in Statuses[e.table]

FigureInv ==
    /\ FigureTypeOK
    /\ OrdersFit
    /\ AttemptsFit
    /\ PaidByOne
    /\ SnapshotsFit
    /\ RefundsFit
    /\ EntriesFit

\* What the figures of the past are made of only grows: a capture, a refund and the seller
\* of an item stay what they are.
FiguresGrow ==
    /\ ledger' = ledger
    /\ Captured \subseteq Captured'
    /\ \A p \in Captured : /\ payment'[p].order = payment[p].order
                          /\ payment'[p].paid = payment[p].paid
    /\ \A p \in Attempts : payment[p].status = "refunded" => payment'[p] = payment[p]
    /\ refund \subseteq refund'
    /\ \A i \in Items : sold[i] # NoOne => sold'[i] = sold[i]

\* The rows of an order, an attempt and an entry that do not exist yet.
LEMMA FigureRows ==
    /\ NoPayment \in AttemptRow /\ NoPayment.status = "none"
    /\ NoOrder \in OrderRow /\ Fits(NoOrder)
    /\ NoEntry \in [created : Int, urgent : BOOLEAN, assigned : BOOLEAN,
                    status : {"none"} \cup UNION {Statuses[t] : t \in DOMAIN Statuses}]
    /\ NoOne \notin Orders /\ NoOne \notin Sellers
    /\ \A i \in Items : i.order \in Orders /\ i.product \in Products
                        /\ i.gross \in Nat /\ i.discount \in Nat /\ Net(i) \in Nat
<1>1. Never \in Int
  BY DEF Never
<1>2. \A i \in Items : i.gross \in Nat /\ i.discount \in Nat /\ Net(i) \in Nat
  BY FigureAssumption DEF Net
<1> QED
  BY <1>1, <1>2, FigureAssumption
  DEF NoPayment, NoEntry, NoOrder, Products, AttemptRow, OrderRow, Fits

\* Before the first order nothing is captured.
LEMMA FiguresBegin == FigureInit => FigureInv
<1> SUFFICES ASSUME FigureInit PROVE FigureInv
  OBVIOUS
<1>1. FigureTypeOK
  <2>1. now \in 0..LastInstant /\ ledger \in BOOLEAN /\ owner \in [Products -> Sellers]
    BY PeriodAssumption DEF FigureInit
  <2>2. order \in [Orders -> OrderRow] /\ payment \in [Attempts -> AttemptRow]
    BY FigureRows DEF FigureInit
  <2> QED
    BY <2>1, <2>2, FigureRows DEF FigureInit, FigureTypeOK, OrderRow, AttemptRow
<1>2. Captured = {} /\ \A p \in Attempts : ~Made(p)
  BY FigureRows DEF FigureInit, Captured, CapturedStatuses, Made
<1>3. PaidByOne
  BY <1>2 DEF PaidByOne, FigureInit, NoOrder
<1>4. SnapshotsFit /\ OrdersFit
  BY FigureRows DEF SnapshotsFit, OrdersFit, FigureInit, NoOrder
<1>5. RefundsFit
  BY FS_EmptySet DEF RefundsFit, FigureInit
<1> QED
  BY <1>1, <1>2, <1>3, <1>4, <1>5 DEF FigureInv, AttemptsFit, EntriesFit, FigureInit

\* Steps that leave what is captured alone.
LEMMA PlaceOrderKeeps ==
    ASSUME FigureInv, NEW o \in Orders, PlaceOrder(o)
    PROVE  FigureInv' /\ FiguresGrow
<1>1. /\ now' = now /\ ledger' = ledger /\ owner' = owner /\ payment' = payment
      /\ refund' = refund /\ entry' = entry
  BY DEF PlaceOrder
<1>2. /\ order' \in [Orders -> OrderRow] /\ OrdersFit'
      /\ \A q \in Orders : order'[q].paid = order[q].paid
      /\ \A q \in Orders \ {o} : order'[q] = order[q]
      /\ order[o].created = Never /\ order'[o].created = now
  <2>1. PICK row \in OrderRow : row = order[o]
    BY DEF FigureInv, FigureTypeOK, OrderRow
  <2>2. row.created = Never /\ ~row.paid /\ now \in Int /\ now # Never
    BY <2>1 DEF PlaceOrder, FigureInv, FigureTypeOK, OrdersFit, Fits, Never
  <2> DEFINE placed == [row EXCEPT !.created = now, !.status = "pending_payment"]
  <2>3. /\ placed \in OrderRow /\ placed.created = now /\ placed.paid = row.paid
        /\ Fits(placed)
    BY <2>2 DEF OrderRow, OrderStatuses, Fits, Waiting
  <2>4. order \in [Orders -> OrderRow] /\ OrdersFit
    BY DEF FigureInv, FigureTypeOK, OrderRow
  <2>5. order' = [order EXCEPT ![o] = placed]
    BY <2>1, <2>4 DEF PlaceOrder
  <2> HIDE DEF placed
  <2> QED
    BY <2>1, <2>2, <2>3, <2>4, <2>5 DEF OrdersFit
<1>3. /\ sold' \in [Items -> Sellers \cup {NoOne}]
      /\ ~ledger => sold' = sold
      /\ \A i \in Items : i.order # o => sold'[i] = sold[i]
      /\ ledger => \A i \in Items : i.order = o => sold'[i] \in Sellers
  <2>1. \A i \in Items : owner[i.product] \in Sellers
    BY FigureRows DEF FigureInv, FigureTypeOK
  <2> QED
    BY <2>1 DEF PlaceOrder, FigureInv, FigureTypeOK
<1>4. FigureTypeOK'
  BY <1>1, <1>2, <1>3 DEF FigureInv, FigureTypeOK, OrderRow
<1>5. Captured' = Captured
  BY <1>1 DEF Captured
<1>6. AttemptsFit'
  <2>1. now # Never
    BY DEF FigureInv, FigureTypeOK, Never
  <2>2. \A q \in Orders : order[q].created # Never => order'[q].created # Never
    BY <1>2, <2>1
  <2> QED
    BY <1>1, <1>2, <1>5, <2>2 DEF FigureInv, AttemptsFit, Made
<1>7. PaidByOne'
  BY <1>1, <1>2, <1>5 DEF FigureInv, PaidByOne
<1>8. SnapshotsFit'
  <2>1. now # Never
    BY DEF FigureInv, FigureTypeOK, Never
  <2>2. ASSUME ledger, NEW i \in Items
        PROVE  IF order'[i.order].created = Never THEN sold'[i] = NoOne ELSE sold'[i] \in Sellers
    <3>1. CASE i.order = o
      BY <1>2, <1>3, <2>1, <2>2, <3>1
    <3>2. CASE i.order # o
      <4>1. order'[i.order] = order[i.order] /\ sold'[i] = sold[i]
        BY <1>2, <1>3, <3>2, FigureRows
      <4> QED
        BY <2>2, <4>1 DEF FigureInv, SnapshotsFit
    <3> QED
      BY <3>1, <3>2
  <2> QED
    BY <1>1, <1>3, <2>2 DEF FigureInv, SnapshotsFit
<1>9. RefundsFit'
  <2>1. \A i \in Items : sold[i] \in Sellers => sold'[i] \in Sellers
    BY <1>3, FigureRows DEF FigureInv, SnapshotsFit
  <2> QED
    BY <1>1, <1>5, <2>1 DEF FigureInv, RefundsFit, FigureTypeOK
<1>10. EntriesFit'
  BY <1>1 DEF FigureInv, EntriesFit
<1>11. FiguresGrow
  <2>1. \A i \in Items : sold[i] # NoOne => sold'[i] = sold[i]
    BY <1>2, <1>3 DEF FigureInv, SnapshotsFit
  <2> QED
    BY <1>1, <1>5, <2>1 DEF FiguresGrow
<1> QED
  BY <1>2, <1>4, <1>6, <1>7, <1>8, <1>9, <1>10, <1>11 DEF FigureInv

\* A new attempt is pending, and only an unpaid order gets one.
LEMMA StartPaymentKeeps ==
    ASSUME FigureInv, NEW p \in Attempts, NEW o \in Orders, NEW v \in Providers,
           StartPayment(p, o, v)
    PROVE  FigureInv' /\ FiguresGrow
<1>1. /\ now' = now /\ ledger' = ledger /\ owner' = owner /\ order' = order /\ sold' = sold
      /\ refund' = refund /\ entry' = entry
  BY DEF StartPayment
<1>2. /\ payment[p].status = "none" /\ \A q \in Attempts \ {p} : payment'[q] = payment[q]
      /\ payment'[p].order = o /\ payment'[p].provider = v /\ payment'[p].status = "pending"
      /\ payment'[p].created = now
      /\ order[o].created # Never /\ ~order[o].paid
  BY DEF StartPayment, FigureInv, FigureTypeOK, NoPayment, OrdersFit, Fits
<1>3. FigureTypeOK'
  <2>1. now \in Int
    BY DEF FigureInv, FigureTypeOK
  <2>2. payment' \in [Attempts -> [order : Orders \cup {NoOne}, provider : Providers \cup {NoOne},
                                   status : {"none", "pending", "success", "failed",
                                             "cancelled", "refunded"},
                                   created : Int, paid : Int, refunded : Int]]
    BY <2>1, FigureRows DEF StartPayment, FigureInv, FigureTypeOK, NoPayment, AttemptRow
  <2> QED
    BY <1>1, <2>2 DEF FigureInv, FigureTypeOK
<1>4. Captured' = Captured
  BY <1>2 DEF Captured, CapturedStatuses
<1>5. p \notin Captured
  BY <1>2 DEF Captured, CapturedStatuses
<1>6. AttemptsFit'
  <2>1. now \in 0..now
    BY DEF FigureInv, FigureTypeOK
  <2> QED
    BY <1>1, <1>2, <1>4, <1>5, <2>1 DEF FigureInv, AttemptsFit, Made
<1>7. \A q \in Captured : payment'[q] = payment[q]
  BY <1>2, <1>5 DEF Captured
<1>8. PaidByOne'
  BY <1>1, <1>4, <1>7 DEF FigureInv, PaidByOne
<1>9. SnapshotsFit' /\ EntriesFit' /\ OrdersFit'
  BY <1>1 DEF FigureInv, SnapshotsFit, EntriesFit, OrdersFit
<1>10. RefundsFit'
  BY <1>1, <1>4 DEF FigureInv, RefundsFit
<1>11. FiguresGrow
  <2>1. \A q \in Attempts : payment[q].status = "refunded" => q \in Captured
    BY DEF Captured, CapturedStatuses
  <2> QED
    BY <1>1, <1>4, <1>7, <2>1 DEF FiguresGrow
<1> QED
  BY <1>3, <1>6, <1>8, <1>9, <1>10, <1>11 DEF FigureInv

\* The attempts that end with their order are no more captured than before.
LEMMA PendingEnd ==
    ASSUME FigureInv, NEW o, NEW q \in Attempts
    PROVE  /\ CancelPending(o)[q] \in AttemptRow
           /\ CancelPending(o)[q] = payment[q]
              \/ /\ payment[q].status = "pending" /\ CancelPending(o)[q].status = "cancelled"
                 /\ CancelPending(o)[q].order = payment[q].order
                 /\ CancelPending(o)[q].provider = payment[q].provider
                 /\ CancelPending(o)[q].created = payment[q].created
           /\ CancelPending(o)[q].status = "pending" => CancelPending(o)[q].order # o
<1>1. PICK r \in AttemptRow : r = payment[q]
  BY DEF FigureInv, FigureTypeOK, AttemptRow
<1>2. CASE r.status = "pending" /\ r.order = o
  <2>1. CancelPending(o)[q] = [r EXCEPT !.status = "cancelled"]
    BY <1>1, <1>2 DEF CancelPending
  <2> QED
    BY <1>1, <1>2, <2>1 DEF AttemptRow
<1>3. CASE ~(r.status = "pending" /\ r.order = o)
  BY <1>1, <1>3 DEF CancelPending
<1> QED
  BY <1>2, <1>3

\* A capture ends the other attempts of its order, which was not paid before.
LEMMA CaptureKeeps ==
    ASSUME FigureInv, NEW p \in Attempts, NEW at \in 0..LastInstant, Capture(p, at)
    PROVE  FigureInv' /\ FiguresGrow
<1>1. /\ now' = now /\ ledger' = ledger /\ owner' = owner /\ sold' = sold
      /\ refund' = refund /\ entry' = entry
  BY DEF Capture
<1> DEFINE o == payment[p].order
<1>2. /\ payment[p].status = "pending" /\ o \in Orders /\ at \in Int
      /\ order[o].created # Never /\ ~order[o].paid
  BY DEF Capture, FigureInv, FigureTypeOK, AttemptsFit, Made
<1>3. /\ payment'[p] = [payment[p] EXCEPT !.status = "success", !.paid = at]
      /\ \A q \in Attempts \ {p} : payment'[q] = CancelPending(o)[q]
      /\ payment' = [q \in Attempts |-> payment'[q]]
  BY DEF Capture, CancelPending
<1>4. /\ order' \in [Orders -> OrderRow] /\ OrdersFit'
      /\ order'[o].paid /\ \A q \in Orders : order'[q].created = order[q].created
      /\ \A q \in Orders \ {o} : order'[q] = order[q]
  <2>1. order \in [Orders -> OrderRow] /\ OrdersFit
    BY DEF FigureInv, FigureTypeOK, OrderRow
  <2> HIDE DEF o
  <2>2. PICK row \in OrderRow : row = order[o]
    BY <1>2, <2>1
  <2> DEFINE paid == [row EXCEPT !.paid = TRUE, !.status = "paid"]
  <2>3. /\ paid \in OrderRow /\ paid.created = row.created /\ paid.paid
        /\ Fits(paid)
    BY <1>2, <2>2 DEF OrderRow, OrderStatuses, Fits, OnTheWay
  <2>4. order' = [order EXCEPT ![o] = paid]
    BY <2>1, <2>2 DEF Capture, o
  <2> HIDE DEF paid
  <2> QED
    BY <1>2, <2>1, <2>2, <2>3, <2>4 DEF OrdersFit
<1>5. payment \in [Attempts -> AttemptRow]
  BY DEF FigureInv, FigureTypeOK, AttemptRow
<1>6. /\ payment'[p] \in AttemptRow /\ payment'[p].status = "success" /\ payment'[p].paid = at
      /\ payment'[p].order = o /\ payment'[p].provider = payment[p].provider
      /\ payment'[p].created = payment[p].created
  <2>1. PICK r \in AttemptRow : r = payment[p]
    BY <1>5
  <2>2. payment'[p] = [r EXCEPT !.status = "success", !.paid = at]
    BY <1>3, <2>1
  <2> QED
    BY <1>2, <2>1, <2>2 DEF AttemptRow
<1>7. \A q \in Attempts \ {p} :
        /\ payment'[q] \in AttemptRow
        /\ payment'[q] = payment[q]
           \/ /\ payment[q].status = "pending" /\ payment'[q].status = "cancelled"
              /\ payment'[q].order = payment[q].order
              /\ payment'[q].provider = payment[q].provider
              /\ payment'[q].created = payment[q].created
        /\ payment'[q].status = "pending" => payment'[q].order # o
  <2> HIDE DEF o
  <2> QED
    BY <1>3, PendingEnd
<1>8. FigureTypeOK'
  <2>1. \A q \in Attempts : payment'[q] \in AttemptRow
    BY <1>6, <1>7
  <2>2. payment' \in [Attempts -> AttemptRow]
    BY <1>3, <2>1
  <2> QED
    BY <1>1, <1>4, <2>2 DEF FigureInv, FigureTypeOK, OrderRow, AttemptRow
<1>9. p \notin Captured /\ Captured' = Captured \cup {p}
  BY <1>2, <1>6, <1>7 DEF Captured, CapturedStatuses
<1>10. \A q \in Captured : payment'[q] = payment[q]
  BY <1>7, <1>9 DEF Captured, CapturedStatuses
<1>11. \A q \in Attempts : payment'[q].order = payment[q].order
  BY <1>6, <1>7
<1>12. FiguresGrow
  <2>1. \A q \in Attempts : payment[q].status = "refunded" => q \in Captured
    BY DEF Captured, CapturedStatuses
  <2> QED
    BY <1>1, <1>9, <1>10, <2>1 DEF FiguresGrow
<1>13. AttemptsFit'
  <2> SUFFICES ASSUME NEW q \in Attempts, payment'[q].status # "none"
               PROVE  /\ payment'[q].order \in Orders /\ payment'[q].provider \in Providers
                      /\ order'[payment'[q].order].created # Never
                      /\ payment'[q].created \in 0..now
                      /\ payment'[q].status = "pending" => ~order'[payment'[q].order].paid
                      /\ q \in Captured' => payment'[q].paid \in 0..LastInstant
                      /\ payment'[q].status = "refunded" => payment'[q].refunded \in 0..LastInstant
    BY <1>1 DEF AttemptsFit, Made
  <2>1. CASE q = p
    <3>1. payment[p].provider \in Providers /\ payment[p].created \in 0..now
      BY <1>2 DEF FigureInv, AttemptsFit, Made
    <3> HIDE DEF o
    <3> QED
      BY <1>2, <1>4, <1>6, <2>1, <3>1
  <2>2. CASE q # p
    <3>1. Made(q) /\ payment[q].order \in Orders /\ payment'[q].order = payment[q].order
          /\ payment[q].provider \in Providers /\ payment[q].created \in 0..now
          /\ order[payment[q].order].created # Never
          /\ payment'[q].provider = payment[q].provider
          /\ payment'[q].created = payment[q].created
      BY <1>7, <2>2 DEF FigureInv, AttemptsFit, Made
    <3>2. payment'[q].status = "pending" => ~order'[payment'[q].order].paid
      <4>1. payment'[q].status = "pending" => payment'[q] = payment[q] /\ payment[q].order # o
        BY <1>7, <2>2
      <4> HIDE DEF o
      <4> QED
        BY <1>4, <3>1, <4>1 DEF FigureInv, AttemptsFit
    <3>3. q \in Captured' => payment'[q].paid \in 0..LastInstant
      BY <1>9, <1>10, <2>2, <3>1 DEF FigureInv, AttemptsFit
    <3>4. payment'[q].status = "refunded" => payment'[q].refunded \in 0..LastInstant
      BY <1>7, <2>2, <3>1 DEF FigureInv, AttemptsFit
    <3> HIDE DEF o
    <3> QED
      BY <1>4, <3>1, <3>2, <3>3, <3>4
  <2> QED
    BY <2>1, <2>2
<1>14. PaidByOne'
  <2>1. \A q \in Captured : payment[q].order # o
    BY <1>2 DEF FigureInv, PaidByOne
  <2>2. ASSUME NEW q \in Orders
        PROVE  order'[q].paid <=> \E m \in Captured' : payment'[m].order = q
    <3>1. CASE q = o
      BY <1>4, <1>6, <1>9, <3>1
    <3>2. CASE q # o
      <4>1. order'[q].paid <=> \E m \in Captured : payment[m].order = q
        BY <1>4, <3>2 DEF FigureInv, PaidByOne
      <4>2. \A m \in Captured : payment'[m].order = payment[m].order
        BY <1>10
      <4> QED
        BY <1>6, <1>9, <3>2, <4>1, <4>2
    <3> QED
      BY <3>1, <3>2
  <2> HIDE DEF o
  <2>3. ASSUME NEW m \in Captured', NEW n \in Captured', payment'[m].order = payment'[n].order
        PROVE  m = n
    <3>1. CASE m \in Captured /\ n \in Captured
      BY <1>10, <2>3, <3>1 DEF FigureInv, PaidByOne
    <3>2. CASE m = p \/ n = p
      BY <1>6, <1>9, <1>10, <2>1, <2>3, <3>2
    <3> QED
      BY <1>9, <3>1, <3>2
  <2> QED
    BY <2>2, <2>3 DEF PaidByOne
<1>15. SnapshotsFit' /\ EntriesFit'
  BY <1>1, <1>4, FigureRows DEF FigureInv, SnapshotsFit, EntriesFit
<1>16. RefundsFit'
  BY <1>1, <1>9 DEF FigureInv, RefundsFit
<1> QED
  BY <1>4, <1>8, <1>12, <1>13, <1>14, <1>15, <1>16 DEF FigureInv

\* Steps on attempts that were not captured.
LEMMA EndsKeep ==
    ASSUME FigureInv,
           /\ now' = now /\ ledger' = ledger /\ owner' = owner /\ sold' = sold
           /\ refund' = refund /\ entry' = entry,
           /\ payment' = [q \in Attempts |-> payment'[q]]
           /\ \A q \in Attempts :
                 /\ payment'[q] \in AttemptRow
                 /\ payment'[q] = payment[q]
                    \/ /\ payment[q].status \in {"pending", "failed"}
                       /\ payment'[q].status \in {"failed", "cancelled"}
                       /\ payment'[q].order = payment[q].order
                       /\ payment'[q].provider = payment[q].provider
                       /\ payment'[q].created = payment[q].created,
           /\ order' \in [Orders -> OrderRow] /\ OrdersFit'
           /\ \A o \in Orders : /\ order'[o].paid = order[o].paid
                                /\ order'[o].created = order[o].created
    PROVE  FigureInv' /\ FiguresGrow
<1>1. FigureTypeOK'
  <2>1. payment' \in [Attempts -> AttemptRow]
    OBVIOUS
  <2> QED
    BY <2>1 DEF FigureInv, FigureTypeOK, AttemptRow, OrderRow
<1>2. Captured' = Captured /\ \A q \in Captured : payment'[q] = payment[q]
  BY DEF Captured, CapturedStatuses
<1>3. AttemptsFit'
  BY <1>2 DEF FigureInv, AttemptsFit, Made
<1>4. PaidByOne'
  BY <1>2 DEF FigureInv, PaidByOne
<1>5. SnapshotsFit' /\ EntriesFit'
  BY FigureRows DEF FigureInv, SnapshotsFit, EntriesFit
<1>6. RefundsFit'
  BY <1>2 DEF FigureInv, RefundsFit
<1>7. FiguresGrow
  <2>1. \A q \in Attempts : payment[q].status = "refunded" => q \in Captured
    BY DEF Captured, CapturedStatuses
  <2> QED
    BY <1>2, <2>1 DEF FiguresGrow
<1> QED
  BY <1>1, <1>3, <1>4, <1>5, <1>6, <1>7 DEF FigureInv

\* An attempt that fails or is cancelled was not captured.
LEMMA EndPaymentKeeps ==
    ASSUME FigureInv, NEW p \in Attempts, NEW status \in {"failed", "cancelled"},
           EndPayment(p, status)
    PROVE  FigureInv' /\ FiguresGrow
<1>1. /\ now' = now /\ ledger' = ledger /\ owner' = owner /\ sold' = sold
      /\ refund' = refund /\ entry' = entry
  BY DEF EndPayment
<1>2. order' = order
  BY DEF EndPayment
<1>3. /\ order' \in [Orders -> OrderRow] /\ OrdersFit'
      /\ \A o \in Orders : /\ order'[o].paid = order[o].paid
                           /\ order'[o].created = order[o].created
  BY <1>2 DEF FigureInv, FigureTypeOK, OrderRow, OrdersFit
<1>4. payment \in [Attempts -> AttemptRow]
  BY DEF FigureInv, FigureTypeOK, AttemptRow
<1>5. PICK r \in AttemptRow : r = payment[p]
  BY <1>4
<1>6. payment' = [payment EXCEPT ![p] = [r EXCEPT !.status = status]]
      /\ r.status \in {"pending", "failed"}
  BY <1>4, <1>5 DEF EndPayment
<1>7. [r EXCEPT !.status = status] \in AttemptRow
  BY DEF AttemptRow
<1>8. /\ payment' = [q \in Attempts |-> payment'[q]]
      /\ \A q \in Attempts :
            /\ payment'[q] \in AttemptRow
            /\ payment'[q] = payment[q]
               \/ /\ payment[q].status \in {"pending", "failed"}
                  /\ payment'[q].status \in {"failed", "cancelled"}
                  /\ payment'[q].order = payment[q].order
                  /\ payment'[q].provider = payment[q].provider
                  /\ payment'[q].created = payment[q].created
  <2>1. /\ payment' = [q \in Attempts |-> payment'[q]]
        /\ payment'[p] = [r EXCEPT !.status = status]
        /\ \A q \in Attempts \ {p} : payment'[q] = payment[q]
    BY <1>4, <1>6
  <2>2. /\ payment'[p] \in AttemptRow /\ payment'[p].status = status
        /\ payment'[p].order = r.order /\ payment'[p].provider = r.provider
        /\ payment'[p].created = r.created
    BY <1>7, <2>1 DEF AttemptRow
  <2> QED
    BY <1>4, <1>5, <1>6, <2>1, <2>2
<1> QED
  BY <1>1, <1>3, <1>8, EndsKeep

\* An order that is cancelled was not paid, and is still not.
LEMMA CancelOrderKeeps ==
    ASSUME FigureInv, NEW o \in Orders, CancelOrder(o)
    PROVE  FigureInv' /\ FiguresGrow
<1>1. /\ now' = now /\ ledger' = ledger /\ owner' = owner /\ sold' = sold
      /\ refund' = refund /\ entry' = entry
  BY DEF CancelOrder
<1>2. /\ order' \in [Orders -> OrderRow] /\ OrdersFit'
      /\ \A q \in Orders : /\ order'[q].paid = order[q].paid
                           /\ order'[q].created = order[q].created
  <2>1. order \in [Orders -> OrderRow] /\ OrdersFit
    BY DEF FigureInv, FigureTypeOK, OrderRow
  <2>2. PICK row \in OrderRow : row = order[o]
    BY <2>1
  <2> DEFINE ended == [row EXCEPT !.status = "cancelled"]
  <2>3. row.status = "pending_payment" /\ ~row.paid /\ Fits(row)
    BY <2>1, <2>2 DEF CancelOrder, OrdersFit
  <2>4. /\ ended \in OrderRow /\ ended.created = row.created /\ ended.paid = row.paid
        /\ Fits(ended)
    BY <2>3 DEF OrderRow, OrderStatuses, Fits, Waiting
  <2>5. order' = [order EXCEPT ![o] = ended]
    BY <2>1, <2>2 DEF CancelOrder
  <2> HIDE DEF ended
  <2> QED
    BY <2>1, <2>2, <2>4, <2>5 DEF OrdersFit
<1>3. payment' = CancelPending(o)
  BY DEF CancelOrder
<1>4. payment' = [q \in Attempts |-> payment'[q]]
  BY <1>3 DEF CancelPending
<1>5. \A q \in Attempts :
        /\ payment'[q] \in AttemptRow
        /\ payment'[q] = payment[q]
           \/ /\ payment[q].status \in {"pending", "failed"}
              /\ payment'[q].status \in {"failed", "cancelled"}
              /\ payment'[q].order = payment[q].order
              /\ payment'[q].provider = payment[q].provider
              /\ payment'[q].created = payment[q].created
  BY <1>3, PendingEnd
<1> QED
  BY <1>1, <1>2, <1>4, <1>5, EndsKeep

\* A paid order moves among the statuses of those that are paid.
LEMMA MoveOrderKeeps ==
    ASSUME FigureInv, NEW o \in Orders, NEW status \in OnTheWay, MoveOrder(o, status)
    PROVE  FigureInv' /\ FiguresGrow
<1>1. /\ now' = now /\ ledger' = ledger /\ owner' = owner /\ sold' = sold
      /\ refund' = refund /\ entry' = entry
  BY DEF MoveOrder
<1>2. /\ order' \in [Orders -> OrderRow] /\ OrdersFit'
      /\ \A q \in Orders : /\ order'[q].paid = order[q].paid
                           /\ order'[q].created = order[q].created
  <2>1. order \in [Orders -> OrderRow] /\ OrdersFit
    BY DEF FigureInv, FigureTypeOK, OrderRow
  <2>2. PICK row \in OrderRow : row = order[o]
    BY <2>1
  <2> DEFINE moved == [row EXCEPT !.status = status]
  <2>3. row.paid /\ Fits(row)
    BY <2>1, <2>2 DEF MoveOrder, OrdersFit
  <2>4. /\ moved \in OrderRow /\ moved.created = row.created /\ moved.paid = row.paid
        /\ Fits(moved)
    BY <2>3 DEF OrderRow, OrderStatuses, Fits, OnTheWay
  <2>5. order' = [order EXCEPT ![o] = moved]
    BY <2>1, <2>2 DEF MoveOrder
  <2> HIDE DEF moved
  <2> QED
    BY <2>1, <2>2, <2>4, <2>5 DEF OrdersFit
<1>3. /\ payment' = [q \in Attempts |-> payment'[q]]
      /\ \A q \in Attempts : payment'[q] \in AttemptRow /\ payment'[q] = payment[q]
  BY DEF MoveOrder, FigureInv, FigureTypeOK, AttemptRow
<1> QED
  BY <1>1, <1>2, <1>3, EndsKeep

\* A refund is a row of its own; the payment it completes is still a captured one.
LEMMA ConfirmRefundKeeps ==
    ASSUME FigureInv, NEW p \in Attempts, NEW i \in Items, NEW goods \in 0..Net(i),
           NEW extra \in 0..Extra[i.order], NEW at \in 0..LastInstant,
           ConfirmRefund(p, i, goods, extra, at)
    PROVE  FigureInv' /\ FiguresGrow
<1> DEFINE n == Cardinality(refund)
           line == [n |-> n, payment |-> p, item |-> i, goods |-> goods, extra |-> extra,
                    at |-> at]
<1>1. /\ now' = now /\ ledger' = ledger /\ owner' = owner /\ order' = order /\ sold' = sold
      /\ entry' = entry /\ refund' = refund \cup {line}
      /\ payment[p].status = "success" /\ sold[i] # NoOne
      /\ payment' = payment
         \/ payment' = [payment EXCEPT ![p].status = "refunded", ![p].refunded = at]
  BY DEF ConfirmRefund
<1>2. p \in Captured /\ sold[i] \in Sellers
  <2>1. p \in Captured /\ Made(p)
    BY <1>1 DEF Captured, CapturedStatuses, Made
  <2>2. sold[i] \in Sellers
    BY <1>1 DEF FigureInv, FigureTypeOK
  <2> QED
    BY <2>1, <2>2
<1> DEFINE row == [order : Orders \cup {NoOne}, provider : Providers \cup {NoOne},
                   status : {"none", "pending", "success", "failed", "cancelled", "refunded"},
                   created : Int, paid : Int, refunded : Int]
<1>3. /\ payment' \in [Attempts -> row]
      /\ \A q \in Attempts \ {p} : payment'[q] = payment[q]
      /\ payment'[p].status \in CapturedStatuses
      /\ payment'[p].status = "refunded" => payment'[p].refunded \in 0..LastInstant
      /\ payment'[p].order = payment[p].order /\ payment'[p].provider = payment[p].provider
      /\ payment'[p].created = payment[p].created /\ payment'[p].paid = payment[p].paid
  <2>1. payment \in [Attempts -> row]
    BY DEF FigureInv, FigureTypeOK
  <2>2. CASE payment' = payment
    <3> HIDE DEF row
    <3> QED
      BY <1>1, <2>1, <2>2 DEF CapturedStatuses
  <2>3. CASE payment' = [payment EXCEPT ![p].status = "refunded", ![p].refunded = at]
    <3>1. PICK r \in row : r = payment[p]
      BY <2>1
    <3>2. \A q \in Attempts \ {p} : payment'[q] = payment[q]
      BY <2>1, <2>3
    <3>3. payment' = [payment EXCEPT ![p] = [r EXCEPT !.status = "refunded", !.refunded = at]]
      BY <2>1, <2>3, <3>1
    <3>4. [r EXCEPT !.status = "refunded", !.refunded = at] \in row
      <4>1. at \in Int
        OBVIOUS
      <4> HIDE DEF line, n
      <4> QED
        BY <4>1
    <3>5. payment'[p] = [r EXCEPT !.status = "refunded", !.refunded = at]
      BY <2>1, <3>3
    <3>6. payment' \in [Attempts -> row]
      <4> HIDE DEF row
      <4> QED
        BY <2>1, <3>3, <3>4
    <3> QED
      BY <1>2, <3>1, <3>2, <3>5, <3>6 DEF CapturedStatuses
  <2> QED
    BY <1>1, <2>2, <2>3
<1> HIDE DEF row
<1>4. n \in Nat /\ IsFiniteSet(refund')
      /\ (line \notin refund => Cardinality(refund') = n + 1)
  <2>1. IsFiniteSet(refund)
    BY DEF FigureInv, RefundsFit
  <2> HIDE DEF line
  <2> QED
    BY <1>1, <2>1, FS_AddElement, FS_CardinalityType
<1>5. FigureTypeOK'
  <2>1. goods \in Nat /\ extra \in Nat /\ at \in Int
    BY FigureRows, FigureAssumption
  <2>2. line \in [n : Nat, payment : Attempts, item : Items, goods : Nat, extra : Nat, at : Int]
    BY <1>4, <2>1
  <2> HIDE DEF line
  <2> QED
    BY <1>1, <1>3, <2>2 DEF FigureInv, FigureTypeOK, row
<1>6. Captured' = Captured
  BY <1>2, <1>3 DEF Captured
<1>7. AttemptsFit'
  <2>1. payment'[p].status # "pending" /\ Made(p)
    BY <1>1, <1>3 DEF CapturedStatuses, Made
  <2> QED
    BY <1>1, <1>2, <1>3, <1>6, <2>1 DEF FigureInv, AttemptsFit, Made
<1>8. \A q \in Attempts : payment'[q].order = payment[q].order
  BY <1>3
<1>9. PaidByOne'
  <2>1. Captured \subseteq Attempts
    BY DEF Captured
  <2> QED
    BY <1>1, <1>6, <1>8, <2>1 DEF FigureInv, PaidByOne
<1>10. SnapshotsFit' /\ EntriesFit' /\ OrdersFit'
  BY <1>1 DEF FigureInv, SnapshotsFit, EntriesFit, OrdersFit
<1>11. RefundsFit'
  <2>1. \A r \in refund : r.n \in Nat /\ r.n < n /\ r.payment \in Captured
                          /\ sold[r.item] \in Sellers
    BY DEF FigureInv, RefundsFit, FigureTypeOK
  <2>2. line.n = n /\ line.payment = p /\ line.item = i
    OBVIOUS
  <2> HIDE DEF line, n
  <2>3. Cardinality(refund') = n + 1
    BY <1>4, <2>1, <2>2
  <2>4. \A r \in refund' : /\ r.n < Cardinality(refund')
                           /\ r.payment \in Captured' /\ sold'[r.item] \in Sellers
    BY <1>1, <1>2, <1>4, <1>6, <2>1, <2>2, <2>3
  <2>5. \A r, t \in refund' : r.n = t.n => r = t
    BY <1>1, <1>4, <2>1, <2>2 DEF FigureInv, RefundsFit
  <2> QED
    BY <1>4, <2>4, <2>5 DEF RefundsFit
<1>12. FiguresGrow
  <2>1. \A q \in Attempts : payment[q].status = "refunded" => payment'[q] = payment[q]
    BY <1>1, <1>3
  <2>2. Captured \subseteq Attempts
    BY DEF Captured
  <2>3. \A q \in Attempts : payment'[q].paid = payment[q].paid
    BY <1>3
  <2> QED
    BY <1>1, <1>6, <1>8, <2>1, <2>2, <2>3 DEF FiguresGrow
<1> QED
  BY <1>5, <1>7, <1>9, <1>10, <1>11, <1>12 DEF FigureInv

\* A product that changes hands, a row of another table and time touch no money.
LEMMA RestKeeps ==
    ASSUME FigureInv,
           \/ \E product \in Products, s \in Sellers : ChangeOwner(product, s)
           \/ \E table \in DOMAIN Statuses : EntryStep(table)
           \/ PassTime
    PROVE  FigureInv' /\ FiguresGrow
<1>1. /\ ledger' = ledger /\ order' = order /\ sold' = sold /\ payment' = payment
      /\ refund' = refund
  BY DEF ChangeOwner, EntryStep, SetEntry, PassTime
<1>2. now \in 0..now' /\ now' \in 0..LastInstant
  <2>1. now' = now \/ (now' = now + 1 /\ now < LastInstant)
    BY DEF ChangeOwner, EntryStep, SetEntry, PassTime
  <2>2. now \in 0..LastInstant /\ LastInstant \in Nat
    BY PeriodAssumption DEF FigureInv, FigureTypeOK
  <2> QED
    BY <2>1, <2>2
<1>3. owner' \in [Products -> Sellers]
  BY DEF FigureInv, FigureTypeOK, ChangeOwner, EntryStep, SetEntry, PassTime
<1>4. /\ EntriesFit'
      /\ entry' \in [Entries -> [created : Int, urgent : BOOLEAN, assigned : BOOLEAN,
                                 status : {"none"} \cup UNION {Statuses[t] : t \in DOMAIN Statuses}]]
  <2> DEFINE row == [created : Int, urgent : BOOLEAN, assigned : BOOLEAN,
                     status : {"none"} \cup UNION {Statuses[t] : t \in DOMAIN Statuses}]
  <2>1. entry \in [Entries -> row] /\ EntriesFit /\ now \in Int
    BY DEF FigureInv, FigureTypeOK
  <2>2. CASE entry' = entry
    <3> HIDE DEF row
    <3>1. EntriesFit'
      BY <2>1, <2>2 DEF EntriesFit
    <3> QED
      BY <2>1, <2>2, <3>1 DEF row
  <2>3. CASE \E table \in DOMAIN Statuses : EntryStep(table)
    <3>0. PICK table \in DOMAIN Statuses : EntryStep(table)
      BY <2>3
    <3>1. PICK e \in Entries, status \in Statuses[table], urgent \in BOOLEAN,
               assigned \in BOOLEAN : e.table = table /\ SetEntry(e, status, urgent, assigned)
      BY <3>0 DEF EntryStep
    <3> DEFINE made == IF entry[e] = NoEntry THEN now ELSE entry[e].created
               to == [created |-> made, status |-> status, urgent |-> urgent,
                      assigned |-> assigned]
    <3>2. entry' = [entry EXCEPT ![e] = to]
      BY <3>1 DEF SetEntry
    <3>3. made \in Int
      BY <2>1
    <3> HIDE DEF made
    <3>4. to \in row /\ to.status \in Statuses[e.table]
      BY <3>1, <3>3
    <3> HIDE DEF to, row
    <3>5. entry' \in [Entries -> row]
      BY <2>1, <3>2, <3>4
    <3>6. EntriesFit'
      BY <2>1, <3>2, <3>4 DEF EntriesFit
    <3> QED
      BY <3>5, <3>6 DEF row
  <2> QED
    BY <2>2, <2>3 DEF ChangeOwner, PassTime
<1>5. FigureTypeOK'
  BY <1>1, <1>2, <1>3, <1>4 DEF FigureInv, FigureTypeOK
<1>6. Captured' = Captured
  BY <1>1 DEF Captured
<1>7. AttemptsFit'
  <2>1. \A t : t \in 0..now => t \in 0..now'
    BY <1>2 DEF FigureInv, FigureTypeOK
  <2> QED
    BY <1>1, <1>6, <2>1 DEF FigureInv, AttemptsFit, Made
<1>8. PaidByOne'
  BY <1>1, <1>6 DEF FigureInv, PaidByOne
<1>9. SnapshotsFit' /\ OrdersFit'
  BY <1>1 DEF FigureInv, SnapshotsFit, OrdersFit
<1>10. RefundsFit'
  BY <1>1, <1>6 DEF FigureInv, RefundsFit
<1>11. FiguresGrow
  BY <1>1, <1>6 DEF FiguresGrow
<1> QED
  BY <1>4, <1>5, <1>7, <1>8, <1>9, <1>10, <1>11 DEF FigureInv

\* Every step keeps the invariant, and what past figures are made of.
LEMMA FigureInvNext ==
    ASSUME FigureInv, [FigureNext]_figureVars
    PROVE  FigureInv' /\ FiguresGrow
<1>1. CASE UNCHANGED figureVars
  <2>1. /\ now' = now /\ ledger' = ledger /\ order' = order /\ sold' = sold
        /\ payment' = payment /\ refund' = refund /\ owner' = owner /\ entry' = entry
    BY <1>1 DEF figureVars, moneyVars
  <2>2. Captured' = Captured
    BY <2>1 DEF Captured
  <2> QED
    BY <2>1, <2>2 DEF FigureInv, FigureTypeOK, OrdersFit, AttemptsFit, Made, PaidByOne,
                      SnapshotsFit, RefundsFit, EntriesFit, FiguresGrow
<1>2. CASE MoneyStep
  BY <1>2, PlaceOrderKeeps, StartPaymentKeeps, CaptureKeeps, EndPaymentKeeps,
     CancelOrderKeeps, MoveOrderKeeps, ConfirmRefundKeeps, RestKeeps DEF MoneyStep, OnTheWay
<1>3. CASE PassTime \/ \E table \in DOMAIN Statuses : EntryStep(table)
  BY <1>3, RestKeeps
<1> QED
  BY <1>1, <1>2, <1>3 DEF FigureNext

\* However orders, attempts, captures, refunds and the entries of the other tables follow each
\* other, an order is paid by one captured attempt, every refund is of a captured payment, and
\* with the ledger on every item that was ordered has a seller.
THEOREM FigureInductive == FigureSpec => []FigureInv
<1>1. FigureInit => FigureInv
  BY FiguresBegin
<1>2. FigureInv /\ [FigureNext]_figureVars => FigureInv'
  BY FigureInvNext
<1> QED
  BY <1>1, <1>2, PTL DEF FigureSpec

(***************************************************************************)
(* Figures: what a window of time is said to have earned, as sums over the *)
(* items, the captured attempts and the lines of refunds.                  *)
(***************************************************************************)
NetOf == [i \in Items |-> Net(i)]
GrossOf == [i \in Items |-> i.gross]
DiscountOf == [i \in Items |-> i.discount]
AmountOf == [p \in Attempts |-> Amount(p)]

\* The items of an order add up to its total.
LEMMA ItemSums ==
    /\ \A i \in Items : /\ NetOf[i] = Net(i) /\ GrossOf[i] = i.gross /\ DiscountOf[i] = i.discount
                        /\ NetOf[i] \in Nat /\ GrossOf[i] \in Nat /\ DiscountOf[i] \in Nat
                        /\ GrossOf[i] = NetOf[i] + DiscountOf[i]
    /\ \A S \in SUBSET Items : /\ IsFiniteSet(S)
                               /\ Gross(S) = SumFunctionOnSet(GrossOf, S)
                               /\ Discount(S) = SumFunctionOnSet(DiscountOf, S)
    /\ \A o \in Orders : /\ Extra[o] \in Nat
                         /\ Total(o) = SumFunctionOnSet(NetOf, ItemsOf(o)) + Extra[o]
                         /\ SumFunctionOnSet(NetOf, ItemsOf(o)) \in Nat /\ Total(o) \in Nat
<1>1. \A i \in Items : /\ NetOf[i] = Net(i) /\ GrossOf[i] = i.gross /\ DiscountOf[i] = i.discount
                       /\ NetOf[i] \in Nat /\ GrossOf[i] \in Nat /\ DiscountOf[i] \in Nat
                       /\ GrossOf[i] = NetOf[i] + DiscountOf[i]
  BY FigureRows DEF NetOf, GrossOf, DiscountOf, Net
<1>2. \A S \in SUBSET Items : IsFiniteSet(S)
  BY FigureAssumption, FS_Subset
<1>3. ASSUME NEW S \in SUBSET Items
      PROVE  /\ Gross(S) = SumFunctionOnSet(GrossOf, S)
             /\ Discount(S) = SumFunctionOnSet(DiscountOf, S)
  <2> DEFINE g == [i \in S |-> i.gross]
             d == [i \in S |-> i.discount]
  <2>1. /\ DOMAIN g = S /\ \A i \in S : GrossOf[i] \in Int /\ g[i] = GrossOf[i]
        /\ DOMAIN d = S /\ \A i \in S : DiscountOf[i] \in Int /\ d[i] = DiscountOf[i]
    BY <1>1
  <2>2. Gross(S) = SumFunction(g) /\ Discount(S) = SumFunction(d)
    BY DEF Gross, Discount
  <2> HIDE DEF g, d
  <2> QED
    BY <1>2, <2>1, <2>2, SumOfFunction
<1>4. ASSUME NEW o \in Orders
      PROVE  /\ Extra[o] \in Nat
             /\ Total(o) = SumFunctionOnSet(NetOf, ItemsOf(o)) + Extra[o]
             /\ SumFunctionOnSet(NetOf, ItemsOf(o)) \in Nat /\ Total(o) \in Nat
  <2> DEFINE g == [i \in ItemsOf(o) |-> Net(i)]
  <2>1. ItemsOf(o) \in SUBSET Items /\ IsFiniteSet(ItemsOf(o)) /\ Extra[o] \in Nat
    BY <1>2, FigureAssumption DEF ItemsOf
  <2>2. /\ DOMAIN g = ItemsOf(o)
        /\ \A i \in ItemsOf(o) : NetOf[i] \in Int /\ NetOf[i] \in Nat /\ g[i] = NetOf[i]
    BY <1>1, <2>1
  <2>3. Total(o) = SumFunction(g) + Extra[o]
    BY DEF Total
  <2> HIDE DEF g
  <2>4. SumFunction(g) = SumFunctionOnSet(NetOf, ItemsOf(o))
    BY <2>1, <2>2, SumOfFunction
  <2>5. SumFunctionOnSet(NetOf, ItemsOf(o)) \in Nat
    BY <2>1, <2>2, SumNat
  <2> QED
    BY <2>1, <2>3, <2>4, <2>5
<1> QED
  BY <1>1, <1>2, <1>3, <1>4

\* A captured attempt has an order and the time it was captured.
LEMMA CapturedFacts ==
    ASSUME FigureInv
    PROVE  /\ IsFiniteSet(Captured) /\ Captured \subseteq Attempts
           /\ \A p \in Captured : /\ payment[p].order \in Orders /\ payment[p].provider \in Providers
                                  /\ payment[p].paid \in 0..LastInstant /\ order[payment[p].order].paid
                                  /\ order[payment[p].order].created # Never
           /\ \A p \in Attempts : payment[p].status = "refunded" =>
                  p \in Captured /\ payment[p].refunded \in 0..LastInstant
           /\ \A p \in Attempts : Made(p) => payment[p].order \in Orders
           /\ now \in Int
<1>1. \A p \in Captured : p \in Attempts /\ Made(p)
  BY DEF Captured, CapturedStatuses, Made
<1>2. \A p \in Captured : order[payment[p].order].paid
  BY <1>1 DEF FigureInv, PaidByOne, AttemptsFit
<1>3. \A p \in Attempts : payment[p].status = "refunded" => p \in Captured
  BY DEF Captured, CapturedStatuses
<1>4. IsFiniteSet(Captured) /\ Captured \subseteq Attempts
  BY FigureAssumption, FS_Subset DEF Captured
<1>5. now \in Int
  BY DEF FigureInv, FigureTypeOK
<1> QED
  BY <1>1, <1>2, <1>3, <1>4, <1>5 DEF FigureInv, AttemptsFit

\* What attempts captured adds up the totals of their orders.
LEMMA AmountSums ==
    ASSUME FigureInv
    PROVE  /\ \A p \in Attempts : Made(p) => AmountOf[p] \in Nat /\ AmountOf[p] = Amount(p)
           /\ \A S \in SUBSET Attempts :
                  (\A p \in S : Made(p)) => /\ IsFiniteSet(S)
                                            /\ Amounts(S) = SumFunctionOnSet(AmountOf, S)
                                            /\ Amounts(S) \in Nat
<1>1. \A p \in Attempts : Made(p) => AmountOf[p] \in Nat /\ AmountOf[p] = Amount(p)
  BY CapturedFacts, ItemSums DEF AmountOf, Amount
<1>2. ASSUME NEW S \in SUBSET Attempts, \A p \in S : Made(p)
      PROVE  /\ IsFiniteSet(S)
             /\ Amounts(S) = SumFunctionOnSet(AmountOf, S)
             /\ Amounts(S) \in Nat
  <2> DEFINE g == [p \in S |-> Amount(p)]
  <2>1. IsFiniteSet(S)
    BY FigureAssumption, FS_Subset
  <2>2. /\ DOMAIN g = S
        /\ \A p \in S : AmountOf[p] \in Int /\ AmountOf[p] \in Nat /\ g[p] = AmountOf[p]
    BY <1>1, <1>2
  <2>3. Amounts(S) = SumFunction(g)
    BY DEF Amounts
  <2> HIDE DEF g
  <2>4. SumFunction(g) = SumFunctionOnSet(AmountOf, S)
    BY <2>1, <2>2, SumOfFunction
  <2>5. SumFunctionOnSet(AmountOf, S) \in Nat
    BY <2>1, <2>2, SumNat
  <2> QED
    BY <2>1, <2>3, <2>4, <2>5
<1> QED
  BY <1>1, <1>2

\* The amount of an event is a field of it.
AmountsOf(rs) == [r \in rs |-> r.amount]

\* The four sums of the cash that came and went.
LEMMA BucketIs ==
    ASSUME NEW ps, NEW rs
    PROVE  LET all == Bucket(ps, rs) IN
           /\ DOMAIN all = {"captured", "captures", "refunded", "refunds"}
           /\ all = [f \in DOMAIN all |-> all[f]]
           /\ all["captured"] = Amounts(ps) /\ all["captures"] = Cardinality(ps)
           /\ all["refunded"] = SumFunction(AmountsOf(rs)) /\ all["refunds"] = Cardinality(rs)
BY DEF Bucket, AmountsOf

\* A bucket for each of the values that two keys take adds up to one bucket for all.
LEMMA BucketsAddUp ==
    ASSUME FigureInv, NEW R, IsFiniteSet(R), NEW rows, DOMAIN rows = R,
           NEW ps \in SUBSET Attempts, \A p \in ps : Made(p),
           NEW rs, IsFiniteSet(rs), \A r \in rs : r.amount \in Nat,
           NEW kp, \A p \in ps : kp[p] \in R,
           NEW kr, \A r \in rs : kr[r] \in R,
           \A v \in R : rows[v] = Bucket(Class(ps, kp, v), Class(rs, kr, v))
    PROVE  AddUp(rows, DOMAIN Bucket(ps, rs)) = Bucket(ps, rs)
<1> DEFINE Column(f) == [x \in R |-> rows[x][f]]
<1>0. \A v \in R : /\ rows[v]["captured"] = Amounts(Class(ps, kp, v))
                   /\ rows[v]["captures"] = Cardinality(Class(ps, kp, v))
                   /\ rows[v]["refunded"] = SumFunction(AmountsOf(Class(rs, kr, v)))
                   /\ rows[v]["refunds"] = Cardinality(Class(rs, kr, v))
  BY BucketIs
<1>1. IsFiniteSet(ps) /\ \A p \in ps : AmountOf[p] \in Int
  BY AmountSums
<1>2. SumFunctionOnSet(Column("captured"), R) = Amounts(ps)
  <2>1. \A v \in R : Column("captured")[v] = Amounts(Class(ps, kp, v))
    BY <1>0
  <2>2. \A v \in R : Amounts(Class(ps, kp, v)) = SumFunctionOnSet(AmountOf, Class(ps, kp, v))
    <3>1. \A v \in R : /\ Class(ps, kp, v) \in SUBSET Attempts
                       /\ \A p \in Class(ps, kp, v) : Made(p)
      BY DEF Class
    <3> QED
      BY <3>1, AmountSums
  <2>3. Amounts(ps) = SumFunctionOnSet(AmountOf, ps)
    BY AmountSums
  <2>4. \A v \in R : Column("captured")[v] = SumFunctionOnSet(AmountOf, Class(ps, kp, v))
    BY <2>1, <2>2
  <2> HIDE DEF Column
  <2> QED
    BY <1>1, <2>3, <2>4, SumOfParts
<1>3. SumFunctionOnSet(Column("captures"), R) = Cardinality(ps)
  <2> DEFINE count == [s \in R |-> Cardinality({a \in ps : kp[a] = s})]
  <2>1. Column("captures") = count
    BY <1>0 DEF Class
  <2> HIDE DEF Column
  <2> QED
    BY <1>1, <2>1, SumOfClasses
<1>4. SumFunctionOnSet(Column("refunds"), R) = Cardinality(rs)
  <2> DEFINE count == [s \in R |-> Cardinality({a \in rs : kr[a] = s})]
  <2>1. Column("refunds") = count
    BY <1>0 DEF Class
  <2> HIDE DEF Column
  <2> QED
    BY <2>1, SumOfClasses
<1>5. SumFunctionOnSet(Column("refunded"), R) = SumFunction(AmountsOf(rs))
  <2> DEFINE f == AmountsOf(rs)
  <2>1. DOMAIN f = rs /\ \A r \in rs : f[r] \in Int /\ f[r] = r.amount
    BY DEF AmountsOf
  <2>2. ASSUME NEW v \in R
        PROVE  Column("refunded")[v] = SumFunctionOnSet(f, Class(rs, kr, v))
    <3> DEFINE part == AmountsOf(Class(rs, kr, v))
    <3>1. Column("refunded")[v] = SumFunction(part)
      BY <1>0
    <3>2. IsFiniteSet(Class(rs, kr, v)) /\ DOMAIN part = Class(rs, kr, v)
          /\ \A r \in Class(rs, kr, v) : f[r] \in Int /\ part[r] = f[r]
      BY <2>1, FS_Subset DEF Class, AmountsOf
    <3> HIDE DEF part, f, Column
    <3> QED
      BY <3>1, <3>2, SumOfFunction
  <2> HIDE DEF Column, f
  <2>3. SumFunctionOnSet(Column("refunded"), R) = SumFunctionOnSet(f, rs)
    BY <2>1, <2>2, SumOfParts
  <2> QED
    BY <2>1, <2>3 DEF SumFunction, f
<1>6. \A f : SumFunction(Column(f)) = SumFunctionOnSet(Column(f), R)
  BY DEF SumFunction
<1>7. AddUp(rows, DOMAIN Bucket(ps, rs)) = [f \in DOMAIN Bucket(ps, rs) |-> SumFunction(Column(f))]
  BY DEF AddUp
<1> DEFINE all == Bucket(ps, rs)
<1> HIDE DEF Column, all
<1>9. \A f \in DOMAIN all : SumFunction(Column(f)) = all[f]
  BY <1>2, <1>3, <1>4, <1>5, <1>6, BucketIs DEF all
<1>10. AddUp(rows, DOMAIN all) = [f \in DOMAIN all |-> SumFunction(Column(f))]
       /\ all = [f \in DOMAIN all |-> all[f]]
  BY <1>7, BucketIs DEF all
<1>11. AddUp(rows, DOMAIN all) = all
  BY <1>9, <1>10
<1> QED
  BY <1>11 DEF all

\* The events of a refund, whether they come from the ledger or from the payments.
LEMMA EventFacts ==
    ASSUME FigureInv
    PROVE  /\ IsFiniteSet(RefundEvents)
           /\ \A r \in RefundEvents : r.amount \in Nat /\ r.payment \in Captured /\ r.at \in Int
<1>1. CASE ledger
  <2> DEFINE event == [r \in refund |-> [payment |-> r.payment, amount |-> r.goods + r.extra,
                                         at |-> r.at, n |-> r.n]]
  <2>1. RefundEvents = {event[r] : r \in refund}
    BY <1>1 DEF RefundEvents
  <2>2. IsFiniteSet(refund)
    BY DEF FigureInv, RefundsFit
  <2>3. ASSUME NEW r \in refund
        PROVE  event[r].amount \in Nat /\ event[r].payment \in Captured /\ event[r].at \in Int
    BY DEF FigureInv, RefundsFit, FigureTypeOK
  <2> HIDE DEF event
  <2> QED
    BY <2>1, <2>2, <2>3, ImagesFinite
<1>2. CASE ~ledger
  <2> DEFINE S == {q \in Attempts : payment[q].status = "refunded"}
             event == [p \in S |-> [payment |-> p, amount |-> Amount(p),
                                   at |-> payment[p].refunded, n |-> 0]]
  <2>1. RefundEvents = {event[p] : p \in S}
    BY <1>2 DEF RefundEvents
  <2>2. IsFiniteSet(S)
    BY FigureAssumption, FS_Subset
  <2>3. ASSUME NEW p \in S
        PROVE  event[p].amount \in Nat /\ event[p].payment \in Captured /\ event[p].at \in Int
    BY CapturedFacts, AmountSums DEF Made
  <2> HIDE DEF event, S
  <2> QED
    BY <2>1, <2>2, <2>3, ImagesFinite
<1> QED
  BY <1>1, <1>2

\* A window holds finitely many captures and refunds.
LEMMA WindowFacts ==
    ASSUME FigureInv, NEW w
    PROVE  /\ CapturedIn(w) \in SUBSET Attempts /\ CapturedIn(w) \subseteq Captured
           /\ IsFiniteSet(CapturedIn(w)) /\ \A p \in CapturedIn(w) : Made(p)
           /\ RefundedIn(w) \subseteq RefundEvents /\ IsFiniteSet(RefundedIn(w))
<1>1. CapturedIn(w) \subseteq Captured /\ RefundedIn(w) \subseteq RefundEvents
  BY DEF CapturedIn, RefundedIn
<1>2. \A p \in Captured : p \in Attempts /\ Made(p)
  BY DEF Captured, CapturedStatuses, Made
<1> QED
  BY <1>1, <1>2, CapturedFacts, EventFacts, FS_Subset

\* What the providers took and gave back is what the shop did.
LEMMA ProvidersAddUp ==
    ASSUME FigureInv, NEW w
    PROVE  AddUp(by_provider(w), DOMAIN get_financial_cashflow(w)) = get_financial_cashflow(w)
<1> DEFINE ps == CapturedIn(w)
           rs == RefundedIn(w)
           kp == [p \in ps |-> payment[p].provider]
           kr == [r \in rs |-> payment[r.payment].provider]
           rows == by_provider(w)
<1>1. /\ ps \in SUBSET Attempts /\ \A p \in ps : Made(p)
      /\ IsFiniteSet(rs) /\ \A r \in rs : r.amount \in Nat
  BY WindowFacts, EventFacts
<1>2. (\A p \in ps : kp[p] \in Providers) /\ \A r \in rs : kr[r] \in Providers
  BY WindowFacts, EventFacts, CapturedFacts
<1>3. DOMAIN rows = Providers
      /\ \A v \in Providers : rows[v] = Bucket(Class(ps, kp, v), Class(rs, kr, v))
  <2>1. \A v : /\ Class(ps, kp, v) = {p \in ps : payment[p].provider = v}
               /\ Class(rs, kr, v) = {r \in rs : payment[r.payment].provider = v}
    BY DEF Class
  <2> HIDE DEF kp, kr
  <2> QED
    BY <2>1 DEF by_provider
<1>4. IsFiniteSet(Providers)
  BY FigureAssumption
<1>5. get_financial_cashflow(w) = Bucket(ps, rs)
  BY DEF get_financial_cashflow
<1> HIDE DEF ps, rs, kp, kr, rows
<1>6. AddUp(rows, DOMAIN Bucket(ps, rs)) = Bucket(ps, rs)
  BY <1>1, <1>2, <1>3, <1>4, BucketsAddUp
<1> QED
  BY <1>5, <1>6 DEF rows

\* A window of time has its days.
WindowOK(w) == w.open \in BOOLEAN /\ w.from \in Int /\ w.before \in Int

LEMMA DayOfWindow ==
    ASSUME NEW w, WindowOK(w), ~w.open, NEW t \in Int, InWindow(t, w)
    PROVE  Day(t) \in DaysOf(w)
<1>1. w.from <= t /\ t <= w.before - 1 /\ w.before - 1 \in Int /\ w.from \in Int
  BY DEF WindowOK, InWindow
<1>2. Day(w.from) \in Int /\ Day(t) \in Int /\ Day(w.from) <= Day(t)
  BY <1>1, DaysInOrder
<1>3. Day(w.before - 1) \in Int /\ Day(t) <= Day(w.before - 1)
  BY <1>1, DaysInOrder
<1> QED
  BY <1>2, <1>3 DEF DaysOf

\* The days of a window add up to the window.
LEMMA DaysAddUp ==
    ASSUME FigureInv, NEW w, WindowOK(w), ~w.open
    PROVE  AddUp(daily_series(w), DOMAIN get_financial_cashflow(w)) = get_financial_cashflow(w)
<1> DEFINE ps == CapturedIn(w)
           rs == RefundedIn(w)
           kp == [p \in ps |-> Day(payment[p].paid)]
           kr == [r \in rs |-> Day(r.at)]
           rows == daily_series(w)
<1>1. /\ ps \in SUBSET Attempts /\ \A p \in ps : Made(p)
      /\ IsFiniteSet(rs) /\ \A r \in rs : r.amount \in Nat
  BY WindowFacts, EventFacts
<1>2. \A p \in ps : kp[p] \in DaysOf(w)
  <2>1. \A p \in ps : payment[p].paid \in Int /\ InWindow(payment[p].paid, w)
    BY WindowFacts, CapturedFacts DEF CapturedIn
  <2> QED
    BY <2>1, DayOfWindow
<1>3. \A r \in rs : kr[r] \in DaysOf(w)
  <2>1. \A r \in rs : r.at \in Int /\ InWindow(r.at, w)
    BY WindowFacts, EventFacts DEF RefundedIn
  <2> QED
    BY <2>1, DayOfWindow
<1>4. DOMAIN rows = DaysOf(w)
      /\ \A d \in DaysOf(w) : rows[d] = Bucket(Class(ps, kp, d), Class(rs, kr, d))
  <2>1. \A d : /\ Class(ps, kp, d) = {p \in ps : Day(payment[p].paid) = d}
               /\ Class(rs, kr, d) = {r \in rs : Day(r.at) = d}
    BY DEF Class
  <2> HIDE DEF kp, kr
  <2> QED
    BY <2>1 DEF daily_series
<1>5. IsFiniteSet(DaysOf(w))
  <2>1. Day(w.from) \in Int /\ Day(w.before - 1) \in Int
    BY DayHolds DEF WindowOK
  <2> QED
    BY <2>1, FS_Interval DEF DaysOf
<1>6. get_financial_cashflow(w) = Bucket(ps, rs)
  BY DEF get_financial_cashflow
<1> HIDE DEF ps, rs, kp, kr, rows
<1>7. AddUp(rows, DOMAIN Bucket(ps, rs)) = Bucket(ps, rs)
  BY <1>1, <1>2, <1>3, <1>4, <1>5, BucketsAddUp
<1> QED
  BY <1>6, <1>7 DEF rows

\* An item was sold in a window when a payment of its order was captured in it.
LEMMA SoldWhen ==
    ASSUME FigureInv, NEW i \in Items, NEW w
    PROVE  SoldIn(i, w) <=> \E p \in CapturedIn(w) : payment[p].order = i.order
<1>1. ASSUME NEW p \in Captured, payment[p].order = i.order
      PROVE  CapturedAt(i) = {payment[p].paid} /\ payment[p].paid \in Int
  BY <1>1, CapturedFacts DEF FigureInv, PaidByOne, CapturedAt
<1>2. \A t \in CapturedAt(i) : \E p \in Captured : payment[p].order = i.order
  BY DEF CapturedAt
<1>3. ASSUME SoldIn(i, w) PROVE \E p \in CapturedIn(w) : payment[p].order = i.order
  BY <1>1, <1>2, <1>3 DEF SoldIn, CapturedIn
<1>4. ASSUME NEW p \in CapturedIn(w), payment[p].order = i.order PROVE SoldIn(i, w)
  <2>1. p \in Captured /\ InWindow(payment[p].paid, w)
    BY DEF CapturedIn
  <2>2. CapturedAt(i) = {payment[p].paid} /\ payment[p].paid \in Int
    BY <1>1, <1>4, <2>1
  <2> QED
    BY <2>1, <2>2 DEF SoldIn
<1> QED
  BY <1>3, <1>4

SoldItems(w) == {i \in Items : SoldIn(i, w)}
LinesIn(w) == {r \in refund : InWindow(r.at, w)}
SellerOfLine == [r \in refund |-> sold[r.item]]
GoodsOf == [r \in refund |-> r.goods]
ExtraOf == [r \in refund |-> r.extra]

\* The lines of refunds in a window: finitely many, each of a seller.
LEMMA LineFacts ==
    ASSUME FigureInv
    PROVE  /\ \A r \in refund : /\ GoodsOf[r] \in Nat /\ GoodsOf[r] = r.goods
                                /\ ExtraOf[r] \in Nat /\ ExtraOf[r] = r.extra
                                /\ SellerOfLine[r] \in Sellers /\ SellerOfLine[r] = sold[r.item]
           /\ \A S \in SUBSET refund : /\ IsFiniteSet(S)
                                       /\ Goods(S) = SumFunctionOnSet(GoodsOf, S)
                                       /\ Extras(S) = SumFunctionOnSet(ExtraOf, S)
<1>1. \A r \in refund : /\ GoodsOf[r] \in Nat /\ GoodsOf[r] = r.goods
                        /\ ExtraOf[r] \in Nat /\ ExtraOf[r] = r.extra
                        /\ SellerOfLine[r] \in Sellers /\ SellerOfLine[r] = sold[r.item]
  BY DEF FigureInv, RefundsFit, FigureTypeOK, GoodsOf, ExtraOf, SellerOfLine
<1>2. ASSUME NEW S \in SUBSET refund
      PROVE  /\ IsFiniteSet(S)
             /\ Goods(S) = SumFunctionOnSet(GoodsOf, S)
             /\ Extras(S) = SumFunctionOnSet(ExtraOf, S)
  <2> DEFINE g == [r \in S |-> r.goods]
             e == [r \in S |-> r.extra]
  <2>1. IsFiniteSet(S)
    BY FS_Subset DEF FigureInv, RefundsFit
  <2>2. /\ DOMAIN g = S /\ \A r \in S : GoodsOf[r] \in Int /\ g[r] = GoodsOf[r]
        /\ DOMAIN e = S /\ \A r \in S : ExtraOf[r] \in Int /\ e[r] = ExtraOf[r]
    BY <1>1
  <2>3. Goods(S) = SumFunction(g) /\ Extras(S) = SumFunction(e)
    BY DEF Goods, Extras
  <2> HIDE DEF g, e
  <2> QED
    BY <2>1, <2>2, <2>3, SumOfFunction
<1> QED
  BY <1>1, <1>2

\* With the ledger on no item of an order is without a snapshot; without it none has one.
LEMMA LegacyEmpty ==
    ASSUME FigureInv, ledger, NEW s \in Sellers, NEW ps \in SUBSET Attempts,
           \A p \in ps : Made(p)
    PROVE  LegacyGross(Legacy(s, ps)) = 0 /\ Legacy(s, ps) = {}
<1>1. \A i \in Items, p \in ps : payment[p].order = i.order => sold[i] # NoOne
  BY FigureRows DEF FigureInv, AttemptsFit, SnapshotsFit
<1>2. Legacy(s, ps) = {}
  BY <1>1 DEF Legacy
<1>3. LegacyGross({}) = 0
  BY SumEmpty DEF LegacyGross, SumFunction
<1> QED
  BY <1>2, <1>3

\* A share of a seller adds up the items sold and the lines refunded that are its own.
LEMMA SellerShares ==
    ASSUME FigureInv, ledger, NEW s \in Sellers, NEW w
    PROVE  LET share == get_seller_analytics(s, w) IN
           /\ share["gross"] = SumFunctionOnSet(GrossOf, Class(SoldItems(w), sold, s))
           /\ share["discount"] = SumFunctionOnSet(DiscountOf, Class(SoldItems(w), sold, s))
           /\ share["refund"] = SumFunctionOnSet(GoodsOf, Class(LinesIn(w), SellerOfLine, s))
<1> DEFINE snapshots == {i \in Items : sold[i] = s /\ SoldIn(i, w)}
           lines == {r \in refund : sold[r.item] = s /\ InWindow(r.at, w)}
           back == {p \in Attempts : payment[p].status = "refunded"
                                     /\ InWindow(payment[p].refunded, w)}
           share == get_seller_analytics(s, w)
<1>1. /\ share["gross"] = Gross(snapshots) + LegacyGross(Legacy(s, CapturedIn(w)))
      /\ share["discount"] = Discount(snapshots)
      /\ share["refund"] = Goods(lines) + LegacyGross(Legacy(s, back))
  BY DEF get_seller_analytics
<1>2. snapshots = Class(SoldItems(w), sold, s) /\ snapshots \in SUBSET Items
  BY DEF Class, SoldItems
<1>3. lines = Class(LinesIn(w), SellerOfLine, s) /\ lines \in SUBSET refund
  BY DEF Class, LinesIn, SellerOfLine
<1>4. LegacyGross(Legacy(s, CapturedIn(w))) = 0
  BY WindowFacts, LegacyEmpty
<1>5. LegacyGross(Legacy(s, back)) = 0
  <2>1. back \in SUBSET Attempts /\ \A p \in back : Made(p)
    BY DEF Made
  <2> HIDE DEF back
  <2> QED
    BY <2>1, LegacyEmpty
<1> HIDE DEF snapshots, lines, back, share
<1>6. /\ Gross(snapshots) = SumFunctionOnSet(GrossOf, snapshots)
      /\ Discount(snapshots) = SumFunctionOnSet(DiscountOf, snapshots)
      /\ SumFunctionOnSet(GrossOf, snapshots) \in Int
  <2>1. IsFiniteSet(snapshots) /\ \A i \in snapshots : GrossOf[i] \in Int
    BY <1>2, ItemSums
  <2> QED
    BY <1>2, <2>1, ItemSums, SumInt
<1>7. Goods(lines) = SumFunctionOnSet(GoodsOf, lines) /\ SumFunctionOnSet(GoodsOf, lines) \in Int
  <2>1. IsFiniteSet(lines) /\ \A r \in lines : GoodsOf[r] \in Int
    BY <1>3, LineFacts
  <2> QED
    BY <1>3, <2>1, LineFacts, SumInt
<1> QED
  BY <1>1, <1>2, <1>3, <1>4, <1>5, <1>6, <1>7 DEF share

\* The sellers' shares of the merchandise are those of the items that were sold.
SellersOf(w) == [s \in Sellers |-> get_seller_analytics(s, w)]
LEMMA SharesAddUp ==
    ASSUME FigureInv, ledger, NEW w
    PROVE  LET sellers == AddUp(SellersOf(w), {"gross", "discount", "refund"}) IN
           /\ sellers["gross"] = SumFunctionOnSet(GrossOf, SoldItems(w))
           /\ sellers["discount"] = SumFunctionOnSet(DiscountOf, SoldItems(w))
           /\ sellers["refund"] = SumFunctionOnSet(GoodsOf, LinesIn(w))
<1> DEFINE rows == SellersOf(w)
           gross == [s \in Sellers |-> rows[s]["gross"]]
           discount == [s \in Sellers |-> rows[s]["discount"]]
           back == [s \in Sellers |-> rows[s]["refund"]]
           S == SoldItems(w)
           L == LinesIn(w)
<1>1. /\ SumFunctionOnSet(gross, Sellers) = AddUp(rows, {"gross", "discount", "refund"})["gross"]
      /\ SumFunctionOnSet(discount, Sellers)
            = AddUp(rows, {"gross", "discount", "refund"})["discount"]
      /\ SumFunctionOnSet(back, Sellers)
            = AddUp(rows, {"gross", "discount", "refund"})["refund"]
  BY DEF AddUp, SumFunction, SellersOf
<1>2. IsFiniteSet(S) /\ IsFiniteSet(L) /\ IsFiniteSet(Sellers)
  <2>1. S \in SUBSET Items /\ L \in SUBSET refund
    BY DEF SoldItems, LinesIn
  <2> HIDE DEF S, L
  <2> QED
    BY <2>1, ItemSums, LineFacts, FigureAssumption
<1>3. \A i \in S : sold[i] \in Sellers /\ GrossOf[i] \in Int /\ DiscountOf[i] \in Int
  <2> SUFFICES ASSUME NEW i \in Items, SoldIn(i, w)
               PROVE  sold[i] \in Sellers /\ GrossOf[i] \in Int /\ DiscountOf[i] \in Int
    BY DEF SoldItems
  <2>1. order[i.order].created # Never
    BY SoldWhen, WindowFacts, CapturedFacts
  <2> QED
    BY <2>1, ItemSums DEF FigureInv, SnapshotsFit
<1>4. \A r \in L : SellerOfLine[r] \in Sellers /\ GoodsOf[r] \in Int
  BY LineFacts DEF LinesIn
<1>5. \A s \in Sellers : /\ gross[s] = SumFunctionOnSet(GrossOf, Class(S, sold, s))
                         /\ discount[s] = SumFunctionOnSet(DiscountOf, Class(S, sold, s))
                         /\ back[s] = SumFunctionOnSet(GoodsOf, Class(L, SellerOfLine, s))
  BY SellerShares DEF SellersOf
<1> HIDE DEF gross, discount, back, S, L, rows
<1>6. SumFunctionOnSet(gross, Sellers) = SumFunctionOnSet(GrossOf, S)
  BY <1>2, <1>3, <1>5, SumOfParts
<1>7. SumFunctionOnSet(discount, Sellers) = SumFunctionOnSet(DiscountOf, S)
  BY <1>2, <1>3, <1>5, SumOfParts
<1>8. SumFunctionOnSet(back, Sellers) = SumFunctionOnSet(GoodsOf, L)
  BY <1>2, <1>4, <1>5, SumOfParts
<1> QED
  BY <1>1, <1>6, <1>7, <1>8 DEF rows, S, L

\* The items that were sold are the items of the orders that were captured.
LEMMA MerchandiseOfCaptured ==
    ASSUME FigureInv, NEW w
    PROVE  LET C == CapturedIn(w)
               extras == [p \in C |-> Extra[payment[p].order]] IN
           /\ Amounts(C) = SumFunctionOnSet(NetOf, SoldItems(w)) + SumFunctionOnSet(extras, C)
           /\ SumFunctionOnSet(extras, C) \in Int
<1> DEFINE C == CapturedIn(w)
           S == SoldItems(w)
           extras == [p \in C |-> Extra[payment[p].order]]
           nets == [p \in C |-> SumFunctionOnSet(NetOf, ItemsOf(payment[p].order))]
           k == [i \in S |-> CHOOSE p \in C : payment[p].order = i.order]
<1>1. /\ IsFiniteSet(C) /\ C \in SUBSET Attempts /\ C \subseteq Captured
      /\ \A p \in C : Made(p) /\ payment[p].order \in Orders
  BY WindowFacts, CapturedFacts
<1>2. S \in SUBSET Items /\ IsFiniteSet(S) /\ \A i \in S : NetOf[i] \in Int
  <2>1. S \in SUBSET Items
    BY DEF SoldItems
  <2> HIDE DEF S
  <2> QED
    BY <2>1, ItemSums
<1>3. \A p \in C : extras[p] \in Int /\ nets[p] \in Int /\ AmountOf[p] = nets[p] + extras[p]
  <2>1. \A p \in C : AmountOf[p] = Total(payment[p].order)
    BY <1>1 DEF AmountOf, Amount
  <2> HIDE DEF C
  <2> QED
    BY <1>1, <2>1, ItemSums
<1>4. \A i \in S : k[i] \in C /\ payment[k[i]].order = i.order
  BY SoldWhen DEF SoldItems
<1>5. ASSUME NEW p \in C PROVE Class(S, k, p) = ItemsOf(payment[p].order)
  <2>1. ASSUME NEW i \in S, k[i] = p PROVE i \in ItemsOf(payment[p].order)
    <3> HIDE DEF k, C, S
    <3> QED
      BY <1>2, <1>4, <2>1 DEF ItemsOf
  <2>2. ASSUME NEW i \in ItemsOf(payment[p].order) PROVE i \in S /\ k[i] = p
    <3>1. i \in Items /\ i.order = payment[p].order
      BY DEF ItemsOf
    <3>2. i \in S
      BY <3>1, SoldWhen DEF SoldItems
    <3> HIDE DEF k, C, S
    <3>3. k[i] \in Captured /\ p \in Captured /\ payment[k[i]].order = payment[p].order
      BY <1>1, <1>4, <3>1, <3>2
    <3> QED
      BY <3>2, <3>3 DEF FigureInv, PaidByOne
  <2> HIDE DEF k, C, S
  <2> QED
    BY <2>1, <2>2 DEF Class
<1>6. \A p \in C : nets[p] = SumFunctionOnSet(NetOf, Class(S, k, p))
  BY <1>5
<1>7. Amounts(C) = SumFunctionOnSet(AmountOf, C)
  BY <1>1, AmountSums
<1> HIDE DEF extras, nets, k, C, S
<1>8. SumFunctionOnSet(nets, C) = SumFunctionOnSet(NetOf, S)
  BY <1>1, <1>2, <1>4, <1>6, SumOfParts
<1>9. SumFunctionOnSet(AmountOf, C) = SumFunctionOnSet(nets, C) + SumFunctionOnSet(extras, C)
  BY <1>1, <1>3, SumPlus
<1>10. SumFunctionOnSet(extras, C) \in Int
  BY <1>1, <1>3, SumInt
<1> QED
  BY <1>7, <1>8, <1>9, <1>10 DEF extras, C, S

\* The events of a window are its lines, one each.
LEMMA LinesAreEvents ==
    ASSUME FigureInv, ledger, NEW w
    PROVE  /\ SumFunction(AmountsOf(RefundedIn(w)))
                = SumFunctionOnSet(GoodsOf, LinesIn(w)) + SumFunctionOnSet(ExtraOf, LinesIn(w))
           /\ SumFunctionOnSet(GoodsOf, LinesIn(w)) \in Int
           /\ SumFunctionOnSet(ExtraOf, LinesIn(w)) \in Int
<1> DEFINE L == LinesIn(w)
           T == RefundedIn(w)
           k == [r \in L |-> [payment |-> r.payment, amount |-> r.goods + r.extra, at |-> r.at,
                              n |-> r.n]]
           both == [r \in L |-> r.goods + r.extra]
           g == AmountsOf(T)
<1>1. L \in SUBSET refund
  BY DEF LinesIn
<1>2. T = {k[r] : r \in L}
  BY DEF RefundedIn, RefundEvents, LinesIn
<1>3. \A x, y \in L : k[x] = k[y] => x = y
  <2>1. \A x \in L : k[x].n = x.n
    OBVIOUS
  <2> HIDE DEF k, L
  <2> QED
    BY <1>1, <2>1 DEF FigureInv, RefundsFit
<1>4. \A r \in L : /\ GoodsOf[r] \in Int /\ ExtraOf[r] \in Int
                   /\ both[r] = GoodsOf[r] + ExtraOf[r] /\ both[r] \in Int
                   /\ k[r].amount = both[r]
  <2>1. \A r \in L : k[r].amount = both[r] /\ both[r] = r.goods + r.extra
    OBVIOUS
  <2> HIDE DEF k, both, L
  <2> QED
    BY <1>1, <2>1, LineFacts
<1>5. IsFiniteSet(L) /\ IsFiniteSet(T)
  <2> HIDE DEF L, T
  <2> QED
    BY <1>1, LineFacts, WindowFacts DEF T
<1>6. DOMAIN g = T /\ \A r \in L : k[r] \in T /\ g[k[r]] = both[r]
  <2>1. DOMAIN g = T /\ \A t \in T : g[t] = t.amount
    BY DEF AmountsOf
  <2> HIDE DEF k, both, L, T, g
  <2> QED
    BY <1>2, <1>4, <2>1
<1> HIDE DEF k, both, L, T, g
<1>7. SumFunctionOnSet(g, T) = SumFunctionOnSet(both, L)
  <2>1. \A t \in T : \E r \in L : k[r] = t
    BY <1>2
  <2>2. \A r \in L : both[r] \in Int /\ g[k[r]] = both[r] /\ k[r] \in T
    BY <1>4, <1>6
  <2> QED
    BY <1>3, <1>5, <2>1, <2>2, SumOfImages
<1>8. SumFunctionOnSet(both, L) = SumFunctionOnSet(GoodsOf, L) + SumFunctionOnSet(ExtraOf, L)
  BY <1>4, <1>5, SumPlus
<1>9. SumFunctionOnSet(GoodsOf, L) \in Int /\ SumFunctionOnSet(ExtraOf, L) \in Int
  BY <1>4, <1>5, SumInt
<1>10. SumFunction(g) = SumFunctionOnSet(g, T)
  BY <1>6 DEF SumFunction
<1> QED
  BY <1>7, <1>8, <1>9, <1>10 DEF g, L, T

\* The shares of the sellers and what is nobody's are what was captured and refunded.
LEMMA SellersAddUp ==
    ASSUME FigureInv, ledger, NEW w
    PROVE  LET cash == get_financial_cashflow(w)
               sellers == AddUp([s \in Sellers |-> get_seller_analytics(s, w)],
                                {"gross", "discount", "refund"})
               extras == SumFunction([p \in CapturedIn(w) |-> Extra[payment[p].order]])
               back == Extras({r \in refund : InWindow(r.at, w)})
           IN  /\ sellers.gross - sellers.discount + extras = cash.captured
               /\ sellers.refund + back = cash.refunded
<1> DEFINE sellers == AddUp([s \in Sellers |-> get_seller_analytics(s, w)],
                            {"gross", "discount", "refund"})
           each == [p \in CapturedIn(w) |-> Extra[payment[p].order]]
           S == SoldItems(w)
<1>1. /\ sellers.gross = SumFunctionOnSet(GrossOf, S)
      /\ sellers.discount = SumFunctionOnSet(DiscountOf, S)
      /\ sellers.refund = SumFunctionOnSet(GoodsOf, LinesIn(w))
  BY SharesAddUp DEF SellersOf
<1>2. /\ SumFunctionOnSet(GrossOf, S)
            = SumFunctionOnSet(NetOf, S) + SumFunctionOnSet(DiscountOf, S)
      /\ SumFunctionOnSet(NetOf, S) \in Int /\ SumFunctionOnSet(DiscountOf, S) \in Int
  <2>1. S \in SUBSET Items
    BY DEF SoldItems
  <2> HIDE DEF S
  <2>2. /\ IsFiniteSet(S)
        /\ \A i \in S : /\ NetOf[i] \in Int /\ DiscountOf[i] \in Int
                        /\ GrossOf[i] = NetOf[i] + DiscountOf[i]
    BY <2>1, ItemSums
  <2> QED
    BY <2>2, SumPlus, SumInt
<1>3. Extras({r \in refund : InWindow(r.at, w)}) = SumFunctionOnSet(ExtraOf, LinesIn(w))
  <2>1. LinesIn(w) \in SUBSET refund /\ LinesIn(w) = {r \in refund : InWindow(r.at, w)}
    BY DEF LinesIn
  <2> QED
    BY <2>1, LineFacts
<1>4. /\ get_financial_cashflow(w)["captured"] = Amounts(CapturedIn(w))
      /\ get_financial_cashflow(w)["refunded"] = SumFunction(AmountsOf(RefundedIn(w)))
  BY BucketIs DEF get_financial_cashflow
<1>5. /\ Amounts(CapturedIn(w)) = SumFunctionOnSet(NetOf, S) + SumFunction(each)
      /\ SumFunction(each) \in Int
  <2>1. SumFunction(each) = SumFunctionOnSet(each, CapturedIn(w))
    BY DEF SumFunction
  <2> QED
    BY <2>1, MerchandiseOfCaptured
<1> HIDE DEF sellers, each, S
<1>6. sellers.gross - sellers.discount + SumFunction(each)
          = get_financial_cashflow(w)["captured"]
  BY <1>1, <1>2, <1>4, <1>5
<1>7. sellers.refund + Extras({r \in refund : InWindow(r.at, w)})
          = get_financial_cashflow(w)["refunded"]
  BY <1>1, <1>3, <1>4, LinesAreEvents
<1> QED
  BY <1>6, <1>7 DEF sellers, each

\* Over all time what the sellers sold is what the products sold: every item of a paid order.
Always == get_financial_window("all", NoDates, LastInstant + 1)
PaidItems == {i \in Items : i.order \in Paid(OrdersIn(AllTime))}
ProductOf == [i \in Items |-> i.product]

\* A window and a range without bounds hold everything.
LEMMA AlwaysFacts ==
    ASSUME FigureInv
    PROVE  /\ CapturedIn(Always) = Captured
           /\ SoldItems(Always) = PaidItems
           /\ \A i \in Items : i \in PaidItems <=> \E p \in Captured : payment[p].order = i.order
<1>1. Always.open /\ Always.before = LastInstant + 1
  BY DEF Always, get_financial_window, NoDates
<1>2. CapturedIn(Always) = Captured
  BY <1>1, CapturedFacts, PeriodAssumption DEF CapturedIn, InWindow
<1>3. \A i \in Items : i \in SoldItems(Always) <=> \E p \in Captured : payment[p].order = i.order
  BY <1>2, SoldWhen DEF SoldItems
<1>4. ASSUME NEW i \in Items
      PROVE  i \in PaidItems <=> \E p \in Captured : payment[p].order = i.order
  <2>1. i.order \in Orders
    BY FigureRows
  <2>2. i \in PaidItems <=> order[i.order].created # Never /\ order[i.order].paid
    BY <2>1 DEF PaidItems, Paid, OrdersIn, InRange, AllTime
  <2>3. order[i.order].paid <=> \E p \in Captured : payment[p].order = i.order
    BY <2>1 DEF FigureInv, PaidByOne
  <2> QED
    BY <2>2, <2>3, CapturedFacts
<1>5. SoldItems(Always) = PaidItems
  BY <1>3, <1>4 DEF SoldItems, PaidItems
<1> QED
  BY <1>2, <1>4, <1>5

\* What each product earned adds up the items of the paid orders.
LEMMA PaidItemsAddUp ==
    SumFunction(get_top_selling_products_breakdown(AllTime)) = SumFunctionOnSet(GrossOf, PaidItems)
<1> DEFINE rows == get_top_selling_products_breakdown(AllTime)
<1>1. Products = {ProductOf[i] : i \in Items} /\ \A i \in PaidItems : ProductOf[i] \in Products
  BY DEF Products, ProductOf, PaidItems
<1>2. IsFiniteSet(Products)
  BY <1>1, ImagesFinite, FigureAssumption
<1>3. IsFiniteSet(PaidItems) /\ PaidItems \in SUBSET Items /\ \A i \in PaidItems : GrossOf[i] \in Int
  <2>1. PaidItems \in SUBSET Items
    BY DEF PaidItems
  <2> QED
    BY <2>1, ItemSums
<1>4. DOMAIN rows = Products
  BY DEF get_top_selling_products_breakdown
<1>5. ASSUME NEW x \in Products
      PROVE  rows[x] = SumFunctionOnSet(GrossOf, Class(PaidItems, ProductOf, x))
  <2>1. rows[x] = Gross({i \in Items : i.product = x /\ i.order \in Paid(OrdersIn(AllTime))})
    BY DEF get_top_selling_products_breakdown
  <2>2. {i \in Items : i.product = x /\ i.order \in Paid(OrdersIn(AllTime))}
            = Class(PaidItems, ProductOf, x)
    BY DEF Class, PaidItems, ProductOf
  <2>3. Class(PaidItems, ProductOf, x) \in SUBSET Items
    BY <1>3 DEF Class
  <2> HIDE DEF rows
  <2> QED
    BY <2>1, <2>2, <2>3, ItemSums
<1> HIDE DEF rows
<1>6. SumFunctionOnSet(rows, Products) = SumFunctionOnSet(GrossOf, PaidItems)
  BY <1>1, <1>2, <1>3, <1>5, SumOfParts
<1> QED
  BY <1>4, <1>6 DEF SumFunction, rows

\* What the sellers are said to have sold is what the products are.
LEMMA SellersAreProducts ==
    ASSUME FigureInv
    PROVE  SumFunction([s \in Sellers |-> get_seller_analytics(s, Always).gross])
               = SumFunction(get_top_selling_products_breakdown(AllTime))
<1> DEFINE gross == [s \in Sellers |-> get_seller_analytics(s, Always).gross]
<1>1. SumFunction(gross) = SumFunctionOnSet(gross, Sellers)
  BY DEF SumFunction
<1>2. CASE ledger
  <2>1. SumFunction(gross) = AddUp(SellersOf(Always), {"gross", "discount", "refund"})["gross"]
    BY DEF AddUp, SellersOf
  <2> HIDE DEF gross
  <2> QED
    BY <1>2, <2>1, SharesAddUp, AlwaysFacts, PaidItemsAddUp DEF gross
<1>3. CASE ~ledger
  <2> DEFINE Pairs == {x \in Items \X Captured : payment[x[2]].order = x[1].order}
             ownerOf == [x \in Pairs |-> owner[x[1].product]]
             pairGross == [x \in Pairs |-> x[1].gross]
             first == [x \in Pairs |-> x[1]]
  <2>1. IsFiniteSet(Pairs)
    <3>1. IsFiniteSet(Items \X Captured)
      BY CapturedFacts, FigureAssumption, FS_Product
    <3> QED
      BY <3>1, FS_Subset
  <2>2. \A x \in Pairs : /\ ownerOf[x] \in Sellers /\ pairGross[x] \in Int
                         /\ first[x] \in PaidItems /\ GrossOf[first[x]] = pairGross[x]
    <3> SUFFICES ASSUME NEW i \in Items, NEW p \in Captured, payment[p].order = i.order
                 PROVE  /\ owner[i.product] \in Sellers /\ i.gross \in Int
                        /\ i \in PaidItems /\ GrossOf[i] = i.gross
      OBVIOUS
    <3>1. owner[i.product] \in Sellers
      BY FigureRows DEF FigureInv, FigureTypeOK
    <3> QED
      BY <3>1, AlwaysFacts, ItemSums
  <2>3. \A x, y \in Pairs : first[x] = first[y] => x = y
    <3> SUFFICES ASSUME NEW i \in Items, NEW p \in Captured, NEW q \in Captured,
                        payment[p].order = i.order, payment[q].order = i.order
                 PROVE  <<i, p>> = <<i, q>>
      OBVIOUS
    <3> QED
      BY DEF FigureInv, PaidByOne
  <2>4. \A i \in PaidItems : \E x \in Pairs : first[x] = i
    <3> SUFFICES ASSUME NEW i \in PaidItems
                 PROVE  \E x \in Pairs : first[x] = i
      OBVIOUS
    <3>1. i \in Items
      BY DEF PaidItems
    <3>2. PICK p \in Captured : payment[p].order = i.order
      BY <3>1, AlwaysFacts
    <3>3. <<i, p>> \in Pairs
      BY <3>1, <3>2
    <3>4. first[<<i, p>>] = i
      BY <3>3
    <3> QED
      BY <3>3, <3>4
  <2>5. ASSUME NEW s \in Sellers
        PROVE  gross[s] = SumFunctionOnSet(pairGross, Class(Pairs, ownerOf, s))
    <3> DEFINE snapshots == {i \in Items : sold[i] = s /\ SoldIn(i, Always)}
               legacy == Legacy(s, Captured)
    <3>1. gross[s] = Gross(snapshots) + LegacyGross(Legacy(s, CapturedIn(Always)))
      BY DEF get_seller_analytics
    <3>2. snapshots = {}
      BY <1>3, FigureRows DEF FigureInv, SnapshotsFit
    <3>3. Gross({}) = 0
      BY SumEmpty DEF Gross, SumFunction
    <3>4. legacy = Class(Pairs, ownerOf, s)
      <4>1. \A i \in Items : sold[i] = NoOne
        BY <1>3 DEF FigureInv, SnapshotsFit
      <4>2. legacy = {x \in Pairs : owner[x[1].product] = s}
        BY <4>1 DEF Legacy
      <4>3. Class(Pairs, ownerOf, s) = {x \in Pairs : owner[x[1].product] = s}
        <5>1. \A x \in Pairs : ownerOf[x] = owner[x[1].product]
          OBVIOUS
        <5> HIDE DEF Pairs, ownerOf
        <5> QED
          BY <5>1 DEF Class
      <4> QED
        BY <4>2, <4>3
    <3>5. LegacyGross(legacy) = SumFunctionOnSet(pairGross, legacy)
          /\ SumFunctionOnSet(pairGross, legacy) \in Int
      <4> DEFINE g == [x \in legacy |-> x[1].gross]
      <4>1. LegacyGross(legacy) = SumFunction(g) /\ DOMAIN g = legacy
        BY DEF LegacyGross
      <4>2. legacy \subseteq Pairs
        BY <3>4 DEF Class
      <4>3. \A x \in legacy : pairGross[x] \in Int /\ g[x] = pairGross[x]
        BY <2>2, <4>2
      <4>4. IsFiniteSet(legacy)
        BY <2>1, <4>2, FS_Subset
      <4> HIDE DEF legacy, g, pairGross
      <4> QED
        BY <4>1, <4>3, <4>4, SumOfFunction, SumInt
    <3> HIDE DEF gross, snapshots, legacy, pairGross
    <3>6. gross[s] = 0 + LegacyGross(legacy)
      BY <3>1, <3>2, <3>3, AlwaysFacts DEF legacy
    <3> QED
      BY <3>4, <3>5, <3>6
  <2> HIDE DEF gross, Pairs, ownerOf, pairGross, first
  <2>6. IsFiniteSet(Sellers)
    BY FigureAssumption
  <2>7. SumFunctionOnSet(gross, Sellers) = SumFunctionOnSet(pairGross, Pairs)
    BY <2>1, <2>2, <2>5, <2>6, SumOfParts
  <2>8. IsFiniteSet(PaidItems)
    <3>1. PaidItems \in SUBSET Items
      BY DEF PaidItems
    <3> QED
      BY <3>1, ItemSums
  <2>9. SumFunctionOnSet(GrossOf, PaidItems) = SumFunctionOnSet(pairGross, Pairs)
    <3>1. \A x \in Pairs : first[x] \in PaidItems
      BY <2>2
    <3>2. \A x \in Pairs : pairGross[x] \in Int /\ GrossOf[first[x]] = pairGross[x]
      BY <2>2
    <3> QED
      BY <2>1, <2>3, <2>4, <2>8, <3>1, <3>2, SumOfImages
  <2> QED
    BY <1>1, <2>7, <2>9, PaidItemsAddUp DEF gross
<1> QED
  BY <1>2, <1>3

\* No attempt without its times, and no order paid twice.
LEMMA NothingToWarnOf ==
    ASSUME FigureInv
    PROVE  LET quality == get_financial_data_quality IN
           \A kind \in DOMAIN quality : quality[kind] = {}
<1>1. {p \in Captured : payment[p].paid = Never} = {}
  BY CapturedFacts DEF Never
<1>2. {p \in Attempts : payment[p].status = "refunded" /\ payment[p].refunded = Never} = {}
  BY CapturedFacts DEF Never
<1>3. {o \in Orders : Cardinality({p \in Captured : payment[p].order = o}) > 1} = {}
  <2> SUFFICES ASSUME NEW o \in Orders
               PROVE  ~(Cardinality({p \in Captured : payment[p].order = o}) > 1)
    OBVIOUS
  <2> DEFINE S == {p \in Captured : payment[p].order = o}
  <2> SUFFICES ~(Cardinality(S) > 1)
    OBVIOUS
  <2>1. CASE S = {}
    BY <2>1, FS_EmptySet
  <2>2. CASE S # {}
    <3>1. PICK p \in S : TRUE
      BY <2>2
    <3>2. S = {p}
      BY <3>1 DEF FigureInv, PaidByOne
    <3>3. Cardinality({p}) = 1
      BY FS_Singleton
    <3> HIDE DEF S
    <3> QED
      BY <3>2, <3>3
  <2> QED
    BY <2>1, <2>2
<1> DEFINE quality == get_financial_data_quality
<1>4. /\ DOMAIN quality = {"unpaid", "undated", "repeated"}
      /\ quality["unpaid"] = {} /\ quality["undated"] = {} /\ quality["repeated"] = {}
  BY <1>1, <1>2, <1>3 DEF get_financial_data_quality
<1> HIDE DEF quality
<1> QED
  BY <1>4 DEF quality

\* The windows that a request can ask for.
LEMMA WindowsOK ==
    ASSUME FigureInv, NEW w \in Windows
    PROVE  WindowOK(w)
<1>1. now \in Int
  BY DEF FigureInv, FigureTypeOK
<1>2. \A d \in Int : Midnight(d) \in Int
  BY Lengths DEF Midnight
<1>3. LastDay \in Int
  BY PeriodAssumption, DayHolds DEF LastDay
<1>4. CASE \E d \in Dates : w = get_financial_window("all", d, now)
  <2>1. PICK d \in Dates : w = get_financial_window("all", d, now)
    BY <1>4
  <2>2. d[1] \in Int /\ d[2] \in Int /\ d[2] + 1 \in Int /\ d # NoDates
    BY <1>3 DEF Dates, NoDates
  <2>3. w = [open |-> FALSE, from |-> Midnight(d[1]), before |-> Midnight(d[2] + 1)]
    BY <2>1, <2>2 DEF get_financial_window
  <2> QED
    BY <1>2, <2>2, <2>3 DEF WindowOK
<1>5. CASE \E period \in RequestPeriods : w = get_financial_window(period, NoDates, now)
  <2>1. PICK period \in RequestPeriods : w = get_financial_window(period, NoDates, now)
    BY <1>5
  <2>2. CASE period = "all"
    <3>1. w = [open |-> TRUE, from |-> 0, before |-> now]
      BY <2>1, <2>2 DEF get_financial_window
    <3> QED
      BY <1>1, <3>1 DEF WindowOK
  <2>3. CASE period # "all"
    <3> DEFINE back == IF period = "today" THEN 1 ELSE PeriodDays[period]
    <3>1. Day(now) + 1 - back \in Int
      <4>1. back \in Nat
        BY <2>3, PeriodAssumption DEF RequestPeriods
      <4>2. Day(now) \in Int
        BY <1>1, DayHolds
      <4> HIDE DEF back
      <4> QED
        BY <4>1, <4>2
    <3>2. w = [open |-> FALSE, before |-> now, from |-> Midnight(Day(now) + 1 - back)]
      BY <2>1, <2>3 DEF get_financial_window
    <3> HIDE DEF back
    <3> QED
      BY <1>1, <1>2, <3>1, <3>2 DEF WindowOK
  <2> QED
    BY <2>2, <2>3
<1> QED
  BY <1>4, <1>5 DEF Windows

\* The two halves of FiguresAgree: this one of money.
LEMMA Reconciled == FigureInv => FiguresReconcile
<1> SUFFICES ASSUME FigureInv PROVE FiguresReconcile
  OBVIOUS
<1>1. ASSUME NEW w \in Windows
      PROVE  LET cash == get_financial_cashflow(w)
                 sellers == AddUp([s \in Sellers |-> get_seller_analytics(s, w)],
                                  {"gross", "discount", "refund"})
                 extras == SumFunction([p \in CapturedIn(w) |-> Extra[payment[p].order]])
                 back == Extras({r \in refund : InWindow(r.at, w)})
             IN  /\ AddUp(by_provider(w), DOMAIN cash) = cash
                 /\ ~w.open => AddUp(daily_series(w), DOMAIN cash) = cash
                 /\ ledger => /\ sellers.gross - sellers.discount + extras = cash.captured
                              /\ sellers.refund + back = cash.refunded
  BY WindowsOK, ProvidersAddUp, DaysAddUp, SellersAddUp
<1>2. SumFunction([s \in Sellers |-> get_seller_analytics(s, Always).gross])
          = SumFunction(get_top_selling_products_breakdown(AllTime))
  BY SellersAreProducts
<1> QED
  BY <1>1, <1>2, NothingToWarnOf DEF FiguresReconcile, Always

\* Each figure as a sum over rows.
FigureSums ==
    /\ \A p \in Captured : AmountOf[p] \in Nat /\ AmountOf[p] = Total(payment[p].order)
    /\ \A r \in refund : GoodsOf[r] \in Nat /\ GoodsOf[r] = r.goods
    /\ \A w : /\ IsFiniteSet(CapturedIn(w))
              /\ Amounts(CapturedIn(w)) = SumFunctionOnSet(AmountOf, CapturedIn(w))
              /\ IsFiniteSet(RefundedIn(w)) /\ \A r \in RefundedIn(w) : r.amount \in Nat
              /\ IsFiniteSet(LinesIn(w))
              /\ \A i \in Items : SoldIn(i, w) <=> \E p \in CapturedIn(w) : payment[p].order = i.order
              /\ ledger => \A s \in Sellers :
                    LET share == get_seller_analytics(s, w) IN
                    /\ share["gross"] = SumFunctionOnSet(GrossOf, Class(SoldItems(w), sold, s))
                    /\ share["refund"]
                           = SumFunctionOnSet(GoodsOf, Class(LinesIn(w), SellerOfLine, s))

\* FigureSums can then be used of the next state as well.
LEMMA SumsHold == FigureInv => FigureSums
<1> SUFFICES ASSUME FigureInv PROVE FigureSums
  OBVIOUS
<1>1. \A p \in Captured : AmountOf[p] \in Nat /\ AmountOf[p] = Total(payment[p].order)
  <2>1. \A p \in Captured : p \in Attempts /\ Made(p)
    BY DEF Captured, CapturedStatuses, Made
  <2> QED
    BY <2>1, AmountSums DEF Amount
<1>2. \A r \in refund : GoodsOf[r] \in Nat /\ GoodsOf[r] = r.goods
  BY LineFacts
<1>3. ASSUME NEW w
      PROVE  /\ IsFiniteSet(CapturedIn(w))
             /\ Amounts(CapturedIn(w)) = SumFunctionOnSet(AmountOf, CapturedIn(w))
             /\ IsFiniteSet(RefundedIn(w)) /\ \A r \in RefundedIn(w) : r.amount \in Nat
             /\ IsFiniteSet(LinesIn(w))
  <2>1. LinesIn(w) \in SUBSET refund
    BY DEF LinesIn
  <2> QED
    BY <2>1, WindowFacts, AmountSums, EventFacts, LineFacts
<1>4. \A w : \A i \in Items : SoldIn(i, w) <=> \E p \in CapturedIn(w) : payment[p].order = i.order
  BY SoldWhen
<1>5. ASSUME ledger, NEW w, NEW s \in Sellers
      PROVE  LET share == get_seller_analytics(s, w) IN
             /\ share["gross"] = SumFunctionOnSet(GrossOf, Class(SoldItems(w), sold, s))
             /\ share["refund"] = SumFunctionOnSet(GoodsOf, Class(LinesIn(w), SellerOfLine, s))
  BY <1>5, SellerShares
<1> QED
  BY <1>1, <1>2, <1>3, <1>4, <1>5 DEF FigureSums

\* A day keeps its captures, each with its amount.
LEMMA CapturesStay ==
    ASSUME FigureSums, FigureSums', FiguresGrow, NEW w
    PROVE  /\ CapturedIn(w) \subseteq CapturedIn(w)'
           /\ get_financial_cashflow(w)["captured"] <= get_financial_cashflow(w)["captured"]'
<1>1. \A p \in CapturedIn(w) : p \in Captured /\ InWindow(payment[p].paid, w)
  BY DEF CapturedIn
<1>2. CapturedIn(w) \subseteq CapturedIn(w)'
  BY <1>1 DEF FiguresGrow, CapturedIn
<1> DEFINE S == CapturedIn(w)
           T == CapturedIn(w)'
           f == AmountOf
           g == AmountOf'
<1>3. /\ IsFiniteSet(S) /\ IsFiniteSet(T)
      /\ get_financial_cashflow(w)["captured"] = SumFunctionOnSet(f, S)
      /\ get_financial_cashflow(w)["captured"]' = SumFunctionOnSet(g, T)
  BY DEF FigureSums, get_financial_cashflow, Bucket
<1>4. /\ \A p \in S : f[p] \in Int /\ f[p] = g[p]
      /\ \A p \in T : g[p] \in Nat
  <2>1. \A p \in S : /\ p \in Captured /\ f[p] \in Nat /\ f[p] = Total(payment[p].order)
                     /\ payment'[p].order = payment[p].order
    BY <1>1 DEF FigureSums, FiguresGrow
  <2>2. \A p \in T : p \in Captured' /\ g[p] \in Nat /\ g[p] = Total(payment'[p].order)
    BY DEF FigureSums, CapturedIn, Total, ItemsOf, Net
  <2>3. S \subseteq T
    BY <1>2
  <2> HIDE DEF S, T, f, g
  <2> QED
    BY <2>1, <2>2, <2>3
<1>5. S \in SUBSET T
  BY <1>2
<1> HIDE DEF S, T, f, g
<1>6. SumFunctionOnSet(f, S) = SumFunctionOnSet(g, S)
  BY <1>3, <1>4, SumSame
<1>7. SumFunctionOnSet(g, S) <= SumFunctionOnSet(g, T)
  BY <1>3, <1>4, <1>5, SumPart
<1> QED
  BY <1>2, <1>3, <1>6, <1>7

\* A day keeps its refunds.
LEMMA RefundsStay ==
    ASSUME FigureInv, FigureSums, FigureSums', FiguresGrow, NEW w
    PROVE  get_financial_cashflow(w)["refunded"] <= get_financial_cashflow(w)["refunded"]'
<1> DEFINE S == RefundedIn(w)
           T == RefundedIn(w)'
           f == AmountsOf(S)
           g == AmountsOf(T)
<1>1. RefundEvents \subseteq RefundEvents'
  <2>1. CASE ledger
    BY <2>1 DEF RefundEvents, FiguresGrow
  <2>2. CASE ~ledger
    <3>1. \A p \in Attempts : payment[p].status = "refunded" =>
              /\ payment'[p].status = "refunded" /\ payment'[p].refunded = payment[p].refunded
              /\ Amount(p)' = Amount(p)
      BY DEF FiguresGrow, Amount, Total, ItemsOf, Net
    <3> QED
      BY <2>2, <3>1 DEF RefundEvents, FiguresGrow
  <2> QED
    BY <2>1, <2>2
<1>2. S \subseteq T
  BY <1>1 DEF RefundedIn
<1>3. /\ IsFiniteSet(S) /\ IsFiniteSet(T)
      /\ get_financial_cashflow(w)["refunded"] = SumFunctionOnSet(f, S)
      /\ get_financial_cashflow(w)["refunded"]' = SumFunctionOnSet(g, T)
  BY DEF FigureSums, get_financial_cashflow, Bucket, AmountsOf, SumFunction
<1>4. /\ \A r \in S : f[r] \in Int /\ f[r] = g[r]
      /\ \A r \in T : g[r] \in Nat
  <2>1. (\A r \in S : f[r] = r.amount) /\ \A r \in T : g[r] = r.amount
    BY DEF AmountsOf
  <2>2. \A r \in T : r.amount \in Nat
    BY DEF FigureSums
  <2> HIDE DEF S, T, f, g
  <2> QED
    BY <1>2, <2>1, <2>2
<1> HIDE DEF S, T, f, g
<1>5. SumFunctionOnSet(f, S) = SumFunctionOnSet(g, S)
  BY <1>3, <1>4, SumSame
<1>6. SumFunctionOnSet(g, S) <= SumFunctionOnSet(g, T)
  BY <1>2, <1>3, <1>4, SumPart
<1> QED
  BY <1>3, <1>5, <1>6

\* A day keeps the items and the lines of each seller.
LEMMA SharesStay ==
    ASSUME FigureInv, FigureInv', FigureSums, FigureSums', FiguresGrow, ledger,
           NEW s \in Sellers, NEW w
    PROVE  /\ get_seller_analytics(s, w)["gross"] <= get_seller_analytics(s, w)["gross"]'
           /\ get_seller_analytics(s, w)["refund"] <= get_seller_analytics(s, w)["refund"]'
<1>0. ledger' /\ s # NoOne
  BY FigureRows DEF FiguresGrow
<1> DEFINE S == Class(SoldItems(w), sold, s)
           T == Class(SoldItems(w), sold, s)'
           L == Class(LinesIn(w), SellerOfLine, s)
           M == Class(LinesIn(w), SellerOfLine, s)'
           f == GoodsOf
           g == GoodsOf'
<1>1. /\ get_seller_analytics(s, w)["gross"] = SumFunctionOnSet(GrossOf, S)
      /\ get_seller_analytics(s, w)["refund"] = SumFunctionOnSet(f, L)
  BY DEF FigureSums
<1>2. /\ get_seller_analytics(s, w)["gross"]' = SumFunctionOnSet(GrossOf, T)
      /\ get_seller_analytics(s, w)["refund"]' = SumFunctionOnSet(g, M)
  BY <1>0 DEF FigureSums, GrossOf
<1>3. S \subseteq T /\ T \in SUBSET Items
  <2>1. \A i \in Items : SoldIn(i, w) => SoldIn(i, w)'
    <3> SUFFICES ASSUME NEW i \in Items, SoldIn(i, w) PROVE SoldIn(i, w)'
      OBVIOUS
    <3>1. PICK p \in CapturedIn(w) : payment[p].order = i.order
      BY DEF FigureSums
    <3>2. p \in Captured /\ p \in CapturedIn(w)'
      BY CapturesStay DEF CapturedIn
    <3>3. payment'[p].order = i.order
      BY <3>1, <3>2 DEF FiguresGrow
    <3> QED
      BY <3>2, <3>3 DEF FigureSums
  <2>2. \A i \in Items : sold[i] = s => sold'[i] = s
    BY <1>0 DEF FiguresGrow
  <2> QED
    BY <2>1, <2>2 DEF SoldItems, Class
<1>4. IsFiniteSet(T) /\ \A i \in T : GrossOf[i] \in Nat
  <2> HIDE DEF T
  <2> QED
    BY <1>3, ItemSums
<1>5. L \subseteq M
  <2>1. \A r \in refund : sold[r.item] = s => r \in refund' /\ sold'[r.item] = s
    <3>1. \A r \in refund : r.item \in Items
      BY DEF FigureInv, FigureTypeOK
    <3> QED
      BY <1>0, <3>1 DEF FiguresGrow
  <2> QED
    BY <2>1 DEF Class, LinesIn, SellerOfLine
<1>6. IsFiniteSet(M) /\ IsFiniteSet(L)
  <2>1. M \subseteq LinesIn(w)' /\ L \subseteq LinesIn(w)
    BY DEF Class
  <2> HIDE DEF M, L
  <2> QED
    BY <2>1, FS_Subset DEF FigureSums
<1>7. (\A r \in L : f[r] \in Int /\ f[r] = g[r]) /\ \A r \in M : g[r] \in Nat
  <2>1. L \subseteq refund /\ M \subseteq refund'
    BY DEF Class, LinesIn
  <2>2. \A r \in refund : f[r] \in Nat /\ f[r] = r.goods
    BY DEF FigureSums
  <2>3. \A r \in refund' : g[r] \in Nat /\ g[r] = r.goods
    BY DEF FigureSums
  <2> HIDE DEF L, M, f, g
  <2> QED
    BY <1>5, <2>1, <2>2, <2>3
<1> HIDE DEF S, T, L, M, f, g
<1>8. SumFunctionOnSet(GrossOf, S) <= SumFunctionOnSet(GrossOf, T)
  BY <1>3, <1>4, SumPart
<1>9. SumFunctionOnSet(f, L) = SumFunctionOnSet(g, L)
  BY <1>6, <1>7, SumSame
<1>10. SumFunctionOnSet(g, L) <= SumFunctionOnSet(g, M)
  BY <1>5, <1>6, <1>7, SumPart
<1> QED
  BY <1>1, <1>2, <1>8, <1>9, <1>10

\* What a calendar day was once said to have captured and refunded, and with the ledger on the
\* gross and the refunds of each seller in it, no later step makes less.
THEOREM PastFiguresAlwaysStand == FigureSpec => PastFiguresStand
<1> DEFINE Kept ==
        \A d \in 0..LastDay :
           LET window == get_financial_window("all", <<d, d>>, now)
               cash == get_financial_cashflow(window)
               later == get_financial_cashflow(window)'
           IN  /\ cash.captured <= later.captured /\ cash.refunded <= later.refunded
               /\ ledger => \A s \in Sellers :
                      LET share == get_seller_analytics(s, window)
                          newer == get_seller_analytics(s, window)'
                      IN  share.gross <= newer.gross /\ share.refund <= newer.refund
<1>1. FigureSums' \/ ~FigureInv'
  BY SumsHold, PTL
<1>2. ASSUME FigureInv, FigureInv', FiguresGrow PROVE Kept
  <2> SUFFICES ASSUME NEW d \in 0..LastDay
               PROVE  LET window == get_financial_window("all", <<d, d>>, now)
                          cash == get_financial_cashflow(window)
                          later == get_financial_cashflow(window)'
                      IN  /\ cash.captured <= later.captured /\ cash.refunded <= later.refunded
                          /\ ledger => \A s \in Sellers :
                                LET share == get_seller_analytics(s, window)
                                    newer == get_seller_analytics(s, window)'
                                IN  share.gross <= newer.gross /\ share.refund <= newer.refund
    OBVIOUS
  <2> DEFINE w == [open |-> FALSE, from |-> Midnight(d), before |-> Midnight(d + 1)]
  <2>1. get_financial_window("all", <<d, d>>, now) = w
        /\ get_financial_window("all", <<d, d>>, now)' = w
    BY DEF get_financial_window, NoDates, Midnight
  <2>2. FigureSums /\ FigureSums'
    BY <1>1, <1>2, SumsHold
  <2>3. /\ get_financial_cashflow(w)["captured"] <= get_financial_cashflow(w)["captured"]'
        /\ get_financial_cashflow(w)["refunded"] <= get_financial_cashflow(w)["refunded"]'
        /\ ledger => \A s \in Sellers :
              /\ get_seller_analytics(s, w)["gross"] <= get_seller_analytics(s, w)["gross"]'
              /\ get_seller_analytics(s, w)["refund"] <= get_seller_analytics(s, w)["refund"]'
    <3> HIDE DEF w
    <3> QED
      BY <1>2, <2>2, CapturesStay, RefundsStay, SharesStay
  <2> HIDE DEF w
  <2> QED
    BY <2>1, <2>3
<1>3. FigureInv /\ [FigureNext]_figureVars => FigureInv' /\ [Kept]_moneyVars
  BY <1>2, FigureInvNext
<1> HIDE DEF Kept
<1>4. FigureSpec => [][Kept]_moneyVars
  BY <1>3, FiguresBegin, PTL DEF FigureSpec
<1> QED
  BY <1>4 DEF Kept, PastFiguresStand

(***************************************************************************)
(* Figures: the surfaces that show the same rows, counted and summed in    *)
(* their own ways.                                                         *)
(***************************************************************************)
\* The sum of a column of a table.
LEMMA ColumnSum ==
    ASSUME NEW rows, NEW fields, NEW f \in fields
    PROVE  AddUp(rows, fields)[f]
               = SumFunctionOnSet([x \in DOMAIN rows |-> rows[x][f]], DOMAIN rows)
BY DEF AddUp, SumFunction

\* A range of dates, perhaps of all time.
RangeOK(r) == r \in [bounded : BOOLEAN, from : Int, to : Int] /\ (r.bounded => r.from <= r.to)

LEMMA AllTimeOK == RangeOK(AllTime) /\ ~AllTime.bounded /\ \A t : InRange(t, AllTime)
BY DEF AllTime, RangeOK, InRange

\* The ranges that a request can ask for.
LEMMA RangesOK ==
    ASSUME FigureInv, NEW r \in Ranges
    PROVE  RangeOK(r)
<1>1. now \in Int
  BY DEF FigureInv, FigureTypeOK
<1>2. LastDay \in Int
  BY PeriodAssumption, DayHolds DEF LastDay
<1>3. CASE \E d \in Dates : r = get_date_range("all", d, now)
  <2>1. PICK d \in Dates : r = get_date_range("all", d, now)
    BY <1>3
  <2>2. PICK x \in Int, y \in Int : x = d[1] /\ y = d[2] /\ x < y + 1 /\ y + 1 \in Int
    BY <1>2 DEF Dates
  <2>3. d # NoDates
    BY DEF Dates, NoDates
  <2>4. r = Between(Midnight(x), Midnight(y + 1) - 1)
    BY <2>1, <2>2, <2>3 DEF get_date_range
  <2>5. /\ Midnight(x) \in Int /\ Midnight(y + 1) \in Int
        /\ Midnight(x) + DayLength <= Midnight(y + 1)
    BY <2>2, DaysFollow
  <2> QED
    BY <2>4, <2>5, Lengths DEF Between, RangeOK
<1>4. CASE \E period \in RequestPeriods : r = get_date_range(period, NoDates, now)
  <2>1. PICK period \in RequestPeriods : r = get_date_range(period, NoDates, now)
    BY <1>4
  <2>2. CASE period = "today"
    <3>1. r = Between(Midnight(Day(now)), now)
      BY <2>1, <2>2, PeriodAssumption DEF get_date_range
    <3>2. Midnight(Day(now)) \in Int /\ Midnight(Day(now)) <= now
      BY <1>1, DayHolds
    <3> QED
      BY <1>1, <3>1, <3>2 DEF Between, RangeOK
  <2>3. CASE period # "today" /\ period \in DOMAIN PeriodDays
    <3>1. PICK k \in Int : k = PeriodDays[period] * DayLength /\ k >= 0
      <4>1. PeriodDays[period] \in Nat
        BY <2>3, PeriodAssumption
      <4> QED
        BY <4>1, Lengths
    <3>2. r = Between(now - k, now)
      BY <2>1, <2>3, <3>1 DEF get_date_range
    <3> QED
      BY <1>1, <3>1, <3>2 DEF Between, RangeOK
  <2>4. CASE period # "today" /\ period \notin DOMAIN PeriodDays
    <3>1. r = AllTime
      BY <2>1, <2>4 DEF get_date_range
    <3> QED
      BY <3>1, AllTimeOK
  <2> QED
    BY <2>2, <2>3, <2>4
<1> QED
  BY <1>3, <1>4 DEF Ranges

\* The rows that are counted are finite.
LEMMA RowsFinite ==
    ASSUME FigureInv, NEW r
    PROVE  /\ IsFiniteSet(PaymentsIn(r)) /\ IsFiniteSet(Successful(r)) /\ IsFiniteSet(OrdersIn(r))
           /\ IsFiniteSet(Paid(OrdersIn(r))) /\ \A table : IsFiniteSet(In(table, r))
           /\ PaymentsIn(r) \in SUBSET Attempts /\ Successful(r) \in SUBSET PaymentsIn(r)
           /\ \A p \in PaymentsIn(r) :
                 Made(p) /\ payment[p].created \in Int /\ payment[p].status \in PaymentStatuses
           /\ \A p \in Successful(r) : p \in Attempts /\ Made(p) /\ payment[p].created \in Int
           /\ \A o \in OrdersIn(r) : order[o].created \in Int /\ order[o].paid \in BOOLEAN
           /\ \A table : \A e \in In(table, r) :
                 e \in Entries /\ entry[e].created \in Int /\ entry[e].status \in Statuses[table]
<1>1. /\ PaymentsIn(r) \in SUBSET Attempts /\ Successful(r) \in SUBSET PaymentsIn(r)
      /\ OrdersIn(r) \in SUBSET Orders /\ Paid(OrdersIn(r)) \in SUBSET OrdersIn(r)
      /\ \A table : In(table, r) \in SUBSET Entries
  BY DEF PaymentsIn, Successful, OrdersIn, Paid, In
<1>2. \A p \in PaymentsIn(r) :
          Made(p) /\ payment[p].created \in Int /\ payment[p].status \in PaymentStatuses
  <2>1. \A p \in PaymentsIn(r) : p \in Attempts /\ Made(p)
    BY DEF PaymentsIn, Made
  <2> QED
    BY <2>1 DEF FigureInv, FigureTypeOK, PaymentStatuses, Made
<1>3. \A o \in OrdersIn(r) : order[o].created \in Int /\ order[o].paid \in BOOLEAN
  BY <1>1 DEF FigureInv, FigureTypeOK
<1>4. ASSUME NEW table, NEW e \in In(table, r)
      PROVE  e \in Entries /\ entry[e].created \in Int /\ entry[e].status \in Statuses[table]
  <2>1. e \in Entries /\ e.table = table /\ entry[e] # NoEntry
    BY DEF In
  <2>2. entry[e].created \in Int
    BY <2>1 DEF FigureInv, FigureTypeOK
  <2> QED
    BY <2>1, <2>2 DEF FigureInv, EntriesFit
<1>5. /\ IsFiniteSet(PaymentsIn(r)) /\ IsFiniteSet(OrdersIn(r))
      /\ \A table : IsFiniteSet(In(table, r))
  BY <1>1, FigureAssumption, FS_Subset
<1>6. IsFiniteSet(Successful(r)) /\ IsFiniteSet(Paid(OrdersIn(r)))
  BY <1>1, <1>5, FS_Subset
<1> QED
  BY <1>1, <1>2, <1>3, <1>4, <1>5, <1>6

\* A table has finitely many statuses.
LEMMA StatusesFinite == \A table \in DOMAIN Statuses : IsFiniteSet(Statuses[table])
<1>1. /\ Statuses["user"] = {"active", "active", "active", "active"}
      /\ Statuses["review"] = {"pending", "approved", "rejected", "hidden"}
      /\ Statuses["ticket"] = {"open", "pending", "resolved", "closed"}
      /\ Statuses["page"] = {"draft", "published", "archived", "archived"}
      /\ Statuses["return"]
            = ({"submitted", "under_review", "approved", "rejected"}
                  \cup {"waiting_for_item", "item_received", "inspecting", "refund_pending"})
              \cup {"refunded", "replaced", "cancelled", "closed"}
      /\ DOMAIN Statuses = {"user", "review", "ticket", "return", "page"}
  BY DEF Statuses
<1>2. IsFiniteSet(Statuses["return"])
  <2>1. IsFiniteSet({"submitted", "under_review", "approved", "rejected"}
                    \cup {"waiting_for_item", "item_received", "inspecting", "refund_pending"})
    <3>1. /\ IsFiniteSet({"submitted", "under_review", "approved", "rejected"})
          /\ IsFiniteSet({"waiting_for_item", "item_received", "inspecting", "refund_pending"})
      BY FourAreFinite
    <3> QED
      BY <3>1, FS_Union
  <2>2. IsFiniteSet({"refunded", "replaced", "cancelled", "closed"})
    BY FourAreFinite
  <2>3. IsFiniteSet(({"submitted", "under_review", "approved", "rejected"}
                        \cup {"waiting_for_item", "item_received", "inspecting",
                              "refund_pending"})
                    \cup {"refunded", "replaced", "cancelled", "closed"})
    BY <2>1, <2>2, FS_Union
  <2> QED
    BY <1>1, <2>3
<1>3. /\ IsFiniteSet(Statuses["user"]) /\ IsFiniteSet(Statuses["review"])
      /\ IsFiniteSet(Statuses["ticket"]) /\ IsFiniteSet(Statuses["page"])
  <2>1. /\ IsFiniteSet({"active", "active", "active", "active"})
        /\ IsFiniteSet({"pending", "approved", "rejected", "hidden"})
        /\ IsFiniteSet({"open", "pending", "resolved", "closed"})
        /\ IsFiniteSet({"draft", "published", "archived", "archived"})
    BY FourAreFinite
  <2> QED
    BY <1>1, <2>1
<1> QED
  BY <1>1, <1>2, <1>3

\* Every row has one of the statuses of its table.
LEMMA StatusesAddUp ==
    ASSUME FigureInv, NEW table \in DOMAIN Statuses, NEW r
    PROVE  /\ Cardinality(In(table, r)) = SumFunction(by_status(table, r))
           /\ DOMAIN by_status(table, r) = Statuses[table] /\ IsFiniteSet(Statuses[table])
           /\ \A v \in Statuses[table] :
                 by_status(table, r)[v] = Cardinality({e \in In(table, r) : entry[e].status = v})
<1> DEFINE S == In(table, r)
           k == [e \in S |-> entry[e].status]
           g == by_status(table, r)
<1>1. IsFiniteSet(S) /\ \A e \in S : k[e] \in Statuses[table]
  BY RowsFinite
<1>2. IsFiniteSet(Statuses[table])
  BY StatusesFinite
<1>3. DOMAIN g = Statuses[table]
  BY DEF by_status, count_by_choices
<1>4. \A v \in Statuses[table] : g[v] = Cardinality({e \in DOMAIN k : k[e] = v})
  BY DEF by_status, count_by_choices
<1>5. \A v : /\ {e \in DOMAIN k : k[e] = v} = {e \in S : entry[e].status = v}
             /\ {e \in DOMAIN k : k[e] = v} = Class(S, k, v)
  BY DEF Class
<1> HIDE DEF S, k, g
<1>6. SumFunctionOnSet(g, Statuses[table]) = Cardinality(S)
  <2>1. \A v \in Statuses[table] : g[v] = Cardinality(Class(S, k, v))
    BY <1>4, <1>5
  <2> QED
    BY <1>1, <1>2, <2>1, CountsAddUp
<1>7. \A v \in Statuses[table] : g[v] = Cardinality({e \in S : entry[e].status = v})
  BY <1>4, <1>5
<1> QED
  BY <1>2, <1>3, <1>6, <1>7 DEF SumFunction, S, g

\* Payments: the summary, the exports, the providers and the sales.
LEMMA PaymentsAgree ==
    ASSUME FigureInv, NEW r
    PROVE  LET sales == get_sales_summary(r)
               payments == get_payment_summary(r)
               byProvider == AddUp(get_payment_provider_breakdown(r), {"count", "success"})
           IN  /\ sales.revenue = payments.successful
               /\ sales.revenue = Amounts(build_sales_export(r))
               /\ payments.total = Cardinality(build_payments_export(r))
               /\ payments.total = SumFunction(payments.by_status)
               /\ payments.total = byProvider.count
               /\ Cardinality(Successful(r)) = byProvider.success
<1> DEFINE S == PaymentsIn(r)
           G == Successful(r)
           status == [p \in S |-> payment[p].status]
           provider == [p \in S |-> payment[p].provider]
           byStatus == get_payment_summary(r)["by_status"]
           rows == get_payment_provider_breakdown(r)
           R == {provider[p] : p \in S}
           fields == {"count", "success"}
           count == [v \in DOMAIN rows |-> rows[v]["count"]]
           success == [v \in DOMAIN rows |-> rows[v]["success"]]
<1>1. /\ get_payment_summary(r)["total"] = Cardinality(S)
      /\ get_payment_summary(r)["successful"] = Amounts({p \in S : payment[p].status = "success"})
      /\ get_sales_summary(r)["revenue"] = Amounts(G)
      /\ G = {p \in S : payment[p].status = "success"}
  BY DEF get_payment_summary, get_sales_summary, Successful
<1>2. build_sales_export(r) = G /\ build_payments_export(r) = S
  BY DEF build_sales_export, build_payments_export
<1>3. IsFiniteSet(S) /\ IsFiniteSet(G) /\ G \subseteq S
      /\ \A p \in S : payment[p].status \in PaymentStatuses
  BY RowsFinite
<1>4. SumFunction(byStatus) = Cardinality(S)
  <2>1. IsFiniteSet(PaymentStatuses)
    <3>1. IsFiniteSet({"pending", "success", "failed", "cancelled"} \cup {"refunded"})
      <4>1. IsFiniteSet({"pending", "success", "failed", "cancelled"}) /\ IsFiniteSet({"refunded"})
        BY FourAreFinite, FS_Singleton
      <4> QED
        BY <4>1, FS_Union
    <3>2. PaymentStatuses = {"pending", "success", "failed", "cancelled"} \cup {"refunded"}
      BY DEF PaymentStatuses
    <3> QED
      BY <3>1, <3>2
  <2>2. DOMAIN byStatus = PaymentStatuses
    BY DEF get_payment_summary, count_by_choices
  <2>3. \A v \in PaymentStatuses : byStatus[v] = Cardinality({p \in DOMAIN status : status[p] = v})
    BY DEF get_payment_summary, count_by_choices
  <2>4. \A v : {p \in DOMAIN status : status[p] = v} = Class(S, status, v)
    BY DEF Class
  <2>5. \A p \in S : status[p] \in PaymentStatuses
    BY <1>3
  <2> HIDE DEF S, status, byStatus
  <2>6. \A v \in PaymentStatuses : byStatus[v] = Cardinality(Class(S, status, v))
    BY <2>3, <2>4
  <2>7. SumFunctionOnSet(byStatus, PaymentStatuses) = Cardinality(S)
    BY <1>3, <2>1, <2>5, <2>6, CountsAddUp
  <2> QED
    BY <2>2, <2>7 DEF SumFunction
<1>5. DOMAIN rows = R
  <2>1. R = {payment[p].provider : p \in S}
    OBVIOUS
  <2>2. DOMAIN get_payment_summary(r).by_provider = {provider[p] : p \in DOMAIN provider}
    BY DEF get_payment_summary, values_count, count_by_choices
  <2>3. DOMAIN provider = S
    OBVIOUS
  <2>4. DOMAIN rows = DOMAIN get_payment_summary(r).by_provider
    BY DEF get_payment_provider_breakdown
  <2> HIDE DEF provider, rows, S
  <2> QED
    BY <2>2, <2>3, <2>4
<1>6. \A v \in R : /\ count[v] = Cardinality({p \in S : payment[p].provider = v})
                   /\ success[v] = Cardinality({p \in S : payment[p].provider = v} \cap G)
  <2>1. \A v \in DOMAIN rows :
            /\ rows[v]["count"] = Cardinality({p \in S : payment[p].provider = v})
            /\ rows[v]["success"] = Cardinality({p \in S : payment[p].provider = v} \cap G)
    BY DEF get_payment_provider_breakdown
  <2> HIDE DEF rows, R, S, G
  <2> QED
    BY <1>5, <2>1
<1>7. \A v : /\ {p \in S : payment[p].provider = v} = Class(S, provider, v)
             /\ {p \in S : payment[p].provider = v} \cap G = Class(G, provider, v)
  BY <1>3 DEF Class
<1>8. IsFiniteSet(R) /\ (\A p \in S : provider[p] \in R) /\ \A p \in G : provider[p] \in R
  <2>1. IsFiniteSet(R)
    <3> HIDE DEF S, provider
    <3> QED
      BY <1>3, ImagesFinite
  <2> QED
    BY <1>3, <2>1
<1>9. AddUp(rows, fields)["count"] = SumFunctionOnSet(count, R)
      /\ AddUp(rows, fields)["success"] = SumFunctionOnSet(success, R)
  <2> HIDE DEF rows, R
  <2> QED
    BY <1>5, ColumnSum
<1> HIDE DEF S, G, provider, rows, R, count, success, byStatus
<1>10. \A v \in R : /\ count[v] = Cardinality(Class(S, provider, v))
                    /\ success[v] = Cardinality(Class(G, provider, v))
  BY <1>6, <1>7
<1>11. SumFunctionOnSet(count, R) = Cardinality(S)
  BY <1>3, <1>8, <1>10, CountsAddUp
<1>12. SumFunctionOnSet(success, R) = Cardinality(G)
  BY <1>3, <1>8, <1>10, CountsAddUp
<1> QED
  BY <1>1, <1>2, <1>4, <1>9, <1>11, <1>12 DEF G, byStatus, rows

\* Orders: the summary, by either column, and the export.
LEMMA OrdersAgree ==
    ASSUME FigureInv, NEW r
    PROVE  LET orders == get_order_summary(r) IN
           /\ orders.total = Cardinality(build_orders_export(r))
           /\ orders.total = Cardinality(OrdersIn(r))
           /\ orders.total = SumFunction(orders.by_status)
           /\ orders.by_payment_status[TRUE] = get_sales_summary(r).orders
           /\ get_sales_summary(r).orders = Cardinality(Paid(OrdersIn(r)))
           /\ orders.by_payment_status[FALSE] =
                  orders.by_status["pending_payment"] + orders.by_status["cancelled"]
<1> DEFINE k == [o \in OrdersIn(r) |-> order[o].paid]
           by == get_order_summary(r)["by_payment_status"]
           S == OrdersIn(r)
           status == [o \in S |-> order[o].status]
           each == get_order_summary(r)["by_status"]
<1>1. \A v \in BOOLEAN : by[v] = Cardinality({o \in DOMAIN k : k[o] = v})
  BY DEF get_order_summary, count_by_choices
<1>2. {o \in DOMAIN k : k[o] = TRUE} = Paid(OrdersIn(r))
      /\ {o \in DOMAIN k : k[o] = FALSE} = OrdersIn(r) \ Paid(OrdersIn(r))
  BY RowsFinite DEF Paid
<1> HIDE DEF k
<1>3. by[TRUE] = Cardinality(Paid(OrdersIn(r)))
      /\ by[FALSE] = Cardinality(OrdersIn(r) \ Paid(OrdersIn(r)))
  BY <1>1, <1>2
<1>4. get_order_summary(r)["total"] = Cardinality(OrdersIn(r))
      /\ get_sales_summary(r)["orders"] = Cardinality(Paid(OrdersIn(r)))
  BY DEF get_order_summary, get_sales_summary
<1>5. \A v \in OrderStatuses : each[v] = Cardinality({o \in DOMAIN status : status[o] = v})
  BY DEF get_order_summary, count_by_choices
<1>6. DOMAIN each = OrderStatuses
  BY DEF get_order_summary, count_by_choices
<1>7. S \subseteq Orders /\ \A o \in S : order[o].created # Never
  BY DEF OrdersIn
<1>8. IsFiniteSet(S) /\ \A o \in S : status[o] \in OrderStatuses
  <2>1. \A o \in S : status[o] = order[o].status /\ Fits(order[o])
    BY <1>7 DEF FigureInv, OrdersFit
  <2>2. \A o \in S : status[o] \in OrderStatuses
    BY <1>7, <2>1 DEF Fits, OnTheWay, Waiting, OrderStatuses
  <2> QED
    BY <1>7, <2>2, FS_Subset, FigureAssumption
<1>9. IsFiniteSet(OrderStatuses)
  <2>1. OrderStatuses = {"pending_payment", "paid", "processing", "shipped"}
                            \cup {"delivered", "cancelled", "refunded", "refunded"}
    BY DEF OrderStatuses
  <2>2. /\ IsFiniteSet({"pending_payment", "paid", "processing", "shipped"})
        /\ IsFiniteSet({"delivered", "cancelled", "refunded", "refunded"})
    BY FourAreFinite
  <2> QED
    BY <2>1, <2>2, FS_Union
<1>10. \A v : {o \in DOMAIN status : status[o] = v} = Class(S, status, v)
  BY DEF Class
<1>11. S \ Paid(S) = Class(S, status, "pending_payment") \cup Class(S, status, "cancelled")
       /\ Class(S, status, "pending_payment") \cap Class(S, status, "cancelled") = {}
  <2>1. \A o \in S : /\ status[o] = order[o].status
                     /\ order[o].paid => order[o].status \in OnTheWay
                     /\ ~order[o].paid => order[o].status \in Waiting
    BY <1>7 DEF FigureInv, OrdersFit, Fits
  <2>2. \A o \in S : o \in Paid(S) <=> order[o].paid
    BY DEF Paid
  <2>3. \A o \in S : ~order[o].paid <=> status[o] \in Waiting
    BY <2>1 DEF OnTheWay, Waiting
  <2> HIDE DEF S, status
  <2> QED
    BY <2>2, <2>3 DEF Class, Waiting
<1> HIDE DEF S, status, each, by
<1>12. \A v \in OrderStatuses : each[v] = Cardinality(Class(S, status, v))
  BY <1>5, <1>10
<1>13. SumFunctionOnSet(each, OrderStatuses) = Cardinality(S)
  BY <1>8, <1>9, <1>12, CountsAddUp
<1>14. Cardinality(S \ Paid(S)) = each["pending_payment"] + each["cancelled"]
  <2>1. "pending_payment" \in OrderStatuses /\ "cancelled" \in OrderStatuses
    BY DEF OrderStatuses
  <2>2. /\ IsFiniteSet(Class(S, status, "pending_payment"))
        /\ IsFiniteSet(Class(S, status, "cancelled"))
    BY <1>8, FS_Subset DEF Class
  <2>3. /\ Cardinality(Class(S, status, "pending_payment")) \in Nat
        /\ Cardinality(Class(S, status, "cancelled")) \in Nat
        /\ Cardinality({}) = 0
    BY <2>2, FS_CardinalityType, FS_EmptySet
  <2>4. Cardinality(Class(S, status, "pending_payment") \cup Class(S, status, "cancelled"))
            = Cardinality(Class(S, status, "pending_payment"))
              + Cardinality(Class(S, status, "cancelled")) - Cardinality({})
    BY <1>11, <2>2, FS_Union
  <2>5. each["pending_payment"] = Cardinality(Class(S, status, "pending_payment"))
        /\ each["cancelled"] = Cardinality(Class(S, status, "cancelled"))
    BY <1>12, <2>1
  <2>6. PICK m \in Nat, n \in Nat : /\ m = each["pending_payment"] /\ n = each["cancelled"]
                                   /\ Cardinality(S \ Paid(S)) = m + n - 0
    BY <1>11, <2>3, <2>4, <2>5
  <2> QED
    BY <2>6
<1> QED
  BY <1>3, <1>4, <1>6, <1>13, <1>14 DEF build_orders_export, SumFunction, S, each, by

Groups == {e.group : e \in Entries}
GroupOf == [e \in Entries |-> e.group]

LEMMA GroupsFinite == IsFiniteSet(Groups) /\ \A e \in Entries : GroupOf[e] \in Groups /\ GroupOf[e] = e.group
<1>1. Groups = {GroupOf[e] : e \in Entries}
  BY DEF Groups, GroupOf
<1>2. IsFiniteSet(Groups)
  BY <1>1, FigureAssumption, ImagesFinite
<1> QED
  BY <1>2 DEF Groups, GroupOf

\* Support: the statuses, the categories and the export.
LEMMA SupportAgrees ==
    ASSUME FigureInv, NEW r
    PROVE  LET support == get_support_summary(r)
               categories == get_support_category_breakdown(r)
           IN  /\ support.total = SumFunction(support.by_status)
               /\ support.total = Cardinality(build_support_export(r))
               /\ support.by_category = [g \in DOMAIN categories |-> categories[g].count]
               /\ support.urgent = AddUp(categories, {"urgent"}).urgent
<1> DEFINE S == In("ticket", r)
           U == {e \in S : entry[e].urgent}
           rows == get_support_category_breakdown(r)
           urgent == [g \in DOMAIN rows |-> rows[g]["urgent"]]
           k == [e \in S |-> e.group]
<1>1. /\ get_support_summary(r)["total"] = Cardinality(S)
      /\ get_support_summary(r)["urgent"] = Cardinality(U)
      /\ get_support_summary(r)["by_status"] = by_status("ticket", r)
      /\ get_support_summary(r)["by_category"]
            = [g \in Groups |-> Cardinality({e \in DOMAIN k : k[e] = g})]
  BY DEF get_support_summary, count_by_choices, Groups
<1>2. /\ DOMAIN rows = Groups
      /\ \A g \in Groups : /\ rows[g]["count"] = Cardinality({e \in S : e.group = g})
                           /\ rows[g]["urgent"]
                                = Cardinality({e \in {x \in S : x.group = g} : entry[e].urgent})
  BY DEF get_support_category_breakdown, Groups
<1>3. SumFunction(by_status("ticket", r)) = Cardinality(S)
  <2>1. "ticket" \in DOMAIN Statuses
    BY DEF Statuses
  <2> QED
    BY <2>1, StatusesAddUp
<1>4. get_support_summary(r)["by_category"] = [g \in DOMAIN rows |-> rows[g]["count"]]
  <2>1. \A g \in Groups : Cardinality({e \in DOMAIN k : k[e] = g}) = rows[g]["count"]
    <3>1. \A g : {e \in DOMAIN k : k[e] = g} = {e \in S : e.group = g}
      OBVIOUS
    <3> HIDE DEF rows, k, S
    <3> QED
      BY <1>2, <3>1
  <2> HIDE DEF rows, k
  <2> QED
    BY <1>1, <1>2, <2>1
<1>5. SumFunctionOnSet(urgent, Groups) = Cardinality(U)
  <2>1. IsFiniteSet(U) /\ \A e \in U : e \in Entries
    <3>1. IsFiniteSet(S) /\ \A e \in S : e \in Entries
      BY RowsFinite
    <3> HIDE DEF S
    <3> QED
      BY <3>1, FS_Subset
  <2>2. \A g : {e \in {x \in S : x.group = g} : entry[e].urgent} = Class(U, GroupOf, g)
    BY <2>1, GroupsFinite DEF Class
  <2>3. \A g \in Groups : urgent[g] = Cardinality(Class(U, GroupOf, g))
    <3>1. \A g \in Groups : urgent[g] = rows[g]["urgent"]
      BY <1>2
    <3> HIDE DEF urgent, rows, S, U
    <3> QED
      BY <1>2, <2>2, <3>1
  <2> HIDE DEF urgent, U
  <2> QED
    BY <2>1, <2>3, GroupsFinite, CountsAddUp
<1>6. AddUp(rows, {"urgent"})["urgent"] = SumFunctionOnSet(urgent, Groups)
  BY <1>2, ColumnSum
<1> QED
  BY <1>1, <1>3, <1>4, <1>5, <1>6 DEF build_support_export

\* Returns: the statuses, the reasons and the export.
LEMMA ReturnsAgree ==
    ASSUME FigureInv, NEW r
    PROVE  LET returns == get_return_summary(r) IN
           /\ returns.total = SumFunction(returns.by_status)
           /\ returns.total = Cardinality(build_returns_export(r))
           /\ returns.requested = SumFunction(get_return_reason_breakdown(r))
<1> DEFINE S == In("return", r)
           rows == get_return_reason_breakdown(r)
           amount == [e \in Entries |-> e.amount]
<1>1. /\ get_return_summary(r)["total"] = Cardinality(S)
      /\ get_return_summary(r)["requested"] = AmountAsked(S)
      /\ get_return_summary(r)["by_status"] = by_status("return", r)
  BY DEF get_return_summary
<1>2. SumFunction(by_status("return", r)) = Cardinality(S)
  <2>1. "return" \in DOMAIN Statuses
    BY DEF Statuses
  <2> QED
    BY <2>1, StatusesAddUp
<1>3. IsFiniteSet(S) /\ S \in SUBSET Entries
  BY RowsFinite
<1>4. \A T \in SUBSET S : AmountAsked(T) = SumFunctionOnSet(amount, T)
  <2> SUFFICES ASSUME NEW T \in SUBSET S PROVE AmountAsked(T) = SumFunctionOnSet(amount, T)
    OBVIOUS
  <2> DEFINE g == [e \in T |-> e.amount]
  <2>1. DOMAIN g = T /\ \A e \in T : amount[e] \in Int /\ g[e] = amount[e]
    BY <1>3, FigureAssumption
  <2>2. IsFiniteSet(T) /\ AmountAsked(T) = SumFunction(g)
    BY <1>3, FS_Subset DEF AmountAsked
  <2> HIDE DEF g, amount
  <2> QED
    BY <2>1, <2>2, SumOfFunction
<1>5. DOMAIN rows = Groups
      /\ \A g \in Groups : rows[g] = AmountAsked({e \in S : e.group = g})
  BY DEF get_return_reason_breakdown, Groups
<1>6. \A g \in Groups : rows[g] = SumFunctionOnSet(amount, Class(S, GroupOf, g))
  <2>1. \A g : {e \in S : e.group = g} = Class(S, GroupOf, g)
    BY <1>3, GroupsFinite DEF Class
  <2>2. \A g : Class(S, GroupOf, g) \in SUBSET S
    BY DEF Class
  <2> HIDE DEF rows, amount, S
  <2> QED
    BY <1>4, <1>5, <2>1, <2>2
<1>7. (\A e \in S : amount[e] \in Int) /\ \A e \in S : GroupOf[e] \in Groups
  BY <1>3, FigureAssumption, GroupsFinite
<1> HIDE DEF rows, amount, S
<1>8. SumFunctionOnSet(rows, Groups) = SumFunctionOnSet(amount, S)
  BY <1>3, <1>6, <1>7, GroupsFinite, SumOfParts
<1>9. SumFunction(rows) = AmountAsked(S)
  BY <1>4, <1>5, <1>8 DEF SumFunction
<1> QED
  BY <1>1, <1>2, <1>9 DEF build_returns_export, S, rows

\* Reviews: the statuses and the export.
LEMMA ReviewsAgree ==
    ASSUME FigureInv, NEW r
    PROVE  LET reviews == get_review_summary(r) IN
           /\ reviews.total = Cardinality(build_reviews_export(r))
           /\ reviews.total = SumFunction(reviews.by_status)
<1>1. "review" \in DOMAIN Statuses
  BY DEF Statuses
<1>2. SumFunction(by_status("review", r)) = Cardinality(In("review", r))
  BY <1>1, StatusesAddUp
<1> QED
  BY <1>2 DEF get_review_summary, build_reviews_export

\* Every row of a range that is bounded is in one day of the series.
LEMMA DayOfRange ==
    ASSUME NEW r, RangeOK(r), r.bounded, NEW t \in Int, InRange(t, r)
    PROVE  Day(t) \in get_date_points(r)
<1>1. r.from \in Int /\ r.to \in Int /\ r.from <= t /\ t <= r.to
  BY DEF RangeOK, InRange
<1>2. Day(r.from) \in Int /\ Day(t) \in Int /\ Day(r.from) <= Day(t)
  BY <1>1, DaysInOrder
<1>3. Day(r.to) \in Int /\ Day(t) <= Day(r.to)
  BY <1>1, DaysInOrder
<1> QED
  BY <1>2, <1>3 DEF get_date_points

\* The days of the series add up to the summaries of its range.
LEMMA SeriesAgrees ==
    ASSUME FigureInv, NEW r, RangeOK(r), r.bounded
    PROVE  LET byDay == AddUp(get_analytics_timeseries(r), {"revenue", "orders", "paid", "users"})
           IN  /\ byDay.revenue = get_sales_summary(r).revenue
               /\ byDay.orders = get_order_summary(r).total
               /\ byDay.paid = get_sales_summary(r).orders
               /\ byDay.users = get_customer_summary(r).new
<1> DEFINE rows == get_analytics_timeseries(r)
           D == get_date_points(r)
           fields == {"revenue", "orders", "paid", "users"}
           G == Successful(r)
           O == OrdersIn(r)
           P == Paid(OrdersIn(r))
           U == In("user", r)
           payDay == [p \in Attempts |-> Day(payment[p].created)]
           orderDay == [o \in Orders |-> Day(order[o].created)]
           entryDay == [e \in Entries |-> Day(entry[e].created)]
           Column(f) == [d \in DOMAIN rows |-> rows[d][f]]
<1>1. SeriesRange(r) = r
  BY DEF SeriesRange
<1>2. DOMAIN rows = D
      /\ \A d \in D : /\ rows[d]["revenue"] = Amounts({p \in G : Day(payment[p].created) = d})
                      /\ rows[d]["orders"] = Cardinality({o \in O : Day(order[o].created) = d})
                      /\ rows[d]["paid"] = Cardinality({o \in P : Day(order[o].created) = d})
                      /\ rows[d]["users"] = Cardinality({e \in U : Day(entry[e].created) = d})
  BY <1>1 DEF get_analytics_timeseries
<1>3. /\ G \subseteq Attempts /\ O \subseteq Orders /\ P \subseteq Orders /\ U \subseteq Entries
      /\ P \subseteq O
      /\ IsFiniteSet(G) /\ IsFiniteSet(O) /\ IsFiniteSet(P) /\ IsFiniteSet(U)
  <2>1. G \subseteq Attempts /\ O \subseteq Orders /\ P \subseteq O /\ U \subseteq Entries
    BY DEF Successful, PaymentsIn, OrdersIn, Paid, In
  <2> HIDE DEF G, O, P, U
  <2> QED
    BY <2>1, RowsFinite DEF G, O, P, U
<1>4. /\ \A d : {p \in G : Day(payment[p].created) = d} = Class(G, payDay, d)
      /\ \A d : {o \in O : Day(order[o].created) = d} = Class(O, orderDay, d)
      /\ \A d : {o \in P : Day(order[o].created) = d} = Class(P, orderDay, d)
      /\ \A d : {e \in U : Day(entry[e].created) = d} = Class(U, entryDay, d)
  <2> HIDE DEF G, O, P, U
  <2> QED
    BY <1>3 DEF Class
<1>5. /\ \A p \in G : payDay[p] \in D
      /\ \A o \in O : orderDay[o] \in D
      /\ \A e \in U : entryDay[e] \in D
  <2>1. /\ \A p \in G : payment[p].created \in Int /\ InRange(payment[p].created, r)
        /\ \A o \in O : order[o].created \in Int /\ InRange(order[o].created, r)
        /\ \A e \in U : entry[e].created \in Int /\ InRange(entry[e].created, r)
    <3>1. /\ \A p \in G : payment[p].created \in Int
          /\ \A o \in O : order[o].created \in Int
          /\ \A e \in U : entry[e].created \in Int
      BY RowsFinite
    <3> QED
      BY <3>1 DEF Successful, PaymentsIn, OrdersIn, In
  <2> HIDE DEF G, O, U, D
  <2> QED
    BY <1>3, <2>1, DayOfRange DEF D
<1>6. IsFiniteSet(D)
  <2>1. Day(r.from) \in Int /\ Day(r.to) \in Int
    BY DayHolds DEF RangeOK
  <2> QED
    BY <2>1, FS_Interval DEF get_date_points
<1>7. /\ \A d \in D : Column("revenue")[d] = Amounts(Class(G, payDay, d))
      /\ \A d \in D : Column("orders")[d] = Cardinality(Class(O, orderDay, d))
      /\ \A d \in D : Column("paid")[d] = Cardinality(Class(P, orderDay, d))
      /\ \A d \in D : Column("users")[d] = Cardinality(Class(U, entryDay, d))
  <2>1. \A f : \A d \in D : Column(f)[d] = rows[d][f]
    BY <1>2
  <2> HIDE DEF Column, rows, G, O, P, U, D, payDay, orderDay, entryDay
  <2> QED
    BY <1>2, <1>4, <2>1
<1>8. \A d \in D : Amounts(Class(G, payDay, d)) = SumFunctionOnSet(AmountOf, Class(G, payDay, d))
  <2>1. \A d : Class(G, payDay, d) \in SUBSET Attempts /\ \A p \in Class(G, payDay, d) : Made(p)
    BY RowsFinite DEF Class
  <2> HIDE DEF G, payDay
  <2> QED
    BY <2>1, AmountSums
<1>9. Amounts(G) = SumFunctionOnSet(AmountOf, G) /\ \A p \in G : AmountOf[p] \in Int
  <2>1. \A p \in G : p \in Attempts /\ Made(p)
    BY RowsFinite
  <2> HIDE DEF G
  <2> QED
    BY <1>3, <2>1, AmountSums
<1>10. \A f \in fields : AddUp(rows, fields)[f] = SumFunctionOnSet(Column(f), D)
  BY <1>2, ColumnSum
<1>11. /\ get_sales_summary(r)["revenue"] = Amounts(G)
       /\ get_order_summary(r)["total"] = Cardinality(O)
       /\ get_sales_summary(r)["orders"] = Cardinality(P)
       /\ get_customer_summary(r)["new"] = Cardinality(U)
  BY DEF get_sales_summary, get_order_summary, get_customer_summary
<1> HIDE DEF Column, rows, G, O, P, U, D, payDay, orderDay, entryDay
<1>12. SumFunctionOnSet(Column("revenue"), D) = SumFunctionOnSet(AmountOf, G)
  <2>1. \A d \in D : Column("revenue")[d] = SumFunctionOnSet(AmountOf, Class(G, payDay, d))
    BY <1>7, <1>8
  <2> QED
    BY <1>3, <1>5, <1>6, <1>9, <2>1, SumOfParts
<1>13. SumFunctionOnSet(Column("orders"), D) = Cardinality(O)
  BY <1>3, <1>5, <1>6, <1>7, CountsAddUp
<1>14. SumFunctionOnSet(Column("paid"), D) = Cardinality(P)
  <2>1. \A o \in P : orderDay[o] \in D
    BY <1>3, <1>5
  <2> QED
    BY <1>3, <1>6, <1>7, <2>1, CountsAddUp
<1>15. SumFunctionOnSet(Column("users"), D) = Cardinality(U)
  BY <1>3, <1>5, <1>6, <1>7, CountsAddUp
<1> QED
  BY <1>9, <1>10, <1>11, <1>12, <1>13, <1>14, <1>15 DEF rows

\* A range and the one before it share the instant where they meet.
LEMMA TrendAgrees ==
    ASSUME FigureInv, NEW r, RangeOK(r), r.bounded
    PROVE  LET trend == get_trend_summary(r)
               both == [r EXCEPT !.from = r.from - (r.to - r.from)] IN
           trend.current.orders + trend.previous.orders =
               Cardinality(OrdersIn(both))
               + Cardinality({o \in OrdersIn(both) : order[o].created = r.from})
<1> DEFINE before == get_previous_date_range(r)
           both == [r EXCEPT !.from = r.from - (r.to - r.from)]
           met == {o \in OrdersIn(both) : order[o].created = r.from}
<1>1. PICK a \in Int, b \in Int, c \in Int :
          a = r.from - (r.to - r.from) /\ b = r.from /\ c = r.to /\ a <= b /\ b <= c
  BY DEF RangeOK
<1>2. before = Between(a, b)
  BY <1>1 DEF get_previous_date_range
<1>3. /\ \A t \in Int : InRange(t, before) <=> a <= t /\ t <= b
      /\ \A t \in Int : InRange(t, r) <=> b <= t /\ t <= c
  BY <1>1, <1>2 DEF InRange, Between
<1>4. \A t \in Int : InRange(t, both) <=> a <= t /\ t <= c
  <2>1. both.bounded = r.bounded /\ both.from = a /\ both.to = c
    BY <1>1 DEF RangeOK
  <2> HIDE DEF both
  <2> QED
    BY <2>1 DEF InRange
<1>5. \A o \in Orders : order[o].created \in Int
  BY DEF FigureInv, FigureTypeOK
<1>6. OrdersIn(both) = OrdersIn(r) \cup OrdersIn(before) /\ OrdersIn(r) \cap OrdersIn(before) = met
  <2> HIDE DEF both, before
  <2>1. ASSUME NEW o \in Orders
        PROVE  /\ o \in OrdersIn(both) <=> o \in OrdersIn(r) \/ o \in OrdersIn(before)
               /\ (o \in OrdersIn(both) /\ order[o].created = b)
                      <=> o \in OrdersIn(r) /\ o \in OrdersIn(before)
    <3>1. PICK t \in Int : t = order[o].created
      BY <1>5
    <3>2. /\ o \in OrdersIn(both) <=> t # Never /\ a <= t /\ t <= c
          /\ o \in OrdersIn(r) <=> t # Never /\ b <= t /\ t <= c
          /\ o \in OrdersIn(before) <=> t # Never /\ a <= t /\ t <= b
      BY <1>3, <1>4, <3>1 DEF OrdersIn
    <3> QED
      BY <1>1, <3>1, <3>2
  <2>2. /\ OrdersIn(both) \subseteq Orders /\ OrdersIn(r) \subseteq Orders
        /\ OrdersIn(before) \subseteq Orders
    BY DEF OrdersIn
  <2> QED
    BY <1>1, <2>1, <2>2
<1>7. /\ IsFiniteSet(OrdersIn(r)) /\ IsFiniteSet(OrdersIn(before))
      /\ IsFiniteSet(OrdersIn(r) \cap OrdersIn(before))
  <2>1. IsFiniteSet(OrdersIn(r)) /\ IsFiniteSet(OrdersIn(before))
    BY RowsFinite
  <2> QED
    BY <2>1, FS_Subset
<1>8. get_trend_summary(r).current.orders = Cardinality(OrdersIn(r))
      /\ get_trend_summary(r).previous.orders = Cardinality(OrdersIn(before))
  BY DEF get_trend_summary
<1> HIDE DEF both, before, met
<1>9. Cardinality(OrdersIn(both))
          = Cardinality(OrdersIn(r)) + Cardinality(OrdersIn(before)) - Cardinality(met)
  BY <1>6, <1>7, FS_Union
<1>10. /\ Cardinality(OrdersIn(r)) \in Nat /\ Cardinality(OrdersIn(before)) \in Nat
       /\ Cardinality(met) \in Nat
  BY <1>6, <1>7, FS_CardinalityType
<1> QED
  BY <1>8, <1>9, <1>10 DEF both, met

\* The alerts count what the summaries of all time count.
LEMMA AlertsAgree ==
    ASSUME FigureInv
    PROVE  LET alerts == get_analytics_alerts
               returns == get_return_summary(AllTime)
           IN  /\ alerts.failed_payments = get_payment_summary(AllTime).failed
               /\ alerts.pending_orders = get_order_summary(AllTime).by_status["pending_payment"]
               /\ alerts.pending_reviews = get_review_summary(AllTime).by_status["pending"]
               /\ alerts.draft_pages = get_content_summary(AllTime).pages["draft"]
               /\ alerts.pending_returns =
                      returns.total - SumFunction([s \in Statuses.return \ PendingReturns |->
                                                  returns.by_status[s]])
<1> DEFINE alerts == get_analytics_alerts
           Of(table, statuses) == {e \in In(table, AllTime) : entry[e].status \in statuses}
<1>1. /\ alerts["failed_payments"] = Cardinality({p \in Attempts : payment[p].status = "failed"})
      /\ alerts["pending_orders"]
             = Cardinality({o \in Orders : order[o].status = "pending_payment"})
      /\ alerts["pending_reviews"] = Cardinality(Of("review", {"pending"}))
      /\ alerts["pending_returns"] = Cardinality(Of("return", PendingReturns))
      /\ alerts["draft_pages"] = Cardinality(Of("page", {"draft"}))
  BY DEF get_analytics_alerts
<1>2. alerts["failed_payments"] = get_payment_summary(AllTime)["failed"]
  <2>1. get_payment_summary(AllTime)["failed"]
            = Cardinality({p \in PaymentsIn(AllTime) : payment[p].status = "failed"})
    BY DEF get_payment_summary
  <2>2. {p \in PaymentsIn(AllTime) : payment[p].status = "failed"}
            = {p \in Attempts : payment[p].status = "failed"}
    BY AllTimeOK DEF PaymentsIn
  <2> HIDE DEF alerts
  <2> QED
    BY <1>1, <2>1, <2>2
<1>3. alerts["pending_orders"] = get_order_summary(AllTime)["by_status"]["pending_payment"]
  <2> DEFINE status == [o \in OrdersIn(AllTime) |-> order[o].status]
  <2>1. {o \in Orders : order[o].status = "pending_payment"}
            = {o \in DOMAIN status : status[o] = "pending_payment"}
    <3>1. \A o \in Orders : order[o].status = "pending_payment" => o \in OrdersIn(AllTime)
      BY AllTimeOK DEF FigureInv, OrdersFit, Fits, OrdersIn
    <3>2. OrdersIn(AllTime) \subseteq Orders
      BY DEF OrdersIn
    <3> QED
      BY <3>1, <3>2
  <2>2. get_order_summary(AllTime)["by_status"]["pending_payment"]
            = Cardinality({o \in DOMAIN status : status[o] = "pending_payment"})
    BY DEF get_order_summary, count_by_choices, OrderStatuses
  <2> HIDE DEF alerts, status
  <2> QED
    BY <1>1, <2>1, <2>2
<1>4. /\ "review" \in DOMAIN Statuses /\ "page" \in DOMAIN Statuses /\ "return" \in DOMAIN Statuses
      /\ "pending" \in Statuses["review"] /\ "draft" \in Statuses["page"]
      /\ PendingReturns \subseteq Statuses["return"]
  BY DEF Statuses, PendingReturns
<1>5. alerts["pending_reviews"] = get_review_summary(AllTime)["by_status"]["pending"]
  <2>1. by_status("review", AllTime)["pending"]
            = Cardinality({e \in In("review", AllTime) : entry[e].status = "pending"})
    BY <1>4, StatusesAddUp
  <2>2. {e \in In("review", AllTime) : entry[e].status = "pending"} = Of("review", {"pending"})
    OBVIOUS
  <2>3. get_review_summary(AllTime)["by_status"] = by_status("review", AllTime)
    BY DEF get_review_summary
  <2> HIDE DEF alerts, Of
  <2> QED
    BY <1>1, <2>1, <2>2, <2>3
<1>6. alerts["draft_pages"] = get_content_summary(AllTime)["pages"]["draft"]
  <2>1. by_status("page", AllTime)["draft"]
            = Cardinality({e \in In("page", AllTime) : entry[e].status = "draft"})
    BY <1>4, StatusesAddUp
  <2>2. {e \in In("page", AllTime) : entry[e].status = "draft"} = Of("page", {"draft"})
    OBVIOUS
  <2>3. get_content_summary(AllTime)["pages"] = by_status("page", AllTime)
    BY DEF get_content_summary
  <2> HIDE DEF alerts, Of
  <2> QED
    BY <1>1, <2>1, <2>2, <2>3
<1> DEFINE S == In("return", AllTime)
           by == by_status("return", AllTime)
           Rest == Statuses["return"] \ PendingReturns
           rest == [s \in Rest |-> by[s]]
           W == Of("return", PendingReturns)
           V == Of("return", Rest)
           status == [e \in S |-> entry[e].status]
<1>7. Cardinality(W) = Cardinality(S) - SumFunction(rest)
  <2>1. IsFiniteSet(S) /\ (\A e \in S : status[e] \in Statuses["return"])
        /\ IsFiniteSet(Rest)
    <3>1. IsFiniteSet(Statuses["return"])
      BY <1>4, StatusesFinite
    <3> QED
      BY <3>1, RowsFinite, FS_Subset
  <2>2. S = W \cup V /\ W \cap V = {} /\ W \subseteq S /\ V \subseteq S
    BY <2>1
  <2>3. \A e \in V : status[e] \in Rest
    OBVIOUS
  <2>4. \A s \in Rest : rest[s] = Cardinality(Class(V, status, s))
    <3>1. \A s \in Rest : by[s] = Cardinality({e \in S : entry[e].status = s})
      BY <1>4, StatusesAddUp
    <3>2. \A s \in Rest : {e \in S : entry[e].status = s} = Class(V, status, s)
      BY DEF Class
    <3>3. \A s \in Rest : rest[s] = by[s]
      OBVIOUS
    <3> HIDE DEF rest, by, Rest, V, S, status
    <3> QED
      BY <3>1, <3>2, <3>3
  <2>5. SumFunction(rest) = SumFunctionOnSet(rest, Rest)
    BY DEF SumFunction
  <2> HIDE DEF S, W, V, rest, Rest, status
  <2>6. IsFiniteSet(W) /\ IsFiniteSet(V)
    BY <2>1, <2>2, FS_Subset
  <2>7. SumFunctionOnSet(rest, Rest) = Cardinality(V)
    BY <2>1, <2>3, <2>4, <2>6, CountsAddUp
  <2>8. Cardinality(S) = Cardinality(W) + Cardinality(V) - Cardinality({})
    BY <2>2, <2>6, FS_Union
  <2>9. Cardinality(W) \in Nat /\ Cardinality(V) \in Nat /\ Cardinality({}) = 0
    BY <2>6, FS_CardinalityType, FS_EmptySet
  <2> QED
    BY <2>5, <2>7, <2>8, <2>9
<1>8. get_return_summary(AllTime)["total"] = Cardinality(S)
      /\ get_return_summary(AllTime)["by_status"] = by
  BY DEF get_return_summary
<1>9. alerts["pending_returns"]
          = get_return_summary(AllTime)["total"]
            - SumFunction([s \in Statuses.return \ PendingReturns |->
                              get_return_summary(AllTime)["by_status"][s]])
  <2> HIDE DEF alerts, Of, S, by
  <2> QED
    BY <1>1, <1>7, <1>8
<1> HIDE DEF alerts
<1> QED
  BY <1>2, <1>3, <1>5, <1>6, <1>9 DEF alerts

\* The other half of FiguresAgree: of the surfaces.
LEMMA Agreed == FigureInv => SurfacesAgree
<1> SUFFICES ASSUME FigureInv PROVE SurfacesAgree
  OBVIOUS
<1>1. ASSUME NEW range \in Ranges
      PROVE  LET sales == get_sales_summary(range)
                 payments == get_payment_summary(range)
                 orders == get_order_summary(range)
                 support == get_support_summary(range)
                 returns == get_return_summary(range)
                 reviews == get_review_summary(range)
                 providers == get_payment_provider_breakdown(range)
                 categories == get_support_category_breakdown(range)
                 series == get_analytics_timeseries(range)
                 trend == get_trend_summary(range)
                 both == [range EXCEPT !.from = range.from - (range.to - range.from)]
                 byProvider == AddUp(providers, {"count", "success"})
                 byDay == AddUp(series, {"revenue", "orders", "paid", "users"})
             IN  /\ sales.revenue = payments.successful
                 /\ sales.revenue = Amounts(build_sales_export(range))
                 /\ payments.total = Cardinality(build_payments_export(range))
                 /\ payments.total = SumFunction(payments.by_status)
                 /\ payments.total = byProvider.count
                 /\ Cardinality(Successful(range)) = byProvider.success
                 /\ orders.total = Cardinality(build_orders_export(range))
                 /\ orders.total = SumFunction(orders.by_status)
                 /\ orders.by_payment_status[TRUE] = sales.orders
                 /\ orders.by_payment_status[FALSE] =
                        orders.by_status["pending_payment"] + orders.by_status["cancelled"]
                 /\ support.total = SumFunction(support.by_status)
                 /\ support.total = Cardinality(build_support_export(range))
                 /\ support.by_category = [g \in DOMAIN categories |-> categories[g].count]
                 /\ support.urgent = AddUp(categories, {"urgent"}).urgent
                 /\ returns.total = SumFunction(returns.by_status)
                 /\ returns.total = Cardinality(build_returns_export(range))
                 /\ returns.requested = SumFunction(get_return_reason_breakdown(range))
                 /\ reviews.total = Cardinality(build_reviews_export(range))
                 /\ reviews.total = SumFunction(reviews.by_status)
                 /\ range.bounded =>
                        /\ byDay.revenue = sales.revenue
                        /\ byDay.orders = orders.total
                        /\ byDay.paid = sales.orders
                        /\ byDay.users = get_customer_summary(range).new
                        /\ trend.current.orders + trend.previous.orders =
                               Cardinality(OrdersIn(both))
                               + Cardinality({o \in OrdersIn(both) : order[o].created = range.from})
  <2>1. RangeOK(range)
    BY RangesOK
  <2> QED
    BY <2>1, PaymentsAgree, OrdersAgree, SupportAgrees, ReturnsAgree, ReviewsAgree, SeriesAgrees,
       TrendAgrees
<1> QED
  BY <1>1, AlertsAgree DEF SurfacesAgree

\* Whatever is sold, captured at any time, cancelled, refunded and moderated, in any order: the
\* cash of a window is the sum of its providers', of its days' and, with the ledger on, of its
\* sellers' and the extras'; and every summary, breakdown, export, series and alert that counts
\* a row agrees on its count.
THEOREM FiguresAlwaysAgree == FigureSpec => []FiguresAgree
<1>1. FigureInv => FiguresAgree
  BY Reconciled, Agreed DEF FiguresAgree, FigureInv
<1> QED
  BY <1>1, FigureInductive, PTL
=============================================================================
