------------------------------- MODULE Alerts -------------------------------
(***************************************************************************)
(* The alerts of observability.  A periodic task reads the health of the   *)
(* host and its services and evaluates the rules one after the other: a    *)
(* bad reading opens or updates the alert of the rule's fingerprint, a     *)
(* good one closes it.  An unhandled exception of a request opens or       *)
(* updates an alert for the exception.  Staff acknowledge and resolve.     *)
(*                                                                         *)
(* None of this takes a row lock, and every statement commits on its own,  *)
(* so evaluations that overlap, requests and staff interleave between a    *)
(* read of an alert and the write that follows from it.  What they meet in *)
(* is the unique index on the fingerprint of a live alert.                 *)
(***************************************************************************)
EXTENDS Naturals, Sequences, FiniteSets

CONSTANTS
    RuleOrder,    \* fingerprints of the health rules, as they are evaluated
    Counted,      \* rules that count rows of the database when their turn comes
    Exceptions,   \* fingerprints of unhandled exceptions
    Workers,      \* processes that run the periodic task
    Requests,     \* requests that raise an unhandled exception
    Staff,        \* requests of alert managers
    Alerts,       \* ids of alerts, in the order of their creation
    MaxEvents,    \* bound on what the surroundings do; see README
    None

Rules == {RuleOrder[i] : i \in DOMAIN RuleOrder}
Fingerprints == Rules \cup Exceptions
Callers == Workers \cup Requests

ASSUME AlertsAssumption ==
    /\ RuleOrder \in Seq(Rules)
    /\ Counted \subseteq Rules
    /\ Alerts \subseteq Nat
    /\ None \notin Fingerprints \cup Alerts
    /\ Workers \cap Requests = {}
    /\ MaxEvents \in Nat

VARIABLES
    alert,    \* ObservabilityAlert
    health,   \* what a check of each rule would find now
    caller,   \* what workers and requests have still to report
    staff,    \* requests of alert managers between their read and their write
    events    \* what the surroundings have done

vars == <<alert, health, caller, staff, events>>

LiveStatus == {"open", "acknowledged"}
AlertRow ==
    [of : Fingerprints \cup {None}, status : LiveStatus \cup {"none", "resolved"}]
NoAlert == [of |-> None, status |-> "none"]

\* A service, Celery Beat for one, may not be known to be healthy or not.  What has
\* not been counted yet is "later".
Reading == {"bad", "good", "unknown"}
Item == [of : Fingerprints, reading : Reading] \cup [of : Counted, reading : {"later"}]
CallerRow ==
    [todo : Seq(Item),
     step : {"idle", "look", "update", "insert", "again"}]
Idle == [todo |-> <<>>, step |-> "idle"]

StaffRow == [step : {"idle", "acknowledging", "resolving"}, row : Alerts \cup {None}]
Away == [step |-> "idle", row |-> None]

\* What a lookup of a fingerprint's live alert may find.
LiveOf(f) == {a \in Alerts : alert[a].of = f /\ alert[a].status \in LiveStatus}

\* Mutant: the index covers open alerts only.
MutTaken(f, a) == \E b \in Alerts \ {a} : alert[b].of = f /\ alert[b].status = "open"

\* The index refuses to let a be live with fingerprint f.
Taken(f, a) == \E b \in Alerts \ {a} : alert[b].of = f /\ alert[b].status \in LiveStatus

Current(p) == Head(caller[p].todo)
At(p, step) == caller[p].step = step

Goto(p, step) == caller' = [caller EXCEPT ![p].step = step]
Report(p, todo) == caller' = [caller EXCEPT ![p] = [todo |-> todo, step |-> "look"]]

\* The call is over and the next rule's turn, if there is one.
Advance(p) ==
    caller' = [caller EXCEPT ![p] =
                  IF Len(@.todo) = 1 THEN Idle ELSE [todo |-> Tail(@.todo), step |-> "look"]]

\* An error ends the whole evaluation; the next one starts with the first rule.
Abort(p) == caller' = [caller EXCEPT ![p] = Idle]

Event == events < MaxEvents /\ events' = events + 1

-----------------------------------------------------------------------------
Init ==
    /\ alert = [a \in Alerts |-> NoAlert]
    /\ health \in [Rules -> {"good"}]
    /\ caller = [p \in Callers |-> Idle]
    /\ staff = [m \in Staff |-> Away]
    /\ events = 0

(***************************************************************************)
(* The surroundings                                                        *)
(***************************************************************************)
Change(f, reading) ==
    /\ health[f] # reading
    /\ f \in Counted => reading # "unknown"
    /\ health' = [health EXCEPT ![f] = reading]
    /\ Event
    /\ UNCHANGED <<alert, caller, staff>>

\* A killed worker or request leaves the rest of its work undone.
Crash(p) ==
    /\ ~At(p, "idle")
    /\ Abort(p)
    /\ Event
    /\ UNCHANGED <<alert, health, staff>>

(***************************************************************************)
(* collect_system_health_snapshot and create_error_log_from_exception      *)
(***************************************************************************)
Collect(w) ==
    /\ At(w, "idle") /\ RuleOrder # <<>>
    /\ Report(w, [i \in DOMAIN RuleOrder |->
        [of |-> RuleOrder[i],
         reading |-> IF RuleOrder[i] \in Counted THEN "later" ELSE health[RuleOrder[i]]]])
    /\ UNCHANGED <<alert, health, staff, events>>

\* Unresolved errors, or slow requests, of the last ten minutes.
Count(p) ==
    /\ At(p, "look") /\ Current(p).reading = "later"
    /\ Report(p, [caller[p].todo EXCEPT ![1].reading = health[Current(p).of]])
    /\ UNCHANGED <<alert, health, staff, events>>

Raise(r, f) ==
    /\ At(r, "idle")
    /\ Report(r, <<[of |-> f, reading |-> "bad"]>>)
    /\ Event
    /\ UNCHANGED <<alert, health, staff>>

\* Mutant: a recovery leaves acknowledged alerts to the staff.
MutRecover(p) ==
    /\ At(p, "look") /\ Current(p).reading = "good"
    /\ alert' = [a \in Alerts |->
                    IF alert[a] = [of |-> Current(p).of, status |-> "open"]
                    THEN [alert[a] EXCEPT !.status = "resolved"] ELSE alert[a]]
    /\ Advance(p)
    /\ UNCHANGED <<health, staff, events>>

(***************************************************************************)
(* recover_alert: one statement closes the live alert                      *)
(***************************************************************************)
Recover(p) ==
    /\ At(p, "look") /\ Current(p).reading = "good"
    /\ alert' = [a \in Alerts |->
                    IF a \in LiveOf(Current(p).of) THEN [alert[a] EXCEPT !.status = "resolved"]
                    ELSE alert[a]]
    /\ Advance(p)
    /\ UNCHANGED <<health, staff, events>>

\* A service whose check gives no answer neither opens nor closes an alert.
Skip(p) ==
    /\ At(p, "look") /\ Current(p).reading = "unknown"
    /\ Advance(p)
    /\ UNCHANGED <<alert, health, staff, events>>

(***************************************************************************)
(* create_or_update_alert: a lookup, then an update or an insert, and a    *)
(* second lookup when the index has refused the insert                     *)
(***************************************************************************)
Look(p) ==
    /\ At(p, "look") /\ Current(p).reading = "bad"
    /\ Goto(p, IF LiveOf(Current(p).of) # {} THEN "update" ELSE "insert")
    /\ UNCHANGED <<alert, health, staff, events>>

\* The fields that are saved tell what was read; the status is not among them.
Update(p) ==
    /\ At(p, "update")
    /\ Advance(p)
    /\ UNCHANGED <<alert, health, staff, events>>

Insert(p) ==
    /\ At(p, "insert")
    /\ \E a \in Alerts :
        /\ alert[a].status = "none"
        /\ \A b \in Alerts : b < a => alert[b].status # "none"
        /\ ~Taken(Current(p).of, a)
        /\ alert' = [alert EXCEPT ![a] = [of |-> Current(p).of, status |-> "open"]]
    /\ Advance(p)
    /\ UNCHANGED <<health, staff, events>>

Collide(p) ==
    /\ At(p, "insert") /\ Taken(Current(p).of, None)
    /\ Goto(p, "again")
    /\ UNCHANGED <<alert, health, staff, events>>

LookAgain(p) ==
    /\ At(p, "again")
    /\ IF LiveOf(Current(p).of) # {} THEN Advance(p) ELSE Abort(p)
    /\ UNCHANGED <<alert, health, staff, events>>

(***************************************************************************)
(* Staff: acknowledge and resolve, which decide on what they have read     *)
(***************************************************************************)
\* Mutant: the view acknowledges whatever it has found.
MutAcknowledge(m, a) ==
    /\ staff[m] = Away
    /\ alert[a].status # "none"
    /\ staff' = [staff EXCEPT ![m] = [step |-> "acknowledging", row |-> a]]
    /\ Event
    /\ UNCHANGED <<alert, health, caller>>

Acknowledge(m, a) ==
    /\ staff[m] = Away
    /\ alert[a].status = "open"
    /\ staff' = [staff EXCEPT ![m] = [step |-> "acknowledging", row |-> a]]
    /\ Event
    /\ UNCHANGED <<alert, health, caller>>

Resolve(m, a) ==
    /\ staff[m] = Away
    /\ alert[a].status \in LiveStatus
    /\ staff' = [staff EXCEPT ![m] = [step |-> "resolving", row |-> a]]
    /\ Event
    /\ UNCHANGED <<alert, health, caller>>

\* The index may refuse the write, and the request then fails.
SaveAcknowledge(m) ==
    /\ staff[m].step = "acknowledging"
    /\ LET a == staff[m].row IN
       alert' = IF Taken(alert[a].of, a) THEN alert
                ELSE [alert EXCEPT ![a].status = "acknowledged"]
    /\ staff' = [staff EXCEPT ![m] = Away]
    /\ UNCHANGED <<health, caller, events>>

SaveResolve(m) ==
    /\ staff[m].step = "resolving"
    /\ alert' = [alert EXCEPT ![staff[m].row].status = "resolved"]
    /\ staff' = [staff EXCEPT ![m] = Away]
    /\ UNCHANGED <<health, caller, events>>

-----------------------------------------------------------------------------
Work(p) ==
    Count(p) \/ Recover(p) \/ Skip(p) \/ Look(p) \/ Update(p) \/ Insert(p) \/ Collide(p) \/ LookAgain(p)

Next ==
    \/ \E f \in Rules, reading \in Reading : Change(f, reading)
    \/ \E p \in Callers : Work(p) \/ Crash(p)
    \/ \E w \in Workers : Collect(w)
    \/ \E r \in Requests, f \in Exceptions : Raise(r, f)
    \/ \E m \in Staff :
        \/ \E a \in Alerts : Acknowledge(m, a) \/ Resolve(m, a)
        \/ SaveAcknowledge(m) \/ SaveResolve(m)

\* The scheduler keeps giving the periodic task to some worker, and a worker that
\* is not killed finishes it.  Nobody promises that staff ever do anything.
Fairness ==
    /\ WF_vars(\E w \in Workers : Collect(w))
    /\ \A w \in Workers : WF_vars(Work(w))

Spec == Init /\ [][Next]_vars /\ Fairness

-----------------------------------------------------------------------------
(***************************************************************************)
(* Every row has its type, and who has nothing to report is idle.          *)
(***************************************************************************)
TypeOK ==
    /\ alert \in [Alerts -> AlertRow]
    /\ health \in [Rules -> Reading]
    /\ caller \in [Callers -> CallerRow]
    /\ \A p \in Callers : caller[p].todo = <<>> <=> caller[p].step = "idle"
    /\ staff \in [Staff -> StaffRow]
    /\ \A m \in Staff : staff[m].row = None <=> staff[m].step = "idle"
    /\ events \in Nat

(***************************************************************************)
(* However evaluations, exceptions and staff overlap, a fingerprint has at *)
(* most one live alert, open or acknowledged: an acknowledgement that      *)
(* comes late does not bring a closed alert back beside a new one, and of  *)
(* two evaluations that both found none one gives way.                     *)
(***************************************************************************)
OneLiveAlert ==
    \A a, b \in Alerts :
        /\ alert[a].status \in {"open", "acknowledged"}
        /\ alert[b].status \in {"open", "acknowledged"}
        /\ alert[a].of = alert[b].of
        => a = b

(***************************************************************************)
(* An alert that is resolved while nobody is acknowledging it stays        *)
(* resolved: an evaluation that found it live and updates it afterwards    *)
(* does not bring it back, nor does a request that comes later.  (One that *)
(* had read it before it was resolved does: views.py locks nothing.)       *)
(***************************************************************************)
Settled(a) ==
    /\ alert[a].status = "resolved"
    /\ ~ \E m \in Staff : staff[m] = [step |-> "acknowledging", row |-> a]

SettledForever == [][\A a \in Alerts : Settled(a) => Settled(a)']_vars

(***************************************************************************)
(* Once a check keeps finding the same, and the surroundings come to rest, *)
(* the rule's alert follows: it is live for good when the reading is bad   *)
(* and closed for good when it is good, whatever evaluations of earlier    *)
(* readings, collisions, crashes and late requests of staff did before.    *)
(***************************************************************************)
AlertsFollowHealth ==
    \A f \in Rules :
        /\ <>[](health[f] = "bad") => <>[](LiveOf(f) # {})
        /\ <>[](health[f] = "good") => <>[](LiveOf(f) = {})

=============================================================================
