----------------------------- MODULE PaymentTrail -----------------------------
(***************************************************************************)
(* The PaymentEvent rows of one order's payment attempts.                  *)
(*                                                                         *)
(* mark-success, mark-failed and cancel load the attempt, change it in a   *)
(* transaction that locks it and looks again, refresh it and only then     *)
(* write the event, with the status loaded first as the old one and the    *)
(* status refreshed as the new one.  Attempts that are cancelled because   *)
(* another succeeded, or with the order, have their event written in the   *)
(* transaction.  A capture the gateway confirms writes none, nor does the  *)
(* refund of all that was paid.                                            *)
(***************************************************************************)
EXTENDS Naturals, Sequences, FiniteSets

CONSTANTS
    Attempts,     \* numbers of payment attempts, in the order of their creation
    MaxVisits     \* bound on the requests, numbered as they arrive

ASSUME TrailAssumption == Attempts \subseteq Nat \ {0} /\ MaxVisits \in Nat

VARIABLES
    attempt,     \* status of each attempt
    awaiting,    \* the order awaits payment
    event,       \* PaymentEvent rows of each attempt: old and new status
    visit,       \* requests
    silent,      \* attempts the gateway captured
    muddled      \* attempts with two requests at once, or one that was cut off

trailVars == <<attempt, awaiting, event, visit, silent, muddled>>

Visits == 1..MaxVisits
AttemptStatus == {"none", "pending", "success", "failed", "cancelled", "refunded"}
Event == [old : AttemptStatus, new : AttemptStatus]
Visit == [step : {"new", "act", "refresh", "write", "done"},
          to : AttemptStatus, of : Attempts \cup {0}, old : AttemptStatus, new : AttemptStatus]
NewVisit == [step |-> "new", to |-> "none", of |-> 0, old |-> "none", new |-> "none"]
EndedVisit == [NewVisit EXCEPT !.step = "done"]

\* What a request may make of an attempt: the serializers ask this of the status as it
\* was loaded, the transactions of the row they have locked.
MayBecome(status, to) ==
    IF to = "cancelled" THEN status \in {"pending", "failed"} ELSE status = "pending"

PendingIn(a) == {p \in Attempts : a[p] = "pending"}
WithEvent(p, old, new) == Append(event[p], [old |-> old, new |-> new])

TrailInit ==
    /\ attempt = [p \in Attempts |-> "none"]
    /\ awaiting = TRUE
    /\ event = [p \in Attempts |-> <<>>]
    /\ visit = [v \in Visits |-> NewVisit]
    /\ silent = {} /\ muddled = {}

-----------------------------------------------------------------------------
\* PaymentCreateSerializer: an attempt that is pending is given back as it is.
CreateAttempt(p) ==
    /\ awaiting /\ PendingIn(attempt) = {}
    /\ attempt[p] = "none" /\ \A q \in Attempts : q < p => attempt[q] # "none"
    /\ attempt' = [attempt EXCEPT ![p] = "pending"]
    /\ event' = [event EXCEPT ![p] = WithEvent(p, "none", "pending")]
    /\ UNCHANGED <<awaiting, visit, silent, muddled>>

LoadAttempt(v, p, to) ==
    /\ visit[v] = NewVisit /\ \A w \in Visits : w < v => visit[w] # NewVisit
    /\ MayBecome(attempt[p], to)
    /\ visit' = [visit EXCEPT ![v] = [step |-> "act", to |-> to, of |-> p, old |-> attempt[p],
                                      new |-> attempt[p]]]
    /\ muddled' = IF \E w \in Visits : visit[w].of = p THEN muddled \cup {p} ELSE muddled
    /\ UNCHANGED <<attempt, awaiting, event, silent>>

\* The other attempts that are pending end with an event of their own.
EndOthers(p, status) ==
    LET others == PendingIn(attempt) \ {p} IN
    /\ attempt' = [q \in Attempts |-> IF q \in others THEN "cancelled"
                                      ELSE IF q = p THEN status ELSE attempt[q]]
    /\ event' = [q \in Attempts |-> IF q \in others THEN WithEvent(q, "pending", "cancelled")
                                    ELSE event[q]]

MarkAttempt(v) ==
    LET p == visit[v].of  to == visit[v].to IN
    /\ visit[v].step = "act"
    /\ MayBecome(attempt[p], to) /\ (to = "success" => awaiting)
    /\ IF to = "success" THEN EndOthers(p, to) /\ awaiting' = FALSE
       ELSE attempt' = [attempt EXCEPT ![p] = to] /\ UNCHANGED <<event, awaiting>>
    /\ visit' = [visit EXCEPT ![v].step = "refresh"]
    /\ UNCHANGED <<silent, muddled>>

\* ... or the transaction finds another status than was loaded, and raises.
RefuseAttempt(v) ==
    LET p == visit[v].of  to == visit[v].to IN
    /\ visit[v].step = "act"
    /\ ~(MayBecome(attempt[p], to) /\ (to = "success" => awaiting))
    /\ visit' = [visit EXCEPT ![v] = EndedVisit]
    /\ UNCHANGED <<attempt, awaiting, event, silent, muddled>>

RefreshAttempt(v) ==
    /\ visit[v].step = "refresh"
    /\ visit' = [visit EXCEPT ![v].new = attempt[visit[v].of], ![v].step = "write"]
    /\ UNCHANGED <<attempt, awaiting, event, silent, muddled>>

\* Mutant: the old status is read after the change.
MutWriteEvent(v) ==
    LET p == visit[v].of IN
    /\ visit[v].step = "write"
    /\ event' = [event EXCEPT ![p] = WithEvent(p, visit[v].new, visit[v].new)]
    /\ visit' = [visit EXCEPT ![v] = EndedVisit]
    /\ UNCHANGED <<attempt, awaiting, silent, muddled>>

WriteEvent(v) ==
    LET p == visit[v].of IN
    /\ visit[v].step = "write"
    /\ event' = [event EXCEPT ![p] = WithEvent(p, visit[v].old, visit[v].new)]
    /\ visit' = [visit EXCEPT ![v] = EndedVisit]
    /\ UNCHANGED <<attempt, awaiting, silent, muddled>>

\* The process is killed; a change that was committed has no event.
CutOffVisit(v) ==
    /\ visit[v].step \in {"act", "refresh", "write"}
    /\ muddled' = IF visit[v].step = "act" THEN muddled ELSE muddled \cup {visit[v].of}
    /\ visit' = [visit EXCEPT ![v] = EndedVisit]
    /\ UNCHANGED <<attempt, awaiting, event, silent>>

\* CaptureConfirmationView calls mark_success.
ConfirmCapture(p) ==
    /\ attempt[p] = "pending" /\ awaiting
    /\ EndOthers(p, "success")
    /\ awaiting' = FALSE
    /\ silent' = silent \cup {p}
    /\ UNCHANGED <<visit, muddled>>

\* Order.cancel
CancelTheOrder ==
    /\ awaiting
    /\ attempt' = [q \in Attempts |-> IF attempt[q] = "pending" THEN "cancelled" ELSE attempt[q]]
    /\ event' = [q \in Attempts |-> IF attempt[q] = "pending"
                                    THEN WithEvent(q, "pending", "cancelled") ELSE event[q]]
    /\ awaiting' = FALSE
    /\ UNCHANGED <<visit, silent, muddled>>

\* post_verified_refund: all that was paid is given back.
RefundAttempt(p) ==
    /\ attempt[p] = "success"
    /\ attempt' = [attempt EXCEPT ![p] = "refunded"]
    /\ UNCHANGED <<awaiting, event, visit, silent, muddled>>

TrailNext ==
    \/ CancelTheOrder
    \/ \E p \in Attempts : CreateAttempt(p) \/ ConfirmCapture(p) \/ RefundAttempt(p)
    \/ \E v \in Visits :
           \/ MarkAttempt(v) \/ RefuseAttempt(v) \/ RefreshAttempt(v) \/ WriteEvent(v)
           \/ CutOffVisit(v)
           \/ \E p \in Attempts, to \in {"success", "failed", "cancelled"} : LoadAttempt(v, p, to)

TrailSpec == TrailInit /\ [][TrailNext]_trailVars

-----------------------------------------------------------------------------
TrailTypeOK ==
    /\ attempt \in [Attempts -> AttemptStatus]
    /\ awaiting \in BOOLEAN
    /\ event \in [Attempts -> Seq(Event)]
    /\ visit \in [Visits -> Visit]
    /\ silent \subseteq Attempts /\ muddled \subseteq Attempts

\* What the last event of an attempt may name when no request works on it.  A refund is
\* seen only by a request that refreshes the attempt it marked after it was refunded.
LastToldOf(p) ==
    IF p \in silent THEN {"pending"}
    ELSE IF attempt[p] = "refunded" THEN {"success", "refunded"} ELSE {attempt[p]}

\* The events of an attempt are its history: each takes up where the one before it left
\* off, whatever became of the order or of other attempts in between, and when no request
\* works on it the last one names its status.  Only requests about the attempt that
\* overlapped, or one cut off after its commit, break the chain; only a capture confirmed
\* by the gateway and the refund of all that was paid are missing from it.  In no case do
\* two events, of whatever attempts of the order, tell of a success.
EventsAreHistory ==
    /\ \A p \in Attempts \ muddled :
           /\ \A i \in 1..Len(event[p]) :
                  event[p][i].old = (IF i = 1 THEN "none" ELSE event[p][i - 1].new)
           /\ (\A v \in Visits : visit[v].of # p) /\ attempt[p] # "none" =>
                  event[p][Len(event[p])].new \in LastToldOf(p)
    /\ \A p, q \in Attempts : \A i \in 1..Len(event[p]), j \in 1..Len(event[q]) :
           event[p][i].new = "success" /\ event[q][j].new = "success" => p = q /\ i = j
=============================================================================
