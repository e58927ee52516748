------------------------------- MODULE Support -------------------------------
(***************************************************************************)
(* One support ticket and its audit trail (support).                       *)
(*                                                                         *)
(* A request loads the ticket, and then changes it, writes the audit row   *)
(* and notifies, each in a statement of its own without a lock; a save     *)
(* names its columns.  A message or a file is a row of its own, written    *)
(* before the audit row; a reply saves the ticket after both.  Only the    *)
(* creation of a ticket is a transaction.                                  *)
(***************************************************************************)
EXTENDS Naturals, FiniteSets

CONSTANTS
    Customer,      \* who opened the ticket
    Staff,         \* other users
    Rights,        \* permission codenames of each user
    Priorities,
    Tags,
    MaxRequests    \* bound on the requests, numbered as they arrive

Right == {"view_all", "reply", "add_note", "view_notes", "assign", "tags", "priority",
          "resolve", "close", "reopen"}
Users == Staff \cup {Customer}

ASSUME SupportAssumption ==
    /\ Rights \in [Users -> SUBSET Right]
    /\ Customer \notin Staff /\ "none" \notin Users
    /\ MaxRequests \in Nat

VARIABLES
    ticket,      \* the SupportTicket row
    written,     \* how many TicketMessage and TicketAttachment rows it has
    trail,       \* the ticket as the audit rows tell it
    logged,      \* and the rows they tell of
    gone,        \* SupportTag rows that were deleted
    request,     \* requests
    mixed,       \* columns that two requests changed at once
    cut          \* kinds of change of which one was cut off half way

supportVars == <<ticket, written, trail, logged, gone, request, mixed, cut>>

Requests == 1..MaxRequests
RowKinds == {"reply", "note", "file"}
Columns == {"status", "assignee", "priority", "tags"}
Ticket == [status : {"none", "open", "pending", "resolved", "closed"},
           resolved : BOOLEAN, closed : BOOLEAN, assignee : Users \cup {"none"},
           priority : Priorities, tags : SUBSET Tags]
Change ==
    [column : {"status"}, to : {"customer", "staff", "resolve", "close", "reopen"}]
    \cup [column : {"assignee"}, to : Users]
    \cup [column : {"priority"}, to : Priorities]
    \cup [column : {"tags"}, to : {"add", "remove"} \X Tags]
    \cup [column : {"none"}, to : {"note", "file"}]
RequestRow == [step : {"new", "row", "save", "log", "done"},
               change : Change \cup {[column |-> "none", to |-> "nothing"]}]
Unused == [step |-> "new", change |-> [column |-> "none", to |-> "nothing"]]
Ended == [Unused EXCEPT !.step = "done"]

Replies == [column : {"status"}, to : {"customer", "staff"}]
RowOf(change) == IF change \in Replies THEN "reply" ELSE change.to
KindOf(change) == IF change.column = "none" THEN change.to ELSE change.column

StatusAfter(t, what) ==
    CASE what = "customer" -> [t EXCEPT !.status = "open"]
      [] what = "staff"    -> [t EXCEPT !.status = "pending"]
      [] what = "resolve"  -> [t EXCEPT !.status = "resolved", !.resolved = TRUE]
      [] what = "close"    -> [t EXCEPT !.status = "closed", !.closed = TRUE]
      [] what = "reopen"   -> [t EXCEPT !.status = "open", !.resolved = FALSE, !.closed = FALSE]

\* What a change writes to a ticket: update_fields names these columns and no other.
Written(t, change) ==
    LET v == change.to IN
    CASE change.column = "none"     -> t
      [] change.column = "assignee" -> [t EXCEPT !.assignee = v]
      [] change.column = "priority" -> [t EXCEPT !.priority = v]
      [] change.column = "tags"     ->
             [t EXCEPT !.tags = IF v[1] = "add" THEN @ \cup {v[2]} ELSE @ \ {v[2]}]
      [] change.column = "status"   -> StatusAfter(t, v)

-----------------------------------------------------------------------------
\* Who may do what.

May(u, right) == right \in Rights[u]

\* get_queryset: others find only their own tickets.
Sees(u) == u = Customer \/ May(u, "view_all")

\* agents lists those a ticket may be assigned to, and assign checks it.
Assignable == {u \in Users : May(u, "view_all") /\ May(u, "reply")}

MayAnswer(u) == u = Customer \/ u \in Assignable
MayReopen(u) == May(u, "reopen") \/ u \in Assignable \cap {ticket.assignee}

SupportInit ==
    /\ \E p \in Priorities :
           ticket = [status |-> "none", resolved |-> FALSE, closed |-> FALSE,
                     assignee |-> "none", priority |-> p, tags |-> {}]
    /\ trail = ticket
    /\ written = [k \in RowKinds |-> 0] /\ logged = written
    /\ gone = {} /\ mixed = {} /\ cut = {}
    /\ request = [r \in Requests |-> Unused]

-----------------------------------------------------------------------------
\* SupportTicketSerializer.create: ticket, message, audit row and notification.
CreateTicket ==
    /\ ticket.status = "none"
    /\ ticket' = [ticket EXCEPT !.status = "open"]
    /\ trail' = [trail EXCEPT !.status = "open"]
    /\ written' = [written EXCEPT !["reply"] = 1]
    /\ logged' = [logged EXCEPT !["reply"] = 1]
    /\ UNCHANGED <<gone, request, mixed, cut>>

\* Changes of tags are rows of their own, which others do not overwrite.
Load(r, change, step) ==
    /\ ticket.status # "none"
    /\ request[r] = Unused /\ \A o \in Requests : o < r => request[o] # Unused
    /\ request' = [request EXCEPT ![r] = [step |-> step, change |-> change]]
    /\ mixed' = IF change.column # "none"
                   /\ \E o \in Requests : request[o].change.column = change.column
                THEN mixed \cup {change.column} ELSE mixed
    /\ UNCHANGED <<ticket, written, trail, logged, gone, cut>>

\* No request about columns has a guard but the permission: a closed ticket can be
\* resolved and an open one reopened.
Alter(r, u, right, change) == Sees(u) /\ May(u, right) /\ Load(r, change, "save")

Assign(r, u, v) ==
    v \in Assignable /\ Alter(r, u, "assign", [column |-> "assignee", to |-> v])
SetPriority(r, u, p) == Alter(r, u, "priority", [column |-> "priority", to |-> p])

\* The tag must be there; one that is not active is refused, which changes nothing.
Tag(r, u, how, t) == t \notin gone /\ Alter(r, u, "tags", [column |-> "tags", to |-> <<how, t>>])
AddTag(r, u, t) == Tag(r, u, "add", t)
RemoveTag(r, u, t) == Tag(r, u, "remove", t)

Resolve(r, u) == Alter(r, u, "resolve", [column |-> "status", to |-> "resolve"])
Close(r, u) == Alter(r, u, "close", [column |-> "status", to |-> "close"])
Reopen(r, u) ==
    Sees(u) /\ MayReopen(u) /\ Load(r, [column |-> "status", to |-> "reopen"], "save")

\* reply: the customer's makes a ticket open, another's pending, a note neither.
Reply(r, u) ==
    /\ ticket.status # "closed"
    /\ MayAnswer(u)
    /\ Load(r, [column |-> "status", to |-> IF u = Customer THEN "customer" ELSE "staff"], "row")

AddNote(r, u) ==
    /\ ticket.status # "closed"
    /\ Sees(u) /\ May(u, "add_note")
    /\ Load(r, [column |-> "none", to |-> "note"], "row")

UploadAttachment(r, u) ==
    /\ ticket.status # "closed"
    /\ MayAnswer(u)
    /\ Load(r, [column |-> "none", to |-> "file"], "row")

WriteRow(r) ==
    LET kind == RowOf(request[r].change) IN
    /\ request[r].step = "row"
    /\ written' = [written EXCEPT ![kind] = @ + 1]
    /\ request' = [request EXCEPT ![r].step = "log"]
    /\ UNCHANGED <<ticket, trail, logged, gone, mixed, cut>>

\* SupportTagViewSet.destroy: the tag leaves every ticket with it, and no audit row tells of it.
DeleteTag(u, t) ==
    /\ May(u, "tags") /\ t \notin gone
    /\ gone' = gone \cup {t}
    /\ ticket' = [ticket EXCEPT !.tags = @ \ {t}]
    /\ UNCHANGED <<written, trail, logged, request, mixed, cut>>

\* A tag that was deleted since the request began cannot be added any more.
Refused(change) == change.column = "tags" /\ change.to[1] = "add" /\ change.to[2] \in gone

\* The row is saved before the audit row, but after it by a reply.  Notifications, which
\* come last, change neither.
Save(r) ==
    LET change == request[r].change IN
    /\ request[r].step = "save" /\ ~Refused(change)
    /\ ticket' = Written(ticket, change)
    /\ request' = [request EXCEPT ![r] = IF change \in Replies THEN Ended
                                         ELSE [change |-> change, step |-> "log"]]
    /\ UNCHANGED <<written, trail, logged, gone, mixed, cut>>

\* Mutant: an uploaded file has no audit row.
MutLog(r) ==
    LET change == request[r].change IN
    /\ request[r].step = "log"
    /\ trail' = Written(trail, change)
    /\ logged' = IF change.column = "none" \/ change \in Replies
                 THEN [logged EXCEPT ![RowOf(change)] =
                           IF RowOf(change) = "file" THEN @ ELSE @ + 1] ELSE logged
    /\ request' = [request EXCEPT ![r] = IF change \in Replies
                                         THEN [change |-> change, step |-> "save"] ELSE Ended]
    /\ UNCHANGED <<ticket, written, gone, mixed, cut>>

Log(r) ==
    LET change == request[r].change IN
    /\ request[r].step = "log"
    /\ trail' = Written(trail, change)
    /\ logged' = IF change.column = "none" \/ change \in Replies
                 THEN [logged EXCEPT ![RowOf(change)] = @ + 1] ELSE logged
    /\ request' = [request EXCEPT ![r] = IF change \in Replies
                                         THEN [change |-> change, step |-> "save"] ELSE Ended]
    /\ UNCHANGED <<ticket, written, gone, mixed, cut>>

\* The process is killed or a statement fails; what was written stays.
Fail(r) ==
    /\ request[r] \notin {Unused, Ended}
    /\ cut' = cut \cup {KindOf(request[r].change)}
    /\ request' = [request EXCEPT ![r] = Ended]
    /\ UNCHANGED <<ticket, written, trail, logged, gone, mixed>>

Arrive(r, u) ==
    \/ Resolve(r, u) \/ Close(r, u) \/ Reopen(r, u)
    \/ Reply(r, u) \/ AddNote(r, u) \/ UploadAttachment(r, u)
    \/ \E v \in Users : Assign(r, u, v)
    \/ \E p \in Priorities : SetPriority(r, u, p)
    \/ \E t \in Tags : AddTag(r, u, t) \/ RemoveTag(r, u, t)

SupportNext ==
    \/ CreateTicket
    \/ \E u \in Users, t \in Tags : DeleteTag(u, t)
    \/ \E r \in Requests :
           \/ WriteRow(r) \/ Save(r) \/ Log(r) \/ Fail(r)
           \/ \E u \in Users : Arrive(r, u)

SupportSpec == SupportInit /\ [][SupportNext]_supportVars

-----------------------------------------------------------------------------
SupportTypeOK ==
    /\ ticket \in Ticket
    /\ trail \in Ticket
    /\ {written, logged} \subseteq [RowKinds -> Nat]
    /\ request \in [Requests -> RequestRow]
    /\ gone \subseteq Tags
    /\ mixed \subseteq Columns
    /\ cut \subseteq Columns \cup {"note", "file"}

Busy(c) == \E r \in Requests : KindOf(request[r].change) = c
Quiet(c) == ~Busy(c) /\ c \notin cut
Settled(c) == Quiet(c) /\ c \notin mixed

\* Whoever reads the audit trail finds the ticket as it is: each column that no request is
\* changing has the value the audit rows give it, whatever was done to the other columns
\* at the same time, and every message, note and file that is there is told of, and no
\* other.  A tag that was deleted is on no ticket, although the trail tells that it was
\* added.  Otherwise only two requests that changed the same column at once, or one that
\* was cut off half way, make the two differ.
TrailTellsTicket ==
    /\ Settled("status") => /\ ticket.status = trail.status
                            /\ ticket.resolved = trail.resolved
                            /\ ticket.closed = trail.closed
    /\ Settled("assignee") => ticket.assignee = trail.assignee
    /\ Settled("priority") => ticket.priority = trail.priority
    /\ Settled("tags") => ticket.tags = trail.tags \ gone
    /\ Quiet("status") => written.reply = logged.reply
    /\ \A kind \in {"note", "file"} : Quiet(kind) => written[kind] = logged[kind]
=============================================================================
