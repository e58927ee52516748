------------------------------- MODULE Notices -------------------------------
(***************************************************************************)
(* One user's notifications and preferences (notifications).               *)
(*                                                                         *)
(* Another component that has something to tell reads the preferences and  *)
(* then creates the notification.  A change of the preferences loads the   *)
(* row, changes what the request names and saves the whole row.  Marking   *)
(* selected notifications loads them and saves one after the other;        *)
(* marking all locks them first; what deletes is one statement.            *)
(***************************************************************************)
EXTENDS Naturals, FiniteSets

CONSTANTS
    Happenings,   \* templates of what is told, of those below
    Channels,
    Notes,        \* numbers of notifications, in the order of their creation
    MaxErrands    \* bound on the requests, numbered as they arrive

\* A template of each kind and the type a user may mute.
NOTIFICATION_TEMPLATES ==
    [product_approved  |-> "product",  low_stock_alert       |-> "inventory",
     order_created     |-> "order",    payment_successful    |-> "payment",
     shipment_shipped  |-> "shipping", return_approved       |-> "return",
     review_approved   |-> "product",  support_ticket_closed |-> "support"]

ASSUME NoticeAssumption ==
    /\ Happenings \subseteq DOMAIN NOTIFICATION_TEMPLATES /\ Happenings # {}
    /\ Channels # {}
    /\ Notes \subseteq Nat /\ MaxErrands \in Nat

VARIABLES
    preference,   \* the NotificationPreference row; one is made with nothing muted
    wish,         \* what the user has asked for
    note,         \* Notification rows
    errand,       \* requests
    unwanted,     \* notifications of what the user has muted since before it happened
    clash         \* two changes of the preferences overlapped

noticeVars == <<preference, wish, note, errand, unwanted, clash>>

Errands == 1..MaxErrands
Types == {NOTIFICATION_TEMPLATES[h] : h \in Happenings}
Preference == [types : SUBSET Types, channels : SUBSET Channels, off : SUBSET Channels]
NothingMuted == [types |-> {}, channels |-> {}, off |-> {}]
Note == [state : {"none", "unread", "read", "deleted"}, type : Types, channel : Channels]
NoNote == [state |-> "none", type |-> CHOOSE t \in Types : TRUE,
           channel |-> CHOOSE c \in Channels : TRUE]
Errand == [step : {"new", "tell", "create", "save", "mark", "done"},
           type : Types, channel : Channels, muted : BOOLEAN,
           row : Preference, field : DOMAIN NothingMuted,
           of : SUBSET Notes, to : {"unread", "read"}]
NewErrand == [step |-> "new", type |-> NoNote.type, channel |-> NoNote.channel, muted |-> FALSE,
              row |-> NothingMuted, field |-> "types", of |-> {}, to |-> "read"]
EndedErrand == [NewErrand EXCEPT !.step = "done"]

\* email_enabled and the like are one set here, off.
is_notification_allowed(p, type, channel) ==
    type \notin p.types /\ channel \notin p.channels /\ channel \notin p.off

Existing == {n \in Notes : note[n].state \in {"unread", "read"}}
WithState(ns, state) == {n \in ns \cap Existing : note[n].state = state}

NoticeInit ==
    /\ preference = NothingMuted /\ wish = NothingMuted
    /\ note = [n \in Notes |-> NoNote]
    /\ errand = [e \in Errands |-> NewErrand]
    /\ unwanted = {} /\ clash = FALSE

-----------------------------------------------------------------------------
Begins(e, work) ==
    /\ errand[e] = NewErrand /\ \A o \in Errands : o < e => errand[o] # NewErrand
    /\ errand' = [errand EXCEPT ![e] = work]
End(e) == errand' = [errand EXCEPT ![e] = EndedErrand]

Happens(e, h, channel) ==
    LET type == NOTIFICATION_TEMPLATES[h] IN
    /\ Begins(e, [NewErrand EXCEPT !.step = "tell", !.type = type, !.channel = channel,
                                   !.muted = ~is_notification_allowed(wish, type, channel)])
    /\ UNCHANGED <<preference, wish, note, unwanted, clash>>

\* Mutant: the switches of the channels are not looked at.
MutAskPreference(e) ==
    /\ errand[e].step = "tell"
    /\ IF is_notification_allowed([preference EXCEPT !.off = {}], errand[e].type,
                                  errand[e].channel)
       THEN errand' = [errand EXCEPT ![e].step = "create"] ELSE End(e)
    /\ UNCHANGED <<preference, wish, note, unwanted, clash>>

\* create_notification asks ...
AskPreference(e) ==
    /\ errand[e].step = "tell"
    /\ IF is_notification_allowed(preference, errand[e].type, errand[e].channel)
       THEN errand' = [errand EXCEPT ![e].step = "create"] ELSE End(e)
    /\ UNCHANGED <<preference, wish, note, unwanted, clash>>

\* ... and creates.
CreateNotification(e, n) ==
    /\ errand[e].step = "create"
    /\ note[n] = NoNote /\ \A m \in Notes : m < n => note[m] # NoNote
    /\ note' = [note EXCEPT ![n] = [state |-> "unread", type |-> errand[e].type,
                                    channel |-> errand[e].channel]]
    /\ unwanted' = IF errand[e].muted THEN unwanted \cup {n} ELSE unwanted
    /\ End(e)
    /\ UNCHANGED <<preference, wish, clash>>

\* POST of the preferences: partial, so the request names one field here, with a list of
\* known values; the others are saved as they were loaded.
LoadPreferences(e, field, value) ==
    /\ Begins(e, [NewErrand EXCEPT !.step = "save", !.field = field,
                                   !.row = [preference EXCEPT ![field] = value]])
    /\ clash' = (clash \/ \E o \in Errands : errand[o].step = "save")
    /\ UNCHANGED <<preference, wish, note, unwanted>>

SavePreferences(e) ==
    LET field == errand[e].field IN
    /\ errand[e].step = "save"
    /\ preference' = errand[e].row
    /\ wish' = [wish EXCEPT ![field] = errand[e].row[field]]
    /\ errand' = [o \in Errands |->
           IF o = e THEN EndedErrand
           ELSE [errand[o] EXCEPT !.muted =
                     @ /\ ~is_notification_allowed(wish', errand[o].type, errand[o].channel)]]
    /\ UNCHANGED <<note, unwanted, clash>>

-----------------------------------------------------------------------------
Other(state) == IF state = "read" THEN "unread" ELSE "read"

\* mark-read, mark-unread, the selected ones and the actions of the admin save those
\* that were loaded with the other state.
LoadToMark(e, ns, to) ==
    /\ ns # {} /\ ns = WithState(ns, Other(to))
    /\ Begins(e, [NewErrand EXCEPT !.step = "mark", !.of = ns, !.to = to])
    /\ UNCHANGED <<preference, wish, note, unwanted, clash>>

\* The save of a row that was deleted raises, and the rest is not saved.
SaveMark(e, n) ==
    /\ errand[e].step = "mark" /\ n \in errand[e].of
    /\ IF n \in Existing
       THEN /\ note' = [note EXCEPT ![n].state = errand[e].to]
            /\ IF errand[e].of = {n} THEN End(e)
               ELSE errand' = [errand EXCEPT ![e].of = @ \ {n}]
       ELSE End(e) /\ UNCHANGED note
    /\ UNCHANGED <<preference, wish, unwanted, clash>>

MarkAllRead ==
    /\ WithState(Notes, "unread") # {}
    /\ note' = [n \in Notes |-> IF note[n].state = "unread" THEN [note[n] EXCEPT !.state = "read"]
                                ELSE note[n]]
    /\ UNCHANGED <<preference, wish, errand, unwanted, clash>>

Remove(ns) ==
    /\ ns # {}
    /\ note' = [n \in Notes |-> IF n \in ns THEN [note[n] EXCEPT !.state = "deleted"] ELSE note[n]]
    /\ UNCHANGED <<preference, wish, errand, unwanted, clash>>

ClearRead == Remove(WithState(Notes, "read"))
ClearAll == Remove(Existing)
DeleteSelected(ns) == Remove(ns \cap Existing)
\* cleanup_notifications: the read ones created before a date.
CleanUp(n) == Remove({m \in WithState(Notes, "read") : m <= n})

NoticeNext ==
    \/ MarkAllRead \/ ClearRead \/ ClearAll
    \/ \E n \in Notes : CleanUp(n)
    \/ \E ns \in SUBSET Notes : DeleteSelected(ns)
    \/ \E e \in Errands :
           \/ AskPreference(e) \/ SavePreferences(e)
           \/ \E h \in Happenings, c \in Channels : Happens(e, h, c)
           \/ \E n \in Notes : CreateNotification(e, n) \/ SaveMark(e, n)
           \/ \E types \in SUBSET Types : LoadPreferences(e, "types", types)
           \/ \E field \in {"channels", "off"}, cs \in SUBSET Channels :
                  LoadPreferences(e, field, cs)
           \/ \E ns \in SUBSET Notes, to \in {"unread", "read"} : LoadToMark(e, ns, to)

NoticeSpec == NoticeInit /\ [][NoticeNext]_noticeVars

-----------------------------------------------------------------------------
NoticeTypeOK ==
    /\ {preference, wish} \subseteq Preference
    /\ note \in [Notes -> Note]
    /\ errand \in [Errands -> Errand]
    /\ unwanted \subseteq Notes
    /\ clash \in BOOLEAN

\* A user is told nothing that happened after the user had muted its type or channel, if
\* the user left it muted, however many changes of other preferences came in between; only
\* two changes that overlapped can undo one another.
SilentWhenMuted ==
    ~clash => unwanted = {} /\ preference = wish
=============================================================================
