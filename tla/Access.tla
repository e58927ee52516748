------------------------------- MODULE Access -------------------------------
(***************************************************************************)
(* Roles, their permissions and the cache of a user's permissions (rbac).  *)
(*                                                                         *)
(* A request that needs a user's permissions takes them from the cache, or *)
(* reads the rows and stores the list: reads and store are separate, and   *)
(* nothing keeps a change of the rows from landing between them.  Changes  *)
(* clear the cache in one of two orders.  Assigning and removing write     *)
(* first and clear afterwards.  Deleting through Django's collector and    *)
(* the console's switch of a role's permission clear inside a transaction  *)
(* that commits later.  Some changes clear nothing, or clear another user. *)
(*                                                                         *)
(* Time passes in ticks, parts of a second; rows and entries keep the      *)
(* ticks they have left.  A timeout of the cache is in whole seconds.      *)
(***************************************************************************)
EXTENDS Naturals, FiniteSets

CONSTANTS
    Members,       \* users
    Roles,
    SystemRoles,   \* roles whose is_system_role is set
    Codenames,     \* permissions
    Readers,       \* requests that ask for a user's permissions
    Lives,         \* ticks until expiry an assignment may be given
    Never,         \* ticks left of an assignment without expires_at
    Second,        \* ticks of a second
    CacheTimeout,  \* PERMISSION_CACHE_TIMEOUT in ticks
    MaxEdits       \* bound on the changes administrators make

ASSUME AccessAssumption ==
    /\ SystemRoles \subseteq Roles
    /\ Lives \subseteq Nat \ {0}
    /\ Second \in Nat \ {0} /\ CacheTimeout \in Nat /\ CacheTimeout >= Second
    /\ Never \in Nat /\ \A l \in Lives \cup {CacheTimeout} : l < Never
    /\ MaxEdits \in Nat
    /\ "nobody" \notin Members

VARIABLES
    present,     \* Role rows
    held,        \* UserRole rows
    grants,      \* RolePermission rows
    defined,     \* Permission rows
    superuser,   \* users with is_superuser
    entry,       \* the cached list of each user
    fill,        \* readers between their read and their store
    sweeping,    \* roles whose holders are still to be listed and cleared
    clearing,    \* how often the entry of each user is still to be deleted
    open,        \* the transaction that has cleared but not committed
    bulk,        \* assignments a bulk request has still to make
    edits,       \* changes so far
    unsettled    \* users whose entry may be out of date; see Current

accessVars == <<present, held, grants, defined, superuser, entry, fill,
                sweeping, clearing, open, bulk, edits, unsettled>>

Holding == [row : {"none", "active", "inactive"}, left : 0..Never]
NoHolding == [row |-> "none", left |-> 0]
NoEntry == [stored |-> FALSE, list |-> {}, left |-> 0]
Entry == [stored : BOOLEAN, list : SUBSET Codenames, left : 0..CacheTimeout]
NoFill == [of |-> "nobody", step |-> "idle", roles |-> {}, list |-> {}, left |-> 0]
Fill == [of : Members \cup {"nobody"}, step : {"idle", "roles", "read", "timed"},
         roles : SUBSET Roles, list : SUBSET Codenames, left : 0..CacheTimeout]

NoChange == [kind |-> "none"]
ChangeRow ==
    {NoChange}
    \cup [kind : {"dropHolding"}, member : Members, role : Roles]
    \cup [kind : {"dropRole"}, role : Roles]
    \cup [kind : {"dropPermission"}, code : Codenames]
    \cup [kind : {"switch"}, role : Roles, code : Codenames, enabled : BOOLEAN]

\* get_user_roles: active and not expired.
ActiveRoles(m) == {r \in Roles : held[<<m, r>>].row = "active" /\ held[<<m, r>>].left > 0}

GrantedBy(rs) == {p \in Codenames : \E r \in rs : <<r, p>> \in grants}
Effective(m) == IF m \in superuser THEN defined ELSE GrantedBy(ActiveRoles(m))

\* max(1, int(seconds)): what is left of a second that has begun counts as a second only
\* when there is no other.
WholeSeconds(left) == IF left < Second THEN Second ELSE left - (left % Second)

\* The timeout get_user_permissions gives a list: a superuser's, another's at most until
\* the next role expires.
StoreTimeout(m) ==
    LET expiring == {r \in ActiveRoles(m) : m \notin superuser /\ held[<<m, r>>].left # Never}
        timeouts == {WholeSeconds(held[<<m, r>>].left) : r \in expiring} \cup {CacheTimeout}
    IN  {l \in timeouts : \A k \in timeouts : l <= k}

InFill(m) == \E d \in Readers : fill[d].of = m

AccessInit ==
    /\ present = Roles
    /\ held = [x \in Members \X Roles |->
                   IF x[2] \in SystemRoles THEN [row |-> "active", left |-> Never]
                                           ELSE NoHolding]
    /\ grants = Roles \X Codenames
    /\ defined = Codenames
    /\ superuser = {}
    /\ entry = [m \in Members |-> NoEntry]
    /\ fill = [d \in Readers |-> NoFill]
    /\ sweeping = {} /\ bulk = {}
    /\ clearing = [m \in Members |-> 0]
    /\ open = NoChange
    /\ edits = 0
    /\ unsettled = {}

-----------------------------------------------------------------------------
\* A request for a user's permissions.

rows == <<present, held, grants, defined, superuser>>
clears == <<sweeping, clearing, open, bulk, edits>>

\* A hit returns the stored list and changes nothing; this is a miss.
ReadRoles(d, m) ==
    /\ fill[d].step = "idle" /\ ~entry[m].stored
    /\ fill' = [fill EXCEPT ![d] =
                    [NoFill EXCEPT !.of = m, !.step = "roles", !.roles = ActiveRoles(m)]]
    /\ UNCHANGED <<rows, clears, entry, unsettled>>

\* The permissions of the roles are fetched by a query of their own.
ReadGrants(d) ==
    /\ fill[d].step = "roles"
    /\ fill' = [fill EXCEPT ![d].step = "read",
                            ![d].list = IF fill[d].of \in superuser THEN defined
                                        ELSE GrantedBy(fill[d].roles)]
    /\ UNCHANGED <<rows, clears, entry, unsettled>>

\* A third query looks for the next role to expire, at a later time.
ReadExpiry(d) ==
    /\ fill[d].step = "read"
    /\ \E l \in StoreTimeout(fill[d].of) :
           fill' = [fill EXCEPT ![d].step = "timed", ![d].left = l]
    /\ UNCHANGED <<rows, clears, entry, unsettled>>

StoreList(d) ==
    /\ fill[d].step = "timed"
    /\ entry' = [entry EXCEPT ![fill[d].of] =
                    [stored |-> TRUE, list |-> fill[d].list, left |-> fill[d].left]]
    /\ fill' = [fill EXCEPT ![d] = NoFill]
    /\ UNCHANGED <<rows, clears, unsettled>>

\* cache.delete for one user, the last step of a change of that user's roles.
ClearMember(m) ==
    /\ clearing[m] > 0
    /\ clearing' = [clearing EXCEPT ![m] = @ - 1]
    /\ entry' = [entry EXCEPT ![m] = NoEntry]
    /\ unsettled' = IF InFill(m) THEN unsettled ELSE unsettled \ {m}
    /\ UNCHANGED <<rows, fill, sweeping, open, bulk, edits>>

\* clear_role_permissions_cache lists the holders and clears them one by one.
SweepRole(r) ==
    /\ r \in sweeping
    /\ sweeping' = sweeping \ {r}
    /\ clearing' = [m \in Members |-> IF held[<<m, r>>].row = "active" THEN clearing[m] + 1
                                      ELSE clearing[m]]
    /\ UNCHANGED <<rows, entry, fill, open, bulk, edits, unsettled>>

-----------------------------------------------------------------------------
\* Changes that write first and clear afterwards.

Edit == edits < MaxEdits /\ edits' = edits + 1

\* Postgres makes a second writer of the rows wait for the open transaction.
Free(m, r) ==
    CASE open.kind = "dropHolding" -> <<m, r>> # <<open.member, open.role>>
      [] open.kind = "dropRole"    -> r # open.role
      [] OTHER                     -> TRUE
FreeGrant(r, p) ==
    CASE open.kind = "dropRole"       -> r # open.role
      [] open.kind = "dropPermission" -> p # open.code
      [] open.kind = "switch"         -> <<r, p>> # <<open.role, open.code>>
      [] OTHER                        -> TRUE

\* Whoever reads the rows of a user while they change may store what they were.
Touched(m) == \/ Effective(m)' # Effective(m)
              \/ \E r \in Roles : held'[<<m, r>>] # held[<<m, r>>]
Disturbed == {m \in Members : InFill(m) /\ Touched(m)}
\* The signal of the save and the function clear both; two deletions in a row are one.
ClearLater(m) == clearing' = [clearing EXCEPT ![m] = @ + 1]

\* assign_role creates the row or makes it active again with the new expiry.
Assigned(m, r, life) ==
    /\ r \in present /\ Free(m, r)
    /\ held' = [held EXCEPT ![<<m, r>>] = [row |-> "active", left |-> life]]
    /\ ClearLater(m)
    /\ UNCHANGED <<present, grants, defined, superuser>>
    /\ unsettled' = unsettled \cup Disturbed

AssignRole(m, r) ==
    /\ Edit
    /\ \E life \in Lives \cup {Never} : Assigned(m, r, life)
    /\ UNCHANGED <<entry, fill, sweeping, open, bulk>>

\* BulkAssignRolesView assigns one pair after the other; a pair that raises is
\* skipped.
BulkAssign(ms, rs) ==
    /\ Edit /\ bulk = {}
    /\ bulk' = ms \X rs
    /\ UNCHANGED <<rows, entry, fill, sweeping, clearing, open, unsettled>>

BulkStep(m, r) ==
    /\ <<m, r>> \in bulk
    /\ bulk' = bulk \ {<<m, r>>}
    /\ \/ Assigned(m, r, Never)
       \/ UNCHANGED <<rows, clearing, unsettled>>
    /\ UNCHANGED <<entry, fill, sweeping, open, edits>>

\* Mutant: the cache is not cleared.
MutRemoveRole(m, r) ==
    /\ Edit /\ Free(m, r)
    /\ held' = [held EXCEPT ![<<m, r>>] = NoHolding]
    /\ UNCHANGED <<present, grants, defined, superuser, entry, fill, sweeping, clearing, open, bulk>>
    /\ unsettled' = unsettled \cup Disturbed

RemoveRole(m, r) ==
    /\ Edit /\ Free(m, r)
    /\ held' = [held EXCEPT ![<<m, r>>] = NoHolding]
    /\ ClearLater(m)
    /\ UNCHANGED <<present, grants, defined, superuser, entry, fill, sweeping, open, bulk>>
    /\ unsettled' = unsettled \cup Disturbed

\* add_permission and remove_permission of RoleViewSet.
AddPermission(r, p) ==
    /\ Edit /\ p \in defined /\ r \in present /\ FreeGrant(r, p)
    /\ grants' = grants \cup {<<r, p>>}
    /\ sweeping' = sweeping \cup {r}
    /\ UNCHANGED <<present, held, defined, superuser, entry, fill, clearing, open, bulk>>
    /\ unsettled' = unsettled \cup Disturbed

RemovePermission(r, p) ==
    /\ Edit /\ p \in defined /\ r \in present /\ FreeGrant(r, p)
    /\ grants' = grants \ {<<r, p>>}
    /\ sweeping' = sweeping \cup {r}
    /\ UNCHANGED <<present, held, defined, superuser, entry, fill, clearing, open, bulk>>
    /\ unsettled' = unsettled \cup Disturbed

\* UserRoleViewSet and the admin save a row; post_save clears its user.
SetActive(m, r, state) ==
    /\ Edit /\ Free(m, r)
    /\ held[<<m, r>>].row # "none"
    /\ held' = [held EXCEPT ![<<m, r>>].row = state]
    /\ ClearLater(m)
    /\ UNCHANGED <<present, grants, defined, superuser, entry, fill, sweeping, open, bulk>>
    /\ unsettled' = unsettled \cup Disturbed

-----------------------------------------------------------------------------
\* Changes that leave an entry behind.

\* The same save with another user in it: post_save clears the new user only.
MoveHolding(m, n, r) ==
    /\ Edit /\ Free(m, r) /\ Free(n, r)
    /\ held[<<m, r>>].row # "none" /\ held[<<n, r>>].row = "none"
    /\ held' = [held EXCEPT ![<<n, r>>] = held[<<m, r>>], ![<<m, r>>] = NoHolding]
    /\ ClearLater(n)
    /\ UNCHANGED <<present, grants, defined, superuser, entry, fill, sweeping, open, bulk>>
    /\ unsettled' = unsettled \cup {m} \cup Disturbed

\* The admin's user form has the is_superuser flag; no signal listens to it.
SetSuperuser(m) ==
    /\ Edit
    /\ superuser' = (superuser \cup {m}) \ (superuser \cap {m})
    /\ UNCHANGED <<present, held, grants, defined, entry, fill, sweeping, clearing, open, bulk>>
    /\ unsettled' = unsettled \cup {m}

CreateRole(r) ==
    /\ Edit /\ r \notin present
    /\ present' = present \cup {r}
    /\ UNCHANGED <<held, grants, defined, superuser, entry, fill, sweeping, clearing, open, bulk,
                   unsettled>>

\* A new permission belongs to every superuser, whose entry stays.
CreatePermission(p) ==
    /\ Edit /\ p \notin defined
    /\ defined' = defined \cup {p}
    /\ UNCHANGED <<present, held, grants, superuser, entry, fill, sweeping, clearing, open, bulk>>
    /\ unsettled' = unsettled \cup superuser

-----------------------------------------------------------------------------
\* Changes that clear inside their transaction.  The clear is visible at once, the
\* rows only after the commit.

ClearNow(ms) ==
    /\ entry' = [m \in Members |-> IF m \in ms THEN NoEntry ELSE entry[m]]
    /\ unsettled' = {m \in unsettled : m \notin ms \/ InFill(m)}

HoldersOf(r) == {m \in Members : held[<<m, r>>].row = "active"}

Begin(change, ms) ==
    /\ Edit /\ open = NoChange
    /\ open' = change
    /\ ClearNow(ms)
    /\ UNCHANGED <<rows, fill, sweeping, clearing, bulk>>

\* UserRoleViewSet.destroy
DeleteHolding(m, r) ==
    /\ held[<<m, r>>].row # "none"
    /\ Begin([kind |-> "dropHolding", member |-> m, role |-> r], {m})

\* RoleViewSet.destroy cascades to the rows of users and permissions.
DeleteRole(r) ==
    /\ r \in present \ SystemRoles
    /\ Begin([kind |-> "dropRole", role |-> r], {m \in Members : held[<<m, r>>].row # "none"})

\* PermissionViewSet.destroy cascades to the roles that have the permission.
DeletePermission(p) ==
    /\ p \in defined
    /\ Begin([kind |-> "dropPermission", code |-> p],
             UNION {HoldersOf(r) : r \in {x \in Roles : <<x, p>> \in grants}})

\* ConsoleRolePermissionView
SwitchPermission(r, p, enabled) ==
    /\ r \in present \ SystemRoles /\ p \in defined
    /\ Begin([kind |-> "switch", role |-> r, code |-> p, enabled |-> enabled], HoldersOf(r))

\* Whoever is not a superuser keeps only what the committed rows give.
Commit ==
    /\ open # NoChange
    /\ CASE open.kind = "dropHolding" ->
              /\ held' = [held EXCEPT ![<<open.member, open.role>>] = NoHolding]
              /\ UNCHANGED <<present, grants, defined>>
         [] open.kind = "dropRole" ->
              /\ present' = present \ {open.role}
              /\ held' = [x \in Members \X Roles |->
                              IF x[2] = open.role THEN NoHolding ELSE held[x]]
              /\ grants' = {g \in grants : g[1] # open.role}
              /\ UNCHANGED defined
         [] open.kind = "dropPermission" ->
              /\ grants' = {g \in grants : g[2] # open.code}
              /\ defined' = defined \ {open.code}
              /\ UNCHANGED <<present, held>>
         [] open.kind = "switch" ->
              /\ grants' = IF open.enabled THEN grants \cup {<<open.role, open.code>>}
                                           ELSE grants \ {<<open.role, open.code>>}
              /\ UNCHANGED <<present, held, defined>>
    /\ open' = NoChange
    /\ UNCHANGED <<superuser, entry, fill, sweeping, clearing, bulk, edits>>
    /\ unsettled' = unsettled \cup {m \in Members : Touched(m) /\ (InFill(m) \/ entry[m].stored)}

-----------------------------------------------------------------------------
\* A tick takes one from what expiring rows and entries have left.
Aged(left) == IF left \in {0, Never} THEN left ELSE left - 1
Aging == \/ \E m \in Members : entry[m].stored
         \/ \E x \in Members \X Roles : held[x].left \notin {0, Never}

\* Mutant: the list of a user whose roles do not expire has no timeout.
MutAccessTick ==
    /\ Aging
    /\ held' = [x \in Members \X Roles |-> [held[x] EXCEPT !.left = Aged(@)]]
    /\ entry' = [m \in Members |->
                    IF \A r \in ActiveRoles(m) : held[<<m, r>>].left = Never THEN entry[m]
                    ELSE IF entry[m].left <= 1 THEN NoEntry
                    ELSE [entry[m] EXCEPT !.left = @ - 1]]
    /\ unsettled' = {m \in Members : \/ InFill(m)
                                     \/ m \in unsettled /\ entry'[m].stored}
    /\ UNCHANGED <<present, grants, defined, superuser, fill, clears>>

AccessTick ==
    /\ Aging
    /\ held' = [x \in Members \X Roles |-> [held[x] EXCEPT !.left = Aged(@)]]
    /\ entry' = [m \in Members |-> IF entry[m].left <= 1 THEN NoEntry
                                   ELSE [entry[m] EXCEPT !.left = @ - 1]]
    /\ unsettled' = {m \in Members : \/ InFill(m)
                                     \/ m \in unsettled /\ entry'[m].stored}
    /\ UNCHANGED <<present, grants, defined, superuser, fill, clears>>

Filling(d) ==
    \/ \E m \in Members : ReadRoles(d, m)
    \/ ReadGrants(d) \/ ReadExpiry(d)
    \/ StoreList(d)

Clearing ==
    \/ \E m \in Members : ClearMember(m)
    \/ \E r \in Roles : SweepRole(r)
    \/ Commit
    \/ \E m \in Members, r \in Roles : BulkStep(m, r)

Editing ==
    \/ \E m \in Members, r \in Roles :
           \/ AssignRole(m, r) \/ RemoveRole(m, r) \/ DeleteHolding(m, r)
           \/ \E state \in {"active", "inactive"} : SetActive(m, r, state)
           \/ \E n \in Members : MoveHolding(m, n, r)
    \/ \E r \in Roles, p \in Codenames :
           \/ AddPermission(r, p) \/ RemovePermission(r, p)
           \/ \E enabled \in BOOLEAN : SwitchPermission(r, p, enabled)
    \/ \E r \in Roles : CreateRole(r) \/ DeleteRole(r) \/ BulkAssign(Members, {r})
    \/ \E p \in Codenames : CreatePermission(p) \/ DeletePermission(p)
    \/ \E m \in Members : SetSuperuser(m)

AccessNext ==
    \/ \E d \in Readers : Filling(d)
    \/ Clearing \/ Editing \/ AccessTick

\* Time passes, and requests that have begun end.  Nobody has to edit anything.
AccessFairness ==
    /\ WF_accessVars(AccessTick)
    /\ WF_accessVars(Clearing)
    /\ \A d \in Readers : WF_accessVars(ReadGrants(d) \/ ReadExpiry(d) \/ StoreList(d))

AccessSpec == AccessInit /\ [][AccessNext]_accessVars /\ AccessFairness

-----------------------------------------------------------------------------
AccessTypeOK ==
    /\ present \subseteq Roles
    /\ held \in [Members \X Roles -> Holding]
    /\ grants \subseteq Roles \X Codenames
    /\ defined \subseteq Codenames
    /\ superuser \subseteq Members
    /\ entry \in [Members -> Entry]
    /\ fill \in [Readers -> Fill]
    /\ sweeping \subseteq Roles
    /\ clearing \in [Members -> Nat]
    /\ open \in ChangeRow
    /\ bulk \subseteq Members \X Roles
    /\ edits \in 0..MaxEdits
    /\ unsettled \subseteq Members

ToBeCleared(m) ==
    clearing[m] > 0 \/ \E r \in sweeping : held[<<m, r>>].row = "active"

\* A list agrees with the rows, or has what a role gave that expired within this second.
Agrees(m) ==
    \/ entry[m].list = Effective(m)
    \/ /\ m \notin superuser /\ entry[m].left < Second
       /\ Effective(m) \subseteq entry[m].list

\* A cached list is the list the rows give, for as long as it is stored; a role that
\* expires under it outlives its expiry in the list by less than a second.  Except for
\* a user whose rows changed during a fill, in a transaction that cleared before it
\* committed, or by one of the changes that clear nothing.  No entry outlives its timeout.
Current ==
    /\ AccessTypeOK
    /\ \A m \in Members :
           entry[m].stored /\ m \notin unsettled /\ ~ToBeCleared(m)
               => Agrees(m)

\* has_permission for a user whose list is cached; without a list it reads the rows.
Allowed(m, p) == m \in superuser \/ p \in (IF entry[m].stored THEN entry[m].list ELSE Effective(m))

\* Whatever the order of changes and fills, once administrators stop every answer comes
\* to agree with the rows for good: a list left behind does not survive its timeout
\* and no fill brings it back.
StaleEntriesLapse ==
    <>[](\A m \in Members, p \in Codenames :
             Allowed(m, p) <=> m \in superuser \/ p \in GrantedBy(ActiveRoles(m)))
=============================================================================
