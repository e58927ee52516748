---------------------------- MODULE Applications ----------------------------
(***************************************************************************)
(* A user applies to become a seller and administrators decide (accounts). *)
(*                                                                         *)
(* A decision checks the status as it was read, then saves the status, the *)
(* user's is_seller flag and the vendor role in statements of their own.   *)
(* The seller's own edit of the store saves every column it read.  The     *)
(* role's rows belong to rbac, whose views change them without a look at   *)
(* applications; a decision that finds no role of that name leaves it out. *)
(***************************************************************************)
EXTENDS Naturals, FiniteSets

CONSTANTS
    Applicants,     \* users
    Desks           \* requests of administrators and sellers under way at once

ASSUME ApplicationAssumption == "nobody" \notin Applicants

VARIABLES
    seller,      \* status of each user's Seller row
    isSeller,    \* users with is_seller
    role,        \* the Role row named vendor: the migration's, another, or none
    vendor,      \* users who hold it, active and not expired
    byHand,      \* users whose role changed, or was left out, since their last decision
    desk,        \* requests
    tangled      \* applications approved and rejected at once, or half decided

roleVars == <<role, vendor, byHand>>
applicationVars == <<seller, isSeller, roleVars, desk, tangled>>

Status == {"none", "pending", "approved", "rejected"}
Desk == [op : {"idle", "approve", "reject", "edit"}, step : {"idle", "status", "flag", "role"},
         who : Applicants \cup {"nobody"}]
Vacant == [op |-> "idle", step |-> "idle", who |-> "nobody"]

ApplicationInit ==
    /\ seller = [u \in Applicants |-> "none"]
    /\ isSeller = {} /\ vendor = {} /\ byHand = {} /\ tangled = {}
    /\ role \in {"system", "custom"}
    /\ desk = [d \in Desks |-> Vacant]

-----------------------------------------------------------------------------
\* SellerApplyView: one application per user, whatever became of it.
Apply(u) ==
    /\ seller[u] = "none"
    /\ seller' = [seller EXCEPT ![u] = "pending"]
    /\ UNCHANGED <<isSeller, roleVars, desk, tangled>>

Open(d, u, op) ==
    /\ desk[d] = Vacant
    /\ desk' = [desk EXCEPT ![d] = [op |-> op, step |-> "status", who |-> u]]
    /\ tangled' = IF \E o \in Desks : desk[o].who = u /\ {desk[o].op, op} = {"approve", "reject"}
                  THEN tangled \cup {u} ELSE tangled
    /\ UNCHANGED <<seller, isSeller, roleVars>>

\* Mutant: a decided application can be decided again.
MutDecide(d, u, op) == seller[u] # "none" /\ Open(d, u, op)

\* AdminSellerVerifyView and AdminSellerRejectView read the row.
Decide(d, u, op) == seller[u] = "pending" /\ Open(d, u, op)

\* SellerStoreView is open to approved sellers.
EditStore(d, u) == seller[u] = "approved" /\ Open(d, u, "edit")

SaveStatus(d) ==
    /\ desk[d].step = "status"
    /\ seller' = [seller EXCEPT ![desk[d].who] =
                      IF desk[d].op = "reject" THEN "rejected" ELSE "approved"]
    /\ desk' = IF desk[d].op = "edit" THEN [desk EXCEPT ![d] = Vacant]
                                      ELSE [desk EXCEPT ![d].step = "flag"]
    /\ UNCHANGED <<isSeller, roleVars, tangled>>

SaveFlag(d) ==
    /\ desk[d].step = "flag"
    /\ isSeller' = IF desk[d].op = "approve" THEN isSeller \cup {desk[d].who}
                                             ELSE isSeller \ {desk[d].who}
    /\ desk' = [desk EXCEPT ![d].step = "role"]
    /\ UNCHANGED <<seller, roleVars, tangled>>

SaveRole(d) ==
    /\ desk[d].step = "role" /\ role # "none"
    /\ vendor' = IF desk[d].op = "approve" THEN vendor \cup {desk[d].who}
                                           ELSE vendor \ {desk[d].who}
    /\ byHand' = byHand \ {desk[d].who}
    /\ desk' = [desk EXCEPT ![d] = Vacant]
    /\ UNCHANGED <<seller, isSeller, role, tangled>>

\* Role.DoesNotExist is passed over.
LeaveOutRole(d) ==
    /\ desk[d].step = "role" /\ role = "none"
    /\ byHand' = byHand \cup {desk[d].who}
    /\ desk' = [desk EXCEPT ![d] = Vacant]
    /\ UNCHANGED <<seller, isSeller, role, vendor, tangled>>

\* Nothing takes back what was saved.
Interrupt(d) ==
    /\ desk[d] # Vacant
    /\ tangled' = tangled \cup {desk[d].who}
    /\ desk' = [desk EXCEPT ![d] = Vacant]
    /\ UNCHANGED <<seller, isSeller, roleVars>>

-----------------------------------------------------------------------------
\* The role and its holders change for reasons of their own, without a look at the rest.
ByHand(us) ==
    /\ byHand' = byHand \cup us
    /\ UNCHANGED <<seller, isSeller, desk, tangled>>

\* AssignRoleView, one pair of BulkAssignRolesView, and UserRoleViewSet, which also makes
\* a row active again.
GiveRole(u) ==
    /\ role # "none"
    /\ vendor' = vendor \cup {u} /\ ByHand({u})
    /\ UNCHANGED role

\* RemoveRoleView, and UserRoleViewSet deletes a row or makes it inactive; a row that was
\* given by hand may also expire.
TakeRole(u) ==
    /\ u \in vendor
    /\ vendor' = vendor \ {u} /\ ByHand({u})
    /\ UNCHANGED role

\* UserRoleViewSet saves a row with another user in it.
MoveRole(u, v) ==
    /\ u \in vendor /\ v \notin vendor
    /\ vendor' = (vendor \ {u}) \cup {v} /\ ByHand({u, v})
    /\ UNCHANGED role

\* RoleViewSet refuses to delete or rename a system role only.
DropRole ==
    /\ role = "custom" /\ role' = "none"
    /\ vendor' = {} /\ ByHand(vendor)

\* A role gets the name when it is created or renamed, and comes with its holders.
NameRole(us) ==
    /\ role = "none" /\ role' = "custom"
    /\ vendor' = us /\ ByHand(us)

RoleNext ==
    \/ DropRole \/ \E us \in SUBSET Applicants : NameRole(us)
    \/ \E u \in Applicants : GiveRole(u) \/ TakeRole(u) \/ \E v \in Applicants : MoveRole(u, v)

ApplicationNext ==
    \/ \E u \in Applicants : Apply(u)
    \/ \E d \in Desks :
           \/ SaveStatus(d) \/ SaveFlag(d) \/ SaveRole(d) \/ LeaveOutRole(d) \/ Interrupt(d)
           \/ \E u \in Applicants :
                  EditStore(d, u) \/ \E op \in {"approve", "reject"} : Decide(d, u, op)
    \/ RoleNext

ApplicationSpec == ApplicationInit /\ [][ApplicationNext]_applicationVars

-----------------------------------------------------------------------------
ApplicationTypeOK ==
    /\ seller \in [Applicants -> Status]
    /\ isSeller \subseteq Applicants
    /\ role \in {"system", "custom", "none"}
    /\ vendor \subseteq Applicants /\ byHand \subseteq Applicants
    /\ desk \in [Desks -> Desk]
    /\ tangled \subseteq Applicants

Deciding(u, steps) == \E d \in Desks : desk[d].who = u /\ desk[d].step \in steps

\* The three places that say who sells agree, and in the meantime the role never comes
\* before the flag nor the flag before the status.  The same decision twice at once, and
\* edits of the store beside it, do no harm; only an approval and a rejection at once, or a
\* request that was interrupted, leave them apart.  Whoever changes the role itself makes it
\* differ until the next decision that finds the role.
SellersAgree ==
    \A u \in Applicants \ tangled :
        /\ ~Deciding(u, {"flag"}) => (u \in isSeller <=> seller[u] = "approved")
        /\ u \notin byHand =>
            /\ ~Deciding(u, {"flag", "role"}) => (u \in vendor <=> seller[u] = "approved")
            /\ u \in vendor => u \in isSeller
=============================================================================
