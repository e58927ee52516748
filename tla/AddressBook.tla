----------------------------- MODULE AddressBook -----------------------------
(***************************************************************************)
(* The addresses of one user and which of them is the default (accounts).  *)
(*                                                                         *)
(* Address.save takes the default from the user's other addresses in one   *)
(* statement and writes the row in a second; set_default does the first a  *)
(* time before that.  PATCH writes every column as it was read.  Nothing   *)
(* is locked and nothing is in a transaction.                              *)
(***************************************************************************)
EXTENDS Naturals, FiniteSets

CONSTANTS
    Addresses,    \* rows
    Forms         \* requests under way at once

ASSUME AddressAssumption == "none" \notin Addresses

VARIABLES
    row,        \* Address rows of the user
    form,       \* requests
    chosen,     \* the address last made the default
    jumbled     \* two requests set a default or wrote a row at once, or one was cut off

addressVars == <<row, form, chosen, jumbled>>

Row == {"none", "plain", "default"}
Form == [op : {"idle", "create", "patch", "choose"}, step : {"idle", "clear", "reset", "write"},
         of : Addresses \cup {"none"}, default : BOOLEAN]
Blank == [op |-> "idle", step |-> "idle", of |-> "none", default |-> FALSE]

AddressInit ==
    /\ row = [a \in Addresses |-> "none"]
    /\ form = [f \in Forms |-> Blank]
    /\ chosen = "none"
    /\ jumbled = FALSE

-----------------------------------------------------------------------------
Submit(f, sent) ==
    /\ form[f] = Blank
    /\ form' = [form EXCEPT ![f] = sent]
    /\ jumbled' = \/ jumbled
                  \/ \E g \in Forms : form[g].of = sent.of
                  \/ \E g \in Forms : form[g].default /\ sent.default
    /\ UNCHANGED <<row, chosen>>

SaveStep(default) == IF default THEN "reset" ELSE "write"

\* The row of a new address has an id only when it is written.
CreateAddress(f, a, default) ==
    /\ row[a] = "none" /\ \A g \in Forms : form[g].of # a
    /\ Submit(f, [op |-> "create", step |-> SaveStep(default), of |-> a, default |-> default])

\* PATCH and PUT load the row; is_default may be among the fields they change.
EditAddress(f, a, default) ==
    /\ row[a] # "none"
    /\ Submit(f, [op |-> "patch", step |-> SaveStep(default), of |-> a, default |-> default])

SetDefault(f, a) ==
    /\ row[a] # "none"
    /\ Submit(f, [op |-> "choose", step |-> "clear", of |-> a, default |-> TRUE])

Cleared == [a \in Addresses |-> IF row[a] = "default" THEN "plain" ELSE row[a]]

\* set_default, before it calls save.
ClearDefault(f) ==
    /\ form[f].step = "clear"
    /\ row' = Cleared
    /\ form' = [form EXCEPT ![f].step = "reset"]
    /\ UNCHANGED <<chosen, jumbled>>

\* Mutant: save leaves the other addresses alone.
MutResetDefault(f) ==
    /\ form[f].step = "reset"
    /\ form' = [form EXCEPT ![f].step = "write"]
    /\ UNCHANGED <<row, chosen, jumbled>>

\* The first statement of Address.save.
ResetDefault(f) ==
    /\ form[f].step = "reset"
    /\ row' = Cleared
    /\ form' = [form EXCEPT ![f].step = "write"]
    /\ UNCHANGED <<chosen, jumbled>>

\* The second inserts the row or updates it.  An update with update_fields finds nothing
\* of a row that is gone and raises; the full save of a PATCH inserts it again.
WriteAddress(f) ==
    LET a == form[f].of IN
    /\ form[f].step = "write"
    /\ IF form[f].op = "choose" /\ row[a] = "none"
       THEN UNCHANGED <<row, chosen>>
       ELSE /\ row' = [row EXCEPT ![a] = IF form[f].default THEN "default" ELSE "plain"]
            /\ chosen' = IF form[f].default THEN a
                         ELSE IF chosen = a THEN "none" ELSE chosen
    /\ form' = [form EXCEPT ![f] = Blank]
    /\ UNCHANGED jumbled

DeleteAddress(a) ==
    /\ row[a] # "none"
    /\ row' = [row EXCEPT ![a] = "none"]
    /\ chosen' = IF chosen = a THEN "none" ELSE chosen
    /\ jumbled' = (jumbled \/ \E g \in Forms : form[g].of = a)
    /\ UNCHANGED form

\* Nothing takes back the statements that have been executed.
Abandon(f) ==
    /\ form[f] # Blank
    /\ form' = [form EXCEPT ![f] = Blank]
    /\ jumbled' = TRUE
    /\ UNCHANGED <<row, chosen>>

AddressNext ==
    \/ \E f \in Forms :
           \/ ClearDefault(f) \/ ResetDefault(f) \/ WriteAddress(f) \/ Abandon(f)
           \/ \E a \in Addresses :
                  \/ SetDefault(f, a)
                  \/ \E default \in BOOLEAN :
                         CreateAddress(f, a, default) \/ EditAddress(f, a, default)
    \/ \E a \in Addresses : DeleteAddress(a)

AddressSpec == AddressInit /\ [][AddressNext]_addressVars

-----------------------------------------------------------------------------
AddressTypeOK ==
    /\ row \in [Addresses -> Row]
    /\ form \in [Forms -> Form]
    /\ chosen \in Addresses \cup {"none"}
    /\ jumbled \in BOOLEAN

Defaults == {a \in Addresses : row[a] = "default"}
Unattended == \A f \in Forms : form[f] = Blank

\* The default is the address that was last made the default, or none if that one was
\* deleted or edited not to be; while a request is at work there is never a second one.
\* Requests for other addresses may be at work beside it: only two that both set a default
\* or write one address, or one that was cut off, can break this.
DefaultIsTheChosen ==
    ~jumbled => /\ Defaults \subseteq {chosen}
                /\ Unattended /\ chosen # "none" => Defaults = {chosen}
=============================================================================
