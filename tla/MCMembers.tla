------------------------------ MODULE MCMembers ------------------------------
(***************************************************************************)
(* Four components that keep records about members.  A run takes the steps *)
(* of one of them and the others stay as they began, so what is checked is *)
(* the sum of their state spaces.  Two of them look at the same rows, each *)
(* in its own way: Applications at who holds the sellers' role, Access at  *)
(* all roles.                                                              *)
(***************************************************************************)
EXTENDS Access, Mfa, Applications, AddressBook

VARIABLE part     \* the component that takes steps

memberVars == <<accessVars, mfaVars, applicationVars, addressVars>>

\* A part that does not take steps begins in one of its states.
MCInit ==
    /\ AccessInit /\ MfaInit /\ ApplicationInit /\ AddressInit
    /\ part \in {"access", "mfa", "applications", "addresses"}
    /\ part # "applications" => role = "system"

MCNext ==
    /\ UNCHANGED part
    /\ \/ /\ part = "access" /\ AccessNext
          /\ UNCHANGED <<mfaVars, applicationVars, addressVars>>
       \/ /\ part = "mfa" /\ MfaNext
          /\ UNCHANGED <<accessVars, applicationVars, addressVars>>
       \/ /\ part = "applications" /\ ApplicationNext
          /\ UNCHANGED <<accessVars, mfaVars, addressVars>>
       \/ /\ part = "addresses" /\ AddressNext
          /\ UNCHANGED <<accessVars, mfaVars, applicationVars>>

MCSpec ==
    /\ MCInit /\ [][MCNext]_<<part, memberVars>>
    /\ part = "access" => AccessFairness
=============================================================================
