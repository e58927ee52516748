---------------------------- MODULE MembersProofs -----------------------------
(***************************************************************************)
(* What holds of members, for any number of them and of requests about   *)
(* them: no code and no challenge opens a second session, the places that *)
(* say who sells agree, and the default address is the one chosen.       *)
(***************************************************************************)
EXTENDS Identity, Mfa, Applications, AddressBook, Access, FiniteSetTheorems, TLAPS
-------------------------------------------------------------------------------
\* Second factors (Mfa).

\* What opened a session cannot match again: a TOTP lies at or before the last counter, a
\* recovery code is no longer the device's.
Spent(code) ==
    \/ code \in Totp /\ code.secret = device.secret /\ code.at + 1 <= device.last
    \/ code \in Recovery \ device.recovery

\* A challenge that opened a session is used, and counts every code tried with it.
Counted(c) ==
    /\ opened[c] = 0 \/ (opened[c] = 1 /\ challenge[c].used)
    /\ tried[c] <= challenge[c].attempts

MfaInv ==
    /\ MfaTypeOK
    /\ \A c \in Challenges : Counted(c)
    /\ \A code \in codes : Spent(code)
    /\ ~device.enabled => codes = {}
    /\ ~replayed

-------------------------------------------------------------------------------
LEMMA InitSpent == MfaInit => MfaInv
<1> SUFFICES ASSUME MfaInit PROVE MfaInv
  OBVIOUS
<1>1. /\ {0} \subseteq 0..MaxStep /\ {0} \subseteq 0..Attempts
      /\ {0} \subseteq 0..MaxSecrets /\ {0} \subseteq 0..MaxStep + 2
  BY MfaAssumption DEF MfaAssumption
<1>2. NoDevice \in Device /\ NoChallenge \in Challenge
  BY <1>1 DEF NoDevice, Device, NoChallenge, Challenge
<1>3. MfaTypeOK
  BY <1>1, <1>2 DEF MfaInit, MfaTypeOK
<1>4. \A c \in Challenges : Counted(c)
  BY DEF MfaInit, Counted, NoChallenge
<1> QED
  BY <1>3, <1>4 DEF MfaInit, MfaInv

\* A row of one challenge replaced by one of its type.
LEMMA ChallengeRow ==
    ASSUME NEW F \in [Challenges -> Challenge], NEW c \in Challenges, NEW given \in Challenge
    PROVE  [F EXCEPT ![c] = given] \in [Challenges -> Challenge]
OBVIOUS

\* An attempt stays within what the challenge allows.
LEMMA AttemptKeepsType ==
    ASSUME MfaTypeOK, NEW c \in Challenges, Valid(c)
    PROVE  /\ Attempt(c) \in [Challenges -> Challenge]
           /\ \A d \in Challenges : d # c => Attempt(c)[d] = challenge[d]
           /\ Attempt(c)[c].attempts = challenge[c].attempts + 1
           /\ Attempt(c)[c].used = challenge[c].used
           /\ Attempt(c)[c].confirmed = challenge[c].confirmed
<1>1. challenge[c] \in Challenge /\ challenge[c].attempts + 1 \in 0..Attempts
  BY MfaAssumption DEF MfaAssumption, MfaTypeOK, Valid, Challenge
<1>2. [challenge[c] EXCEPT !.attempts = @ + 1] \in Challenge
  BY <1>1 DEF Challenge
<1> QED
  BY <1>1, <1>2, ChallengeRow DEF Attempt, MfaTypeOK, Challenge

LEMMA UseKeepsType ==
    ASSUME MfaTypeOK, NEW c \in Challenges, Valid(c), Use(c)
    PROVE  /\ challenge' \in [Challenges -> Challenge]
           /\ \A d \in Challenges : d # c => challenge'[d] = challenge[d]
           /\ challenge'[c].attempts = challenge[c].attempts + 1
           /\ challenge'[c].used
<1>1. challenge[c] \in Challenge /\ challenge[c].attempts + 1 \in 0..Attempts
  BY MfaAssumption DEF MfaAssumption, MfaTypeOK, Valid, Challenge
<1>2. [challenge[c] EXCEPT !.attempts = @ + 1, !.used = TRUE] \in Challenge
  BY <1>1 DEF Challenge
<1>3. challenge' = [challenge EXCEPT ![c] = [challenge[c] EXCEPT !.attempts = @ + 1, !.used = TRUE]]
  BY DEF Use, MfaTypeOK
<1> QED
  BY <1>1, <1>2, <1>3, ChallengeRow DEF MfaTypeOK, Challenge

-------------------------------------------------------------------------------
(* One lemma per endpoint. *)

LEMMA IssueSpends ==
    ASSUME MfaInv, NEW c \in Challenges, Issue(c)
    PROVE  MfaInv'
<1>1. challenge[c] = NoChallenge /\ challenge[c] \in Challenge /\ step + Validity \in Nat
  BY MfaAssumption DEF MfaAssumption, Issue, MfaInv, MfaTypeOK
<1>2. [challenge[c] EXCEPT !.issued = TRUE, !.until = step + Validity] \in Challenge
  BY <1>1 DEF Challenge
<1>3. challenge' = [challenge EXCEPT
                        ![c] = [challenge[c] EXCEPT !.issued = TRUE, !.until = step + Validity]]
  BY DEF Issue, MfaInv, MfaTypeOK
<1>4. MfaTypeOK'
  BY <1>2, <1>3, ChallengeRow DEF Issue, MfaInv, MfaTypeOK
<1>5. \A d \in Challenges : Counted(d)'
  BY <1>1, <1>3 DEF Issue, MfaInv, MfaTypeOK, Counted, Challenge
<1> QED
  BY <1>4, <1>5 DEF Issue, MfaInv, Spent

\* Only the attempts of one challenge change.
LEMMA RefusalSpends ==
    ASSUME MfaInv, NEW c \in Challenges, Valid(c), challenge' = Attempt(c),
           UNCHANGED <<device, step, privileged, codes, opened, replayed>>,
           Tries(c) \/ UNCHANGED tried
    PROVE  MfaInv'
<1>1. /\ challenge' \in [Challenges -> Challenge]
      /\ \A d \in Challenges : d # c => challenge'[d] = challenge[d]
      /\ challenge'[c].attempts = challenge[c].attempts + 1
      /\ challenge'[c].used = challenge[c].used
  BY AttemptKeepsType DEF MfaInv
<1>2. /\ tried' \in [Challenges -> Nat]
      /\ \A d \in Challenges : d # c => tried'[d] = tried[d]
      /\ tried'[c] <= tried[c] + 1
  BY DEF Tries, MfaInv, MfaTypeOK
<1>3. \A d \in Challenges : challenge[d].attempts \in Nat /\ tried[d] \in Nat
  BY MfaAssumption DEF MfaAssumption, MfaInv, MfaTypeOK, Challenge
<1>4. \A d \in Challenges : Counted(d)'
  <2> SUFFICES ASSUME NEW d \in Challenges PROVE Counted(d)'
    OBVIOUS
  <2>1. Counted(d)  BY DEF MfaInv
  <2>2. CASE d = c
    BY <1>1, <1>2, <1>3, <2>1, <2>2 DEF Counted, MfaInv, MfaTypeOK
  <2>3. CASE d # c
    BY <1>1, <1>2, <2>1, <2>3 DEF Counted
  <2> QED  BY <2>2, <2>3
<1> QED
  BY <1>1, <1>2, <1>4 DEF MfaInv, MfaTypeOK, Spent

LEMMA SetupSpends ==
    ASSUME MfaInv, NEW c \in Challenges, NEW secret \in 1..MaxSecrets, Setup(c, secret)
    PROVE  MfaInv'
<1>1. codes = {} /\ codes' = {} /\ replayed' = replayed
  BY DEF Setup, MfaInv
<1>2. device' \in Device
  BY MfaAssumption DEF MfaAssumption, Setup, MfaInv, MfaTypeOK, Device
<1>3. challenge[c] \in Challenge /\ 0 \in 0..Attempts
  BY MfaAssumption DEF MfaAssumption, MfaInv, MfaTypeOK
<1>4. [challenge[c] EXCEPT !.confirmed = TRUE, !.attempts = 0] \in Challenge
  BY <1>3 DEF Challenge
<1>5. challenge' = [challenge EXCEPT
                        ![c] = [challenge[c] EXCEPT !.confirmed = TRUE, !.attempts = 0]]
  BY DEF Setup, MfaInv, MfaTypeOK
<1>6. MfaTypeOK'
  BY <1>1, <1>2, <1>4, <1>5, ChallengeRow DEF Setup, MfaInv, MfaTypeOK
<1>7. \A d \in Challenges : Counted(d)'
  BY <1>3, <1>5 DEF Setup, MfaInv, MfaTypeOK, Counted, Challenge
<1> QED
  BY <1>1, <1>6, <1>7 DEF MfaInv

\* A code that is not spent opens a session and is spent with it.
LEMMA OpeningSpends ==
    ASSUME MfaInv, NEW c \in Challenges, NEW code \in Totp \cup Recovery,
           Valid(c), Use(c), Opens(c, code), Tries(c), ~Spent(code), Spent(code)',
           \A other \in codes : Spent(other)',
           device' \in Device, device'.enabled, UNCHANGED <<step, privileged>>
    PROVE  MfaInv'
<1>1. code \notin codes /\ codes' = codes \cup {code} /\ ~replayed'
  BY DEF Opens, MfaInv
<1>2. /\ challenge' \in [Challenges -> Challenge]
      /\ \A d \in Challenges : d # c => challenge'[d] = challenge[d]
      /\ challenge'[c].attempts = challenge[c].attempts + 1
      /\ challenge'[c].used
  BY UseKeepsType DEF MfaInv
<1>3. opened[c] = 0 /\ opened' = [opened EXCEPT ![c] = 1] /\ tried' = [tried EXCEPT ![c] = @ + 1]
  <2>1. Counted(c) /\ ~challenge[c].used
    BY DEF Valid, MfaInv
  <2>2. opened[c] = 0
    BY <2>1 DEF Counted
  <2> QED
    BY <2>2 DEF Opens, Tries
<1>4. \A d \in Challenges : challenge[d].attempts \in Nat /\ tried[d] \in Nat
  BY MfaAssumption DEF MfaAssumption, MfaInv, MfaTypeOK, Challenge
<1>5. \A d \in Challenges : Counted(d)'
  BY <1>2, <1>3, <1>4 DEF MfaInv, MfaTypeOK, Counted
<1>6. MfaTypeOK'
  BY <1>1, <1>2, <1>3 DEF Opens, MfaInv, MfaTypeOK
<1>7. \A other \in codes' : Spent(other)'
  BY <1>1
<1> QED
  BY <1>1, <1>5, <1>6, <1>7 DEF MfaInv

LEMMA CompleteSpends ==
    ASSUME MfaInv, NEW c \in Challenges, NEW code \in Totp \cup {Wrong}, Complete(c, code)
    PROVE  MfaInv'
<1>1. CASE Matches(code) /\ Use(c)
  <2>1. /\ code \in Totp /\ code.secret = device.secret /\ code.at + 1 > device.last
        /\ Opens(c, code) /\ codes = {}
        /\ device' = [device EXCEPT !.enabled = TRUE, !.last = code.at + 1, !.recovery = Recovery]
    BY <1>1, MfaAssumption DEF MfaAssumption, Complete, Matches, MfaInv, Opens
  <2>2. device' \in Device /\ device'.enabled /\ Spent(code)'
    <3>1. device \in Device /\ code.at + 1 \in 0..MaxStep + 2
      BY <2>1, MfaAssumption DEF MfaAssumption, MfaInv, MfaTypeOK, Totp, Steps
    <3>2. /\ device'.secret = device.secret /\ device'.enabled
          /\ device'.last = code.at + 1 /\ device' \in Device
      BY <2>1, <3>1 DEF Device
    <3> QED
      BY <2>1, <3>1, <3>2 DEF Spent
  <2>3. ~Spent(code)
    BY <2>1, MfaAssumption DEF MfaAssumption, Spent, MfaInv, MfaTypeOK, Device, Totp, Steps
  <2> QED
    BY <1>1, <2>1, <2>2, <2>3, OpeningSpends DEF Complete
<1>2. CASE challenge' = Attempt(c) /\ UNCHANGED <<device, codes, opened, replayed>>
  BY <1>2, RefusalSpends DEF Complete
<1> QED
  BY <1>1, <1>2 DEF Complete

LEMMA VerifySpends ==
    ASSUME MfaInv, NEW c \in Challenges, NEW code \in Totp \cup Recovery \cup {Wrong},
           Verify(c, code)
    PROVE  MfaInv'
<1>1. CASE Matches(code) /\ Use(c) /\ Opens(c, code) /\ device' = [device EXCEPT !.last = code.at + 1]
  <2>1. code \in Totp /\ code.secret = device.secret /\ code.at + 1 > device.last /\ device \in Device
    BY <1>1 DEF Matches, MfaInv, MfaTypeOK
  <2>2. device' \in Device /\ device'.enabled /\ Spent(code)'
    BY <1>1, <2>1, MfaAssumption DEF MfaAssumption, Verify, Device, Spent, Totp, Steps
  <2>3. ~Spent(code)
    BY <2>1, MfaAssumption DEF MfaAssumption, Spent, Device, Totp, Steps
  <2>4. \A other \in codes : Spent(other)'
    BY <1>1, <2>1, MfaAssumption DEF MfaAssumption, MfaInv, Spent, Device, Totp, Steps
  <2> QED
    BY <1>1, <2>1, <2>2, <2>3, <2>4, OpeningSpends DEF Verify
<1>2. CASE consume_recovery_code(code) /\ Use(c) /\ Opens(c, code)
  <2>1. /\ device \in Device /\ code \in Recovery /\ code \in device.recovery
        /\ device' = [device EXCEPT !.recovery = @ \ {code}]
    BY <1>2 DEF consume_recovery_code, MfaInv, MfaTypeOK, Device
  <2>2. device' \in Device /\ device'.enabled /\ Spent(code)'
    BY <2>1 DEF Verify, Device, Spent
  <2>3. ~Spent(code)
    BY <2>1, MfaAssumption DEF MfaAssumption, Spent
  <2>4. \A other \in codes : Spent(other)'
    BY <2>1 DEF MfaInv, Spent, Device
  <2> QED
    BY <1>2, <2>1, <2>2, <2>3, <2>4, OpeningSpends DEF Verify
<1>3. CASE challenge' = Attempt(c) /\ UNCHANGED <<device, codes, opened, replayed>>
  BY <1>3, RefusalSpends DEF Verify
<1> QED
  BY <1>1, <1>2, <1>3 DEF Verify

LEMMA StepSpends == MfaInv /\ [MfaNext]_mfaVars => MfaInv'
<1> SUFFICES ASSUME MfaInv, [MfaNext]_mfaVars
             PROVE  MfaInv'
  OBVIOUS
<1>1. ASSUME NEW c \in Challenges, RefuseSetup(c) \/ Misdirect(c)
      PROVE  MfaInv'
  BY <1>1, RefusalSpends DEF RefuseSetup, Misdirect
<1>2. CASE SwitchPrivilege
  BY <1>2 DEF SwitchPrivilege, MfaInv, MfaTypeOK, Counted, Spent
<1>3. CASE Wait
  BY <1>3, MfaAssumption DEF MfaAssumption, Wait, MfaInv, MfaTypeOK, Counted, Spent
<1>4. CASE UNCHANGED mfaVars
  BY <1>4 DEF mfaVars, MfaInv, MfaTypeOK, Counted, Spent
<1> QED
  BY <1>1, <1>2, <1>3, <1>4, IssueSpends, SetupSpends, CompleteSpends, VerifySpends DEF MfaNext

-------------------------------------------------------------------------------
\* The device, the challenges and the counters keep their types (AdminMFADevice,
\* AdminMFAChallenge).
THEOREM MfaTypesHold == MfaSpec => []MfaTypeOK
<1>1. MfaInv => MfaTypeOK
  BY DEF MfaInv
<1> QED
  BY <1>1, InitSpent, StepSpends, PTL DEF MfaSpec

\* No TOTP and no recovery code opens a second session, no challenge opens two, and none
\* takes more codes than it allows attempts (match_totp, consume_recovery_code,
\* AdminMFACompleteView, AdminMFAVerifyView).
THEOREM FactorsAreAlwaysSpent == MfaSpec => []FactorsAreSpent
<1>1. MfaInv => FactorsAreSpent
  <2> SUFFICES ASSUME MfaInv, NEW c \in Challenges
               PROVE  opened[c] <= 1 /\ tried[c] <= Attempts
    BY DEF MfaInv, FactorsAreSpent
  <2>1. opened[c] = 0 \/ opened[c] = 1
    BY DEF MfaInv, Counted
  <2>2. tried[c] \in Nat /\ challenge[c].attempts \in 0..Attempts /\ tried[c] <= challenge[c].attempts
    BY DEF MfaInv, MfaTypeOK, Counted, Challenge
  <2> QED
    BY <2>1, <2>2, MfaAssumption DEF MfaAssumption
<1> QED
  BY <1>1, InitSpent, StepSpends, PTL DEF MfaSpec

-------------------------------------------------------------------------------
\* Applications to sell (Applications).

\* A request that is under way has a user and stands at one of its own statements.
DeskOK(d) ==
    \/ desk[d] = Vacant
    \/ /\ desk[d].who \in Applicants
       /\ desk[d].op \in {"approve", "reject", "edit"}
       /\ desk[d].step \in {"status", "flag", "role"}
       /\ desk[d].op = "edit" => desk[d].step = "status"

\* What a request still in the making of its decision says of the user's status.
Consistent(d, u) ==
    /\ desk[d].op = "approve" =>
        /\ seller[u] \in {"pending", "approved"}
        /\ desk[d].step # "status" => seller[u] = "approved"
        /\ desk[d].step = "role" => u \in isSeller
    /\ desk[d].op = "reject" =>
        /\ seller[u] \in {"pending", "rejected"}
        /\ desk[d].step # "status" => seller[u] = "rejected"
    /\ desk[d].op = "edit" => seller[u] = "approved"

Opposed(u) ==
    \E d, e \in Desks : /\ desk[d].who = u /\ desk[d].op = "approve"
                        /\ desk[e].who = u /\ desk[e].op = "reject"

\* The flag and the role of a user follow the status, or a request is about to make them.
Follows(u) ==
    /\ seller[u] # "approved" => u \notin isSeller
    /\ seller[u] = "approved" => Deciding(u, {"flag"}) \/ u \in isSeller
    /\ u \notin byHand =>
        /\ seller[u] # "approved" => u \notin vendor
        /\ seller[u] = "approved" => Deciding(u, {"flag", "role"}) \/ u \in vendor
        /\ u \in vendor => u \in isSeller

Agreed(u) ==
    /\ ~Opposed(u)
    /\ \A d \in Desks : desk[d].who = u => Consistent(d, u)
    /\ Follows(u)

ApplicationInv ==
    /\ ApplicationTypeOK
    /\ \A d \in Desks : DeskOK(d)
    /\ role = "none" => vendor = {}
    /\ \A u \in Applicants \ tangled : Agreed(u)

-------------------------------------------------------------------------------
LEMMA InitAgrees == ApplicationInit => ApplicationInv
BY ApplicationAssumption
   DEF ApplicationAssumption, ApplicationInit, ApplicationInv, ApplicationTypeOK, DeskOK,
       Agreed, Opposed, Consistent, Follows, Deciding, Status, Desk, Vacant

\* Types, and where a request may stand, by action.
LEMMA StepKeepsTypes ==
    ASSUME ApplicationInv, ApplicationNext
    PROVE  ApplicationTypeOK' /\ \A d \in Desks : DeskOK(d)'
<1> USE ApplicationAssumption
<1> USE DEF ApplicationAssumption, ApplicationInv, ApplicationTypeOK, DeskOK, Status, Desk, Vacant,
            roleVars
<1>1. ASSUME NEW u \in Applicants, Apply(u)
      PROVE  ApplicationTypeOK' /\ \A d \in Desks : DeskOK(d)'
  BY <1>1 DEF Apply
<1>2. ASSUME NEW d \in Desks, NEW u \in Applicants, NEW op \in {"approve", "reject", "edit"},
             Open(d, u, op)
      PROVE  ApplicationTypeOK' /\ \A e \in Desks : DeskOK(e)'
  BY <1>2 DEF Open
<1>3. ASSUME NEW d \in Desks, SaveStatus(d)
      PROVE  ApplicationTypeOK' /\ \A e \in Desks : DeskOK(e)'
  BY <1>3 DEF SaveStatus
<1>4. ASSUME NEW d \in Desks, SaveFlag(d)
      PROVE  ApplicationTypeOK' /\ \A e \in Desks : DeskOK(e)'
  BY <1>4 DEF SaveFlag
<1>5. ASSUME NEW d \in Desks, SaveRole(d)
      PROVE  ApplicationTypeOK' /\ \A e \in Desks : DeskOK(e)'
  BY <1>5 DEF SaveRole
<1>8. ASSUME NEW d \in Desks, LeaveOutRole(d)
      PROVE  ApplicationTypeOK' /\ \A e \in Desks : DeskOK(e)'
  BY <1>8 DEF LeaveOutRole
<1>9. ASSUME RoleNext
      PROVE  ApplicationTypeOK' /\ \A e \in Desks : DeskOK(e)'
  <2>1. /\ role' \in {"system", "custom", "none"} /\ vendor' \subseteq Applicants
        /\ byHand' \subseteq Applicants /\ UNCHANGED <<seller, isSeller, desk, tangled>>
    BY <1>9 DEF RoleNext, DropRole, NameRole, GiveRole, TakeRole, MoveRole, ByHand
  <2> QED  BY <2>1
<1>6. ASSUME NEW d \in Desks, Interrupt(d)
      PROVE  ApplicationTypeOK' /\ \A e \in Desks : DeskOK(e)'
  BY <1>6 DEF Interrupt
<1>7. ASSUME NEW d \in Desks, NEW u \in Applicants,
             EditStore(d, u) \/ \E op \in {"approve", "reject"} : Decide(d, u, op)
      PROVE  ApplicationTypeOK' /\ \A e \in Desks : DeskOK(e)'
  <2>1. \E op \in {"approve", "reject", "edit"} : Open(d, u, op)
    BY <1>7 DEF EditStore, Decide
  <2> QED  BY <1>2, <2>1
<1> HIDE DEF ApplicationInv, ApplicationTypeOK, DeskOK, Status, Desk, Vacant, roleVars
<1> QED
  BY <1>1, <1>3, <1>4, <1>5, <1>6, <1>7, <1>8, <1>9 DEF ApplicationNext

\* Nobody holds a role that is not there.
LEMMA RoleIsThere ==
    ASSUME ApplicationInv, ApplicationNext
    PROVE  role' = "none" => vendor' = {}
<1>1. role = "none" => vendor = {}
  BY DEF ApplicationInv
<1>2. CASE RoleNext
  BY <1>1, <1>2 DEF RoleNext, GiveRole, TakeRole, MoveRole, DropRole, NameRole
<1>3. CASE ~RoleNext
  BY <1>1, <1>3 DEF ApplicationNext, Apply, Open, Decide, EditStore, SaveStatus, SaveFlag, SaveRole,
                    LeaveOutRole, Interrupt, roleVars
<1> QED
  BY <1>2, <1>3

-------------------------------------------------------------------------------
(* Who sells, by action. *)

LEMMA ApplyAgrees ==
    ASSUME ApplicationInv, NEW v \in Applicants, Apply(v), NEW u \in Applicants \ tangled'
    PROVE  Agreed(u)'
<1>1. Agreed(u) /\ u \notin tangled
  BY DEF ApplicationInv, Apply
<1>2. seller[u] = "none" => \A d \in Desks : desk[d].who # u
  BY <1>1, ApplicationAssumption
     DEF ApplicationAssumption, ApplicationInv, Agreed, Consistent, DeskOK, Vacant
<1> QED
  BY <1>1, <1>2 DEF ApplicationInv, ApplicationTypeOK, Apply, Agreed, Opposed, Consistent,
                    Follows, Deciding, roleVars

LEMMA OpenAgrees ==
    ASSUME ApplicationInv, NEW d \in Desks, NEW v \in Applicants,
           EditStore(d, v) \/ Decide(d, v, "approve") \/ Decide(d, v, "reject"),
           NEW u \in Applicants \ tangled'
    PROVE  Agreed(u)'
<1>1. PICK op \in {"approve", "reject", "edit"} :
        /\ Open(d, v, op)
        /\ op = "edit" => seller[v] = "approved"
        /\ op # "edit" => seller[v] = "pending"
  BY DEF EditStore, Decide
<1>2. Agreed(u) /\ u \notin tangled
  BY <1>1 DEF ApplicationInv, Open
<1>3. \A e \in Desks : desk'[e] = IF e = d THEN [op |-> op, step |-> "status", who |-> v]
                                 ELSE desk[e]
  BY <1>1 DEF Open, ApplicationInv, ApplicationTypeOK
<1>4. UNCHANGED <<seller, isSeller, vendor, byHand>> /\ desk[d].who # u
  BY <1>1, ApplicationAssumption DEF ApplicationAssumption, Open, Vacant, roleVars
<1>5. ~Opposed(u)'
  <2>1. CASE u = v
    <3>1. ~ \E e \in Desks : desk[e].who = u /\ {desk[e].op, op} = {"approve", "reject"}
      BY <1>1, <2>1 DEF Open
    <3> QED
      BY <1>1, <1>2, <1>3, <3>1 DEF Agreed, Opposed
  <2>2. CASE u # v
    BY <1>2, <1>3, <2>2 DEF Agreed, Opposed
  <2> QED  BY <2>1, <2>2
<1>6. ASSUME NEW e \in Desks, desk'[e].who = u
      PROVE  Consistent(e, u)'
  BY <1>1, <1>2, <1>3, <1>4, <1>6 DEF Agreed, Consistent
<1>7. Follows(u)'
  BY <1>2, <1>3, <1>4 DEF Agreed, Follows, Deciding
<1> QED
  BY <1>5, <1>6, <1>7 DEF Agreed

LEMMA SaveStatusAgrees ==
    ASSUME ApplicationInv, NEW d \in Desks, SaveStatus(d), NEW u \in Applicants \ tangled'
    PROVE  Agreed(u)'
<1>1. Agreed(u) /\ u \notin tangled /\ DeskOK(d) /\ desk[d] # Vacant
  BY DEF ApplicationInv, SaveStatus, Vacant
<1>2. \A e \in Desks : desk'[e] = IF e # d THEN desk[e]
                                 ELSE IF desk[d].op = "edit" THEN Vacant
                                 ELSE [desk[d] EXCEPT !.step = "flag"]
  BY DEF SaveStatus, ApplicationInv, ApplicationTypeOK
<1>3. desk[d] \in Desk /\ desk[d].step = "status" /\ u # "nobody"
  BY ApplicationAssumption
     DEF ApplicationAssumption, SaveStatus, ApplicationInv, ApplicationTypeOK
<1>4. \A e \in Desks : desk'[e].who = u => desk[e].who = u /\ desk'[e].op = desk[e].op
  BY <1>2, <1>3 DEF Vacant, Desk
<1>5. ~Opposed(u)'
  BY <1>1, <1>4 DEF Agreed, Opposed
<1>6. CASE desk[d].who # u
  <2>1. seller'[u] = seller[u] /\ UNCHANGED <<isSeller, vendor, byHand>>
    BY <1>6 DEF SaveStatus, ApplicationInv, ApplicationTypeOK, roleVars
  <2>2. \A e \in Desks : (desk'[e].who = u <=> desk[e].who = u) /\ (desk[e].who = u => desk'[e] = desk[e])
    BY <1>2, <1>3, <1>6 DEF Vacant, Desk
  <2> QED
    BY <1>1, <1>5, <2>1, <2>2 DEF Agreed, Consistent, Follows, Deciding
<1>7. CASE desk[d].who = u
  <2>1. seller'[u] = (IF desk[d].op = "reject" THEN "rejected" ELSE "approved")
        /\ UNCHANGED <<isSeller, vendor, byHand>>
    BY <1>7 DEF SaveStatus, ApplicationInv, ApplicationTypeOK, roleVars
  <2>2. Consistent(d, u)
    BY <1>1, <1>7 DEF Agreed
  <2>3. desk[d].op = "approve" => Deciding(u, {"flag"})' /\ Deciding(u, {"flag", "role"})'
    BY <1>2, <1>3, <1>7 DEF Deciding, Desk
  <2>4. desk[d].op = "edit" =>
            /\ seller[u] = "approved"
            /\ (Deciding(u, {"flag"}) => Deciding(u, {"flag"})')
            /\ (Deciding(u, {"flag", "role"}) => Deciding(u, {"flag", "role"})')
    BY <1>2, <1>3, <2>2 DEF Deciding, Consistent
  <2>5. Follows(u)'
    BY <1>1, <2>1, <2>2, <2>3, <2>4 DEF Agreed, Follows, Consistent, DeskOK
  <2>6. ASSUME NEW e \in Desks, desk'[e].who = u
        PROVE  Consistent(e, u)'
    <3>1. Consistent(e, u) /\ desk[e].who = u
      BY <1>1, <1>4, <2>6 DEF Agreed
    <3>2. ~(desk[d].op = "approve" /\ desk[e].op = "reject")
          /\ ~(desk[d].op = "reject" /\ desk[e].op = "approve")
      BY <1>1, <1>7, <3>1 DEF Agreed, Opposed
    <3>3. CASE e = d
      BY <1>1, <1>2, <1>3, <2>1, <2>6, <3>3 DEF Consistent, Vacant, Desk, DeskOK
    <3>4. CASE e # d
      BY <1>1, <1>2, <2>1, <2>2, <3>1, <3>2, <3>4 DEF Consistent, DeskOK
    <3> QED  BY <3>3, <3>4
  <2> QED
    BY <1>5, <2>5, <2>6 DEF Agreed
<1> QED  BY <1>6, <1>7

LEMMA SaveFlagAgrees ==
    ASSUME ApplicationInv, NEW d \in Desks, SaveFlag(d), NEW u \in Applicants \ tangled'
    PROVE  Agreed(u)'
<1>1. Agreed(u) /\ u \notin tangled /\ DeskOK(d) /\ desk[d] # Vacant
  BY DEF ApplicationInv, SaveFlag, Vacant
<1>2. desk[d] \in Desk /\ desk[d].step = "flag"
  BY DEF SaveFlag, ApplicationInv, ApplicationTypeOK
<1>3. \A e \in Desks : desk'[e] = IF e = d THEN [desk[d] EXCEPT !.step = "role"] ELSE desk[e]
  BY DEF SaveFlag, ApplicationInv, ApplicationTypeOK
<1>4. \A e \in Desks : desk'[e].who = desk[e].who /\ desk'[e].op = desk[e].op
  BY <1>2, <1>3 DEF Desk
<1>5. UNCHANGED <<seller, vendor, byHand>> /\ desk[d].op \in {"approve", "reject"}
  BY <1>1, <1>2 DEF SaveFlag, DeskOK, roleVars
<1>6. u \in isSeller' <=> IF desk[d].who = u THEN desk[d].op = "approve" ELSE u \in isSeller
  BY <1>5 DEF SaveFlag
<1>7. desk[d].who = u => Consistent(d, u)
  BY <1>1 DEF Agreed
<1>8. ~Opposed(u)'
  BY <1>1, <1>4 DEF Agreed, Opposed
<1>9. ASSUME NEW e \in Desks, desk'[e].who = u
      PROVE  Consistent(e, u)'
  <2>1. Consistent(e, u) /\ desk[e].who = u
    BY <1>1, <1>4, <1>9 DEF Agreed
  <2>2. desk[d].who = u => ~(desk[d].op = "reject" /\ desk[e].op = "approve")
    BY <1>1, <2>1 DEF Agreed, Opposed
  <2>3. CASE e = d
    BY <1>2, <1>3, <1>4, <1>5, <1>6, <2>1, <2>3 DEF Consistent
  <2>4. CASE e # d
    BY <1>3, <1>5, <1>6, <2>1, <2>2, <2>4 DEF Consistent
  <2> QED  BY <2>3, <2>4
<1>10. Follows(u)'
  <2>1. CASE desk[d].who = u
    <3>1. Deciding(u, {"flag", "role"})'
      BY <1>2, <1>3, <1>4, <2>1 DEF Deciding, Desk
    <3> QED
      BY <1>1, <1>2, <1>5, <1>6, <1>7, <2>1, <3>1 DEF Agreed, Follows, Consistent
  <2>2. CASE desk[d].who # u
    <3>1. (Deciding(u, {"flag"}) <=> Deciding(u, {"flag"})')
          /\ (Deciding(u, {"flag", "role"}) <=> Deciding(u, {"flag", "role"})')
      BY <1>3, <1>4, <2>2 DEF Deciding
    <3> QED
      BY <1>1, <1>5, <1>6, <2>2, <3>1 DEF Agreed, Follows
  <2> QED  BY <2>1, <2>2
<1> QED
  BY <1>8, <1>9, <1>10 DEF Agreed

LEMMA SaveRoleAgrees ==
    ASSUME ApplicationInv, NEW d \in Desks, SaveRole(d) \/ LeaveOutRole(d),
           NEW u \in Applicants \ tangled'
    PROVE  Agreed(u)'
<1>1. Agreed(u) /\ u \notin tangled /\ DeskOK(d) /\ desk[d] # Vacant
  BY DEF ApplicationInv, SaveRole, LeaveOutRole, Vacant
<1>2. desk[d].step = "role" /\ desk[d].op \in {"approve", "reject"} /\ u # "nobody"
  BY <1>1, ApplicationAssumption DEF ApplicationAssumption, SaveRole, LeaveOutRole, DeskOK
<1>3. \A e \in Desks : desk'[e] = IF e = d THEN Vacant ELSE desk[e]
  BY DEF SaveRole, LeaveOutRole, ApplicationInv, ApplicationTypeOK
<1>4. \A e \in Desks : desk'[e].who = u => e # d /\ desk[e].who = u
  BY <1>2, <1>3 DEF Vacant
<1>5. UNCHANGED <<seller, isSeller>>
  BY DEF SaveRole, LeaveOutRole
<1>6. u \notin byHand' =>
        /\ u \in vendor' <=> IF desk[d].who = u THEN desk[d].op = "approve" ELSE u \in vendor
        /\ desk[d].who # u => u \notin byHand
  BY <1>2 DEF SaveRole, LeaveOutRole
<1>7. desk[d].who = u => Consistent(d, u)
  BY <1>1 DEF Agreed
<1>8. ~Opposed(u)'
  BY <1>1, <1>3, <1>4 DEF Agreed, Opposed
<1>9. \A e \in Desks : desk'[e].who = u => Consistent(e, u)'
  BY <1>1, <1>3, <1>4, <1>5 DEF Agreed, Consistent
<1>10. Follows(u)'
  <2>1. CASE desk[d].who = u
    <3>1. Deciding(u, {"flag"}) => Deciding(u, {"flag"})'
      BY <1>2, <1>3 DEF Deciding
    <3> QED
      BY <1>1, <1>2, <1>5, <1>6, <1>7, <2>1, <3>1 DEF Agreed, Follows, Consistent
  <2>2. CASE desk[d].who # u
    <3>1. (Deciding(u, {"flag"}) => Deciding(u, {"flag"})')
          /\ (Deciding(u, {"flag", "role"}) => Deciding(u, {"flag", "role"})')
      BY <1>3, <2>2 DEF Deciding
    <3> QED
      BY <1>1, <1>5, <1>6, <2>2, <3>1 DEF Agreed, Follows
  <2> QED  BY <2>1, <2>2
<1> QED
  BY <1>8, <1>9, <1>10 DEF Agreed

LEMMA InterruptAgrees ==
    ASSUME ApplicationInv, NEW d \in Desks, Interrupt(d), NEW u \in Applicants \ tangled'
    PROVE  Agreed(u)'
<1>1. Agreed(u) /\ desk[d].who # u /\ u # "nobody"
  BY ApplicationAssumption DEF ApplicationAssumption, ApplicationInv, Interrupt
<1>2. \A e \in Desks : desk'[e] = IF e = d THEN Vacant ELSE desk[e]
  BY DEF Interrupt, ApplicationInv, ApplicationTypeOK
<1>3. \A e \in Desks : (desk'[e].who = u <=> desk[e].who = u) /\ (desk[e].who = u => desk'[e] = desk[e])
  BY <1>1, <1>2 DEF Vacant
<1>4. UNCHANGED <<seller, isSeller, vendor, byHand>>
  BY DEF Interrupt, roleVars
<1> QED
  BY <1>1, <1>3, <1>4 DEF Agreed, Opposed, Consistent, Follows, Deciding

LEMMA RoleAgrees ==
    ASSUME ApplicationInv, RoleNext, NEW u \in Applicants \ tangled'
    PROVE  Agreed(u)'
<1>1. /\ UNCHANGED <<seller, isSeller, desk, tangled>>
      /\ u \notin byHand' => u \notin byHand /\ (u \in vendor' <=> u \in vendor)
  <2> DEFINE Same == /\ UNCHANGED <<seller, isSeller, desk, tangled>>
                     /\ u \notin byHand' => u \notin byHand /\ (u \in vendor' <=> u \in vendor)
  <2>1. ASSUME NEW v \in Applicants, GiveRole(v) \/ TakeRole(v) PROVE Same
    BY <2>1 DEF GiveRole, TakeRole, ByHand
  <2>2. ASSUME NEW v \in Applicants, NEW w \in Applicants, MoveRole(v, w) PROVE Same
    BY <2>2 DEF MoveRole, ByHand
  <2>3. CASE DropRole
    BY <2>3 DEF DropRole, ByHand
  <2>4. ASSUME NEW us \in SUBSET Applicants, NameRole(us) PROVE Same
    BY <2>4 DEF NameRole, ByHand, ApplicationInv, ApplicationTypeOK
  <2> QED  BY <2>1, <2>2, <2>3, <2>4 DEF RoleNext
<1>2. Agreed(u)
  BY <1>1 DEF ApplicationInv
<1> QED
  BY <1>1, <1>2 DEF Agreed, Opposed, Consistent, Follows, Deciding

LEMMA StepAgrees == ApplicationInv /\ [ApplicationNext]_applicationVars => ApplicationInv'
<1> SUFFICES ASSUME ApplicationInv, [ApplicationNext]_applicationVars
             PROVE  ApplicationInv'
  OBVIOUS
<1>1. CASE ApplicationNext
  <2>1. ASSUME NEW u \in Applicants \ tangled'
        PROVE  Agreed(u)'
    BY <1>1, ApplyAgrees, OpenAgrees, SaveStatusAgrees, SaveFlagAgrees, SaveRoleAgrees,
       InterruptAgrees, RoleAgrees DEF ApplicationNext
  <2>2. (Applicants \ tangled)' = Applicants \ tangled'
    OBVIOUS
  <2> QED
    BY <1>1, <2>1, <2>2, StepKeepsTypes, RoleIsThere DEF ApplicationInv
<1>2. CASE UNCHANGED applicationVars
  BY <1>2 DEF applicationVars, roleVars, ApplicationInv, ApplicationTypeOK, DeskOK, Agreed,
              Opposed, Consistent, Follows, Deciding
<1> QED  BY <1>1, <1>2

-------------------------------------------------------------------------------
\* Applications, flags, roles and requests keep their types (accounts.Seller, User.is_seller).
THEOREM ApplicationTypesHold == ApplicationSpec => []ApplicationTypeOK
<1>1. ApplicationInv => ApplicationTypeOK
  BY DEF ApplicationInv
<1> QED
  BY <1>1, InitAgrees, StepAgrees, PTL DEF ApplicationSpec

\* Status, flag and role of a seller agree whenever no decision is under way, and come in
\* that order, for any number of administrators and sellers at once and whatever becomes of
\* the role, except for users whose role somebody else changed since (Seller.approve,
\* Seller.reject; AssignRoleView, RemoveRoleView, UserRoleViewSet).
THEOREM SellersAlwaysAgree == ApplicationSpec => []SellersAgree
<1>1. ApplicationInv => SellersAgree
  <2> SUFFICES ASSUME ApplicationInv, NEW u \in Applicants \ tangled
               PROVE  /\ ~Deciding(u, {"flag"}) => (u \in isSeller <=> seller[u] = "approved")
                      /\ u \notin byHand =>
                          /\ ~Deciding(u, {"flag", "role"}) => (u \in vendor <=> seller[u] = "approved")
                          /\ u \in vendor => u \in isSeller
    BY DEF SellersAgree
  <2> QED
    BY DEF ApplicationInv, Agreed, Follows
<1> QED
  BY <1>1, InitAgrees, StepAgrees, PTL DEF ApplicationSpec

-------------------------------------------------------------------------------
\* The default address (AddressBook).

FormsFit ==
    \A f \in Forms :
        IF form[f].op = "idle" THEN form[f] = Blank
        ELSE /\ form[f].of # "none" /\ form[f].step # "idle"
             /\ form[f].step \in {"clear", "reset"} => form[f].default

\* While no two requests were in each other's way: each address has one request and one
\* request at most makes a default; when it has taken the default from the others, none has it.
FormsApart ==
    /\ \A f, g \in Forms : form[f].op # "idle" /\ form[f].of = form[g].of => f = g
    /\ \A f, g \in Forms : form[f].default /\ form[g].default => f = g
    /\ \A f \in Forms : form[f].op = "choose" => row[form[f].of] # "none"

OneDefault ==
    /\ \A f \in Forms : form[f].step = "write" /\ form[f].default => Defaults = {}
    /\ Defaults \subseteq {chosen}
    /\ (\A f \in Forms : ~form[f].default) /\ chosen # "none" => Defaults = {chosen}

AddressInv ==
    /\ AddressTypeOK
    /\ FormsFit
    /\ ~jumbled => FormsApart /\ OneDefault

LEMMA BlankForm == Blank \in Form /\ Blank.op = "idle" /\ Blank.of = "none" /\ ~Blank.default
                   /\ Blank.step = "idle"
BY DEF Blank, Form

LEMMA AddressesBegin == AddressInit => AddressInv
<1> SUFFICES ASSUME AddressInit PROVE AddressInv
  OBVIOUS
<1>1. AddressTypeOK
  BY BlankForm DEF AddressInit, AddressTypeOK, Row
<1>2. FormsFit /\ FormsApart
  BY BlankForm DEF AddressInit, FormsFit, FormsApart
<1>3. OneDefault
  BY BlankForm DEF AddressInit, OneDefault, Defaults
<1> QED
  BY <1>1, <1>2, <1>3 DEF AddressInv

LEMMA SubmitKeeps ==
    ASSUME AddressInv, NEW f \in Forms, NEW sent \in Form, Submit(f, sent),
           sent.op # "idle", sent.of # "none", sent.step \notin {"idle"},
           sent.step \in {"clear", "reset"} <=> sent.default,
           sent.op = "choose" => row[sent.of] # "none"
    PROVE  AddressInv'
<1>1. /\ form[f] = Blank /\ form' = [form EXCEPT ![f] = sent]
      /\ row' = row /\ chosen' = chosen
  BY DEF Submit
<1>2. \A g \in Forms : form'[g] = IF g = f THEN sent ELSE form[g]
  BY <1>1 DEF AddressInv, AddressTypeOK
<1>3. AddressTypeOK'
  BY <1>1, <1>2 DEF Submit, AddressInv, AddressTypeOK
<1>4. FormsFit'
  BY <1>2 DEF AddressInv, FormsFit
<1>5. ASSUME ~jumbled' PROVE (FormsApart /\ OneDefault)'
  <2>1. /\ ~jumbled
        /\ \A g \in Forms : form[g].of # sent.of
        /\ \A g \in Forms : ~(form[g].default /\ sent.default)
    BY <1>5 DEF Submit
  <2>2. FormsApart /\ OneDefault
    BY <2>1 DEF AddressInv
  <2>3. FormsApart'
    BY <1>1, <1>2, <2>1, <2>2 DEF FormsApart
  <2>4. Defaults' = Defaults
    BY <1>1 DEF Defaults
  <2>5. OneDefault'
    <3>1. (\A g \in Forms : ~form'[g].default) => \A g \in Forms : ~form[g].default
      BY <1>1, <1>2, BlankForm
    <3>2. \A g \in Forms : form'[g].step = "write" /\ form'[g].default
                               => form[g].step = "write" /\ form[g].default
      BY <1>2
    <3> QED  BY <1>1, <2>2, <2>4, <3>1, <3>2 DEF OneDefault
  <2> QED  BY <2>3, <2>5
<1> QED
  BY <1>3, <1>4, <1>5 DEF AddressInv

LEMMA ResetKeeps ==
    ASSUME AddressInv, NEW f \in Forms, NEW at \in {"reset", "write"},
           form[f].step \in {"clear", "reset"},
           row' = Cleared, form' = [form EXCEPT ![f].step = at], UNCHANGED <<chosen, jumbled>>
    PROVE  AddressInv'
<1>1. form[f] \in Form /\ form[f].op # "idle" /\ form[f].default
  BY BlankForm DEF AddressInv, AddressTypeOK, FormsFit
<1>2. \A g \in Forms : /\ form'[g].op = form[g].op /\ form'[g].of = form[g].of
                       /\ form'[g].default = form[g].default
                       /\ g # f => form'[g] = form[g]
  BY <1>1 DEF AddressInv, AddressTypeOK, Form
<1>3. form'[f] \in Form /\ form'[f].step = at
  BY <1>1 DEF AddressInv, AddressTypeOK, Form
<1>4. row' \in [Addresses -> Row] /\ \A a \in Addresses : row'[a] = "none" <=> row[a] = "none"
  BY DEF Cleared, AddressInv, AddressTypeOK, Row
<1>5. Defaults' = {}
  BY DEF Cleared, AddressInv, AddressTypeOK, Defaults
<1>6. AddressTypeOK'
  BY <1>2, <1>3, <1>4 DEF AddressInv, AddressTypeOK
<1>7. FormsFit'
  BY <1>1, <1>2, <1>3 DEF AddressInv, FormsFit
<1>8. ASSUME ~jumbled' PROVE (FormsApart /\ OneDefault)'
  <2>1. FormsApart
    BY <1>8 DEF AddressInv
  <2>2. \A g \in Forms : form[g].op = "choose" => form[g].of \in Addresses
    BY DEF AddressInv, AddressTypeOK, FormsFit, Form
  <2>3. FormsApart'
    BY <1>2, <1>4, <2>1, <2>2 DEF FormsApart
  <2>4. OneDefault'
    BY <1>1, <1>2, <1>5 DEF OneDefault
  <2> QED  BY <2>3, <2>4
<1> QED
  BY <1>6, <1>7, <1>8 DEF AddressInv

\* A request that ends without harm: only its form is emptied.
LEMMA WriteKeeps ==
    ASSUME AddressInv, NEW f \in Forms, WriteAddress(f)
    PROVE  AddressInv'
<1> DEFINE a == form[f].of
<1>1. /\ form[f].step = "write" /\ form[f] \in Form
      /\ form' = [form EXCEPT ![f] = Blank] /\ jumbled' = jumbled
  BY DEF WriteAddress, AddressInv, AddressTypeOK
<1>2. form[f].op # "idle" /\ a \in Addresses
  BY <1>1, BlankForm DEF AddressInv, FormsFit, Form
<1>3. \A g \in Forms : form'[g] = IF g = f THEN Blank ELSE form[g]
  BY <1>1 DEF AddressInv, AddressTypeOK
<1>4. \/ form[f].op = "choose" /\ row[a] = "none" /\ row' = row /\ chosen' = chosen
      \/ /\ row' = [row EXCEPT ![a] = IF form[f].default THEN "default" ELSE "plain"]
         /\ chosen' = IF form[f].default THEN a ELSE IF chosen = a THEN "none" ELSE chosen
  BY DEF WriteAddress
<1>5. AddressTypeOK'
  BY <1>1, <1>2, <1>3, <1>4, BlankForm DEF AddressInv, AddressTypeOK, Row, Form
<1>6. FormsFit'
  BY <1>3, BlankForm DEF AddressInv, FormsFit
<1>7. ASSUME ~jumbled' PROVE (FormsApart /\ OneDefault)'
  <2>1. FormsApart /\ OneDefault
    BY <1>1, <1>7 DEF AddressInv
  <2>2. /\ row' = [row EXCEPT ![a] = IF form[f].default THEN "default" ELSE "plain"]
        /\ chosen' = IF form[f].default THEN a ELSE IF chosen = a THEN "none" ELSE chosen
    BY <1>4, <2>1 DEF FormsApart
  <2>3. \A b \in Addresses : row'[b] = IF b = a THEN IF form[f].default THEN "default" ELSE "plain"
                                       ELSE row[b]
    BY <2>2 DEF AddressInv, AddressTypeOK
  <2>4. FormsApart'
    <3>1. \A g \in Forms : form[g].op # "idle" => form[g].of \in Addresses
      BY DEF AddressInv, AddressTypeOK, FormsFit, Form
    <3>2. \A b \in Addresses : row[b] # "none" => row'[b] # "none"
      BY <2>3
    <3>3. \A g \in Forms : form'[g].op # "idle" \/ form'[g].default =>
              g # f /\ form'[g] = form[g]
      BY <1>3, BlankForm
    <3>4. ASSUME NEW g \in Forms, form'[g].op = "choose" PROVE row'[form'[g].of] # "none"
      <4>1. form'[g] = form[g] /\ form[g].op = "choose"
        BY <3>3, <3>4
      <4>2. row[form[g].of] # "none" /\ form[g].of \in Addresses
        BY <2>1, <3>1, <4>1 DEF FormsApart
      <4> QED  BY <3>2, <4>1, <4>2
    <3>5. \A g, h \in Forms : form'[g].op # "idle" /\ form'[g].of = form'[h].of => g = h
      <4> SUFFICES ASSUME NEW g \in Forms, NEW h \in Forms, form'[g].op # "idle",
                          form'[g].of = form'[h].of
                   PROVE  g = h
        OBVIOUS
      <4>1. g # f /\ form'[g] = form[g] /\ form[g].of \in Addresses
        BY <3>1, <3>3
      <4>2. h # f
        BY <1>3, <4>1, BlankForm, AddressAssumption DEF AddressAssumption
      <4> QED  BY <1>3, <2>1, <4>1, <4>2 DEF FormsApart
    <3> QED  BY <2>1, <3>3, <3>4, <3>5 DEF FormsApart
  <2>5. CASE form[f].default
    <3>1. Defaults = {}
      BY <1>1, <2>1, <2>5 DEF OneDefault
    <3>2. Defaults' = {a} /\ chosen' = a
      BY <1>2, <2>2, <2>3, <2>5, <3>1 DEF Defaults
    <3>3. \A g \in Forms : ~form'[g].default
      BY <1>3, <2>1, <2>5, BlankForm DEF FormsApart
    <3> QED  BY <2>4, <3>2, <3>3 DEF OneDefault
  <2>6. CASE ~form[f].default
    <3>1. Defaults' = Defaults \ {a}
      BY <2>3, <2>6 DEF Defaults
    <3>2. chosen' = IF chosen = a THEN "none" ELSE chosen
      BY <2>2, <2>6
    <3>3. Defaults' \subseteq {chosen'}
      BY <2>1, <3>1, <3>2 DEF OneDefault
    <3>4. \A g \in Forms : form'[g].step = "write" /\ form'[g].default => Defaults' = {}
      BY <1>3, <2>1, <3>1, BlankForm DEF OneDefault
    <3>5. (\A g \in Forms : ~form'[g].default) /\ chosen' # "none" => Defaults' = {chosen'}
      <4>1. (\A g \in Forms : ~form'[g].default) => \A g \in Forms : ~form[g].default
        BY <1>3, <2>6
      <4>2. SUFFICES ASSUME \A g \in Forms : ~form[g].default, chosen' # "none"
                     PROVE  Defaults' = {chosen'}
        BY <4>1
      <4>3. chosen # a /\ chosen' = chosen
        BY <3>2, <4>2
      <4>4. Defaults = {chosen}
        BY <2>1, <4>2, <4>3 DEF OneDefault
      <4> QED  BY <3>1, <4>3, <4>4
    <3> QED  BY <2>4, <3>3, <3>4, <3>5 DEF OneDefault
  <2> QED  BY <2>5, <2>6
<1> QED
  BY <1>5, <1>6, <1>7 DEF AddressInv

LEMMA DeleteKeeps ==
    ASSUME AddressInv, NEW a \in Addresses, DeleteAddress(a)
    PROVE  AddressInv'
<1>1. /\ row' = [row EXCEPT ![a] = "none"] /\ form' = form
      /\ chosen' = IF chosen = a THEN "none" ELSE chosen
      /\ jumbled' = (jumbled \/ \E g \in Forms : form[g].of = a)
  BY DEF DeleteAddress
<1>2. \A b \in Addresses : row'[b] = IF b = a THEN "none" ELSE row[b]
  BY <1>1 DEF AddressInv, AddressTypeOK
<1>3. AddressTypeOK' /\ FormsFit'
  BY <1>1 DEF AddressInv, AddressTypeOK, FormsFit, Row
<1>4. ASSUME ~jumbled' PROVE (FormsApart /\ OneDefault)'
  <2>1. FormsApart /\ OneDefault /\ \A g \in Forms : form[g].of # a
    BY <1>1, <1>4 DEF AddressInv
  <2>2. Defaults' = Defaults \ {a}
    BY <1>2 DEF Defaults
  <2>3. \A g \in Forms : form[g].op = "choose" => form[g].of \in Addresses
    BY DEF AddressInv, AddressTypeOK, FormsFit, Form
  <2>4. FormsApart'
    BY <1>1, <1>2, <2>1, <2>3 DEF FormsApart
  <2>5. OneDefault'
    BY <1>1, <2>1, <2>2 DEF OneDefault
  <2> QED  BY <2>4, <2>5
<1> QED
  BY <1>3, <1>4 DEF AddressInv

LEMMA AbandonKeeps ==
    ASSUME AddressInv, NEW f \in Forms, Abandon(f)
    PROVE  AddressInv'
<1>1. /\ form' = [form EXCEPT ![f] = Blank] /\ jumbled' = TRUE
      /\ row' = row /\ chosen' = chosen
  BY DEF Abandon
<1>2. \A g \in Forms : form'[g] = IF g = f THEN Blank ELSE form[g]
  BY <1>1 DEF AddressInv, AddressTypeOK
<1> QED
  BY <1>1, <1>2, BlankForm DEF AddressInv, AddressTypeOK, FormsFit

LEMMA AddressesStay == AddressInv /\ [AddressNext]_addressVars => AddressInv'
<1> SUFFICES ASSUME AddressInv, [AddressNext]_addressVars PROVE AddressInv'
  OBVIOUS
<1>1. CASE UNCHANGED addressVars
  BY <1>1 DEF addressVars, AddressInv, AddressTypeOK, FormsFit, FormsApart, OneDefault, Defaults
<1>2. ASSUME NEW a \in Addresses, DeleteAddress(a) PROVE AddressInv'
  BY <1>2, DeleteKeeps
<1>3. ASSUME NEW f \in Forms, ClearDefault(f) PROVE AddressInv'
  <2>1. form[f].step = "clear" /\ row' = Cleared /\ form' = [form EXCEPT ![f].step = "reset"]
        /\ UNCHANGED <<chosen, jumbled>>
    BY <1>3 DEF ClearDefault
  <2> QED  BY <2>1, ResetKeeps
<1>4. ASSUME NEW f \in Forms, ResetDefault(f) PROVE AddressInv'
  <2>1. form[f].step = "reset" /\ row' = Cleared /\ form' = [form EXCEPT ![f].step = "write"]
        /\ UNCHANGED <<chosen, jumbled>>
    BY <1>4 DEF ResetDefault
  <2> QED  BY <2>1, ResetKeeps
<1>5. ASSUME NEW f \in Forms, WriteAddress(f) PROVE AddressInv'
  BY <1>5, WriteKeeps
<1>6. ASSUME NEW f \in Forms, Abandon(f) PROVE AddressInv'
  BY <1>6, AbandonKeeps
<1>7. ASSUME NEW f \in Forms, NEW a \in Addresses, SetDefault(f, a) PROVE AddressInv'
  <2> DEFINE sent == [op |-> "choose", step |-> "clear", of |-> a, default |-> TRUE]
  <2>1. sent \in Form /\ row[a] # "none" /\ Submit(f, sent) /\ a # "none"
    BY <1>7, AddressAssumption DEF AddressAssumption, SetDefault, Form
  <2> QED  BY <2>1, SubmitKeeps
<1>8. ASSUME NEW f \in Forms, NEW a \in Addresses, NEW default \in BOOLEAN,
             CreateAddress(f, a, default) \/ EditAddress(f, a, default)
      PROVE  AddressInv'
  <2>1. PICK op \in {"create", "patch"} :
            Submit(f, [op |-> op, step |-> SaveStep(default), of |-> a, default |-> default])
    BY <1>8 DEF CreateAddress, EditAddress
  <2> DEFINE sent == [op |-> op, step |-> SaveStep(default), of |-> a, default |-> default]
  <2>2. /\ sent \in Form /\ a # "none"
        /\ sent.step \in {"clear", "reset"} <=> sent.default
        /\ sent.step # "idle"
    BY AddressAssumption DEF AddressAssumption, Form, SaveStep
  <2> QED  BY <2>1, <2>2, SubmitKeeps
<1> QED
  BY <1>1, <1>2, <1>3, <1>4, <1>5, <1>6, <1>7, <1>8 DEF AddressNext

LEMMA AddressesAlways == AddressSpec => []AddressInv
<1> QED
  BY AddressesBegin, AddressesStay, PTL DEF AddressSpec

\* Addresses and the requests about them keep their types, however the statements of
\* UserAddressViewSet and UserAddress.save interleave.
THEOREM AddressTypesHold == AddressSpec => []AddressTypeOK
<1>1. AddressInv => AddressTypeOK
  BY DEF AddressInv
<1> QED
  BY <1>1, AddressesAlways, PTL

\* set_default, create and update leave one default address, the one that was asked for last,
\* as long as no two of them overlapped on it and none stopped between its statements.
THEOREM DefaultIsAlwaysTheChosen == AddressSpec => []DefaultIsTheChosen
<1>1. AddressInv => DefaultIsTheChosen
  BY BlankForm DEF AddressInv, DefaultIsTheChosen, OneDefault, Unattended
<1> QED
  BY <1>1, AddressesAlways, PTL

-------------------------------------------------------------------------------
\* Who owns an address (Identity).

\* How a request stands at each of its steps.
CallFits(q) ==
    \/ q = New \/ q = Done
    \/ /\ q.op = "request" /\ q.who = 0 /\ q.email \in Inboxes
       /\ \/ q.step = "create"
          \/ q.step \in {"send", "fail"} /\ q.code \in OtpIds /\ otp[q.code].email = q.email
                                         /\ otp[q.code].state # "none"
    \/ /\ q.op \in {"verify", "reset"} /\ q.who = 0 /\ q.email \in Inboxes
       /\ q.step = "spend" /\ q.code \in OtpIds
       /\ otp[q.code].email = q.email /\ otp[q.code].state # "none"
    \/ q.op = "verify" /\ q.step = "find" /\ q.who = 0 /\ q.email \in Inboxes
    \/ q.op \in {"verify", "confirm"} /\ q.step = "save" /\ q.who \in People /\ q.email \in Inboxes
    \/ q.op = "confirm" /\ q.step = "match" /\ q.who \in People /\ q.email = "none"
    \/ /\ q.op = "relink" /\ q.step \in {"save", "cache", "send"}
       /\ q.who \in People /\ q.email \in Inboxes

\* Codes are numbered as they are made, and a row that is not made yet is empty.
OtpsFit ==
    /\ \A c \in OtpIds : otp[c] = NoOtp \/ (otp[c].state # "none" /\ otp[c].email \in Inboxes)
    /\ \A c, d \in OtpIds : c < d /\ otp[d].state # "none" => otp[c].state # "none"

\* A token that reached an inbox was meant for one.
MailIsAddressed == \A t \in mailed : t.to \in Inboxes

IdentityFits ==
    /\ IdentityTypeOK
    /\ \A r \in Calls : CallFits(call[r])
    /\ OtpsFit
    /\ \A r \in Calls, p \in People : call[r].who = p => account[p].state # "absent"
    /\ \A p \in People : link[p] # NoToken => account[p].state # "absent"
    /\ MailIsAddressed

Linking(r, p) == call[r].op = "relink" /\ call[r].who = p

\* An account whose address nobody changed beside another request: the request that changes
\* the address is alone, what is about to be saved as verified is the account's address, and
\* so is what its link proves.
Undisturbed(p) ==
    /\ account[p].verified => account[p].email \in proof[p]
    /\ \A r, o \in Calls : Linking(r, p) /\ call[o].who = p => r = o
    /\ \A r \in Calls : Linking(r, p) =>
           /\ ~account[p].verified
           /\ call[r].step # "save" => account[p].email = call[r].email
    /\ \A r \in Calls : call[r].who = p /\ call[r].op # "relink" /\ call[r].step = "save"
           => call[r].email = account[p].email
    /\ \/ link[p] = NoToken \/ link[p].to = account[p].email
       \/ \E r \in Calls : Linking(r, p) /\ call[r].step = "cache"

AboutCodes(r, e) == call[r].op \in CodeOps /\ call[r].email = e

\* An inbox whose codes one request at a time is about: while it makes a code no older one
\* can be used, and the code it spends was not spent before.
Unraced(e) ==
    /\ \A r, o \in Calls : AboutCodes(r, e) /\ AboutCodes(o, e) => r = o
    /\ \A c \in OtpIds : otp[c].state # "none" /\ otp[c].email = e =>
           /\ otp[c].accepted <= 1
           /\ otp[c].state = "live" =>
                  /\ otp[c].accepted = 0
                  /\ \A d \in OtpIds : d > c => otp[d].email # e
    /\ \A r \in Calls : AboutCodes(r, e) =>
           /\ call[r].step = "create" =>
                  \A c \in OtpIds : otp[c].email = e => otp[c].state # "live"
           /\ call[r].step = "spend" => otp[call[r].code].accepted = 0

IdentityInv ==
    /\ IdentityFits
    /\ \A p \in People \ crossed : Undisturbed(p)
    /\ \A e \in Inboxes \ raced : Unraced(e)

LEMMA CallRows ==
    /\ New \in Call /\ Done \in Call /\ New # Done
    /\ New.op = "new" /\ New.step = "" /\ New.who = 0 /\ New.email = "none"
    /\ Done.op = "done" /\ Done.step = "" /\ Done.who = 0 /\ Done.email = "none"
BY DEF New, Done, Call

LEMMA EmptyOtp ==
    NoOtp \in Otp /\ NoOtp.state = "none" /\ NoOtp.email = "none" /\ NoOtp.accepted = 0
BY DEF NoOtp, Otp

LEMMA IdentityBegins == IdentityInit => IdentityInv
<1> SUFFICES ASSUME IdentityInit PROVE IdentityInv
  OBVIOUS
<1>1. IdentityTypeOK
  BY CallRows DEF IdentityInit, IdentityTypeOK, NoAccount, Account, NoOtp, Otp, NoToken, Token
<1>2. IdentityFits
  BY <1>1, CallRows, IdentityAssumption
  DEF IdentityInit, IdentityFits, CallFits, OtpsFit, NoAccount, MailIsAddressed
<1>3. \A p \in People \ crossed : Undisturbed(p)
  BY CallRows, IdentityAssumption DEF IdentityInit, Undisturbed, Linking, NoAccount
<1>4. \A e \in Inboxes \ raced : Unraced(e)
  BY CallRows DEF IdentityInit, Unraced, AboutCodes, CodeOps, NoOtp
<1> QED
  BY <1>2, <1>3, <1>4 DEF IdentityInv

-------------------------------------------------------------------------------
\* Types and shapes.

\* What a step does to the request it serves, and to no other.
LEMMA GoMoves ==
    ASSUME IdentityTypeOK, NEW r \in Calls,
           NEW s \in {"", "create", "send", "fail", "spend", "find", "save", "cache", "match"},
           Go(r, s)
    PROVE  /\ call' \in [Calls -> Call]
           /\ \A o \in Calls \ {r} : call'[o] = call[o]
           /\ call'[r].op = call[r].op /\ call'[r].step = s /\ call'[r].who = call[r].who
           /\ call'[r].email = call[r].email /\ call'[r].code = call[r].code
BY DEF IdentityTypeOK, Go, Call

LEMMA AnswerMoves ==
    ASSUME IdentityTypeOK, NEW r \in Calls, Answer(r)
    PROVE  /\ call' \in [Calls -> Call] /\ call'[r] = Done
           /\ \A o \in Calls \ {r} : call'[o] = call[o]
BY CallRows DEF IdentityTypeOK, Answer

LEMMA ArrivalMoves ==
    ASSUME IdentityTypeOK, NEW r \in Calls, NEW q \in Call, Arrives(r, q)
    PROVE  /\ call' \in [Calls -> Call] /\ call'[r] = q /\ call[r] = New
           /\ \A o \in Calls \ {r} : call'[o] = call[o]
BY DEF IdentityTypeOK, Arrives

\* The requests keep their shape when one of them moves and no code loses its inbox.
LEMMA CallsKeepShape ==
    ASSUME IdentityFits, NEW r \in Calls, CallFits(call[r])',
           \A o \in Calls \ {r} : call'[o] = call[o],
           \A c \in OtpIds : otp[c].state # "none" =>
               otp'[c].state # "none" /\ otp'[c].email = otp[c].email
    PROVE  \A o \in Calls : CallFits(call[o])'
BY DEF IdentityFits, CallFits

\* ... and when none moves.
LEMMA CallsStayFit ==
    ASSUME IdentityFits, UNCHANGED call,
           \A c \in OtpIds : otp[c].state # "none" =>
               otp'[c].state # "none" /\ otp'[c].email = otp[c].email
    PROVE  \A o \in Calls : CallFits(call[o])'
BY DEF IdentityFits, CallFits

\* Steps that change the row of one account and nothing else.
LEMMA AccountFits ==
    ASSUME IdentityFits, NEW p \in People, NEW q \in Account, q.state # "absent",
           account' = [account EXCEPT ![p] = q],
           UNCHANGED <<otp, link, mailed, call, proof, crossed, raced>>
    PROVE  IdentityFits'
<1>1. \A o \in Calls : CallFits(call[o])'
  BY CallsStayFit
<1>2. account' \in [People -> Account] /\ \A x \in People \ {p} : account'[x] = account[x]
  BY DEF IdentityFits, IdentityTypeOK
<1>3. account'[p] = q
  BY DEF IdentityFits, IdentityTypeOK
<1>4. IdentityTypeOK'
  BY <1>2 DEF IdentityFits, IdentityTypeOK
<1> QED
  BY <1>1, <1>2, <1>3, <1>4 DEF IdentityFits, OtpsFit, MailIsAddressed

LEMMA RegisterFits ==
    ASSUME IdentityFits, NEW p \in People, NEW e \in Inboxes, Register(p, e)
    PROVE  IdentityFits'
<1>1. [email |-> e, verified |-> FALSE, state |-> "active"] \in Account
  BY DEF Account
<1> QED
  BY <1>1, AccountFits DEF Register

LEMMA StatusFits ==
    ASSUME IdentityFits, NEW p \in People, SetStatus(p) \/ DeleteAccount(p) \/ AdminDeleteUser(p)
    PROVE  IdentityFits'
<1>1. account \in [People -> Account]
  BY DEF IdentityFits, IdentityTypeOK
<1>2. \A s \in {"active", "suspended", "deleted"} : [account[p] EXCEPT !.state = s] \in Account
  BY <1>1 DEF Account
<1>3. \A s \in {"active", "suspended", "deleted"} : [account[p] EXCEPT !.state = s].state # "absent"
  BY <1>1 DEF Account
<1>4. PICK s \in {"active", "suspended", "deleted"} :
          account' = [account EXCEPT ![p] = [account[p] EXCEPT !.state = s]]
  BY <1>1 DEF SetStatus, DeleteAccount, AdminDeleteUser
<1>5. UNCHANGED <<otp, link, mailed, call, proof, crossed, raced>>
  BY DEF SetStatus, DeleteAccount, AdminDeleteUser
<1> DEFINE q == [account[p] EXCEPT !.state = s]
<1>6. q \in Account /\ q.state # "absent" /\ account' = [account EXCEPT ![p] = q]
  BY <1>2, <1>3, <1>4
<1> HIDE DEF q
<1> QED
  BY <1>5, <1>6, AccountFits

\* A step of a request, as far as types and shapes go.
LEMMA RequestFits ==
    ASSUME IdentityFits, NEW r \in Calls,
           call' \in [Calls -> Call], \A o \in Calls \ {r} : call'[o] = call[o],
           CallFits(call[r])', \A p \in People : call'[r].who = p => account'[p].state # "absent",
           otp' \in [OtpIds -> Otp], OtpsFit',
           \A c \in OtpIds : otp[c].state # "none" =>
               otp'[c].state # "none" /\ otp'[c].email = otp[c].email,
           account' \in [People -> Account],
           \A p \in People : account[p].state # "absent" => account'[p].state # "absent",
           link' \in [People -> Token],
           \A p \in People : link'[p] # NoToken => account'[p].state # "absent",
           mailed' \subseteq Token, MailIsAddressed',
           proof' \in [People -> SUBSET Inboxes], crossed' \subseteq People, raced' \subseteq Inboxes
    PROVE  IdentityFits'
<1>1. \A o \in Calls : CallFits(call[o])'
  BY CallsKeepShape
<1>2. \A o \in Calls, p \in People : call'[o].who = p => account'[p].state # "absent"
  BY DEF IdentityFits
<1>3. IdentityTypeOK'
  BY DEF IdentityTypeOK
<1> QED
  BY <1>1, <1>2, <1>3 DEF IdentityFits

\* Steps of a request that change no code, and steps that change no account and no link.
OtpStays == otp' \in [OtpIds -> Otp] /\ OtpsFit'
            /\ \A c \in OtpIds : otp[c].state # "none" =>
                   otp'[c].state # "none" /\ otp'[c].email = otp[c].email
RestStays == /\ account' \in [People -> Account] /\ link' \in [People -> Token]
             /\ \A p \in People : account[p].state # "absent" => account'[p].state # "absent"
             /\ \A p \in People : link'[p] # NoToken => account'[p].state # "absent"
             /\ mailed' \subseteq Token /\ MailIsAddressed'
             /\ proof' \in [People -> SUBSET Inboxes]

LEMMA Stays ==
    ASSUME IdentityFits
    PROVE  /\ UNCHANGED otp => OtpStays
           /\ UNCHANGED <<account, link, mailed, proof>> => RestStays
BY DEF IdentityFits, IdentityTypeOK, OtpsFit, OtpStays, RestStays, MailIsAddressed

LEMMA StepFits ==
    ASSUME IdentityFits, NEW r \in Calls, OtpStays, RestStays,
           call' \in [Calls -> Call], \A o \in Calls \ {r} : call'[o] = call[o],
           CallFits(call[r])', \A p \in People : call'[r].who = p => account'[p].state # "absent",
           crossed' \subseteq People, raced' \subseteq Inboxes
    PROVE  IdentityFits'
BY RequestFits DEF OtpStays, RestStays

\* A request that is answered has no account and fits.
LEMMA AnswerFits ==
    ASSUME IdentityFits, NEW r \in Calls, OtpStays, RestStays, Answer(r),
           crossed' \subseteq People, raced' \subseteq Inboxes
    PROVE  IdentityFits'
<1>1. IdentityTypeOK
  BY DEF IdentityFits
<1>2. call' \in [Calls -> Call] /\ call'[r] = Done /\ \A o \in Calls \ {r} : call'[o] = call[o]
  BY <1>1, AnswerMoves
<1>3. CallFits(call[r])'
  BY <1>2 DEF CallFits
<1>4. \A p \in People : call'[r].who # p
  BY <1>2, CallRows, IdentityAssumption
<1> QED
  BY <1>2, <1>3, <1>4, StepFits

LEMMA CrossTypes ==
    ASSUME IdentityFits, NEW r, NEW p \in People, NEW op, Cross(r, p, op)
    PROVE  crossed' \subseteq People /\ crossed \subseteq crossed'
BY DEF IdentityFits, IdentityTypeOK, Cross

LEMMA RaceTypes ==
    ASSUME IdentityFits, NEW r, NEW e \in Inboxes, Race(r, e)
    PROVE  raced' \subseteq Inboxes /\ raced \subseteq raced'
BY DEF IdentityFits, IdentityTypeOK, Race

\* The rows of the codes when one of them, made already, takes another state.
LEMMA OtpRow ==
    ASSUME IdentityFits, NEW c \in OtpIds, otp[c].state # "none",
           NEW newOtp \in Otp, newOtp.state # "none", newOtp.email = otp[c].email,
           otp' = [otp EXCEPT ![c] = newOtp]
    PROVE  OtpStays
<1>1. /\ otp' \in [OtpIds -> Otp] /\ otp'[c] = newOtp
      /\ \A d \in OtpIds \ {c} : otp'[d] = otp[d]
  BY DEF IdentityFits, IdentityTypeOK
<1>2. otp[c].email \in Inboxes
  BY EmptyOtp DEF IdentityFits, OtpsFit
<1>3. \A d \in OtpIds : otp'[d].state # "none" <=> otp[d].state # "none"
  BY <1>1
<1>4. OtpsFit'
  <2>1. \A d \in OtpIds : otp'[d] = NoOtp \/ (otp'[d].state # "none" /\ otp'[d].email \in Inboxes)
    BY <1>1, <1>2 DEF IdentityFits, OtpsFit
  <2> QED  BY <1>3, <2>1 DEF IdentityFits, OtpsFit
<1> QED
  BY <1>1, <1>4 DEF OtpStays

LEMMA OtpTypes ==
    ASSUME IdentityFits, NEW c \in OtpIds
    PROVE  /\ otp[c] \in Otp
           /\ \A s \in {"live", "expired", "used"} :
                  /\ [otp[c] EXCEPT !.state = s] \in Otp
                  /\ [otp[c] EXCEPT !.state = s].state = s
                  /\ [otp[c] EXCEPT !.state = s].email = otp[c].email
BY DEF IdentityFits, IdentityTypeOK, Otp

LEMMA ExpiryFits ==
    ASSUME IdentityFits, NEW c \in OtpIds, ExpireCode(c) PROVE IdentityFits'
<1> DEFINE newOtp == [otp[c] EXCEPT !.state = "expired"]
<1>1. newOtp \in Otp /\ newOtp.state = "expired" /\ newOtp.email = otp[c].email
  BY OtpTypes
<1>2. otp' = [otp EXCEPT ![c] = newOtp] /\ otp[c].state # "none"
  BY DEF ExpireCode, IdentityFits, IdentityTypeOK
<1> HIDE DEF newOtp
<1>3. OtpStays
  BY <1>1, <1>2, OtpRow
<1>4. UNCHANGED <<account, link, mailed, call, proof, crossed, raced>>
  BY DEF ExpireCode
<1>5. \A o \in Calls : CallFits(call[o])'
  BY <1>3, <1>4, CallsStayFit DEF OtpStays
<1> QED
  BY <1>3, <1>4, <1>5 DEF IdentityFits, IdentityTypeOK, OtpStays, MailIsAddressed

LEMMA LinkExpiryFits ==
    ASSUME IdentityFits, NEW p \in People, LinkExpires(p) PROVE IdentityFits'
<1>1. UNCHANGED <<account, otp, mailed, call, proof, crossed, raced>>
  BY DEF LinkExpires
<1>2. \A o \in Calls : CallFits(call[o])'
  BY <1>1, CallsStayFit
<1>3. NoToken \in Token
  BY DEF NoToken, Token
<1>4. link' \in [People -> Token] /\ \A q \in People : link'[q] # NoToken => link'[q] = link[q]
  BY <1>3 DEF LinkExpires, IdentityFits, IdentityTypeOK
<1> QED
  BY <1>1, <1>2, <1>4 DEF IdentityFits, IdentityTypeOK, OtpsFit, MailIsAddressed

LEMMA CutOffFits ==
    ASSUME IdentityFits, NEW r \in Calls, CutOff(r) PROVE IdentityFits'
<1>1. call[r].op = "relink" => call[r].who \in People
  BY CallRows DEF IdentityFits, CallFits
<1>2. crossed' \subseteq People /\ raced' \subseteq Inboxes
  BY <1>1 DEF CutOff, IdentityFits, IdentityTypeOK
<1> QED
  BY <1>2, Stays, AnswerFits DEF CutOff

LEMMA AskCodeFits ==
    ASSUME IdentityFits, NEW r \in Calls, NEW e \in Inboxes, AskCode(r, e) PROVE IdentityFits'
<1> DEFINE q == [New EXCEPT !.op = "request", !.step = "create", !.email = e]
<1>1. /\ q \in Call /\ q.op = "request" /\ q.step = "create" /\ q.email = e /\ q.who = 0
  BY DEF New, Call
<1>2. Arrives(r, q) /\ Race(r, e) /\ UNCHANGED <<account, link, mailed, proof, crossed>>
  BY DEF AskCode
<1>3. /\ otp' \in [OtpIds -> Otp]
      /\ \A c \in OtpIds : otp'[c] = IF otp[c].email = e THEN [otp[c] EXCEPT !.state = "used"]
                                                         ELSE otp[c]
  BY OtpTypes DEF AskCode, IdentityFits, IdentityTypeOK
<1> HIDE DEF q
<1>4. IdentityTypeOK
  BY DEF IdentityFits
<1>5. /\ call' \in [Calls -> Call] /\ call'[r] = q
      /\ \A o \in Calls \ {r} : call'[o] = call[o]
  BY <1>1, <1>2, <1>4, ArrivalMoves
<1>6. \A c \in OtpIds : otp[c] # NoOtp => otp[c].state # "none"
  BY DEF IdentityFits, OtpsFit, NoOtp
<1>7. "none" # e
  BY IdentityAssumption
<1>8. \A c \in OtpIds : /\ otp[c] = NoOtp => otp'[c] = NoOtp
                        /\ otp[c] # NoOtp => otp'[c].state # "none"
                        /\ otp'[c].email = otp[c].email
  BY <1>3, <1>6, <1>7, EmptyOtp, OtpTypes
<1>9. OtpStays
  BY <1>3, <1>6, <1>8, EmptyOtp DEF OtpStays, OtpsFit, IdentityFits
<1>10. CallFits(call[r])' /\ \A p \in People : call'[r].who # p
  BY <1>1, <1>5, IdentityAssumption DEF CallFits
<1>11. RestStays /\ raced' \subseteq Inboxes /\ crossed' \subseteq People
  BY <1>2, Stays, RaceTypes DEF IdentityFits, IdentityTypeOK
<1> QED
  BY <1>5, <1>9, <1>10, <1>11, StepFits

\* A request that moves on keeps its account, and the tables of accounts stay.
LEMMA GoFits ==
    ASSUME IdentityFits, NEW r \in Calls, OtpStays, RestStays,
           NEW s \in {"", "create", "send", "fail", "spend", "find", "save", "cache", "match"},
           Go(r, s), CallFits(call[r])', UNCHANGED <<crossed, raced>>
    PROVE  IdentityFits'
<1>1. IdentityTypeOK
  BY DEF IdentityFits
<1>2. /\ call' \in [Calls -> Call] /\ call'[r].who = call[r].who
      /\ \A o \in Calls \ {r} : call'[o] = call[o]
  BY <1>1, GoMoves
<1>3. \A p \in People : call'[r].who = p => account'[p].state # "absent"
  BY <1>2 DEF IdentityFits, RestStays
<1> QED
  BY <1>2, <1>3, StepFits DEF IdentityFits, IdentityTypeOK

LEMMA CreateCodeFits ==
    ASSUME IdentityFits, NEW r \in Calls, CreateCode(r) PROVE IdentityFits'
<1>0. IdentityTypeOK
  BY DEF IdentityFits
<1>1. PICK c \in OtpIds :
          /\ otp[c] = NoOtp /\ \A d \in OtpIds : d < c => otp[d] # NoOtp
          /\ otp' = [otp EXCEPT ![c].email = call[r].email, ![c].state = "live"]
          /\ call' = [call EXCEPT ![r].step = "send", ![r].code = c]
  BY DEF CreateCode
<1>2. call[r].op = "request" /\ call[r].step = "create" /\ call[r].email \in Inboxes
      /\ call[r].who = 0
  BY CallRows DEF CreateCode, IdentityFits, CallFits
<1>3. /\ call' \in [Calls -> Call] /\ \A o \in Calls \ {r} : call'[o] = call[o]
      /\ call'[r].op = "request" /\ call'[r].step = "send" /\ call'[r].who = 0
      /\ call'[r].email = call[r].email /\ call'[r].code = c
  BY ZenonT(60), <1>0, <1>1, <1>2 DEF IdentityTypeOK, Call
<1>4. /\ otp' \in [OtpIds -> Otp] /\ \A d \in OtpIds \ {c} : otp'[d] = otp[d]
      /\ otp'[c].email = call[r].email /\ otp'[c].state = "live"
  BY <1>0, <1>1, <1>2 DEF IdentityTypeOK, Otp
<1>5. \A d \in OtpIds : otp[d].state # "none" <=> otp[d] # NoOtp
  BY EmptyOtp DEF IdentityFits, OtpsFit
<1>6. OtpsFit'
  <2>1. \A d \in OtpIds : otp'[d] = NoOtp \/ (otp'[d].state # "none" /\ otp'[d].email \in Inboxes)
    BY <1>2, <1>4 DEF IdentityFits, OtpsFit
  <2>2. ASSUME NEW x \in OtpIds, NEW y \in OtpIds, x < y, otp'[y].state # "none"
        PROVE  otp'[x].state # "none"
    <3>1. CASE x = c
      BY <1>4, <3>1
    <3>2. CASE x # c /\ y = c
      BY <1>1, <1>4, <1>5, <2>2, <3>2
    <3>3. CASE x # c /\ y # c
      BY <1>4, <2>2, <3>3 DEF IdentityFits, OtpsFit
    <3> QED  BY <3>1, <3>2, <3>3
  <2> QED  BY <2>1, <2>2 DEF OtpsFit
<1>7. otp[c].state = "none"
  BY <1>1, EmptyOtp
<1>8. OtpStays
  BY <1>4, <1>6, <1>7 DEF OtpStays
<1>9. CallFits(call[r])' /\ \A p \in People : call'[r].who # p
  BY <1>2, <1>3, <1>4, IdentityAssumption DEF CallFits
<1>10. RestStays /\ raced' \subseteq Inboxes /\ crossed' \subseteq People
  BY <1>0, Stays DEF CreateCode, IdentityTypeOK
<1> QED
  BY <1>3, <1>8, <1>9, <1>10, StepFits

\* The code a request names has been made.
LEMMA CodeOfCall ==
    ASSUME IdentityFits, NEW r \in Calls,
           \/ call[r].op = "request" /\ call[r].step \in {"send", "fail"}
           \/ call[r].op \in {"verify", "reset"} /\ call[r].step = "spend"
    PROVE  /\ call[r].code \in OtpIds /\ call[r].email \in Inboxes /\ call[r].who = 0
           /\ otp[call[r].code].state # "none" /\ otp[call[r].code].email = call[r].email
BY CallRows DEF IdentityFits, CallFits

LEMMA SendCodeFits ==
    ASSUME IdentityFits, NEW r \in Calls, SendCode(r) PROVE IdentityFits'
<1> DEFINE c == call[r].code
           newOtp == [otp[c] EXCEPT !.delivered = TRUE]
<1>1. call[r].op = "request" /\ call[r].step = "send"
      /\ UNCHANGED <<account, link, mailed, proof, crossed, raced>>
  BY DEF SendCode
<1>2. /\ c \in OtpIds /\ otp[c].state # "none" /\ call[r].who = 0
      /\ call[r].email \in Inboxes /\ otp[c].email = call[r].email
  BY <1>1, CodeOfCall
<1>3. newOtp \in Otp /\ newOtp.state = otp[c].state /\ newOtp.email = otp[c].email
  BY ZenonT(60), <1>2, OtpTypes DEF Otp
<1>4. RestStays /\ raced' \subseteq Inboxes /\ crossed' \subseteq People
  BY <1>1, Stays DEF IdentityFits, IdentityTypeOK
<1>5. CASE otp' = [otp EXCEPT ![c].delivered = TRUE] /\ Answer(r)
  <2>1. otp' = [otp EXCEPT ![c] = newOtp]
    BY <1>2, <1>5 DEF IdentityFits, IdentityTypeOK
  <2> HIDE DEF newOtp, c
  <2>2. OtpStays
    BY <1>2, <1>3, <2>1, OtpRow
  <2> QED  BY <1>4, <1>5, <2>2, AnswerFits
<1>6. CASE Go(r, "fail") /\ UNCHANGED otp
  <2>1. OtpStays
    BY <1>6, Stays
  <2>2. /\ call'[r].op = call[r].op /\ call'[r].step = "fail" /\ call'[r].who = call[r].who
        /\ call'[r].email = call[r].email /\ call'[r].code = call[r].code
    BY <1>6, GoMoves DEF IdentityFits
  <2>3. CallFits(call[r])'
    BY <1>1, <1>2, <1>6, <2>2 DEF CallFits
  <2> QED  BY <1>1, <1>4, <1>6, <2>1, <2>3, GoFits
<1> QED
  BY <1>5, <1>6 DEF SendCode

LEMMA DropCodeFits ==
    ASSUME IdentityFits, NEW r \in Calls, DropCode(r) PROVE IdentityFits'
<1> DEFINE c == call[r].code
           newOtp == [otp[c] EXCEPT !.state = "used"]
<1>1. call[r].op = "request" /\ call[r].step = "fail" /\ Answer(r)
      /\ UNCHANGED <<account, link, mailed, proof, crossed, raced>>
  BY DEF DropCode
<1>2. c \in OtpIds /\ otp[c].state # "none"
  BY <1>1, CodeOfCall
<1>3. newOtp \in Otp /\ newOtp.state = "used" /\ newOtp.email = otp[c].email
  BY <1>2, OtpTypes
<1>4. RestStays /\ raced' \subseteq Inboxes /\ crossed' \subseteq People
  BY <1>1, Stays DEF IdentityFits, IdentityTypeOK
<1>5. otp' = [otp EXCEPT ![c] = newOtp]
  BY <1>2 DEF DropCode, IdentityFits, IdentityTypeOK
<1> HIDE DEF newOtp, c
<1>6. OtpStays
  BY <1>2, <1>3, <1>5, OtpRow
<1> QED
  BY <1>1, <1>4, <1>6, AnswerFits

LEMMA PresentCodeFits ==
    ASSUME IdentityFits, NEW r \in Calls, NEW c \in OtpIds, NEW op \in {"verify", "reset"},
           PresentCode(r, c, op)
    PROVE  IdentityFits'
<1> DEFINE q == [New EXCEPT !.op = op, !.step = "spend", !.email = otp[c].email, !.code = c]
<1>1. otp[c].state # "none" /\ otp[c].email \in Inboxes
  BY EmptyOtp DEF PresentCode, IdentityFits, OtpsFit
<1>2. /\ q \in Call /\ q.op = op /\ q.step = "spend" /\ q.email = otp[c].email /\ q.who = 0
      /\ q.code = c
  BY <1>1 DEF New, Call
<1>3. Arrives(r, q) /\ Race(r, otp[c].email)
      /\ UNCHANGED <<account, otp, link, mailed, proof, crossed>>
  BY DEF PresentCode
<1> HIDE DEF q
<1>4. IdentityTypeOK
  BY DEF IdentityFits
<1>5. /\ call' \in [Calls -> Call] /\ call'[r] = q
      /\ \A o \in Calls \ {r} : call'[o] = call[o]
  BY <1>2, <1>3, <1>4, ArrivalMoves
<1>6. CallFits(call[r])' /\ \A p \in People : call'[r].who # p
  BY <1>1, <1>2, <1>3, <1>5, IdentityAssumption DEF CallFits
<1>7. OtpStays /\ RestStays /\ raced' \subseteq Inboxes /\ crossed' \subseteq People
  BY <1>1, <1>3, <1>4, Stays, RaceTypes DEF IdentityTypeOK
<1> QED
  BY <1>5, <1>6, <1>7, StepFits

LEMMA SpendCodeFits ==
    ASSUME IdentityFits, NEW r \in Calls, SpendCode(r) PROVE IdentityFits'
<1> DEFINE c == call[r].code
           newOtp == [otp[c] EXCEPT !.state = "used", !.accepted = @ + 1]
<1>1. call[r].op \in {"verify", "reset"} /\ call[r].step = "spend"
      /\ UNCHANGED <<account, link, mailed, proof, crossed, raced>>
  BY DEF SpendCode
<1>2. /\ c \in OtpIds /\ otp[c].state # "none" /\ call[r].who = 0
      /\ call[r].email \in Inboxes
  BY <1>1, CodeOfCall
<1>3. newOtp \in Otp /\ newOtp.state = "used" /\ newOtp.email = otp[c].email
  <2>1. otp[c] \in Otp
    BY <1>2, OtpTypes
  <2> HIDE DEF c
  <2>2. otp[c].accepted + 1 \in Nat
    BY <2>1 DEF Otp
  <2> QED  BY <2>1, <2>2 DEF Otp
<1>4. RestStays /\ raced' \subseteq Inboxes /\ crossed' \subseteq People
  BY <1>1, Stays DEF IdentityFits, IdentityTypeOK
<1>5. otp' = [otp EXCEPT ![c] = newOtp]
  BY <1>2 DEF SpendCode, IdentityFits, IdentityTypeOK
<1> HIDE DEF newOtp, c
<1>6. OtpStays
  BY <1>2, <1>3, <1>5, OtpRow
<1>7. CASE call[r].op = "verify" /\ Go(r, "find")
  <2>1. call'[r].op = "verify" /\ call'[r].step = "find" /\ call'[r].who = 0
        /\ call'[r].email = call[r].email
    BY <1>2, <1>7, GoMoves DEF IdentityFits
  <2>2. CallFits(call[r])'
    BY <1>2, <2>1 DEF CallFits
  <2> QED  BY <1>1, <1>4, <1>6, <1>7, <2>2, GoFits
<1>8. CASE Answer(r)
  BY <1>4, <1>6, <1>8, AnswerFits
<1> QED
  BY <1>7, <1>8 DEF SpendCode

LEMMA FoundMoves ==
    ASSUME IdentityTypeOK, NEW r \in Calls, NEW p \in People,
           call' = [call EXCEPT ![r].step = "save", ![r].who = p]
    PROVE  /\ call' \in [Calls -> Call] /\ \A o \in Calls \ {r} : call'[o] = call[o]
           /\ call'[r].op = call[r].op /\ call'[r].step = "save" /\ call'[r].who = p
           /\ call'[r].email = call[r].email
BY ZenonT(60) DEF IdentityTypeOK, Call

LEMMA FindAccountFits ==
    ASSUME IdentityFits, NEW r \in Calls, FindAccount(r) PROVE IdentityFits'
<1>0. IdentityTypeOK
  BY DEF IdentityFits
<1>1. /\ call[r].op = "verify" /\ call[r].step = "find" /\ call[r].email \in Inboxes
      /\ UNCHANGED <<account, otp, link, mailed, proof, raced>>
  BY CallRows DEF FindAccount, IdentityFits, CallFits
<1>2. OtpStays /\ RestStays /\ raced' \subseteq Inboxes
  BY <1>0, <1>1, Stays DEF IdentityTypeOK
<1>3. PICK p \in Holder(call[r].email) :
          IF account[p].state = "active" /\ ~account[p].verified
          THEN /\ call' = [call EXCEPT ![r].step = "save", ![r].who = p]
               /\ Cross(r, p, "verify")
          ELSE Answer(r) /\ UNCHANGED crossed
  BY DEF FindAccount
<1>4. p \in People
  BY DEF Holder
<1>5. CASE account[p].state = "active" /\ ~account[p].verified
  <2>0. call' = [call EXCEPT ![r].step = "save", ![r].who = p]
    BY <1>3, <1>5
  <2>1. /\ call' \in [Calls -> Call] /\ \A o \in Calls \ {r} : call'[o] = call[o]
        /\ call'[r].op = "verify" /\ call'[r].step = "save" /\ call'[r].who = p
        /\ call'[r].email = call[r].email
    BY <1>0, <1>1, <1>4, <2>0, FoundMoves
  <2>2. CallFits(call[r])'
    BY <1>1, <1>4, <2>1 DEF CallFits
  <2>3. \A q \in People : call'[r].who = q => account'[q].state # "absent"
    BY <1>1, <1>5, <2>1
  <2>4. crossed' \subseteq People
    BY <1>3, <1>4, <1>5, CrossTypes
  <2> QED  BY <1>2, <2>1, <2>2, <2>3, <2>4, StepFits
<1>6. CASE ~(account[p].state = "active" /\ ~account[p].verified)
  BY <1>0, <1>2, <1>3, <1>6, AnswerFits DEF IdentityTypeOK
<1> QED
  BY <1>5, <1>6

LEMMA CreateAccountFits ==
    ASSUME IdentityFits, NEW r \in Calls, NEW p \in People, CreateAccount(r, p)
    PROVE  IdentityFits'
<1> DEFINE e == call[r].email
<1>0. IdentityTypeOK
  BY DEF IdentityFits
<1>1. e \in Inboxes /\ Answer(r) /\ UNCHANGED <<otp, link, mailed, crossed, raced>>
  BY CallRows DEF CreateAccount, IdentityFits, CallFits
<1>2. /\ account' = [account EXCEPT ![p] = [email |-> e, verified |-> TRUE, state |-> "active"]]
      /\ proof' = [proof EXCEPT ![p] = @ \cup {e}]
  BY DEF CreateAccount
<1> HIDE DEF e
<1>3. [email |-> e, verified |-> TRUE, state |-> "active"] \in Account
  BY <1>1 DEF Account
<1>4. /\ account' \in [People -> Account] /\ account'[p].state = "active"
      /\ \A q \in People \ {p} : account'[q] = account[q]
  BY <1>0, <1>2, <1>3 DEF IdentityTypeOK
<1>5. proof' \in [People -> SUBSET Inboxes]
  BY <1>0, <1>1, <1>2 DEF IdentityTypeOK
<1>6. RestStays
  BY <1>0, <1>1, <1>4, <1>5 DEF RestStays, IdentityFits, IdentityTypeOK, MailIsAddressed
<1> QED
  BY <1>0, <1>1, <1>6, Stays, AnswerFits DEF IdentityTypeOK

\* The account and the address of a request that works on an account.
LEMMA CallOfAccount ==
    ASSUME IdentityFits, NEW r \in Calls,
           \/ call[r].op \in {"verify", "confirm"} /\ call[r].step = "save"
           \/ call[r].op = "confirm" \/ call[r].op = "relink"
    PROVE  /\ call[r].who \in People /\ account[call[r].who].state # "absent"
           /\ call[r].op # "confirm" \/ call[r].step = "save" => call[r].email \in Inboxes
BY CallRows DEF IdentityFits, CallFits

LEMMA SaveVerifiedFits ==
    ASSUME IdentityFits, NEW r \in Calls, SaveVerified(r) PROVE IdentityFits'
<1> DEFINE p == call[r].who
<1>0. IdentityTypeOK
  BY DEF IdentityFits
<1>1. /\ p \in People /\ account[p].state # "absent" /\ call[r].email \in Inboxes
      /\ Answer(r) /\ UNCHANGED <<otp, link, mailed, crossed, raced>>
  BY CallOfAccount DEF SaveVerified
<1>2. /\ account' = [account EXCEPT ![p].verified = TRUE]
      /\ proof' = [proof EXCEPT ![p] = @ \cup {call[r].email}]
  BY DEF SaveVerified
<1> HIDE DEF p
<1>3. /\ account' \in [People -> Account]
      /\ \A q \in People : account'[q].state = account[q].state
  BY <1>0, <1>1, <1>2 DEF IdentityTypeOK, Account
<1>4. proof' \in [People -> SUBSET Inboxes]
  BY <1>0, <1>1, <1>2 DEF IdentityTypeOK
<1>5. RestStays
  BY <1>0, <1>1, <1>3, <1>4 DEF RestStays, IdentityFits, IdentityTypeOK, MailIsAddressed
<1> QED
  BY <1>0, <1>1, <1>5, Stays, AnswerFits DEF IdentityTypeOK

\* A request that arrives with an account to work on.
LEMMA ArrivalFits ==
    ASSUME IdentityFits, NEW r \in Calls, NEW p \in People, NEW q \in Call, Arrives(r, q),
           q.who = p, account[p].state = "active",
           \/ q.op = "relink" /\ q.step = "save" /\ q.email \in Inboxes
           \/ q.op = "confirm" /\ q.step = "match" /\ q.email = "none",
           crossed' \subseteq People, UNCHANGED <<account, otp, link, mailed, proof, raced>>
    PROVE  IdentityFits'
<1>0. IdentityTypeOK
  BY DEF IdentityFits
<1>1. /\ call' \in [Calls -> Call] /\ call'[r] = q
      /\ \A o \in Calls \ {r} : call'[o] = call[o]
  BY <1>0, ArrivalMoves
<1>2. CallFits(call[r])'
  BY <1>1 DEF CallFits
<1>3. \A x \in People : call'[r].who = x => account'[x].state # "absent"
  BY <1>1
<1>4. OtpStays /\ RestStays /\ raced' \subseteq Inboxes
  BY <1>0, Stays DEF IdentityTypeOK
<1> QED
  BY <1>1, <1>2, <1>3, <1>4, StepFits

LEMMA AskLinkFits ==
    ASSUME IdentityFits, NEW r \in Calls, NEW p \in People, NEW e \in Inboxes, AskLink(r, p, e)
    PROVE  IdentityFits'
<1> DEFINE q == [New EXCEPT !.op = "relink", !.step = "save", !.who = p, !.email = e]
<1>1. q \in Call /\ q.op = "relink" /\ q.step = "save" /\ q.who = p /\ q.email = e
  BY DEF New, Call
<1>2. /\ Arrives(r, q) /\ Cross(r, p, "relink") /\ account[p].state = "active"
      /\ UNCHANGED <<account, otp, link, mailed, proof, raced>>
  BY DEF AskLink
<1> HIDE DEF q
<1> QED
  BY <1>1, <1>2, ArrivalFits, CrossTypes

LEMMA FollowLinkFits ==
    ASSUME IdentityFits, NEW r \in Calls, NEW p \in People, FollowLink(r, p)
    PROVE  IdentityFits'
<1> DEFINE q == [New EXCEPT !.op = "confirm", !.step = "match", !.who = p]
<1>1. q \in Call /\ q.op = "confirm" /\ q.step = "match" /\ q.who = p /\ q.email = "none"
  BY DEF New, Call
<1>2. /\ Arrives(r, q) /\ Cross(r, p, "confirm") /\ account[p].state = "active"
      /\ UNCHANGED <<account, otp, link, mailed, proof, raced>>
  BY DEF FollowLink
<1> HIDE DEF q
<1> QED
  BY <1>1, <1>2, ArrivalFits, CrossTypes

LEMMA SaveAddressFits ==
    ASSUME IdentityFits, NEW r \in Calls, SaveAddress(r) PROVE IdentityFits'
<1> DEFINE p == call[r].who
           e == call[r].email
<1>0. IdentityTypeOK
  BY DEF IdentityFits
<1>1. /\ call[r].op = "relink" /\ p \in People /\ account[p].state # "absent" /\ e \in Inboxes
      /\ UNCHANGED <<otp, link, mailed, proof, crossed, raced>>
  BY CallOfAccount DEF SaveAddress
<1>2. CASE account' = [account EXCEPT ![p].email = e] /\ Go(r, "cache")
  <2>1. /\ account' \in [People -> Account]
        /\ \A q \in People : account'[q].state = account[q].state
    BY <1>0, <1>1, <1>2 DEF IdentityTypeOK, Account
  <2>2. RestStays
    BY <1>0, <1>1, <2>1 DEF RestStays, IdentityFits, IdentityTypeOK, MailIsAddressed
  <2>3. /\ call'[r].op = "relink" /\ call'[r].step = "cache" /\ call'[r].who = p
        /\ call'[r].email = e
    BY <1>0, <1>1, <1>2, GoMoves
  <2>4. CallFits(call[r])'
    BY <1>1, <2>3 DEF CallFits
  <2> QED  BY <1>1, <1>2, <2>2, <2>4, Stays, GoFits
<1>3. CASE UNCHANGED account /\ Answer(r)
  BY <1>0, <1>1, <1>3, Stays, AnswerFits DEF IdentityTypeOK
<1> QED
  BY <1>2, <1>3 DEF SaveAddress

LEMMA CacheTokenFits ==
    ASSUME IdentityFits, NEW r \in Calls, CacheToken(r) PROVE IdentityFits'
<1> DEFINE p == call[r].who
           e == call[r].email
<1>0. IdentityTypeOK
  BY DEF IdentityFits
<1>1. /\ call[r].op = "relink" /\ p \in People /\ account[p].state # "absent" /\ e \in Inboxes
      /\ Go(r, "send") /\ UNCHANGED <<account, otp, mailed, proof, crossed, raced>>
  BY CallOfAccount DEF CacheToken
<1>2. link' = [link EXCEPT ![p] = [by |-> r, to |-> e]]
  BY DEF CacheToken
<1>3. [by |-> r, to |-> e] \in Token
  BY <1>1 DEF Token
<1>4. link' \in [People -> Token] /\ \A q \in People \ {p} : link'[q] = link[q]
  BY <1>0, <1>1, <1>2, <1>3 DEF IdentityTypeOK
<1>5. RestStays
  BY <1>0, <1>1, <1>4 DEF RestStays, IdentityFits, IdentityTypeOK, MailIsAddressed
<1>6. /\ call'[r].op = "relink" /\ call'[r].step = "send" /\ call'[r].who = p
      /\ call'[r].email = e
  BY <1>0, <1>1, GoMoves
<1>7. CallFits(call[r])'
  BY <1>1, <1>6 DEF CallFits
<1> QED
  BY <1>1, <1>5, <1>7, Stays, GoFits

LEMMA SendLinkFits ==
    ASSUME IdentityFits, NEW r \in Calls, SendLink(r) PROVE IdentityFits'
<1> DEFINE token == [by |-> r, to |-> call[r].email]
<1>0. IdentityTypeOK
  BY DEF IdentityFits
<1>1. call[r].email \in Inboxes /\ Answer(r) /\ UNCHANGED <<account, otp, link, proof, crossed, raced>>
  BY CallOfAccount DEF SendLink
<1>2. token \in Token /\ token.to \in Inboxes
  BY <1>1 DEF Token
<1>3. mailed' \subseteq Token /\ MailIsAddressed'
  BY <1>2 DEF SendLink, IdentityFits, IdentityTypeOK, MailIsAddressed
<1>4. RestStays
  BY <1>0, <1>1, <1>3 DEF RestStays, IdentityFits, IdentityTypeOK, MailIsAddressed
<1> QED
  BY <1>0, <1>1, <1>4, Stays, AnswerFits DEF IdentityTypeOK

LEMMA MatchTokenFits ==
    ASSUME IdentityFits, NEW r \in Calls, MatchToken(r) PROVE IdentityFits'
<1> DEFINE token == link[call[r].who]
<1>0. IdentityTypeOK
  BY DEF IdentityFits
<1>1. /\ call[r].op = "confirm" /\ call[r].who \in People /\ account[call[r].who].state # "absent"
      /\ UNCHANGED <<account, otp, link, mailed, proof, crossed, raced>>
  BY CallOfAccount DEF MatchToken
<1>2. CASE token \in mailed
  <2>1. call' = [call EXCEPT ![r].step = "save", ![r].email = token.to]
    BY <1>2 DEF MatchToken
  <2>2. token.to \in Inboxes
    BY <1>2 DEF IdentityFits, MailIsAddressed
  <2>3. /\ call' \in [Calls -> Call] /\ \A o \in Calls \ {r} : call'[o] = call[o]
        /\ call'[r].op = "confirm" /\ call'[r].step = "save" /\ call'[r].who = call[r].who
        /\ call'[r].email = token.to
    BY ZenonT(60), <1>0, <1>1, <2>1, <2>2 DEF IdentityTypeOK, Call
  <2>4. CallFits(call[r])' /\ \A x \in People : call'[r].who = x => account'[x].state # "absent"
    BY <1>1, <2>2, <2>3 DEF CallFits
  <2> QED  BY <1>0, <1>1, <2>3, <2>4, Stays, StepFits DEF IdentityTypeOK
<1>3. CASE token \notin mailed
  BY <1>0, <1>1, <1>3, Stays, AnswerFits DEF MatchToken, IdentityTypeOK
<1> QED
  BY <1>2, <1>3

\* Every step keeps types and shapes.
LEMMA IdentityStaysFit == IdentityFits /\ [IdentityNext]_identityVars => IdentityFits'
<1> SUFFICES ASSUME IdentityFits, [IdentityNext]_identityVars PROVE IdentityFits'
  OBVIOUS
<1>1. CASE UNCHANGED identityVars
  BY <1>1 DEF identityVars, IdentityFits, IdentityTypeOK, CallFits, OtpsFit, MailIsAddressed
<1>2. ASSUME NEW p \in People,
             \/ SetStatus(p) \/ DeleteAccount(p) \/ AdminDeleteUser(p) \/ LinkExpires(p)
             \/ \E e \in Inboxes : Register(p, e)
      PROVE  IdentityFits'
  BY <1>2, StatusFits, LinkExpiryFits, RegisterFits
<1>3. ASSUME NEW r \in Calls,
             \/ \E e \in Inboxes : AskCode(r, e)
             \/ CreateCode(r) \/ SendCode(r) \/ DropCode(r) \/ CutOff(r)
             \/ \E c \in OtpIds, op \in {"verify", "reset"} : PresentCode(r, c, op)
      PROVE  IdentityFits'
  BY <1>3, AskCodeFits, CreateCodeFits, SendCodeFits, DropCodeFits, CutOffFits, PresentCodeFits
<1>4. ASSUME NEW r \in Calls,
             \/ SpendCode(r) \/ FindAccount(r) \/ SaveVerified(r)
             \/ SaveAddress(r) \/ CacheToken(r) \/ SendLink(r) \/ MatchToken(r)
      PROVE  IdentityFits'
  BY <1>4, SpendCodeFits, FindAccountFits, SaveVerifiedFits, SaveAddressFits, CacheTokenFits,
     SendLinkFits, MatchTokenFits
<1>5. ASSUME NEW r \in Calls, NEW p \in People,
             \/ CreateAccount(r, p) \/ FollowLink(r, p)
             \/ \E e \in Inboxes : AskLink(r, p, e)
      PROVE  IdentityFits'
  BY <1>5, CreateAccountFits, FollowLinkFits, AskLinkFits
<1> QED
  BY <1>1, <1>2, <1>3, <1>4, <1>5, ExpiryFits DEF IdentityNext

-------------------------------------------------------------------------------
\* Verified accounts.

\* The account, its proofs and its link stay, and the request that moves works on no
\* account or on another, and did not owe the account a link.
LEMMA OthersMove ==
    ASSUME NEW p \in People, Undisturbed(p), NEW r \in Calls,
           \A o \in Calls \ {r} : call'[o] = call[o],
           call'[r].who # p, ~(Linking(r, p) /\ call[r].step = "cache"),
           account'[p].email = account[p].email, account'[p].verified = account[p].verified,
           proof'[p] = proof[p], link'[p] = link[p]
    PROVE  Undisturbed(p)'
<1>1. \A o \in Calls : call'[o].who = p => o # r /\ call'[o] = call[o]
  OBVIOUS
<1>2. \A o \in Calls : Linking(o, p)' => o # r /\ Linking(o, p) /\ call'[o] = call[o]
  BY <1>1 DEF Linking
<1>3. (account[p].verified => account[p].email \in proof[p])'
  BY DEF Undisturbed
<1>4. \A x, o \in Calls : Linking(x, p)' /\ call'[o].who = p => x = o
  BY <1>1, <1>2 DEF Undisturbed
<1>5. \A x \in Calls : Linking(x, p)' =>
          /\ ~account'[p].verified
          /\ call'[x].step # "save" => account'[p].email = call'[x].email
  BY <1>2 DEF Undisturbed
<1>6. \A x \in Calls : call'[x].who = p /\ call'[x].op # "relink" /\ call'[x].step = "save"
          => call'[x].email = account'[p].email
  BY <1>1 DEF Undisturbed
<1>7. \A x \in Calls : Linking(x, p) /\ call[x].step = "cache" =>
          Linking(x, p)' /\ call'[x].step = "cache"
  BY DEF Linking
<1>8. \/ link'[p] = NoToken \/ link'[p].to = account'[p].email
      \/ \E x \in Calls : Linking(x, p)' /\ call'[x].step = "cache"
  BY <1>7 DEF Undisturbed
<1> QED
  BY <1>3, <1>4, <1>5, <1>6, <1>8 DEF Undisturbed

LEMMA NobodyMoves ==
    ASSUME NEW p \in People, Undisturbed(p), UNCHANGED call,
           account'[p].email = account[p].email, account'[p].verified = account[p].verified,
           proof'[p] = proof[p], link'[p] \in {link[p], NoToken}
    PROVE  Undisturbed(p)'
BY DEF Undisturbed, Linking

\* An account that did not exist has no request and no link.
LEMMA FreshAccount ==
    ASSUME IdentityFits, NEW p \in People, NextId(p)
    PROVE  link[p] = NoToken /\ \A o \in Calls : call[o].who # p
BY DEF IdentityFits, NextId, NoAccount

LEMMA AccountRows ==
    ASSUME IdentityFits, NEW p \in People
    PROVE  /\ account[p] \in Account /\ call \in [Calls -> Call]
           /\ \A s \in {"active", "suspended", "deleted"} :
                  /\ [account[p] EXCEPT !.state = s].email = account[p].email
                  /\ [account[p] EXCEPT !.state = s].verified = account[p].verified
BY DEF IdentityFits, IdentityTypeOK, Account

LEMMA RegisterUndisturbed ==
    ASSUME IdentityFits, NEW q \in People, NEW e \in Inboxes, Register(q, e),
           NEW p \in People, Undisturbed(p)
    PROVE  Undisturbed(p)'
<1>1. account' = [account EXCEPT ![q] = [email |-> e, verified |-> FALSE, state |-> "active"]]
      /\ NextId(q) /\ UNCHANGED <<otp, link, mailed, call, proof, crossed, raced>>
  BY DEF Register
<1>2. account \in [People -> Account]
  BY DEF IdentityFits, IdentityTypeOK
<1>3. CASE p = q
  <2>1. ~account'[p].verified
    BY <1>1, <1>2, <1>3
  <2> QED  BY <1>1, <1>3, <2>1, FreshAccount DEF Undisturbed, Linking
<1>4. CASE p # q
  <2>1. account'[p] = account[p]
    BY <1>1, <1>2, <1>4
  <2> QED  BY <1>1, <2>1, NobodyMoves
<1> QED
  BY <1>3, <1>4

LEMMA StatusUndisturbed ==
    ASSUME IdentityFits, NEW q \in People,
           SetStatus(q) \/ DeleteAccount(q) \/ AdminDeleteUser(q) \/ LinkExpires(q),
           NEW p \in People, Undisturbed(p)
    PROVE  Undisturbed(p)'
<1>1. account \in [People -> Account] /\ link \in [People -> Token]
  BY DEF IdentityFits, IdentityTypeOK
<1>2. UNCHANGED <<call, proof>>
  BY DEF SetStatus, DeleteAccount, AdminDeleteUser, LinkExpires
<1>3. link'[p] \in {link[p], NoToken}
  BY <1>1 DEF SetStatus, DeleteAccount, AdminDeleteUser, LinkExpires
<1>4. account'[p].email = account[p].email /\ account'[p].verified = account[p].verified
  BY <1>1, AccountRows DEF SetStatus, DeleteAccount, AdminDeleteUser, LinkExpires
<1> QED
  BY <1>2, <1>3, <1>4, NobodyMoves

\* Requests about codes work on no account.
LEMMA CodesUndisturbed ==
    ASSUME IdentityFits, NEW r \in Calls,
           \/ \E e \in Inboxes : AskCode(r, e)
           \/ CreateCode(r) \/ SendCode(r) \/ DropCode(r) \/ SpendCode(r)
           \/ \E c \in OtpIds, op \in {"verify", "reset"} : PresentCode(r, c, op),
           NEW p \in People, Undisturbed(p)
    PROVE  Undisturbed(p)'
<1>1. UNCHANGED <<account, link, proof>>
  BY DEF AskCode, CreateCode, SendCode, DropCode, SpendCode, PresentCode
<1>2. IdentityTypeOK /\ call \in [Calls -> Call] /\ call[r] \in Call
  BY DEF IdentityFits, IdentityTypeOK
<1>3. call[r] = New \/ (call[r].who = 0 /\ call[r].op \in CodeOps)
  BY CallRows DEF IdentityFits, CallFits, CodeOps, Arrives, AskCode, CreateCode, SendCode, DropCode,
     SpendCode, PresentCode
<1>4. call[r].op # "relink"
  BY <1>3, CallRows DEF CodeOps
<1>5. \A o \in Calls \ {r} : call'[o] = call[o]
  BY <1>2 DEF AskCode, CreateCode, SendCode, DropCode, SpendCode, PresentCode, Arrives, Go, Answer
<1>6. call'[r].who = 0
  <2>1. ASSUME NEW e \in Inboxes, AskCode(r, e) PROVE call'[r].who = 0
    BY <1>2, <2>1 DEF AskCode, Arrives, New
  <2>2. ASSUME NEW c \in OtpIds, NEW op \in {"verify", "reset"}, PresentCode(r, c, op)
        PROVE  call'[r].who = 0
    BY <1>2, <2>2 DEF PresentCode, Arrives, New
  <2>3. CASE CreateCode(r)
    <3>1. call[r].who = 0
      BY <1>3, CallRows
    <3>2. PICK c \in OtpIds : call' = [call EXCEPT ![r].step = "send", ![r].code = c]
      BY <2>3 DEF CreateCode
    <3> QED  BY <1>2, <3>1, <3>2 DEF Call
  <2>4. CASE Answer(r)
    BY <1>2, <2>4, AnswerMoves, CallRows
  <2>5. ASSUME NEW s \in {"fail", "find"}, Go(r, s) PROVE call'[r].who = 0
    BY <1>2, <1>3, <2>5, GoMoves, CallRows
  <2> QED  BY <2>1, <2>2, <2>3, <2>4, <2>5 DEF SendCode, DropCode, SpendCode
<1> QED
  BY <1>1, <1>4, <1>5, <1>6, IdentityAssumption, OthersMove DEF Linking

LEMMA CutOffUndisturbed ==
    ASSUME IdentityFits, NEW r \in Calls, CutOff(r), NEW p \in People \ crossed', Undisturbed(p)
    PROVE  Undisturbed(p)'
<1>1. /\ call'[r] = Done /\ \A o \in Calls \ {r} : call'[o] = call[o]
      /\ UNCHANGED <<account, link, proof>>
  BY AnswerMoves DEF CutOff, IdentityFits
<1>2. ~Linking(r, p)
  BY DEF CutOff, Linking
<1>3. call'[r].who # p
  BY <1>1, CallRows, IdentityAssumption
<1> QED
  BY <1>1, <1>2, <1>3, OthersMove

LEMMA FindUndisturbed ==
    ASSUME IdentityFits, NEW r \in Calls, FindAccount(r), NEW p \in People \ crossed',
           Undisturbed(p)
    PROVE  Undisturbed(p)'
<1>0. IdentityTypeOK
  BY DEF IdentityFits
<1>1. /\ call[r].op = "verify" /\ call[r].step = "find" /\ call[r].email \in Inboxes
      /\ call[r].who = 0 /\ UNCHANGED <<account, otp, link, mailed, proof, raced>>
  BY CallRows DEF FindAccount, IdentityFits, CallFits
<1>2. PICK q \in Holder(call[r].email) :
          IF account[q].state = "active" /\ ~account[q].verified
          THEN /\ call' = [call EXCEPT ![r].step = "save", ![r].who = q]
               /\ Cross(r, q, "verify")
          ELSE Answer(r) /\ UNCHANGED crossed
  BY DEF FindAccount
<1>3. q \in People /\ account[q].email = call[r].email
  BY DEF Holder
<1>4. CASE account[q].state = "active" /\ ~account[q].verified
  <2>0. call' = [call EXCEPT ![r].step = "save", ![r].who = q] /\ Cross(r, q, "verify")
    BY <1>2, <1>4
  <2>1. /\ call' \in [Calls -> Call] /\ \A o \in Calls \ {r} : call'[o] = call[o]
        /\ call'[r].op = "verify" /\ call'[r].step = "save" /\ call'[r].who = q
        /\ call'[r].email = call[r].email
    BY <1>0, <1>1, <1>3, <2>0, FoundMoves
  <2>2. CASE p # q
    BY <1>1, <2>1, <2>2, OthersMove DEF Linking
  <2>3. CASE p = q
    <3>1. \A o \in Calls : ~Linking(o, p)
      BY <1>1, <2>0, <2>3 DEF Cross, Linking
    <3>2. \A o \in Calls : ~Linking(o, p)'
      BY <2>1, <3>1 DEF Linking
    <3>3. \A x \in Calls : call'[x].who = p /\ call'[x].op # "relink" /\ call'[x].step = "save"
              => call'[x].email = account'[p].email
      BY <1>1, <1>3, <2>1, <2>3 DEF Undisturbed
    <3>4. link'[p] = NoToken \/ link'[p].to = account'[p].email
      BY <1>1, <3>1 DEF Undisturbed
    <3> QED  BY <1>1, <3>2, <3>3, <3>4 DEF Undisturbed
  <2> QED  BY <2>2, <2>3
<1>5. CASE ~(account[q].state = "active" /\ ~account[q].verified)
  <2>1. call'[r] = Done /\ \A o \in Calls \ {r} : call'[o] = call[o]
    BY <1>0, <1>2, <1>5, AnswerMoves
  <2>2. call'[r].who # p
    BY <2>1, CallRows, IdentityAssumption
  <2> QED  BY <1>1, <2>1, <2>2, OthersMove DEF Linking
<1> QED
  BY <1>4, <1>5

LEMMA CreateUndisturbed ==
    ASSUME IdentityFits, NEW r \in Calls, NEW q \in People, CreateAccount(r, q),
           NEW p \in People, Undisturbed(p)
    PROVE  Undisturbed(p)'
<1>0. IdentityTypeOK
  BY DEF IdentityFits
<1>1. /\ call'[r] = Done /\ \A o \in Calls \ {r} : call'[o] = call[o]
      /\ NextId(q) /\ UNCHANGED <<otp, link, mailed, crossed, raced>>
  BY <1>0, AnswerMoves DEF CreateAccount
<1>2. call[r].op # "relink" /\ call'[r].who # p
  BY <1>1, CallRows, IdentityAssumption DEF CreateAccount
<1>3. CASE p # q
  <2>1. account'[p] = account[p] /\ proof'[p] = proof[p]
    BY <1>0, <1>3 DEF CreateAccount, IdentityTypeOK
  <2> QED  BY <1>1, <1>2, <2>1, OthersMove DEF Linking
<1>4. CASE p = q
  <2>1. account'[p].email \in proof'[p]
    BY <1>0, <1>4 DEF CreateAccount, IdentityTypeOK
  <2>2. link'[p] = NoToken /\ \A o \in Calls : call'[o].who # p
    BY <1>1, <1>2, <1>4, FreshAccount
  <2> QED  BY <2>1, <2>2 DEF Undisturbed, Linking
<1> QED
  BY <1>3, <1>4

LEMMA VerifyUndisturbed ==
    ASSUME IdentityFits, NEW r \in Calls, SaveVerified(r), NEW p \in People, Undisturbed(p)
    PROVE  Undisturbed(p)'
<1> DEFINE q == call[r].who
<1>0. IdentityTypeOK
  BY DEF IdentityFits
<1>1. /\ q \in People /\ call[r].op # "relink" /\ call[r].step = "save"
      /\ call'[r] = Done /\ \A o \in Calls \ {r} : call'[o] = call[o]
      /\ UNCHANGED <<otp, link, mailed, crossed, raced>>
  BY <1>0, CallOfAccount, AnswerMoves DEF SaveVerified
<1>2. /\ account' = [account EXCEPT ![q].verified = TRUE]
      /\ proof' = [proof EXCEPT ![q] = @ \cup {call[r].email}]
  BY DEF SaveVerified
<1>3. call'[r].who # p
  BY <1>1, CallRows, IdentityAssumption
<1>4. CASE p # q
  <2>1. account'[p] = account[p] /\ proof'[p] = proof[p]
    BY <1>0, <1>1, <1>2, <1>4 DEF IdentityTypeOK
  <2> QED  BY <1>1, <1>3, <2>1, OthersMove DEF Linking
<1>5. CASE p = q
  <2>1. account'[p].email = account[p].email /\ proof'[p] = proof[p] \cup {call[r].email}
    BY <1>0, <1>1, <1>2, <1>5, AccountRows DEF IdentityTypeOK, Account
  <2>2. account[p].email = call[r].email
    BY <1>1, <1>5 DEF Undisturbed
  <2>3. \A o \in Calls : ~Linking(o, p)
    BY <1>1, <1>5 DEF Undisturbed, Linking
  <2>4. \A o \in Calls : ~Linking(o, p)'
    BY <1>1, <1>3, <2>3 DEF Linking
  <2>5. \A x \in Calls : call'[x].who = p /\ call'[x].op # "relink" /\ call'[x].step = "save"
            => call'[x].email = account'[p].email
    BY <1>1, <1>3, <2>1 DEF Undisturbed
  <2>6. link'[p] = NoToken \/ link'[p].to = account'[p].email
    BY <1>1, <2>1, <2>3 DEF Undisturbed
  <2> QED  BY <2>1, <2>2, <2>4, <2>5, <2>6 DEF Undisturbed
<1> QED
  BY <1>4, <1>5

LEMMA ArrivalUndisturbed ==
    ASSUME IdentityFits, NEW r \in Calls, NEW q \in People,
           (\E e \in Inboxes : AskLink(r, q, e)) \/ FollowLink(r, q),
           NEW p \in People \ crossed', Undisturbed(p)
    PROVE  Undisturbed(p)'
<1>0. IdentityTypeOK /\ call \in [Calls -> Call]
  BY DEF IdentityFits, IdentityTypeOK
<1>1. /\ call[r] = New /\ \A o \in Calls \ {r} : call'[o] = call[o]
      /\ UNCHANGED <<account, otp, link, mailed, proof, raced>>
      /\ ~account[q].verified
  BY <1>0 DEF AskLink, FollowLink, Arrives
<1>2. PICK op \in {"relink", "confirm"} :
          /\ Cross(r, q, op) /\ call'[r].op = op /\ call'[r].who = q
          /\ call'[r].step = IF op = "relink" THEN "save" ELSE "match"
  <2>1. ASSUME NEW e \in Inboxes, AskLink(r, q, e)
        PROVE  /\ Cross(r, q, "relink") /\ call'[r].op = "relink" /\ call'[r].who = q
               /\ call'[r].step = "save"
    BY <1>0, <2>1 DEF AskLink, Arrives, New
  <2>2. CASE FollowLink(r, q)
    <3>1. /\ Cross(r, q, "confirm") /\ call'[r].op = "confirm" /\ call'[r].who = q
          /\ call'[r].step = "match"
      BY <1>0, <2>2 DEF FollowLink, Arrives, New
    <3> QED  BY <3>1
  <2> QED  BY <2>1, <2>2
<1>3. call[r].op # "relink" /\ call[r].who = 0
  BY <1>1, CallRows
<1>4. CASE p # q
  BY <1>1, <1>2, <1>3, <1>4, OthersMove DEF Linking
<1>5. CASE p = q
  <2>1. \A o \in Calls \ {r} : call[o].who = p => op # "relink" /\ call[o].op # "relink"
    BY <1>2, <1>5 DEF Cross
  <2>2. \A x, o \in Calls : Linking(x, p)' /\ call'[o].who = p => x = o
    BY <1>1, <1>2, <2>1 DEF Linking
  <2>3. \A x \in Calls : Linking(x, p)' => x = r /\ call'[x].step = "save"
    BY <1>1, <1>2, <2>1 DEF Linking
  <2>4. \A x \in Calls : call'[x].who = p /\ call'[x].op # "relink" /\ call'[x].step = "save"
            => call'[x].email = account'[p].email
    BY <1>1, <1>2 DEF Undisturbed
  <2>5. \A o \in Calls : ~(Linking(o, p) /\ call[o].step = "cache") \/ (o # r /\ Linking(o, p)'
                                                                    /\ call'[o].step = "cache")
    BY <1>1, <1>3 DEF Linking
  <2>6. \/ link'[p] = NoToken \/ link'[p].to = account'[p].email
        \/ \E x \in Calls : Linking(x, p)' /\ call'[x].step = "cache"
    BY <1>1, <2>5 DEF Undisturbed
  <2> QED  BY <1>1, <1>5, <2>2, <2>3, <2>4, <2>6 DEF Undisturbed
<1> QED
  BY <1>4, <1>5

LEMMA AddressUndisturbed ==
    ASSUME IdentityFits, NEW r \in Calls, SaveAddress(r), NEW p \in People, Undisturbed(p)
    PROVE  Undisturbed(p)'
<1> DEFINE q == call[r].who
           e == call[r].email
<1>0. IdentityTypeOK
  BY DEF IdentityFits
<1>1. /\ call[r].op = "relink" /\ call[r].step = "save" /\ q \in People
      /\ UNCHANGED <<otp, link, mailed, proof, crossed, raced>>
  BY CallOfAccount DEF SaveAddress
<1>2. CASE account' = [account EXCEPT ![q].email = e] /\ Go(r, "cache")
  <2>1. /\ call'[r].op = "relink" /\ call'[r].step = "cache" /\ call'[r].who = q
        /\ call'[r].email = e /\ \A o \in Calls \ {r} : call'[o] = call[o]
    BY <1>0, <1>1, <1>2, GoMoves
  <2>2. CASE p # q
    <3>1. account'[p] = account[p]
      BY <1>0, <1>1, <1>2, <2>2 DEF IdentityTypeOK
    <3> QED  BY <1>1, <2>1, <2>2, <3>1, OthersMove DEF Linking
  <2>3. CASE p = q
    <3>1. account'[p].email = e /\ account'[p].verified = account[p].verified
      BY <1>0, <1>1, <1>2, <2>3, AccountRows DEF IdentityTypeOK, Account
    <3>2. Linking(r, p) /\ Linking(r, p)'
      BY <1>1, <2>1, <2>3 DEF Linking
    <3>3. \A o \in Calls : call[o].who = p => o = r
      BY <3>2 DEF Undisturbed
    <3>4. \A o \in Calls : call'[o].who = p => o = r
      BY <2>1, <3>3
    <3>5. ~account'[p].verified
      BY <3>1, <3>2 DEF Undisturbed
    <3> QED  BY <2>1, <3>1, <3>2, <3>4, <3>5 DEF Undisturbed, Linking
  <2> QED  BY <2>2, <2>3
<1>3. CASE UNCHANGED account /\ Answer(r)
  <2>1. call'[r] = Done /\ \A o \in Calls \ {r} : call'[o] = call[o]
    BY <1>0, <1>3, AnswerMoves
  <2>2. call'[r].who # p
    BY <2>1, CallRows, IdentityAssumption
  <2> QED  BY <1>1, <1>3, <2>1, <2>2, OthersMove DEF Linking
<1> QED
  BY <1>2, <1>3 DEF SaveAddress

LEMMA TokenUndisturbed ==
    ASSUME IdentityFits, NEW r \in Calls, CacheToken(r), NEW p \in People, Undisturbed(p)
    PROVE  Undisturbed(p)'
<1> DEFINE q == call[r].who
           e == call[r].email
<1>0. IdentityTypeOK
  BY DEF IdentityFits
<1>1. /\ call[r].op = "relink" /\ call[r].step = "cache" /\ q \in People
      /\ Go(r, "send") /\ UNCHANGED <<account, otp, mailed, proof, crossed, raced>>
  BY CallOfAccount DEF CacheToken
<1>2. link' = [link EXCEPT ![q] = [by |-> r, to |-> e]]
  BY DEF CacheToken
<1>3. /\ call'[r].op = "relink" /\ call'[r].step = "send" /\ call'[r].who = q
      /\ call'[r].email = e /\ \A o \in Calls \ {r} : call'[o] = call[o]
  BY <1>0, <1>1, GoMoves
<1> HIDE DEF q, e
<1>4. CASE p # q
  <2>1. link'[p] = link[p]
    BY <1>0, <1>1, <1>2, <1>4 DEF IdentityTypeOK
  <2> QED  BY <1>1, <1>3, <1>4, <2>1, OthersMove DEF Linking, q
<1>5. CASE p = q
  <2>1. link'[p].to = e
    BY <1>0, <1>1, <1>2, <1>5 DEF IdentityTypeOK
  <2>2. Linking(r, p)
    BY <1>1, <1>5 DEF Linking, q
  <2>3. ~account[p].verified /\ account[p].email = e
    BY <1>1, <2>2 DEF Undisturbed, e
  <2>4. \A o \in Calls : call'[o].who = p => o = r
    BY <1>3, <2>2 DEF Undisturbed
  <2> QED  BY <1>1, <1>3, <2>1, <2>3, <2>4 DEF Undisturbed, Linking
<1> QED
  BY <1>4, <1>5

LEMMA MailUndisturbed ==
    ASSUME IdentityFits, NEW r \in Calls, SendLink(r), NEW p \in People, Undisturbed(p)
    PROVE  Undisturbed(p)'
<1>1. /\ call'[r] = Done /\ \A o \in Calls \ {r} : call'[o] = call[o]
      /\ call[r].step = "send" /\ UNCHANGED <<account, otp, link, proof, crossed, raced>>
  BY AnswerMoves DEF SendLink, IdentityFits
<1>2. call'[r].who # p
  BY <1>1, CallRows, IdentityAssumption
<1> QED
  BY <1>1, <1>2, OthersMove

LEMMA MatchUndisturbed ==
    ASSUME IdentityFits, NEW r \in Calls, MatchToken(r), NEW p \in People, Undisturbed(p)
    PROVE  Undisturbed(p)'
<1> DEFINE token == link[call[r].who]
<1>0. IdentityTypeOK
  BY DEF IdentityFits
<1>1. /\ call[r].op = "confirm" /\ call[r].who \in People
      /\ UNCHANGED <<account, otp, link, mailed, proof, crossed, raced>>
  BY CallOfAccount DEF MatchToken
<1>2. CASE token \in mailed
  <2>1. call' = [call EXCEPT ![r].step = "save", ![r].email = token.to]
    BY <1>2 DEF MatchToken
  <2>2. token.to \in Inboxes
    BY <1>2 DEF IdentityFits, MailIsAddressed
  <2>3. /\ \A o \in Calls \ {r} : call'[o] = call[o]
        /\ call'[r].op = "confirm" /\ call'[r].step = "save" /\ call'[r].who = call[r].who
        /\ call'[r].email = token.to
    BY <1>0, <1>1, <2>1, <2>2 DEF IdentityTypeOK, Call
  <2>4. CASE p # call[r].who
    BY <1>1, <2>3, <2>4, OthersMove DEF Linking
  <2>5. CASE p = call[r].who
    <3>1. \A o \in Calls : ~Linking(o, p)
      BY <1>1, <2>5 DEF Undisturbed, Linking
    <3>2. \A o \in Calls : ~Linking(o, p)'
      BY <2>3, <3>1 DEF Linking
    <3>3. token # NoToken
      BY <2>2, IdentityAssumption DEF NoToken
    <3>4. token.to = account[p].email
      BY <2>5, <3>1, <3>3 DEF Undisturbed
    <3>5. \A x \in Calls : call'[x].who = p /\ call'[x].op # "relink" /\ call'[x].step = "save"
              => call'[x].email = account'[p].email
      BY <1>1, <2>3, <3>4 DEF Undisturbed
    <3> QED  BY <1>1, <2>5, <3>2, <3>4, <3>5 DEF Undisturbed
  <2> QED  BY <2>4, <2>5
<1>3. CASE token \notin mailed
  <2>1. call'[r] = Done /\ \A o \in Calls \ {r} : call'[o] = call[o]
    BY <1>0, <1>3, AnswerMoves DEF MatchToken
  <2>2. call'[r].who # p
    BY <2>1, CallRows, IdentityAssumption
  <2> QED  BY <1>1, <2>1, <2>2, OthersMove DEF Linking
<1> QED
  BY <1>2, <1>3

LEMMA CrossedGrows ==
    ASSUME IdentityFits, [IdentityNext]_identityVars PROVE crossed \subseteq crossed'
<1>1. \A r \in Calls, p \in People, op \in STRING : Cross(r, p, op) => crossed \subseteq crossed'
  BY DEF Cross
<1>2. ASSUME NEW r \in Calls, FindAccount(r) PROVE crossed \subseteq crossed'
  BY <1>2 DEF FindAccount, Cross
<1> QED
  BY ZenonT(60), <1>1, <1>2
     DEF IdentityNext, identityVars, Register, SetStatus, DeleteAccount, AdminDeleteUser,
     CutOff, AskCode, CreateCode, SendCode, DropCode, ExpireCode, PresentCode, SpendCode,
     CreateAccount, SaveVerified, AskLink, SaveAddress, CacheToken, SendLink, LinkExpires,
     FollowLink, MatchToken, Cross

\* Every step keeps what holds of an account nobody disturbed.
LEMMA StaysUndisturbed ==
    ASSUME IdentityFits, [IdentityNext]_identityVars, NEW p \in People \ crossed', Undisturbed(p)
    PROVE  Undisturbed(p)'
<1>1. CASE UNCHANGED identityVars
  BY <1>1 DEF identityVars, Undisturbed, Linking
<1>2. ASSUME NEW q \in People,
             \/ SetStatus(q) \/ DeleteAccount(q) \/ AdminDeleteUser(q) \/ LinkExpires(q)
             \/ \E e \in Inboxes : Register(q, e)
      PROVE  Undisturbed(p)'
  BY <1>2, StatusUndisturbed, RegisterUndisturbed
<1>3. ASSUME NEW c \in OtpIds, ExpireCode(c) PROVE Undisturbed(p)'
  BY <1>3, NobodyMoves DEF ExpireCode
<1>4. ASSUME NEW r \in Calls,
             \/ \E e \in Inboxes : AskCode(r, e)
             \/ CreateCode(r) \/ SendCode(r) \/ DropCode(r) \/ CutOff(r) \/ SpendCode(r)
             \/ \E c \in OtpIds, op \in {"verify", "reset"} : PresentCode(r, c, op)
      PROVE  Undisturbed(p)'
  BY <1>4, CodesUndisturbed, CutOffUndisturbed
<1>5. ASSUME NEW r \in Calls,
             \/ FindAccount(r) \/ SaveVerified(r)
             \/ SaveAddress(r) \/ CacheToken(r) \/ SendLink(r) \/ MatchToken(r)
      PROVE  Undisturbed(p)'
  BY <1>5, FindUndisturbed, VerifyUndisturbed, AddressUndisturbed, TokenUndisturbed,
     MailUndisturbed, MatchUndisturbed
<1>6. ASSUME NEW r \in Calls, NEW q \in People,
             \/ CreateAccount(r, q) \/ FollowLink(r, q)
             \/ \E e \in Inboxes : AskLink(r, q, e)
      PROVE  Undisturbed(p)'
  BY <1>6, CreateUndisturbed, ArrivalUndisturbed
<1> QED
  BY <1>1, <1>2, <1>3, <1>4, <1>5, <1>6 DEF IdentityNext

-------------------------------------------------------------------------------
\* Codes.

\* No code comes up, and none but those that cannot be used any more change.
CodesStay ==
    \A c \in OtpIds :
        /\ otp'[c].email = otp[c].email /\ otp'[c].accepted = otp[c].accepted
        /\ otp'[c].state # "none" => otp[c].state # "none"
        /\ otp'[c].state = "live" => otp[c].state = "live"

\* Requests begin nothing about the codes of an inbox.
LEMMA QuietCodes ==
    ASSUME IdentityFits, NEW e \in Inboxes, Unraced(e), CodesStay,
           \A o \in Calls : AboutCodes(o, e)' =>
               /\ AboutCodes(o, e)
               /\ call'[o].step \in {"create", "spend"} => call'[o] = call[o]
    PROVE  Unraced(e)'
<1>1. \A r, o \in Calls : AboutCodes(r, e)' /\ AboutCodes(o, e)' => r = o
  BY DEF Unraced
<1>2. \A c \in OtpIds : otp'[c].state # "none" /\ otp'[c].email = e =>
          /\ otp'[c].accepted <= 1
          /\ otp'[c].state = "live" =>
                 /\ otp'[c].accepted = 0
                 /\ \A d \in OtpIds : d > c => otp'[d].email # e
  BY DEF Unraced, CodesStay
<1>3. ASSUME NEW r \in Calls, AboutCodes(r, e)', call'[r].step = "create"
      PROVE  \A c \in OtpIds : otp'[c].email = e => otp'[c].state # "live"
  BY <1>3 DEF Unraced, CodesStay
<1>4. ASSUME NEW r \in Calls, AboutCodes(r, e)', call'[r].step = "spend"
      PROVE  otp'[call'[r].code].accepted = 0
  <2>1. AboutCodes(r, e) /\ call'[r] = call[r] /\ call[r].step = "spend"
    BY <1>4
  <2>2. call[r].op \in {"verify", "reset"}
    BY <2>1, CallRows DEF IdentityFits, CallFits, AboutCodes, CodeOps
  <2>3. call[r].code \in OtpIds
    BY <2>1, <2>2, CodeOfCall
  <2> QED  BY <2>1, <2>3 DEF Unraced, CodesStay
<1> QED
  BY <1>1, <1>2, <1>3, <1>4 DEF Unraced

LEMMA RaceExcludes ==
    ASSUME NEW r \in Calls, NEW e, Race(r, e), e \notin raced'
    PROVE  \A o \in Calls \ {r} : ~AboutCodes(o, e)
BY DEF Race, AboutCodes

LEMMA AskCodeUnraced ==
    ASSUME IdentityFits, NEW r \in Calls, NEW f \in Inboxes, AskCode(r, f),
           NEW e \in Inboxes \ raced', Unraced(e)
    PROVE  Unraced(e)'
<1>0. IdentityTypeOK
  BY DEF IdentityFits
<1>1. /\ call'[r].op = "request" /\ call'[r].step = "create" /\ call'[r].email = f
      /\ \A o \in Calls \ {r} : call'[o] = call[o]
  BY <1>0 DEF AskCode, Arrives, IdentityTypeOK, New
<1>2. \A c \in OtpIds : /\ otp[c].email = f => otp'[c] = [otp[c] EXCEPT !.state = "used"]
                        /\ otp[c].email # f => otp'[c] = otp[c]
  BY DEF AskCode
<1>3. \A c \in OtpIds : otp[c].email = f => otp[c].state # "none"
  BY EmptyOtp, IdentityAssumption DEF IdentityFits, OtpsFit
<1>4. CodesStay /\ \A c \in OtpIds : otp[c].email = f => otp'[c].state = "used"
  BY ZenonT(60), <1>2, <1>3, OtpTypes DEF CodesStay, Otp
<1>5. CASE f # e
  BY <1>1, <1>4, <1>5, QuietCodes DEF AboutCodes
<1>6. CASE f = e
  <2>1. \A o \in Calls \ {r} : ~AboutCodes(o, e)
    BY <1>6, RaceExcludes DEF AskCode
  <2>2. \A o \in Calls : AboutCodes(o, e)' => o = r
    BY <1>1, <2>1 DEF AboutCodes
  <2>3. \A c \in OtpIds : otp'[c].email = e => otp'[c].state = "used" /\ otp'[c].accepted <= 1
    BY <1>3, <1>4, <1>6 DEF CodesStay, Unraced
  <2> QED  BY <1>1, <2>2, <2>3 DEF Unraced
<1> QED
  BY <1>5, <1>6

LEMMA PresentCodeUnraced ==
    ASSUME IdentityFits, NEW r \in Calls, NEW c \in OtpIds, NEW op \in {"verify", "reset"},
           PresentCode(r, c, op), NEW e \in Inboxes \ raced', Unraced(e)
    PROVE  Unraced(e)'
<1> DEFINE f == otp[c].email
<1>0. IdentityTypeOK
  BY DEF IdentityFits
<1>1. /\ call'[r].op = op /\ call'[r].step = "spend" /\ call'[r].email = f /\ call'[r].code = c
      /\ \A o \in Calls \ {r} : call'[o] = call[o]
  BY <1>0 DEF PresentCode, Arrives, IdentityTypeOK, New
<1>2. UNCHANGED otp /\ Race(r, f) /\ otp[c].state = "live"
  BY DEF PresentCode
<1>3. CodesStay
  BY <1>2 DEF CodesStay
<1> HIDE DEF f
<1>4. CASE f # e
  BY <1>1, <1>3, <1>4, QuietCodes DEF AboutCodes
<1>5. CASE f = e
  <2>1. \A o \in Calls \ {r} : ~AboutCodes(o, e)
    BY <1>2, <1>5, RaceExcludes
  <2>2. \A o \in Calls : AboutCodes(o, e)' => o = r
    BY <1>1, <2>1 DEF AboutCodes
  <2>3. otp[c].accepted = 0
    BY <1>2, <1>5 DEF Unraced, f
  <2> QED  BY <1>1, <1>2, <2>2, <2>3 DEF Unraced
<1> QED
  BY <1>4, <1>5

LEMMA CreateCodeUnraced ==
    ASSUME IdentityFits, NEW r \in Calls, CreateCode(r), NEW e \in Inboxes, Unraced(e)
    PROVE  Unraced(e)'
<1>0. IdentityTypeOK
  BY DEF IdentityFits
<1>1. PICK c \in OtpIds :
          /\ otp[c] = NoOtp /\ \A d \in OtpIds : d < c => otp[d] # NoOtp
          /\ otp' = [otp EXCEPT ![c].email = call[r].email, ![c].state = "live"]
          /\ call' = [call EXCEPT ![r].step = "send", ![r].code = c]
  BY DEF CreateCode
<1>2. call[r].op = "request" /\ call[r].step = "create"
  BY DEF CreateCode
<1>3. /\ call'[r].op = "request" /\ call'[r].step = "send" /\ call'[r].email = call[r].email
      /\ \A o \in Calls \ {r} : call'[o] = call[o]
  BY <1>0, <1>1, <1>2 DEF IdentityTypeOK, Call
<1>4. /\ otp'[c].email = call[r].email /\ otp'[c].state = "live" /\ otp'[c].accepted = 0
      /\ \A d \in OtpIds \ {c} : otp'[d] = otp[d]
  BY <1>0, <1>1, EmptyOtp DEF IdentityTypeOK, Otp
<1>5. otp[c].state = "none" /\ otp[c].email = "none" /\ e # "none"
  BY <1>1, EmptyOtp, IdentityAssumption
<1>6. \A d \in OtpIds : c < d => otp[d].state = "none"
  BY <1>5 DEF IdentityFits, OtpsFit
<1>7. \A d \in OtpIds : c < d => otp[d].email # e
  BY <1>5, <1>6, EmptyOtp DEF IdentityFits, OtpsFit
<1>8. \A o \in Calls : /\ AboutCodes(o, e)' <=> AboutCodes(o, e)
                       /\ call'[o].step \in {"create", "spend"} => o # r
  BY <1>2, <1>3 DEF AboutCodes
<1>9. \A x, o \in Calls : AboutCodes(x, e)' /\ AboutCodes(o, e)' => x = o
  BY <1>8 DEF Unraced
<1>10. ASSUME NEW x \in Calls, AboutCodes(x, e)', call'[x].step = "spend"
       PROVE  otp'[call'[x].code].accepted = 0
  <2>1. AboutCodes(x, e) /\ call'[x] = call[x] /\ call[x].step = "spend"
    BY <1>3, <1>8, <1>10
  <2>2. call[x].op \in {"verify", "reset"}
    BY <2>1, CallRows DEF IdentityFits, CallFits, AboutCodes, CodeOps
  <2>3. call[x].code \in OtpIds
    BY <2>1, <2>2, CodeOfCall
  <2> QED  BY <1>4, <2>1, <2>3 DEF Unraced
<1>11. CASE call[r].email # e
  <2>1. \A d \in OtpIds : otp'[d].email = e => otp[d] = otp'[d]
    BY <1>4, <1>11
  <2>2. \A d \in OtpIds : otp[d].email # e => otp'[d].email # e
    BY <1>4, <1>11
  <2>3. \A x \in OtpIds : otp'[x].state # "none" /\ otp'[x].email = e =>
            /\ otp'[x].accepted <= 1
            /\ otp'[x].state = "live" =>
                   /\ otp'[x].accepted = 0
                   /\ \A d \in OtpIds : d > x => otp'[d].email # e
    BY <2>1, <2>2 DEF Unraced
  <2>4. ASSUME NEW x \in Calls, AboutCodes(x, e)', call'[x].step = "create"
        PROVE  \A d \in OtpIds : otp'[d].email = e => otp'[d].state # "live"
    BY <1>3, <1>8, <2>1, <2>4 DEF Unraced
  <2> QED  BY <1>9, <1>10, <2>3, <2>4 DEF Unraced
<1>12. CASE call[r].email = e
  <2>1. AboutCodes(r, e)
    BY <1>2, <1>12 DEF AboutCodes, CodeOps
  <2>2. \A d \in OtpIds : otp[d].email = e => otp[d].state # "live"
    BY <1>2, <2>1 DEF Unraced
  <2>3. \A x \in OtpIds : otp'[x].state # "none" /\ otp'[x].email = e =>
            /\ otp'[x].accepted <= 1
            /\ otp'[x].state = "live" => x = c
    BY <1>4, <2>2 DEF Unraced
  <2>4. \A d \in OtpIds : d > c => otp'[d].email # e
    BY <1>4, <1>7 DEF OtpIds
  <2>5. \A x \in Calls : ~(AboutCodes(x, e)' /\ call'[x].step = "create")
    BY <1>3, <1>8, <2>1 DEF Unraced
  <2> QED  BY <1>4, <1>9, <1>10, <2>3, <2>4, <2>5 DEF Unraced
<1> QED
  BY <1>11, <1>12

LEMMA SpendCodeUnraced ==
    ASSUME IdentityFits, NEW r \in Calls, SpendCode(r), NEW e \in Inboxes, Unraced(e)
    PROVE  Unraced(e)'
<1> DEFINE c == call[r].code
<1>0. IdentityTypeOK
  BY DEF IdentityFits
<1>1. /\ call[r].op \in {"verify", "reset"} /\ call[r].step = "spend"
      /\ c \in OtpIds /\ otp[c].email = call[r].email /\ otp[c].state # "none"
  BY CodeOfCall DEF SpendCode
<1>2. /\ otp'[c].email = otp[c].email /\ otp'[c].state = "used"
      /\ otp'[c].accepted = otp[c].accepted + 1
      /\ \A d \in OtpIds \ {c} : otp'[d] = otp[d]
  BY <1>0, <1>1 DEF SpendCode, IdentityTypeOK, Otp
<1>3. /\ \A o \in Calls \ {r} : call'[o] = call[o]
      /\ call'[r].step \notin {"create", "spend"}
      /\ \/ call'[r].op = call[r].op /\ call'[r].email = call[r].email
         \/ call'[r].op = "done"
  BY <1>0, <1>1, CallRows, GoMoves, AnswerMoves DEF SpendCode
<1> HIDE DEF c
<1>4. \A o \in Calls : AboutCodes(o, e)' =>
          /\ AboutCodes(o, e)
          /\ call'[o].step \in {"create", "spend"} => o # r /\ call'[o] = call[o]
  BY <1>3 DEF AboutCodes, CodeOps
<1>5. AboutCodes(r, call[r].email)
  BY <1>1 DEF AboutCodes, CodeOps
<1>6. call[r].email = e => otp[c].accepted = 0
  BY <1>1, <1>5 DEF Unraced, c
<1>7. \A x, o \in Calls : AboutCodes(x, e)' /\ AboutCodes(o, e)' => x = o
  BY <1>4 DEF Unraced
<1>8. \A d \in OtpIds : otp'[d].email = otp[d].email
  BY <1>2
<1>9. \A x \in OtpIds : otp'[x].state # "none" /\ otp'[x].email = e =>
          /\ otp'[x].accepted <= 1
          /\ otp'[x].state = "live" =>
                 /\ otp'[x].accepted = 0
                 /\ \A d \in OtpIds : d > x => otp'[d].email # e
  BY <1>1, <1>2, <1>6, <1>8 DEF Unraced
<1>10. ASSUME NEW x \in Calls, AboutCodes(x, e)', call'[x].step = "create"
       PROVE  \A d \in OtpIds : otp'[d].email = e => otp'[d].state # "live"
  BY <1>2, <1>4, <1>8, <1>10 DEF Unraced
<1>11. ASSUME NEW x \in Calls, AboutCodes(x, e)', call'[x].step = "spend"
       PROVE  otp'[call'[x].code].accepted = 0
  <2>1. AboutCodes(x, e) /\ x # r /\ call'[x] = call[x] /\ call[x].step = "spend"
    BY <1>4, <1>11
  <2>2. call[r].email # e
    BY <1>5, <2>1 DEF Unraced
  <2>3. call[x].op \in {"verify", "reset"}
    BY <2>1, CallRows DEF IdentityFits, CallFits, AboutCodes, CodeOps
  <2>4. call[x].code \in OtpIds /\ otp[call[x].code].email = e
    BY <2>1, <2>3, CodeOfCall DEF AboutCodes
  <2>5. call[x].code # c
    BY <1>1, <2>2, <2>4
  <2> QED  BY <1>2, <2>1, <2>4, <2>5 DEF Unraced
<1> QED
  BY <1>7, <1>9, <1>10, <1>11 DEF Unraced

\* Steps that change no code, or only one that is sent, dropped or expires.
LEMMA OtherUnraced ==
    ASSUME IdentityFits, NEW r \in Calls,
           \/ SendCode(r) \/ DropCode(r) \/ CutOff(r) \/ FindAccount(r) \/ SaveVerified(r)
           \/ SaveAddress(r) \/ CacheToken(r) \/ SendLink(r) \/ MatchToken(r)
           \/ \E p \in People : \/ CreateAccount(r, p) \/ FollowLink(r, p)
                                \/ \E e \in Inboxes : AskLink(r, p, e),
           NEW e \in Inboxes, Unraced(e)
    PROVE  Unraced(e)'
<1>0. IdentityTypeOK /\ call \in [Calls -> Call] /\ otp \in [OtpIds -> Otp]
  BY DEF IdentityFits, IdentityTypeOK
<1>1. CodesStay
  <2>1. CASE UNCHANGED otp
    BY <2>1 DEF CodesStay
  <2>2. CASE SendCode(r) /\ otp' # otp
    <3>1. call[r].code \in OtpIds /\ otp' = [otp EXCEPT ![call[r].code].delivered = TRUE]
      BY <2>2, CodeOfCall DEF SendCode
    <3> QED  BY <1>0, <3>1 DEF CodesStay, Otp
  <2>3. CASE DropCode(r)
    <3>1. /\ call[r].code \in OtpIds /\ otp[call[r].code].state # "none"
          /\ otp' = [otp EXCEPT ![call[r].code].state = "used"]
      BY <2>3, CodeOfCall DEF DropCode
    <3> QED  BY <1>0, <3>1 DEF CodesStay, Otp
  <2> QED  BY <2>1, <2>2, <2>3 DEF CutOff, FindAccount, SaveVerified, SaveAddress, CacheToken,
              SendLink, MatchToken, CreateAccount, FollowLink, AskLink
<1>2. /\ \A o \in Calls \ {r} : call'[o] = call[o]
      /\ call'[r].step \notin {"create", "spend"}
      /\ \/ call'[r].op \notin CodeOps
         \/ call'[r].op = call[r].op /\ call'[r].email = call[r].email
  <2>1. CASE Answer(r)
    BY <1>0, <2>1, AnswerMoves, CallRows DEF CodeOps
  <2>2. ASSUME NEW s \in {"fail", "cache", "send"}, Go(r, s)
        PROVE  <1>2!1 /\ <1>2!2 /\ <1>2!3
    BY <1>0, <2>2, GoMoves
  <2>3. CASE FindAccount(r)
    <3>1. PICK q \in Holder(call[r].email) :
              \/ call' = [call EXCEPT ![r].step = "save", ![r].who = q]
              \/ Answer(r)
      BY <2>3 DEF FindAccount
    <3>2. q \in People
      BY DEF Holder
    <3> QED  BY <1>0, <2>1, <3>1, <3>2, FoundMoves
  <2>4. CASE MatchToken(r)
    <3>1. call[r].op = "confirm" /\ call[r].op \notin CodeOps
      BY <2>4 DEF MatchToken, CodeOps
    <3>2. \/ Answer(r)
          \/ call' = [call EXCEPT ![r].step = "save", ![r].email = link[call[r].who].to]
      BY <2>4 DEF MatchToken
    <3>3. ASSUME NEW m, call' = [call EXCEPT ![r].step = "save", ![r].email = m]
          PROVE  /\ \A o \in Calls \ {r} : call'[o] = call[o]
                 /\ call'[r].step = "save" /\ call'[r].op = call[r].op
      BY <1>0, <3>3 DEF Call
    <3> QED  BY <2>1, <3>1, <3>2, <3>3
  <2>5. ASSUME NEW p \in People, FollowLink(r, p)
        PROVE  <1>2!1 /\ <1>2!2 /\ <1>2!3
    BY <1>0, <2>5 DEF FollowLink, Arrives, New, CodeOps
  <2>6. ASSUME NEW p \in People, NEW f \in Inboxes, AskLink(r, p, f)
        PROVE  <1>2!1 /\ <1>2!2 /\ <1>2!3
    BY <1>0, <2>6 DEF AskLink, Arrives, New, CodeOps
  <2> QED
    BY <2>1, <2>2, <2>3, <2>4, <2>5, <2>6 DEF SendCode, DropCode, CutOff, SaveVerified,
       SaveAddress, CacheToken, SendLink, CreateAccount
<1>3. \A o \in Calls : AboutCodes(o, e)' =>
          /\ AboutCodes(o, e)
          /\ call'[o].step \in {"create", "spend"} => call'[o] = call[o]
  BY <1>2 DEF AboutCodes
<1> QED
  BY <1>1, <1>3, QuietCodes

LEMMA RacedGrows ==
    ASSUME IdentityFits, [IdentityNext]_identityVars PROVE raced \subseteq raced'
BY ZenonT(60) DEF IdentityNext, identityVars, Register, SetStatus, DeleteAccount, AdminDeleteUser,
   CutOff, AskCode, CreateCode, SendCode, DropCode, ExpireCode, PresentCode, SpendCode,
   CreateAccount, SaveVerified, AskLink, SaveAddress, CacheToken, SendLink, LinkExpires,
   FollowLink, MatchToken, FindAccount, Race

\* Every step keeps what holds of an inbox whose requests do not overlap.
LEMMA StaysUnraced ==
    ASSUME IdentityFits, [IdentityNext]_identityVars, NEW e \in Inboxes \ raced', Unraced(e)
    PROVE  Unraced(e)'
<1>0. otp \in [OtpIds -> Otp]
  BY DEF IdentityFits, IdentityTypeOK
<1>1. CASE UNCHANGED call /\ CodesStay
  BY <1>1, QuietCodes DEF AboutCodes
<1>2. UNCHANGED otp => CodesStay
  BY DEF CodesStay
<1>3. ASSUME NEW p \in People,
             \/ SetStatus(p) \/ DeleteAccount(p) \/ AdminDeleteUser(p) \/ LinkExpires(p)
             \/ \E f \in Inboxes : Register(p, f)
      PROVE  UNCHANGED call /\ CodesStay
  BY <1>2, <1>3 DEF SetStatus, DeleteAccount, AdminDeleteUser, LinkExpires, Register
<1>4. ASSUME NEW c \in OtpIds, ExpireCode(c) PROVE UNCHANGED call /\ CodesStay
  BY <1>0, <1>4 DEF ExpireCode, CodesStay, Otp
<1>5. UNCHANGED identityVars => UNCHANGED call /\ CodesStay
  BY <1>2 DEF identityVars
<1>6. ASSUME NEW r \in Calls,
             \/ \E f \in Inboxes : AskCode(r, f)
             \/ CreateCode(r) \/ SpendCode(r)
             \/ \E c \in OtpIds, op \in {"verify", "reset"} : PresentCode(r, c, op)
      PROVE  Unraced(e)'
  BY <1>6, AskCodeUnraced, CreateCodeUnraced, SpendCodeUnraced, PresentCodeUnraced
<1>7. ASSUME NEW r \in Calls,
             \/ SendCode(r) \/ DropCode(r) \/ CutOff(r) \/ FindAccount(r) \/ SaveVerified(r)
             \/ SaveAddress(r) \/ CacheToken(r) \/ SendLink(r) \/ MatchToken(r)
             \/ \E p \in People : \/ CreateAccount(r, p) \/ FollowLink(r, p)
                                  \/ \E f \in Inboxes : AskLink(r, p, f)
      PROVE  Unraced(e)'
  BY <1>7, OtherUnraced
<1> QED
  BY <1>1, <1>3, <1>4, <1>5, <1>6, <1>7 DEF IdentityNext

LEMMA IdentityStays == IdentityInv /\ [IdentityNext]_identityVars => IdentityInv'
<1> SUFFICES ASSUME IdentityInv, [IdentityNext]_identityVars PROVE IdentityInv'
  OBVIOUS
<1>1. IdentityFits /\ IdentityFits'
  BY IdentityStaysFit DEF IdentityInv
<1>2. crossed \subseteq crossed' /\ raced \subseteq raced'
  BY <1>1, CrossedGrows, RacedGrows
<1>3. \A p \in People \ crossed' : Undisturbed(p)'
  BY <1>1, <1>2, StaysUndisturbed DEF IdentityInv
<1>4. \A e \in Inboxes \ raced' : Unraced(e)'
  BY <1>1, <1>2, StaysUnraced DEF IdentityInv
<1> QED
  BY <1>1, <1>3, <1>4 DEF IdentityInv

LEMMA IdentityAlways == IdentitySpec => []IdentityInv
BY IdentityBegins, IdentityStays, PTL DEF IdentitySpec

\* For any number of accounts, addresses, requests and codes: an account is verified only
\* under an address whose mail was read to verify it, unless a change of the address crossed
\* another request (EmailVerifyRequestView, EmailVerifyConfirmView, OTPVerifyView).
THEOREM VerifiedIsAlwaysProven == IdentitySpec => []VerifiedIsProven
<1>1. IdentityInv => VerifiedIsProven
  BY DEF IdentityInv, IdentityFits, VerifiedIsProven, Undisturbed
<1> QED
  BY <1>1, IdentityAlways, PTL

\* For any number of them: an inbox has one live code, the last that was made, and a code
\* lets nobody in twice, unless requests about the inbox overlapped (OTPRequestView,
\* PasswordResetRequestView, verify_otp_and_get_instance).
THEOREM OneCodeAlways == IdentitySpec => []OneCodePerInbox
<1>1. IdentityInv => OneCodePerInbox
  <2> SUFFICES ASSUME IdentityInv, NEW c \in OtpIds, otp[c].state # "none",
                      otp[c].email \notin raced
               PROVE  /\ otp[c].accepted <= 1
                      /\ otp[c].state = "live" =>
                             /\ otp[c].accepted = 0
                             /\ \A d \in OtpIds : d > c => otp[d].email # otp[c].email
    BY DEF OneCodePerInbox
  <2>1. otp[c].email \in Inboxes
    BY EmptyOtp DEF IdentityInv, IdentityFits, OtpsFit
  <2> QED  BY <2>1 DEF IdentityInv, Unraced
<1> QED
  BY <1>1, IdentityAlways, PTL

-------------------------------------------------------------------------------
\* What a user may do (Access).

\* No role of the user expires before a list of them does, or the list lasts a second at most.
EntryLasts(m) ==
    m \notin superuser =>
        \A r \in ActiveRoles(m) : entry[m].left <= held[<<m, r>>].left \/ entry[m].left <= Second
FillLasts(d) ==
    LET m == fill[d].of IN
    m \notin superuser =>
        \A r \in ActiveRoles(m) : fill[d].left <= held[<<m, r>>].left \/ fill[d].left <= Second

\* A list that nobody is about to clear agrees with the rows.
EntryFits(m) ==
    entry[m].stored /\ ~ToBeCleared(m) => Agrees(m) /\ EntryLasts(m)

\* What a reader has read is what it would read now.
FillFits(d) ==
    /\ fill[d].roles = ActiveRoles(fill[d].of)
    /\ fill[d].step # "roles" => fill[d].list = Effective(fill[d].of)
    /\ fill[d].step = "timed" => FillLasts(d)

Settled(m) == EntryFits(m) /\ \A d \in Readers : fill[d].of = m => FillFits(d)
FillsHaveUsers == \A d \in Readers : fill[d].step = "idle" <=> fill[d].of = "nobody"

AccessInv ==
    /\ AccessTypeOK
    /\ FillsHaveUsers
    /\ \A m \in Members \ unsettled : Settled(m)

LEMMA AccessRows ==
    /\ NoHolding \in Holding /\ NoHolding.row = "none" /\ NoHolding.left = 0
    /\ NoEntry \in Entry /\ ~NoEntry.stored /\ NoEntry.left = 0
    /\ NoFill \in Fill /\ NoFill.step = "idle" /\ NoFill.of = "nobody"
    /\ \A life \in Lives \cup {Never} : [row |-> "active", left |-> life] \in Holding
    /\ NoChange \in ChangeRow
<1>1. 0 \in 0..Never /\ 0 \in 0..CacheTimeout /\ Lives \cup {Never} \subseteq 0..Never
  BY AccessAssumption
<1> QED
  BY <1>1 DEF NoHolding, Holding, NoEntry, Entry, NoFill, Fill, NoChange, ChangeRow

LEMMA FillUsers ==
    ASSUME AccessInv, NEW d \in Readers, fill[d].step # "idle"
    PROVE  fill[d].of \in Members
BY DEF AccessInv, AccessTypeOK, FillsHaveUsers, Fill

LEMMA AccessBegins == AccessInit => AccessInv
<1> SUFFICES ASSUME AccessInit PROVE AccessInv
  OBVIOUS
<1>1. [row |-> "active", left |-> Never] \in Holding
  BY AccessRows
<1>2. \A m \in Members : entry[m] = NoEntry
  BY DEF AccessInit
<1>3. \A d \in Readers : fill[d] = NoFill
  BY DEF AccessInit
<1>4. \A m \in Members : Settled(m)
  BY <1>2, <1>3, AccessRows, AccessAssumption DEF Settled, EntryFits
<1>5. held \in [Members \X Roles -> Holding]
  BY <1>1, AccessRows DEF AccessInit
<1>6. entry \in [Members -> Entry] /\ fill \in [Readers -> Fill]
      /\ clearing \in [Members -> Nat] /\ open \in ChangeRow /\ edits \in 0..MaxEdits
  BY AccessRows, AccessAssumption DEF AccessInit
<1>7. AccessTypeOK
  BY <1>5, <1>6 DEF AccessInit, AccessTypeOK
<1> QED
  BY <1>3, <1>4, <1>7, AccessRows DEF AccessInv, FillsHaveUsers

\* Rows that stay give what they gave.
LEMMA RowsStay ==
    ASSUME NEW m \in Members, \A r \in Roles : held'[<<m, r>>] = held[<<m, r>>]
    PROVE  /\ ActiveRoles(m)' = ActiveRoles(m)
           /\ AccessTypeOK /\ UNCHANGED <<sweeping, clearing>>
                  => (ToBeCleared(m)' <=> ToBeCleared(m))
<1>1. ActiveRoles(m)' = ActiveRoles(m)
  BY DEF ActiveRoles
<1>2. ASSUME AccessTypeOK, UNCHANGED <<sweeping, clearing>>
      PROVE  ToBeCleared(m)' <=> ToBeCleared(m)
  BY <1>2 DEF ToBeCleared, AccessTypeOK
<1> QED
  BY <1>1, <1>2

LEMMA LastingStays ==
    ASSUME NEW m \in Members, \A r \in Roles : held'[<<m, r>>] = held[<<m, r>>],
           m \in superuser' <=> m \in superuser
    PROVE  /\ entry'[m] = entry[m] /\ EntryLasts(m) => EntryLasts(m)'
           /\ \A d : fill[d].of = m /\ fill'[d] = fill[d] /\ FillLasts(d) => FillLasts(d)'
<1>1. ActiveRoles(m)' = ActiveRoles(m) /\ ActiveRoles(m) \subseteq Roles
  BY RowsStay DEF ActiveRoles
<1> QED
  BY <1>1 DEF EntryLasts, FillLasts

\* What nobody touches stays as it is, and what is touched is not being read and
\* about to be cleared.
LEMMA SettledStays ==
    ASSUME NEW m \in Members, Settled(m), m \in superuser' <=> m \in superuser, fill' = fill,
           entry'[m] = entry[m] \/ ~entry'[m].stored,
           Touched(m) => ~InFill(m) /\ (ToBeCleared(m)' \/ ~entry'[m].stored),
           ToBeCleared(m) => ToBeCleared(m)' \/ ~entry'[m].stored
    PROVE  Settled(m)'
<1>1. CASE Touched(m)
  BY <1>1 DEF Settled, EntryFits, InFill
<1>2. CASE ~Touched(m)
  <2>1. /\ \A r \in Roles : held'[<<m, r>>] = held[<<m, r>>]
        /\ Effective(m)' = Effective(m) /\ ActiveRoles(m)' = ActiveRoles(m)
    BY <1>2, RowsStay DEF Touched
  <2>2. EntryFits(m)'
    BY <2>1, LastingStays DEF Settled, EntryFits, Agrees
  <2>3. ASSUME NEW d \in Readers, fill'[d].of = m PROVE FillFits(d)'
    <3>1. FillFits(d) /\ fill'[d] = fill[d] /\ fill[d].of = m
      BY <2>3 DEF Settled
    <3>2. FillLasts(d) => FillLasts(d)'
      BY <2>1, <3>1, LastingStays
    <3> QED  BY <2>1, <3>1, <3>2 DEF FillFits
  <2> QED  BY <2>2, <2>3 DEF Settled
<1> QED
  BY <1>1, <1>2


\* Somebody reads and stores, and changes no row.
LEMMA FillKeeps ==
    ASSUME AccessInv, NEW d \in Readers, NEW q \in Fill, fill' = [fill EXCEPT ![d] = q],
           UNCHANGED <<present, held, grants, defined, superuser, sweeping, clearing, open, bulk,
                       edits, unsettled>>,
           entry' \in [Members -> Entry], q.step = "idle" <=> q.of = "nobody",
           \A m \in Members \ unsettled : /\ entry'[m] = entry[m] \/ EntryFits(m)'
                                          /\ q.of = m => FillFits(d)'
    PROVE  AccessInv'
<1>1. /\ fill' \in [Readers -> Fill] /\ fill'[d] = q
      /\ \A e \in Readers \ {d} : fill'[e] = fill[e]
  BY DEF AccessInv, AccessTypeOK
<1>2. AccessTypeOK'
  BY <1>1 DEF AccessInv, AccessTypeOK
<1>3. FillsHaveUsers'
  BY <1>1 DEF AccessInv, FillsHaveUsers
<1>4. ASSUME NEW m \in Members \ unsettled PROVE Settled(m)'
  <2>1. /\ ActiveRoles(m)' = ActiveRoles(m) /\ Effective(m)' = Effective(m)
        /\ ToBeCleared(m)' <=> ToBeCleared(m)
    BY RowsStay DEF AccessInv, Effective, GrantedBy
  <2>2. EntryFits(m)'
    BY <2>1, LastingStays DEF AccessInv, Settled, EntryFits, Agrees
  <2>3. ASSUME NEW e \in Readers, fill'[e].of = m PROVE FillFits(e)'
    <3>1. CASE e = d
      BY <1>1, <2>3, <3>1
    <3>2. CASE e # d
      <4>1. FillFits(e) /\ fill'[e] = fill[e] /\ fill[e].of = m
        BY <1>1, <2>3, <3>2 DEF AccessInv, Settled
      <4>2. FillLasts(e) => FillLasts(e)'
        BY <4>1, LastingStays
      <4> QED  BY <2>1, <4>1, <4>2 DEF FillFits
    <3> QED  BY <3>1, <3>2
  <2> QED  BY <2>2, <2>3 DEF Settled
<1> QED
  BY <1>2, <1>3, <1>4 DEF AccessInv

\* No timeout is longer than what is left, but for the second that has begun.
LEMMA WholeSecondsFit ==
    ASSUME NEW left \in Nat
    PROVE  /\ WholeSeconds(left) \in Nat
           /\ WholeSeconds(left) <= left \/ WholeSeconds(left) <= Second
<1>1. CASE left < Second
  BY <1>1, AccessAssumption DEF WholeSeconds
<1>2. CASE ~(left < Second)
  <2>1. left % Second \in 0..(Second - 1)
    BY AccessAssumption
  <2> QED  BY <1>2, <2>1, AccessAssumption DEF WholeSeconds
<1> QED
  BY <1>1, <1>2

LEMMA StoreTimeouts ==
    ASSUME AccessTypeOK, NEW m \in Members, NEW l \in StoreTimeout(m)
    PROVE  /\ l \in 0..CacheTimeout
           /\ m \notin superuser =>
                  \A r \in ActiveRoles(m) : l <= held[<<m, r>>].left \/ l <= Second
<1>1. \A r \in ActiveRoles(m) : held[<<m, r>>].left \in Nat
  BY AccessAssumption DEF AccessTypeOK, ActiveRoles, Holding
<1> DEFINE expiring == {r \in ActiveRoles(m) : m \notin superuser /\ held[<<m, r>>].left # Never}
           timeouts == {WholeSeconds(held[<<m, r>>].left) : r \in expiring} \cup {CacheTimeout}
<1>2. l \in timeouts /\ \A k \in timeouts : l <= k
  BY DEF StoreTimeout
<1>3. CacheTimeout \in timeouts /\ timeouts \subseteq Nat
  BY <1>1, WholeSecondsFit, AccessAssumption
<1>4. \A r \in ActiveRoles(m) : m \notin superuser /\ held[<<m, r>>].left # Never
          => WholeSeconds(held[<<m, r>>].left) \in timeouts
  OBVIOUS
<1> HIDE DEF timeouts
<1>5. l \in Nat /\ CacheTimeout \in Nat /\ l <= CacheTimeout
  BY <1>2, <1>3, AccessAssumption
<1>6. ASSUME m \notin superuser, NEW r \in ActiveRoles(m)
      PROVE  l <= held[<<m, r>>].left \/ l <= Second
  <2>1. CASE held[<<m, r>>].left = Never
    BY <1>5, <2>1, AccessAssumption
  <2>2. CASE held[<<m, r>>].left # Never
    <3> DEFINE left == held[<<m, r>>].left
    <3>1. left \in Nat /\ WholeSeconds(left) \in Nat /\ l <= WholeSeconds(left)
      BY <1>1, <1>2, <1>4, <1>6, <2>2, WholeSecondsFit
    <3>2. WholeSeconds(left) <= left \/ WholeSeconds(left) <= Second
      BY <3>1, WholeSecondsFit
    <3> QED  BY <1>5, <3>1, <3>2, AccessAssumption
  <2> QED  BY <2>1, <2>2
<1> QED
  BY <1>5, <1>6

\* A request for the permissions of a user.
LEMMA ReadersKeep ==
    ASSUME AccessInv, NEW d \in Readers, Filling(d)
    PROVE  AccessInv'
<1>0. /\ AccessTypeOK /\ fill[d] \in Fill /\ entry \in [Members -> Entry]
      /\ \A m \in Members \ unsettled : Settled(m)
  BY DEF AccessInv, AccessTypeOK
<1>1. ASSUME NEW m \in Members, ReadRoles(d, m) PROVE AccessInv'
  <2> DEFINE q == [NoFill EXCEPT !.of = m, !.step = "roles", !.roles = ActiveRoles(m)]
  <2>1. /\ fill' = [fill EXCEPT ![d] = q] /\ UNCHANGED <<rows, clears, entry, unsettled>>
    BY <1>1 DEF ReadRoles
  <2>2. q \in Fill /\ q.of = m /\ q.step = "roles" /\ q.roles = ActiveRoles(m)
    <3>1. NoFill \in Fill /\ ActiveRoles(m) \in SUBSET Roles
      BY AccessRows DEF ActiveRoles
    <3> QED  BY <3>1 DEF Fill
  <2>3. m # "nobody"
    BY AccessAssumption
  <2> HIDE DEF q
  <2>4. fill'[d] = q
    BY <2>1 DEF AccessInv, AccessTypeOK
  <2>5. ActiveRoles(m)' = ActiveRoles(m)
    BY <2>1 DEF ActiveRoles, rows
  <2>6. FillFits(d)'
    BY <2>2, <2>4, <2>5 DEF FillFits
  <2> QED  BY <1>0, <2>1, <2>2, <2>3, <2>6, FillKeeps DEF rows, clears
<1>2. ASSUME ReadGrants(d) PROVE AccessInv'
  <2>0. PICK m \in Members : m = fill[d].of /\ fill[d].step = "roles"
    BY <1>2, FillUsers DEF ReadGrants
  <2> DEFINE l == IF m \in superuser THEN defined ELSE GrantedBy(fill[d].roles)
             q == [fill[d] EXCEPT !.step = "read", !.list = l]
  <2>1. /\ fill' = [fill EXCEPT ![d] = q] /\ UNCHANGED <<rows, clears, entry, unsettled>>
    BY <1>2, <2>0 DEF ReadGrants
  <2>2. m # "nobody"
    BY AccessAssumption
  <2>3. l \in SUBSET Codenames
    BY <1>0 DEF AccessTypeOK, GrantedBy
  <2>4. m \notin unsettled => fill[d].roles = ActiveRoles(m) /\ l = Effective(m)
    BY <1>0, <2>0 DEF Settled, FillFits, Effective
  <2> HIDE DEF l
  <2>5. q \in Fill /\ q.of = m /\ q.step = "read" /\ q.roles = fill[d].roles /\ q.list = l
    BY <1>0, <2>0, <2>3 DEF Fill
  <2> HIDE DEF q
  <2>6. fill'[d] = q
    BY <1>0, <2>1 DEF AccessTypeOK
  <2>7. ActiveRoles(m)' = ActiveRoles(m) /\ Effective(m)' = Effective(m)
    BY <2>1 DEF ActiveRoles, Effective, GrantedBy, rows
  <2>8. m \notin unsettled => FillFits(d)'
    BY <2>4, <2>5, <2>6, <2>7 DEF FillFits
  <2> QED  BY <1>0, <2>1, <2>2, <2>5, <2>8, FillKeeps DEF rows, clears
<1>3. ASSUME ReadExpiry(d) PROVE AccessInv'
  <2>0. PICK m \in Members : m = fill[d].of
    BY <1>3, FillUsers DEF ReadExpiry
  <2>1. PICK l \in StoreTimeout(m) :
            fill' = [fill EXCEPT ![d].step = "timed", ![d].left = l]
    BY <1>3, <2>0 DEF ReadExpiry
  <2>2. UNCHANGED <<rows, clears, entry, unsettled>> /\ fill[d].step = "read"
    BY <1>3 DEF ReadExpiry
  <2> DEFINE q == [fill[d] EXCEPT !.step = "timed", !.left = l]
  <2>3. fill' = [fill EXCEPT ![d] = q]
    BY <2>1
  <2>4. m # "nobody"
    BY AccessAssumption
  <2>5. /\ l \in 0..CacheTimeout
        /\ m \notin superuser =>
               \A r \in ActiveRoles(m) : l <= held[<<m, r>>].left \/ l <= Second
    BY <1>0, StoreTimeouts
  <2>6. /\ q \in Fill /\ q.of = m /\ q.step = "timed" /\ q.roles = fill[d].roles
        /\ q.list = fill[d].list /\ q.left = l
    BY <1>0, <2>0, <2>5 DEF Fill
  <2> HIDE DEF q
  <2>7. fill'[d] = q
    BY <1>0, <2>3 DEF AccessTypeOK
  <2>8. ActiveRoles(m)' = ActiveRoles(m) /\ Effective(m)' = Effective(m)
    BY <2>2 DEF ActiveRoles, Effective, GrantedBy, rows
  <2>9. m \notin unsettled => fill[d].roles = ActiveRoles(m) /\ fill[d].list = Effective(m)
    BY <1>0, <2>0, <2>2 DEF Settled, FillFits
  <2>10. m \notin unsettled => FillFits(d)'
    BY <2>2, <2>5, <2>6, <2>7, <2>8, <2>9 DEF FillFits, FillLasts, rows
  <2> QED  BY <1>0, <2>2, <2>3, <2>4, <2>6, <2>10, FillKeeps DEF rows, clears
<1>4. ASSUME StoreList(d) PROVE AccessInv'
  <2>0. PICK m \in Members : m = fill[d].of /\ fill[d].step = "timed"
    BY <1>4, FillUsers DEF StoreList
  <2> DEFINE e == [stored |-> TRUE, list |-> fill[d].list, left |-> fill[d].left]
  <2>1. /\ fill' = [fill EXCEPT ![d] = NoFill] /\ entry' = [entry EXCEPT ![m] = e]
        /\ UNCHANGED <<rows, clears, unsettled>>
    BY <1>4, <2>0 DEF StoreList
  <2>3. e \in Entry /\ e.list = fill[d].list /\ e.left = fill[d].left
    BY <1>0 DEF Fill, Entry
  <2>4. m \notin unsettled => fill[d].list = Effective(m) /\ FillLasts(d)
    BY <1>0, <2>0 DEF Settled, FillFits
  <2> HIDE DEF e
  <2>5. /\ entry' \in [Members -> Entry] /\ entry'[m] = e
        /\ \A n \in Members \ {m} : entry'[n] = entry[n]
    BY <1>0, <2>1, <2>3
  <2>6. ActiveRoles(m)' = ActiveRoles(m) /\ Effective(m)' = Effective(m)
    BY <2>1 DEF ActiveRoles, Effective, GrantedBy, rows
  <2>7. FillLasts(d) => EntryLasts(m)'
    BY <2>0, <2>1, <2>3, <2>5, <2>6 DEF FillLasts, EntryLasts, rows
  <2>8. m \notin unsettled => EntryFits(m)'
    BY <2>3, <2>4, <2>5, <2>6, <2>7 DEF EntryFits, Agrees
  <2>9. NoFill.of \notin Members
    BY AccessRows, AccessAssumption
  <2> QED  BY ZenonT(60), <1>0, <2>1, <2>5, <2>8, <2>9, AccessRows, FillKeeps DEF rows, clears
<1> QED
  BY <1>1, <1>2, <1>3, <1>4 DEF Filling

\* Types and settled users are all a step that fills nothing has to keep.
LEMMA OthersKeep ==
    ASSUME AccessInv, AccessTypeOK', fill' = fill,
           \A m \in Members : m \notin unsettled' => Settled(m)'
    PROVE  AccessInv'
BY DEF AccessInv, FillsHaveUsers

\* A user whose entry has just been deleted and whom nobody reads.
LEMMA Emptied ==
    ASSUME NEW m \in Members, fill' = fill, ~InFill(m), ~entry'[m].stored
    PROVE  Settled(m)'
BY DEF Settled, EntryFits, InFill

\* One user's cache entry is deleted, or one role's holders are listed.
LEMMA ClearsKeep ==
    ASSUME AccessInv,
           (\E m \in Members : ClearMember(m)) \/ (\E r \in Roles : SweepRole(r))
    PROVE  AccessInv'
<1>0. AccessTypeOK /\ \A m \in Members \ unsettled : Settled(m)
  BY DEF AccessInv
<1>1. ASSUME NEW n \in Members, ClearMember(n) PROVE AccessInv'
  <2>1. /\ clearing[n] > 0 /\ clearing' = [clearing EXCEPT ![n] = @ - 1]
        /\ entry' = [entry EXCEPT ![n] = NoEntry]
        /\ unsettled' = IF InFill(n) THEN unsettled ELSE unsettled \ {n}
        /\ UNCHANGED <<rows, fill, sweeping, open, bulk, edits>>
    BY <1>1 DEF ClearMember
  <2>2. entry' \in [Members -> Entry] /\ entry'[n] = NoEntry
        /\ \A m \in Members \ {n} : entry'[m] = entry[m]
    BY <1>0, <2>1, AccessRows DEF AccessTypeOK
  <2>3. /\ clearing' \in [Members -> Nat]
        /\ \A m \in Members \ {n} : clearing'[m] = clearing[m]
    BY <1>0, <2>1 DEF AccessTypeOK
  <2>4. AccessTypeOK'
    BY <1>0, <2>1, <2>2, <2>3 DEF AccessTypeOK, rows
  <2>5. ASSUME NEW m \in Members, m \notin unsettled' PROVE Settled(m)'
    <3>1. CASE m \in unsettled
      BY <2>1, <2>2, <2>5, <3>1, AccessRows, Emptied DEF rows
    <3>2. CASE m \notin unsettled
      <4>1. ~Touched(m)
        BY <2>1 DEF Touched, Effective, GrantedBy, ActiveRoles, rows
      <4>2. m # n => (ToBeCleared(m)' <=> ToBeCleared(m))
        BY <2>1, <2>3 DEF ToBeCleared, rows
      <4> QED  BY <1>0, <2>1, <2>2, <3>2, <4>1, <4>2, AccessRows, SettledStays DEF rows
    <3> QED  BY <3>1, <3>2
  <2> QED  BY <2>1, <2>4, <2>5, OthersKeep
<1>2. ASSUME NEW r \in Roles, SweepRole(r) PROVE AccessInv'
  <2>1. /\ sweeping' = sweeping \ {r}
        /\ clearing' = [m \in Members |-> IF held[<<m, r>>].row = "active"
                                          THEN clearing[m] + 1 ELSE clearing[m]]
        /\ UNCHANGED <<rows, entry, fill, open, bulk, edits, unsettled>>
    BY <1>2 DEF SweepRole
  <2>2. /\ clearing' \in [Members -> Nat]
        /\ \A m \in Members : /\ clearing[m] > 0 => clearing'[m] > 0
                              /\ held[<<m, r>>].row = "active" => clearing'[m] > 0
    BY <1>0, <2>1 DEF AccessTypeOK
  <2>3. AccessTypeOK'
    BY <1>0, <2>1, <2>2 DEF AccessTypeOK, rows
  <2>4. ASSUME NEW m \in Members, m \notin unsettled' PROVE Settled(m)'
    <3>1. ~Touched(m)
      BY <2>1 DEF Touched, Effective, GrantedBy, ActiveRoles, rows
    <3>2. ToBeCleared(m) => ToBeCleared(m)'
      BY <2>1, <2>2 DEF ToBeCleared, rows
    <3> QED  BY <1>0, <2>1, <2>4, <3>1, <3>2, SettledStays DEF rows
  <2> QED  BY <2>1, <2>3, <2>4, OthersKeep
<1> QED
  BY <1>1, <1>2

\* A change that leaves the entries as they are: whom it touches nobody reads, and
\* somebody will clear.
LEMMA ChangeKeeps ==
    ASSUME AccessInv, AccessTypeOK', UNCHANGED <<fill, entry>>,
           \A m \in Members : m \notin unsettled' =>
               /\ m \notin unsettled /\ (m \in superuser' <=> m \in superuser)
               /\ Touched(m) => ~InFill(m) /\ ToBeCleared(m)'
               /\ ToBeCleared(m) => ToBeCleared(m)'
    PROVE  AccessInv'
<1>1. ASSUME NEW m \in Members, m \notin unsettled' PROVE Settled(m)'
  BY <1>1, SettledStays DEF AccessInv
<1> QED
  BY <1>1, OthersKeep

LEMMA Undisturbing ==
    ASSUME NEW m \in Members, Disturbed \subseteq unsettled', m \notin unsettled'
    PROVE  Touched(m) => ~InFill(m)
BY DEF Disturbed

\* A row of one user changes and the user's entry is to be cleared.
LEMMA HoldingKeeps ==
    ASSUME AccessInv, NEW n \in Members, NEW r \in Roles, NEW h \in Holding,
           held' = [held EXCEPT ![<<n, r>>] = h], ClearLater(n),
           UNCHANGED <<present, grants, defined, superuser, entry, fill, sweeping, open>>,
           bulk' \subseteq bulk, edits' \in 0..MaxEdits, unsettled' = unsettled \cup Disturbed
    PROVE  AccessInv'
<1>0. AccessTypeOK
  BY DEF AccessInv
<1>1. held' \in [Members \X Roles -> Holding]
      /\ \A m \in Members \ {n} : \A x \in Roles : held'[<<m, x>>] = held[<<m, x>>]
  BY <1>0 DEF AccessTypeOK
<1>2. /\ clearing' \in [Members -> Nat] /\ clearing'[n] > 0
      /\ \A m \in Members \ {n} : clearing'[m] = clearing[m]
  BY <1>0 DEF AccessTypeOK, ClearLater
<1>3. AccessTypeOK'
  BY <1>0, <1>1, <1>2 DEF AccessTypeOK, Disturbed
<1>4. ToBeCleared(n)'
  BY <1>2 DEF ToBeCleared
<1>5. ASSUME NEW m \in Members \ {n}
      PROVE  ~Touched(m) /\ (ToBeCleared(m) => ToBeCleared(m)')
  <2>1. ActiveRoles(m)' = ActiveRoles(m)
    BY <1>1, RowsStay
  <2>2. Effective(m)' = Effective(m)
    BY <2>1 DEF Effective, GrantedBy
  <2>3. sweeping \subseteq Roles
    BY <1>0 DEF AccessTypeOK
  <2> QED  BY <1>1, <1>2, <2>2, <2>3 DEF Touched, ToBeCleared
<1> QED
  BY <1>3, <1>4, <1>5, Undisturbing, ChangeKeeps

\* A role gains or loses permissions and its holders' entries are to be cleared.
LEMMA GrantKeeps ==
    ASSUME AccessInv, NEW r \in Roles, grants' \subseteq Roles \X Codenames,
           \A g \in Roles \X Codenames : g[1] # r => (g \in grants' <=> g \in grants),
           sweeping' = sweeping \cup {r},
           UNCHANGED <<present, held, defined, superuser, entry, fill, clearing, open, bulk>>,
           edits' \in 0..MaxEdits, unsettled' = unsettled \cup Disturbed
    PROVE  AccessInv'
<1>0. AccessTypeOK
  BY DEF AccessInv
<1>1. AccessTypeOK'
  BY <1>0 DEF AccessTypeOK, Disturbed
<1>2. ASSUME NEW m \in Members
      PROVE  (Touched(m) => ToBeCleared(m)') /\ (ToBeCleared(m) => ToBeCleared(m)')
  <2>1. ActiveRoles(m)' = ActiveRoles(m) /\ ActiveRoles(m) \subseteq Roles
    BY RowsStay DEF ActiveRoles
  <2>2. CASE r \in ActiveRoles(m)
    BY <2>2 DEF ToBeCleared, ActiveRoles
  <2>3. CASE r \notin ActiveRoles(m)
    <3>1. GrantedBy(ActiveRoles(m))' = GrantedBy(ActiveRoles(m))
      <4>1. \A p \in Codenames, x \in ActiveRoles(m) : <<x, p>> \in grants' <=> <<x, p>> \in grants
        BY <2>1, <2>3
      <4> QED  BY <2>1, <4>1 DEF GrantedBy
    <3>2. ~Touched(m)
      BY <3>1 DEF Touched, Effective
    <3> QED  BY <3>2 DEF ToBeCleared
  <2> QED  BY <2>2, <2>3
<1> QED
  BY <1>1, <1>2, Undisturbing, ChangeKeeps

LEMMA EditCounted ==
    ASSUME AccessInv, Edit
    PROVE  edits' \in 0..MaxEdits
BY AccessAssumption DEF AccessInv, AccessTypeOK, Edit

\* The changes that write first and clear afterwards.
LEMMA WritesKeep ==
    ASSUME AccessInv, NEW r \in Roles,
           \/ \E n \in Members :
                  \/ AssignRole(n, r) \/ RemoveRole(n, r) \/ BulkStep(n, r)
                  \/ \E state \in {"active", "inactive"} : SetActive(n, r, state)
           \/ \E p \in Codenames : AddPermission(r, p) \/ RemovePermission(r, p)
    PROVE  AccessInv'
<1>0. AccessTypeOK
  BY DEF AccessInv
<1>1. ASSUME NEW n \in Members, NEW life \in Lives \cup {Never}, Assigned(n, r, life), edits' \in 0..MaxEdits,
             UNCHANGED <<entry, fill, sweeping, open>>, bulk' \subseteq bulk
      PROVE  AccessInv'
  <2> DEFINE h == [row |-> "active", left |-> life]
  <2>1. h \in Holding
    BY AccessRows
  <2>2. held' = [held EXCEPT ![<<n, r>>] = h]
    BY <1>1 DEF Assigned
  <2> HIDE DEF h
  <2> QED  BY <1>1, <2>1, <2>2, HoldingKeeps DEF Assigned
<1>2. ASSUME NEW n \in Members, AssignRole(n, r) PROVE AccessInv'
  BY <1>1, <1>2, EditCounted DEF AssignRole
<1>3. ASSUME NEW n \in Members, BulkStep(n, r) PROVE AccessInv'
  <2>1. /\ bulk' = bulk \ {<<n, r>>} /\ UNCHANGED <<entry, fill, sweeping, open, edits>>
        /\ Assigned(n, r, Never) \/ UNCHANGED <<rows, clearing, unsettled>>
    BY <1>3 DEF BulkStep
  <2>2. edits' \in 0..MaxEdits
    BY <1>0, <2>1 DEF AccessTypeOK
  <2>3. CASE UNCHANGED <<rows, clearing, unsettled>>
    <3>1. AccessTypeOK'
      BY <1>0, <2>1, <2>3 DEF AccessTypeOK, rows
    <3>2. ASSUME NEW m \in Members
          PROVE  ~Touched(m) /\ (ToBeCleared(m) => ToBeCleared(m)')
      BY <2>1, <2>3 DEF Touched, Effective, GrantedBy, ActiveRoles, ToBeCleared, rows
    <3> QED  BY <2>1, <2>3, <3>1, <3>2, ChangeKeeps DEF rows
  <2> QED  BY <1>1, <2>1, <2>2, <2>3
<1>4. ASSUME NEW n \in Members, RemoveRole(n, r) PROVE AccessInv'
  BY <1>4, AccessRows, EditCounted, HoldingKeeps DEF RemoveRole
<1>5. ASSUME NEW n \in Members, NEW state \in {"active", "inactive"},
             SetActive(n, r, state)
      PROVE  AccessInv'
  <2> DEFINE h == [held[<<n, r>>] EXCEPT !.row = state]
  <2>1. h \in Holding
    BY <1>0 DEF AccessTypeOK, Holding
  <2>2. held' = [held EXCEPT ![<<n, r>>] = h]
    BY <1>5 DEF SetActive
  <2> HIDE DEF h
  <2> QED  BY <1>5, <2>1, <2>2, EditCounted, HoldingKeeps DEF SetActive
<1>6. ASSUME NEW p \in Codenames, AddPermission(r, p) \/ RemovePermission(r, p)
      PROVE  AccessInv'
  <2>1. grants' = grants \cup {<<r, p>>} \/ grants' = grants \ {<<r, p>>}
    BY <1>6 DEF AddPermission, RemovePermission
  <2>2. /\ grants' \subseteq Roles \X Codenames
        /\ \A g \in Roles \X Codenames : g[1] # r => (g \in grants' <=> g \in grants)
    BY <1>0, <2>1 DEF AccessTypeOK
  <2> QED  BY <1>6, <2>2, EditCounted, GrantKeeps DEF AddPermission, RemovePermission
<1> QED
  BY <1>2, <1>3, <1>4, <1>5, <1>6

\* The changes that clear nothing, or another user than the one who loses a role.
LEMMA LeavingKeeps ==
    ASSUME AccessInv,
           \/ \E m, n \in Members, r \in Roles : MoveHolding(m, n, r)
           \/ \E r \in Roles : CreateRole(r) \/ BulkAssign(Members, {r})
           \/ \E p \in Codenames : CreatePermission(p)
           \/ \E m \in Members : SetSuperuser(m)
    PROVE  AccessInv'
<1>0. AccessTypeOK
  BY DEF AccessInv
<1>1. ASSUME NEW n \in Members, NEW o \in Members, NEW r \in Roles, MoveHolding(n, o, r)
      PROVE  AccessInv'
  <2>1. /\ held[<<n, r>>].row # "none" /\ held[<<o, r>>].row = "none"
        /\ held' = [held EXCEPT ![<<o, r>>] = held[<<n, r>>], ![<<n, r>>] = NoHolding]
        /\ clearing' = [clearing EXCEPT ![o] = @ + 1]
        /\ UNCHANGED <<present, grants, defined, superuser, entry, fill, sweeping, open, bulk>>
        /\ unsettled' = unsettled \cup {n} \cup Disturbed
    BY <1>1 DEF MoveHolding, ClearLater
  <2>2. /\ held' \in [Members \X Roles -> Holding]
        /\ \A m \in Members \ {n, o} : \A x \in Roles : held'[<<m, x>>] = held[<<m, x>>]
    BY <1>0, <2>1, AccessRows DEF AccessTypeOK
  <2>3. /\ clearing' \in [Members -> Nat] /\ clearing'[o] > 0
        /\ \A m \in Members \ {o} : clearing'[m] = clearing[m]
    BY <1>0, <2>1 DEF AccessTypeOK
  <2>4. AccessTypeOK'
    BY <1>0, <1>1, <2>1, <2>2, <2>3, EditCounted DEF AccessTypeOK, Disturbed, MoveHolding
  <2>5. ToBeCleared(o)'
    BY <2>3 DEF ToBeCleared
  <2>6. ASSUME NEW m \in Members \ {n, o}
        PROVE  ~Touched(m) /\ (ToBeCleared(m) => ToBeCleared(m)')
    <3>1. ActiveRoles(m)' = ActiveRoles(m)
      BY <2>2, RowsStay
    <3>2. Effective(m)' = Effective(m)
      BY <2>1, <3>1 DEF Effective, GrantedBy
    <3>3. sweeping \subseteq Roles
      BY <1>0 DEF AccessTypeOK
    <3> QED  BY <2>1, <2>2, <2>3, <3>2, <3>3 DEF Touched, ToBeCleared
  <2> QED  BY <2>1, <2>4, <2>5, <2>6, Undisturbing, ChangeKeeps
<1>2. ASSUME NEW n \in Members, SetSuperuser(n) PROVE AccessInv'
  <2>1. /\ superuser' = (superuser \cup {n}) \ (superuser \cap {n})
        /\ UNCHANGED <<present, held, grants, defined, entry, fill, sweeping, clearing, open, bulk>>
        /\ unsettled' = unsettled \cup {n}
    BY <1>2 DEF SetSuperuser
  <2>2. AccessTypeOK'
    BY <1>0, <1>2, <2>1, EditCounted DEF AccessTypeOK, SetSuperuser
  <2>3. ASSUME NEW m \in Members \ {n}
        PROVE  /\ m \in superuser' <=> m \in superuser
               /\ ~Touched(m) /\ (ToBeCleared(m) => ToBeCleared(m)')
    BY <2>1 DEF Touched, Effective, GrantedBy, ActiveRoles, ToBeCleared
  <2> QED  BY <2>1, <2>2, <2>3, ChangeKeeps
<1>3. ASSUME NEW p \in Codenames, CreatePermission(p) PROVE AccessInv'
  <2>1. /\ defined' = defined \cup {p}
        /\ UNCHANGED <<present, held, grants, superuser, entry, fill, sweeping, clearing, open, bulk>>
        /\ unsettled' = unsettled \cup superuser
    BY <1>3 DEF CreatePermission
  <2>2. AccessTypeOK'
    BY <1>0, <1>3, <2>1, EditCounted DEF AccessTypeOK, CreatePermission
  <2>3. ASSUME NEW m \in Members \ superuser
        PROVE  ~Touched(m) /\ (ToBeCleared(m) => ToBeCleared(m)')
    BY <2>1 DEF Touched, Effective, GrantedBy, ActiveRoles, ToBeCleared
  <2> QED  BY <2>1, <2>2, <2>3, ChangeKeeps
<1>4. ASSUME NEW r \in Roles, CreateRole(r) \/ BulkAssign(Members, {r}) PROVE AccessInv'
  <2>1. /\ UNCHANGED <<held, grants, defined, superuser, entry, fill, sweeping, clearing, open,
                       unsettled>>
        /\ present' \subseteq Roles /\ bulk' \subseteq Members \X Roles
    BY <1>0, <1>4 DEF CreateRole, BulkAssign, AccessTypeOK, rows
  <2>2. AccessTypeOK'
    BY <1>0, <1>4, <2>1, EditCounted DEF AccessTypeOK, CreateRole, BulkAssign
  <2>3. ASSUME NEW m \in Members
        PROVE  ~Touched(m) /\ (ToBeCleared(m) => ToBeCleared(m)')
    BY <2>1 DEF Touched, Effective, GrantedBy, ActiveRoles, ToBeCleared
  <2> QED  BY <2>1, <2>2, <2>3, ChangeKeeps
<1> QED
  BY <1>1, <1>2, <1>3, <1>4

\* A transaction begins and clears; its rows are not visible yet.
LEMMA BeginKeeps ==
    ASSUME AccessInv, NEW change \in ChangeRow, NEW ms \in SUBSET Members, Begin(change, ms)
    PROVE  AccessInv'
<1>0. AccessTypeOK /\ \A m \in Members \ unsettled : Settled(m)
  BY DEF AccessInv
<1>1. /\ open' = change /\ UNCHANGED <<rows, fill, sweeping, clearing, bulk>> /\ Edit
      /\ entry' = [m \in Members |-> IF m \in ms THEN NoEntry ELSE entry[m]]
      /\ unsettled' = {m \in unsettled : m \notin ms \/ InFill(m)}
  BY DEF Begin, ClearNow
<1>2. /\ entry' \in [Members -> Entry] /\ \A m \in ms : ~entry'[m].stored
      /\ \A m \in Members \ ms : entry'[m] = entry[m]
  BY <1>0, <1>1, AccessRows DEF AccessTypeOK
<1>3. AccessTypeOK'
  BY <1>0, <1>1, <1>2, EditCounted DEF AccessTypeOK, rows
<1>4. ASSUME NEW m \in Members, m \notin unsettled' PROVE Settled(m)'
  <2>1. CASE m \in unsettled
    BY <1>1, <1>2, <1>4, <2>1, Emptied
  <2>2. CASE m \notin unsettled
    <3>1. ~Touched(m) /\ (ToBeCleared(m) => ToBeCleared(m)')
      BY <1>1 DEF Touched, Effective, GrantedBy, ActiveRoles, ToBeCleared, rows
    <3> QED  BY <1>0, <1>1, <1>2, <2>2, <3>1, SettledStays DEF rows
  <2> QED  BY <2>1, <2>2
<1> QED
  BY <1>1, <1>3, <1>4, OthersKeep

LEMMA TransactionsKeep ==
    ASSUME AccessInv,
           \/ \E r \in Roles : \/ DeleteRole(r) \/ \E n \in Members : DeleteHolding(n, r)
                               \/ \E p \in Codenames, enabled \in BOOLEAN :
                                      SwitchPermission(r, p, enabled)
           \/ \E p \in Codenames : DeletePermission(p)
    PROVE  AccessInv'
<1>1. ASSUME NEW n \in Members, NEW r \in Roles, DeleteHolding(n, r) PROVE AccessInv'
  <2>1. [kind |-> "dropHolding", member |-> n, role |-> r] \in ChangeRow
    BY DEF ChangeRow
  <2> QED  BY <1>1, <2>1, BeginKeeps DEF DeleteHolding
<1>2. ASSUME NEW r \in Roles, DeleteRole(r) PROVE AccessInv'
  <2>1. [kind |-> "dropRole", role |-> r] \in ChangeRow
    BY DEF ChangeRow
  <2>2. {m \in Members : held[<<m, r>>].row # "none"} \in SUBSET Members
    OBVIOUS
  <2> QED  BY <1>2, <2>1, <2>2, BeginKeeps DEF DeleteRole
<1>3. ASSUME NEW p \in Codenames, DeletePermission(p) PROVE AccessInv'
  <2> DEFINE ms == UNION {HoldersOf(x) : x \in {y \in Roles : <<y, p>> \in grants}}
             change == [kind |-> "dropPermission", code |-> p]
  <2>1. change \in ChangeRow
    BY DEF ChangeRow
  <2>2. ms \in SUBSET Members
    BY DEF HoldersOf
  <2>3. Begin(change, ms)
    BY <1>3 DEF DeletePermission
  <2> HIDE DEF ms, change
  <2> QED  BY <2>1, <2>2, <2>3, BeginKeeps
<1>4. ASSUME NEW r \in Roles, NEW p \in Codenames, NEW enabled \in BOOLEAN,
             SwitchPermission(r, p, enabled)
      PROVE  AccessInv'
  <2>1. [kind |-> "switch", role |-> r, code |-> p, enabled |-> enabled] \in ChangeRow
    BY DEF ChangeRow
  <2>2. HoldersOf(r) \in SUBSET Members
    BY DEF HoldersOf
  <2> QED  BY <1>4, <2>1, <2>2, BeginKeeps DEF SwitchPermission
<1> QED
  BY <1>1, <1>2, <1>3, <1>4

\* What the rows of a transaction can be once it has committed.
LEMMA CommitTypes ==
    ASSUME AccessTypeOK, Commit
    PROVE  /\ present' \subseteq Roles /\ held' \in [Members \X Roles -> Holding]
           /\ grants' \subseteq Roles \X Codenames /\ defined' \subseteq Codenames
<1> DEFINE After ==
        CASE open.kind = "dropHolding" ->
              /\ held' = [held EXCEPT ![<<open.member, open.role>>] = NoHolding]
              /\ UNCHANGED <<present, grants, defined>>
         [] open.kind = "dropRole" ->
              /\ present' = present \ {open.role}
              /\ held' = [x \in Members \X Roles |->
                              IF x[2] = open.role THEN NoHolding ELSE held[x]]
              /\ grants' = {g \in grants : g[1] # open.role}
              /\ UNCHANGED defined
         [] open.kind = "dropPermission" ->
              /\ grants' = {g \in grants : g[2] # open.code}
              /\ defined' = defined \ {open.code}
              /\ UNCHANGED <<present, held>>
         [] open.kind = "switch" ->
              /\ grants' = IF open.enabled THEN grants \cup {<<open.role, open.code>>}
                                           ELSE grants \ {<<open.role, open.code>>}
              /\ UNCHANGED <<present, held, defined>>
<1>1. After /\ open # NoChange /\ open \in ChangeRow
  BY DEF Commit, AccessTypeOK
<1>2. \/ open.kind = "dropHolding"
      \/ open.kind = "dropRole"
      \/ open.kind = "dropPermission"
      \/ open.kind = "switch" /\ open.role \in Roles /\ open.code \in Codenames
  BY <1>1 DEF ChangeRow, NoChange
<1>3. CASE open.kind = "dropHolding"
  BY <1>1, <1>3, AccessRows DEF AccessTypeOK
<1>4. CASE open.kind = "dropRole"
  BY <1>1, <1>4, AccessRows DEF AccessTypeOK
<1>5. CASE open.kind = "dropPermission"
  BY <1>1, <1>5 DEF AccessTypeOK
<1>6. CASE open.kind = "switch"
  BY <1>1, <1>2, <1>6 DEF AccessTypeOK
<1> QED
  BY <1>2, <1>3, <1>4, <1>5, <1>6

\* A transaction commits: whoever reads, or has stored what it read, is unsettled.
LEMMA CommitKeeps ==
    ASSUME AccessInv, Commit
    PROVE  AccessInv'
<1>0. AccessTypeOK /\ \A m \in Members \ unsettled : Settled(m)
  BY DEF AccessInv
<1>1. /\ open' = NoChange /\ UNCHANGED <<superuser, entry, fill, sweeping, clearing, bulk, edits>>
      /\ unsettled' = unsettled \cup
                          {m \in Members : Touched(m) /\ (InFill(m) \/ entry[m].stored)}
  BY DEF Commit
<1>2. AccessTypeOK'
  BY <1>0, <1>1, CommitTypes, AccessRows DEF AccessTypeOK
<1>3. ASSUME NEW m \in Members, m \notin unsettled' PROVE Settled(m)'
  <2>1. Touched(m) => ~InFill(m) /\ ~entry'[m].stored
    BY <1>1, <1>3
  <2>2. ToBeCleared(m) => ToBeCleared(m)' \/ ~entry'[m].stored
    <3>1. CASE Touched(m)
      BY <2>1, <3>1
    <3>2. CASE ~Touched(m)
      BY <1>0, <1>1, <3>2 DEF Touched, ToBeCleared, AccessTypeOK
    <3> QED  BY <3>1, <3>2
  <2> QED  BY <1>0, <1>1, <1>3, <2>1, <2>2, SettledStays
<1> QED
  BY <1>1, <1>2, <1>3, OthersKeep

\* Time passes: a list goes before the first role it was made from, or less than a second after.
LEMMA TickKeeps ==
    ASSUME AccessInv, AccessTick
    PROVE  AccessInv'
<1>0. AccessTypeOK /\ \A m \in Members \ unsettled : Settled(m)
  BY DEF AccessInv
<1>1. /\ held' = [x \in Members \X Roles |-> [held[x] EXCEPT !.left = Aged(@)]]
      /\ entry' = [m \in Members |-> IF entry[m].left <= 1 THEN NoEntry
                                     ELSE [entry[m] EXCEPT !.left = @ - 1]]
      /\ unsettled' = {m \in Members : \/ InFill(m)
                                       \/ m \in unsettled /\ entry'[m].stored}
      /\ UNCHANGED <<present, grants, defined, superuser, fill, sweeping, clearing, open, bulk,
                     edits>>
  BY DEF AccessTick, clears
<1>2. \A l \in 0..Never : Aged(l) \in 0..Never
  BY AccessAssumption DEF Aged
<1>3. ASSUME NEW x \in Members \X Roles
      PROVE  /\ held'[x] \in Holding /\ held'[x].row = held[x].row
             /\ held'[x].left = Aged(held[x].left) /\ held[x].left \in 0..Never
  <2>1. held[x] \in Holding /\ held'[x] = [held[x] EXCEPT !.left = Aged(held[x].left)]
    BY <1>0, <1>1 DEF AccessTypeOK
  <2> QED  BY <1>2, <2>1 DEF Holding
<1>4. ASSUME NEW m \in Members
      PROVE  /\ entry[m].left \in Nat /\ entry'[m] \in Entry
             /\ entry'[m].stored => /\ entry[m].stored /\ entry[m].left > 1
                                    /\ entry'[m].list = entry[m].list
                                    /\ entry'[m].left = entry[m].left - 1
  <2>1. entry[m] \in Entry /\ entry[m].left \in Nat
    BY <1>0, AccessAssumption DEF AccessTypeOK, Entry
  <2>2. CASE entry[m].left <= 1
    BY <1>1, <2>1, <2>2, AccessRows
  <2>3. CASE ~(entry[m].left <= 1)
    <3>1. entry'[m] = [entry[m] EXCEPT !.left = entry[m].left - 1]
      BY <1>1, <2>3
    <3> QED  BY <2>1, <2>3, <3>1, AccessAssumption DEF Entry
  <2> QED  BY <2>2, <2>3
<1>5. AccessTypeOK'
  <2>1. held' \in [Members \X Roles -> Holding] /\ entry' \in [Members -> Entry]
    BY <1>1, <1>3, <1>4
  <2> QED  BY <1>0, <1>1, <2>1 DEF AccessTypeOK
<1>6. ASSUME NEW m \in Members, m \notin unsettled' PROVE Settled(m)'
  <2>1. ~InFill(m)
    BY <1>1, <1>6
  <2>2. ToBeCleared(m)' <=> ToBeCleared(m)
    BY <1>0, <1>1, <1>3 DEF ToBeCleared, AccessTypeOK
  <2>3. ASSUME entry'[m].stored, ~ToBeCleared(m)
        PROVE  Agrees(m)' /\ EntryLasts(m)'
    <3>1. Agrees(m) /\ EntryLasts(m)
      BY <1>0, <1>1, <1>4, <1>6, <2>3 DEF Settled, EntryFits
    <3>2. CASE m \in superuser
      BY <1>1, <1>4, <2>3, <3>1, <3>2 DEF Agrees, Effective, EntryLasts
    <3>3. CASE m \notin superuser
      <4>0. PICK e \in Nat : e = entry[m].left /\ e > 1 /\ entry'[m].left = e - 1
        BY <1>4, <2>3
      <4>1. \A r \in ActiveRoles(m) : (e <= held[<<m, r>>].left \/ e <= Second) /\ r \in Roles
        BY <3>1, <3>3, <4>0 DEF EntryLasts, ActiveRoles
      <4>2. \A r \in ActiveRoles(m) : \/ e <= Second
                                      \/ /\ held'[<<m, r>>].left > 0
                                         /\ e - 1 <= held'[<<m, r>>].left
        <5> SUFFICES ASSUME NEW r \in ActiveRoles(m), ~(e <= Second)
                     PROVE  /\ held'[<<m, r>>].left > 0
                            /\ e - 1 <= held'[<<m, r>>].left
          OBVIOUS
        <5>1. PICK h \in Nat : h = held[<<m, r>>].left
          BY <1>3, <4>1, AccessAssumption
        <5>2. held'[<<m, r>>].left = Aged(h) /\ e <= h
          BY <1>3, <4>1, <5>1
        <5> QED  BY <4>0, <5>1, <5>2, AccessAssumption DEF Aged
      <4>3. \A r \in Roles : held'[<<m, r>>].row = held[<<m, r>>].row
                             /\ (held'[<<m, r>>].left > 0 => held[<<m, r>>].left > 0)
        BY <1>3, AccessAssumption DEF Aged
      <4>4. ActiveRoles(m)' \subseteq ActiveRoles(m)
        BY <4>3 DEF ActiveRoles
      <4>5. Effective(m)' \subseteq Effective(m)
        BY <1>1, <3>3, <4>4 DEF Effective, GrantedBy
      <4>6. CASE e <= Second
        <5>1. entry'[m].left < Second /\ entry'[m].left <= Second
          BY <4>0, <4>6, AccessAssumption
        <5>2. Effective(m) \subseteq entry[m].list
          BY <3>1 DEF Agrees
        <5> QED  BY <1>1, <1>4, <2>3, <3>3, <4>5, <5>1, <5>2 DEF Agrees, EntryLasts
      <4>7. CASE ~(e <= Second)
        <5>1. ActiveRoles(m)' = ActiveRoles(m)
          BY <4>2, <4>3, <4>7 DEF ActiveRoles
        <5>2. Effective(m)' = Effective(m)
          BY <1>1, <3>3, <5>1 DEF Effective, GrantedBy
        <5>3. EntryLasts(m)'
          BY <4>0, <4>2, <4>7, <5>1 DEF EntryLasts
        <5>4. entry[m].list = Effective(m)
          BY <3>1, <4>0, <4>7, AccessAssumption DEF Agrees
        <5> QED  BY <1>4, <2>3, <5>2, <5>3, <5>4 DEF Agrees
      <4> QED  BY <4>6, <4>7
    <3> QED  BY <3>2, <3>3
  <2>4. EntryFits(m)'
    BY <2>2, <2>3 DEF EntryFits
  <2> QED  BY <1>1, <2>1, <2>4 DEF Settled, InFill
<1> QED
  BY <1>1, <1>5, <1>6, OthersKeep

LEMMA AccessInductive == AccessInv /\ [AccessNext]_accessVars => AccessInv'
<1> SUFFICES ASSUME AccessInv, [AccessNext]_accessVars PROVE AccessInv'
  OBVIOUS
<1>1. CASE UNCHANGED accessVars
  <2>1. AccessTypeOK'
    BY <1>1 DEF accessVars, AccessInv, AccessTypeOK
  <2>2. ASSUME NEW m \in Members
        PROVE  ~Touched(m) /\ (ToBeCleared(m) => ToBeCleared(m)')
    BY <1>1 DEF accessVars, Touched, Effective, GrantedBy, ActiveRoles, ToBeCleared
  <2> QED  BY <1>1, <2>1, <2>2, ChangeKeeps DEF accessVars
<1>2. ASSUME NEW d \in Readers, Filling(d) PROVE AccessInv'
  BY <1>2, ReadersKeep
<1>3. CASE Clearing
  BY <1>3, ClearsKeep, CommitKeeps, WritesKeep DEF Clearing
<1>4. ASSUME NEW m \in Members, NEW r \in Roles,
             \/ AssignRole(m, r) \/ RemoveRole(m, r) \/ DeleteHolding(m, r)
             \/ \E state \in {"active", "inactive"} : SetActive(m, r, state)
             \/ \E n \in Members : MoveHolding(m, n, r)
      PROVE  AccessInv'
  BY <1>4, WritesKeep, TransactionsKeep, LeavingKeeps
<1>5. ASSUME NEW r \in Roles, NEW p \in Codenames,
             \/ AddPermission(r, p) \/ RemovePermission(r, p)
             \/ \E enabled \in BOOLEAN : SwitchPermission(r, p, enabled)
      PROVE  AccessInv'
  BY <1>5, WritesKeep, TransactionsKeep
<1>6. ASSUME NEW r \in Roles, CreateRole(r) \/ DeleteRole(r) \/ BulkAssign(Members, {r})
      PROVE  AccessInv'
  BY <1>6, LeavingKeeps, TransactionsKeep
<1>7. ASSUME NEW p \in Codenames, CreatePermission(p) \/ DeletePermission(p) PROVE AccessInv'
  BY <1>7, LeavingKeeps, TransactionsKeep
<1>8. ASSUME NEW m \in Members, SetSuperuser(m) PROVE AccessInv'
  BY <1>8, LeavingKeeps
<1>9. CASE Editing
  BY <1>4, <1>5, <1>6, <1>7, <1>8, <1>9 DEF Editing
<1>10. CASE AccessTick
  BY <1>10, TickKeeps
<1> QED
  BY <1>1, <1>2, <1>3, <1>9, <1>10 DEF AccessNext

\* No cached list differs from the rows by more than a role that expired less than a second
\* ago, but those of users whose rows changed during a fill or inside a transaction, or by
\* a change that clears nothing: for any number of users, roles, readers and changes, and any
\* lives of roles and lists (get_user_permissions and whatever clears its cache).
THEOREM ListsStayCurrent == AccessSpec => []Current
<1>1. AccessInit => AccessInv
  BY AccessBegins
<1>2. AccessInv /\ [AccessNext]_accessVars => AccessInv'
  BY AccessInductive
<1>3. AccessInv => Current
  BY DEF AccessInv, Settled, EntryFits, Current
<1> QED
  BY <1>1, <1>2, <1>3, PTL DEF AccessSpec

===============================================================================
