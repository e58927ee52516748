--------------------------------- MODULE Mfa ---------------------------------
(***************************************************************************)
(* The second factor of one privileged account (accounts.mfa_views).  A    *)
(* verified email gives a challenge; a challenge and the password give a   *)
(* secret; a challenge and a code give a session.                          *)
(*                                                                         *)
(* Every endpoint is one transaction that first locks the challenge and,   *)
(* through select_related, the account, so two of them never overlap; each *)
(* is one action.  What is left to go wrong is a sequence of them.         *)
(***************************************************************************)
EXTENDS Naturals, FiniteSets

CONSTANTS
    MaxChallenges,   \* bound on the rows of AdminMFAChallenge
    MaxSecrets,      \* bound on the secrets that are made
    MaxStep,         \* bound on the clock, in TOTP steps of 30 seconds
    Validity,        \* steps a challenge is valid for (5 minutes)
    Attempts,        \* attempts a challenge allows (5)
    Recovery         \* recovery codes of one enrollment (10)

VARIABLES
    device,      \* the AdminMFADevice row
    challenge,   \* AdminMFAChallenge rows
    step,        \* the clock
    privileged,  \* is_staff or is_superuser, and the account is active
    codes,       \* codes that opened a session
    opened,      \* sessions each challenge opened
    tried,       \* codes tried with each challenge since its password was confirmed
    replayed     \* a code opened a session twice

mfaVars == <<device, challenge, step, privileged, codes, opened, tried, replayed>>

Challenges == 1..MaxChallenges
Steps == 0..MaxStep + 1

\* Counters are those of match_totp plus one: last 0 stands for last_counter -1.
Device == [secret : 0..MaxSecrets, enabled : BOOLEAN, last : 0..MaxStep + 2,
           recovery : SUBSET Recovery]
NoDevice == [secret |-> 0, enabled |-> FALSE, last |-> 0, recovery |-> {}]
Challenge == [issued : BOOLEAN, until : Nat, used : BOOLEAN, attempts : 0..Attempts,
              confirmed : BOOLEAN]
NoChallenge == [issued |-> FALSE, until |-> 0, used |-> FALSE, attempts |-> 0,
                confirmed |-> FALSE]

\* A code is the TOTP of a secret at a step, a recovery code, or wrong.
Totp == [secret : 1..MaxSecrets, at : Steps]
Wrong == [secret |-> 0, at |-> 0]

ASSUME MfaAssumption ==
    /\ {MaxChallenges, MaxSecrets, MaxStep, Validity, Attempts} \subseteq Nat
    /\ MaxSecrets > 0 /\ Attempts > 0
    /\ Recovery \cap (Totp \cup {Wrong}) = {}

MfaInit ==
    /\ device = NoDevice
    /\ challenge = [c \in Challenges |-> NoChallenge]
    /\ step = 0
    /\ privileged = TRUE
    /\ codes = {}
    /\ opened = [c \in Challenges |-> 0]
    /\ tried = [c \in Challenges |-> 0]
    /\ replayed = FALSE

-----------------------------------------------------------------------------
\* _get_challenge
Valid(c) ==
    /\ challenge[c].issued /\ ~challenge[c].used
    /\ step < challenge[c].until
    /\ challenge[c].attempts < Attempts
    /\ privileged

\* Mutant: the counter of the last code is not compared.
MutMatches(code) ==
    /\ code \in Totp /\ code.secret = device.secret
    /\ code.at + 1 >= step /\ code.at <= step + 1

\* match_totp accepts the step before, the current one and the next, after the last.
Matches(code) ==
    /\ code \in Totp /\ code.secret = device.secret
    /\ code.at + 1 >= step /\ code.at <= step + 1
    /\ code.at + 1 > device.last

Attempt(c) == [challenge EXCEPT ![c].attempts = @ + 1]
Use(c) == challenge' = [challenge EXCEPT ![c].attempts = @ + 1, ![c].used = TRUE]
Opens(c, code) ==
    /\ opened' = [opened EXCEPT ![c] = @ + 1]
    /\ codes' = codes \cup {code}
    /\ replayed' = (replayed \/ code \in codes)
Tries(c) == tried' = [tried EXCEPT ![c] = @ + 1]

\* OTPVerifyView issues a challenge to a privileged user instead of a token.
Issue(c) ==
    /\ privileged
    /\ challenge[c] = NoChallenge /\ \A d \in Challenges : d < c => challenge[d] # NoChallenge
    /\ challenge' = [challenge EXCEPT ![c].issued = TRUE, ![c].until = step + Validity]
    /\ UNCHANGED <<device, step, privileged, codes, opened, tried, replayed>>

\* AdminMFASetupView with a wrong password, or for a device that is enrolled.
RefuseSetup(c) ==
    /\ Valid(c)
    /\ challenge' = Attempt(c)
    /\ UNCHANGED <<device, step, privileged, codes, opened, tried, replayed>>

\* ... and with the password, which gives a new secret and the attempts again.
Setup(c, secret) ==
    /\ Valid(c) /\ ~device.enabled
    /\ secret = device.secret + 1
    /\ device' = [device EXCEPT !.secret = secret]
    /\ challenge' = [challenge EXCEPT ![c].confirmed = TRUE, ![c].attempts = 0]
    /\ tried' = [tried EXCEPT ![c] = 0]
    /\ UNCHANGED <<step, privileged, codes, opened, replayed>>

\* AdminMFACompleteView enrolls the device.
Complete(c, code) ==
    /\ Valid(c) /\ challenge[c].confirmed
    /\ ~device.enabled
    /\ Tries(c)
    /\ \/ /\ Matches(code)
          /\ device' = [device EXCEPT !.enabled = TRUE, !.last = code.at + 1,
                                      !.recovery = Recovery]
          /\ Use(c) /\ Opens(c, code)
       \/ /\ ~Matches(code)
          /\ challenge' = Attempt(c)
          /\ UNCHANGED <<device, codes, opened, replayed>>
    /\ UNCHANGED <<step, privileged>>

\* A recovery code is gone once it was taken.
consume_recovery_code(code) ==
    /\ code \in device.recovery
    /\ device' = [device EXCEPT !.recovery = @ \ {code}]

\* AdminMFAVerifyView takes a TOTP or a recovery code.
Verify(c, code) ==
    /\ Valid(c) /\ device.enabled
    /\ Tries(c)
    /\ \/ /\ Matches(code)
          /\ device' = [device EXCEPT !.last = code.at + 1]
          /\ Use(c) /\ Opens(c, code)
       \/ /\ consume_recovery_code(code)
          /\ Use(c) /\ Opens(c, code)
       \/ /\ ~Matches(code) /\ code \notin device.recovery
          /\ challenge' = Attempt(c)
          /\ UNCHANGED <<device, codes, opened, replayed>>
    /\ UNCHANGED <<step, privileged>>

\* Complete for an enrolled device and Verify for one that is not count as attempts.
Misdirect(c) ==
    /\ Valid(c) /\ (device.enabled => challenge[c].confirmed)
    /\ challenge' = Attempt(c)
    /\ Tries(c)
    /\ UNCHANGED <<device, step, privileged, codes, opened, replayed>>

\* The console and the admin change the flags; the clock moves on.
SwitchPrivilege ==
    /\ privileged' = ~privileged
    /\ UNCHANGED <<device, challenge, step, codes, opened, tried, replayed>>

Wait ==
    /\ step < MaxStep
    /\ step' = step + 1
    /\ UNCHANGED <<device, challenge, privileged, codes, opened, tried, replayed>>

MfaNext ==
    \/ \E c \in Challenges :
           \/ Issue(c) \/ RefuseSetup(c) \/ Misdirect(c)
           \/ \E secret \in 1..MaxSecrets : Setup(c, secret)
           \/ \E code \in Totp \cup {Wrong} : Complete(c, code)
           \/ \E code \in Totp \cup Recovery \cup {Wrong} : Verify(c, code)
    \/ SwitchPrivilege \/ Wait

MfaSpec == MfaInit /\ [][MfaNext]_mfaVars

-----------------------------------------------------------------------------
MfaTypeOK ==
    /\ device \in Device
    /\ challenge \in [Challenges -> Challenge]
    /\ step \in 0..MaxStep
    /\ privileged \in BOOLEAN
    /\ codes \subseteq Totp \cup Recovery \cup {Wrong}
    /\ opened \in [Challenges -> Nat]
    /\ tried \in [Challenges -> Nat]
    /\ replayed \in BOOLEAN

\* No code, TOTP or recovery, opens a second session, whatever challenges, secrets and
\* clock steps lie between its uses; a challenge opens at most one, and takes at most
\* Attempts codes from one confirmation of the password to the next.
FactorsAreSpent ==
    /\ ~replayed
    /\ \A c \in Challenges : opened[c] <= 1 /\ tried[c] <= Attempts
=============================================================================
