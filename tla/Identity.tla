------------------------------ MODULE Identity ------------------------------
(***************************************************************************)
(* Who owns an email address (accounts): registration, one-time passwords, *)
(* the email verification link, password reset and deleted accounts.       *)
(*                                                                         *)
(* Every statement commits on its own, and a request may be cut off after  *)
(* any of them.  A request works on the account as it was loaded and saves *)
(* single columns of it, so the address a code or link was mailed to may   *)
(* no longer be the address of the account when verified is saved.         *)
(***************************************************************************)
EXTENDS Naturals, FiniteSets

CONSTANTS
    People,      \* numbers of accounts, given out in order
    Inboxes,     \* email addresses
    MaxCalls,    \* bound on the requests, numbered as they arrive
    MaxOpen,     \* bound on the requests that are being served at once
    MaxOtps      \* bound on the rows of the OTP table, numbered as created

ASSUME IdentityAssumption ==
    /\ {MaxCalls, MaxOpen} \subseteq Nat /\ MaxOtps \in Nat
    /\ People \subseteq Nat \ {0}
    /\ "none" \notin Inboxes

VARIABLES
    account,   \* User rows
    otp,       \* OTP rows
    link,      \* the cached email verification token of each account
    mailed,    \* tokens that reached an inbox
    call,      \* requests
    proof,     \* inboxes whose mail was presented to verify the account
    crossed,   \* accounts whose address changed under a verification
    raced      \* inboxes with two requests about a code at once

identityVars == <<account, otp, link, mailed, call, proof, crossed, raced>>

Calls == 1..MaxCalls
OtpIds == 1..MaxOtps

Account == [email : Inboxes \cup {"none"}, verified : BOOLEAN,
            state : {"absent", "active", "suspended", "deleted"}]
NoAccount == [email |-> "none", verified |-> FALSE, state |-> "absent"]
Otp == [email : Inboxes \cup {"none"}, state : {"none", "live", "expired", "used"},
        delivered : BOOLEAN, accepted : Nat]
NoOtp == [email |-> "none", state |-> "none", delivered |-> FALSE, accepted |-> 0]

\* A token is random: it is known by the request that made it and by whom it was for.
Token == [by : Calls \cup {0}, to : Inboxes \cup {"none"}]
NoToken == [by |-> 0, to |-> "none"]

Call == [op : {"new", "done", "request", "verify", "reset", "relink", "confirm"},
         step : {"", "create", "send", "fail", "spend", "find", "save", "cache", "match"},
         who : People \cup {0}, email : Inboxes \cup {"none"}, code : OtpIds \cup {0}]
New == [op |-> "new", step |-> "", who |-> 0, email |-> "none", code |-> 0]
Done == [New EXCEPT !.op = "done"]

NextId(p) == account[p] = NoAccount /\ \A q \in People : q < p => account[q] # NoAccount
Holder(e) == {p \in People : account[p].email = e}
CodeOps == {"request", "verify", "reset"}

IdentityInit ==
    /\ account = [p \in People |-> NoAccount]
    /\ otp = [c \in OtpIds |-> NoOtp]
    /\ link = [p \in People |-> NoToken]
    /\ mailed = {}
    /\ call = [r \in Calls |-> New]
    /\ proof = [p \in People |-> {}]
    /\ crossed = {} /\ raced = {}

-----------------------------------------------------------------------------
Arrives(r, request) ==
    /\ call[r] = New /\ \A o \in Calls : o < r => call[o] # New
    /\ Cardinality({o \in Calls : call[o] \notin {New, Done}}) < MaxOpen
    /\ call' = [call EXCEPT ![r] = request]
Go(r, step) == call' = [call EXCEPT ![r].step = step]
Answer(r) == call' = [call EXCEPT ![r] = Done]

\* Two requests about the codes of an inbox at once.
Race(r, e) ==
    raced' = IF \E o \in Calls \ {r} : call[o].op \in CodeOps /\ call[o].email = e
             THEN raced \cup {e} ELSE raced

\* A request that saves the address beside another that works on the account.
Cross(r, p, op) ==
    crossed' = IF \E o \in Calls \ {r} : call[o].who = p /\ "relink" \in {op, call[o].op}
               THEN crossed \cup {p} ELSE crossed

\* RegisterView: the address must be new; the account is not verified.
Register(p, e) ==
    /\ NextId(p) /\ Holder(e) = {}
    /\ account' = [account EXCEPT ![p] = [email |-> e, verified |-> FALSE, state |-> "active"]]
    /\ UNCHANGED <<otp, link, mailed, call, proof, crossed, raced>>

\* set-status of the console suspends and reactivates.
SetStatus(p) ==
    /\ account[p].state \in {"active", "suspended"}
    /\ account' = [account EXCEPT ![p].state =
                       IF @ = "active" THEN "suspended" ELSE "active"]
    /\ UNCHANGED <<otp, link, mailed, call, proof, crossed, raced>>

\* DeleteAccountView keeps the row and its address, and so does the administrator's
\* AdminDeleteUserView, which a suspended account does not escape.
DeleteAccount(p) ==
    /\ account[p].state = "active"
    /\ account' = [account EXCEPT ![p].state = "deleted"]
    /\ UNCHANGED <<otp, link, mailed, call, proof, crossed, raced>>

AdminDeleteUser(p) ==
    /\ account[p].state \in {"active", "suspended"}
    /\ account' = [account EXCEPT ![p].state = "deleted"]
    /\ UNCHANGED <<otp, link, mailed, call, proof, crossed, raced>>

\* The process is killed, or the database or the cache does not answer.
CutOff(r) ==
    /\ call[r].op \notin {"new", "done"}
    /\ crossed' = IF call[r].op = "relink" THEN crossed \cup {call[r].who} ELSE crossed
    /\ Answer(r)
    /\ UNCHANGED <<account, otp, link, mailed, proof, raced>>

-----------------------------------------------------------------------------
\* Mutant: older codes of the inbox stay as they are.
MutAskCode(r, e) ==
    /\ Arrives(r, [New EXCEPT !.op = "request", !.step = "create", !.email = e])
    /\ Race(r, e)
    /\ UNCHANGED <<account, otp, link, mailed, proof, crossed>>

\* OTPRequestView and PasswordResetRequestView: older codes of the inbox are used up.
AskCode(r, e) ==
    /\ Arrives(r, [New EXCEPT !.op = "request", !.step = "create", !.email = e])
    /\ otp' = [c \in OtpIds |-> IF otp[c].email = e THEN [otp[c] EXCEPT !.state = "used"]
                                                    ELSE otp[c]]
    /\ Race(r, e)
    /\ UNCHANGED <<account, link, mailed, proof, crossed>>

CreateCode(r) ==
    /\ call[r].op = "request" /\ call[r].step = "create"
    /\ \E c \in OtpIds :
           /\ otp[c] = NoOtp /\ \A d \in OtpIds : d < c => otp[d] # NoOtp
           /\ otp' = [otp EXCEPT ![c].email = call[r].email, ![c].state = "live"]
           /\ call' = [call EXCEPT ![r].step = "send", ![r].code = c]
    /\ UNCHANGED <<account, link, mailed, proof, crossed, raced>>

SendCode(r) ==
    /\ call[r].op = "request" /\ call[r].step = "send"
    /\ \/ /\ otp' = [otp EXCEPT ![call[r].code].delivered = TRUE]
          /\ Answer(r)
       \/ Go(r, "fail") /\ UNCHANGED otp
    /\ UNCHANGED <<account, link, mailed, proof, crossed, raced>>

\* A code that could not be sent is marked as used.
DropCode(r) ==
    /\ call[r].op = "request" /\ call[r].step = "fail"
    /\ otp' = [otp EXCEPT ![call[r].code].state = "used"]
    /\ Answer(r)
    /\ UNCHANGED <<account, link, mailed, proof, crossed, raced>>

ExpireCode(c) ==
    /\ otp[c].state = "live"
    /\ otp' = [otp EXCEPT ![c].state = "expired"]
    /\ UNCHANGED <<account, link, mailed, call, proof, crossed, raced>>

-----------------------------------------------------------------------------
\* verify_otp_and_get_instance finds the code unused and not expired.  Who presents a
\* code has read the mail it came in.
PresentCode(r, c, op) ==
    /\ otp[c].state = "live" /\ otp[c].delivered
    /\ Arrives(r, [New EXCEPT !.op = op, !.step = "spend", !.email = otp[c].email, !.code = c])
    /\ Race(r, otp[c].email)
    /\ UNCHANGED <<account, otp, link, mailed, proof, crossed>>

\* ... and marks it as used, whatever happened to it since.  A reset goes on to save
\* the password of the account it finds, which is not part of the model.
SpendCode(r) ==
    /\ call[r].op \in {"verify", "reset"} /\ call[r].step = "spend"
    /\ otp' = [otp EXCEPT ![call[r].code].state = "used", ![call[r].code].accepted = @ + 1]
    /\ IF call[r].op = "verify" THEN Go(r, "find") ELSE Answer(r)
    /\ UNCHANGED <<account, link, mailed, proof, crossed, raced>>

\* OTPVerifyView looks up deleted accounts as well: they and suspended ones are refused.
\* An account that was not verified when it was loaded will be saved as verified.
FindAccount(r) ==
    /\ call[r].op = "verify" /\ call[r].step = "find"
    /\ \E p \in Holder(call[r].email) :
           IF account[p].state = "active" /\ ~account[p].verified
           THEN /\ call' = [call EXCEPT ![r].step = "save", ![r].who = p]
                /\ Cross(r, p, "verify")
           ELSE Answer(r) /\ UNCHANGED crossed
    /\ UNCHANGED <<account, otp, link, mailed, proof, raced>>

\* Nobody has the address: a verified account is created.  The address is unique, so
\* of two requests that create one the second fails.
CreateAccount(r, p) ==
    LET e == call[r].email IN
    /\ call[r].op = "verify" /\ call[r].step = "find"
    /\ Holder(e) = {} /\ NextId(p)
    /\ account' = [account EXCEPT ![p] = [email |-> e, verified |-> TRUE, state |-> "active"]]
    /\ proof' = [proof EXCEPT ![p] = @ \cup {e}]
    /\ Answer(r)
    /\ UNCHANGED <<otp, link, mailed, crossed, raced>>

\* Both verifications end by saving email_verified and its time, nothing else.
SaveVerified(r) ==
    LET p == call[r].who IN
    /\ call[r].op \in {"verify", "confirm"} /\ call[r].step = "save"
    /\ account' = [account EXCEPT ![p].verified = TRUE]
    /\ proof' = [proof EXCEPT ![p] = @ \cup {call[r].email}]
    /\ Answer(r)
    /\ UNCHANGED <<otp, link, mailed, crossed, raced>>

-----------------------------------------------------------------------------
\* Mutant: a verified account may change its address this way.
MutAskLink(r, p, e) ==
    /\ account[p].state = "active"
    /\ \A q \in Holder(e) : ~account[q].verified \/ account[q].state = "deleted"
    /\ Arrives(r, [New EXCEPT !.op = "relink", !.step = "save", !.who = p, !.email = e])
    /\ Cross(r, p, "relink")
    /\ UNCHANGED <<account, otp, link, mailed, proof, raced>>

\* EmailVerifyRequestView: refused when the account, as loaded, is verified or another
\* verified account has the address.
AskLink(r, p, e) ==
    /\ account[p].state = "active" /\ ~account[p].verified
    /\ \A q \in Holder(e) : ~account[q].verified \/ account[q].state = "deleted"
    /\ Arrives(r, [New EXCEPT !.op = "relink", !.step = "save", !.who = p, !.email = e])
    /\ Cross(r, p, "relink")
    /\ UNCHANGED <<account, otp, link, mailed, proof, raced>>

\* The unique index refuses an address another account has.
SaveAddress(r) ==
    LET p == call[r].who  e == call[r].email IN
    /\ call[r].op = "relink" /\ call[r].step = "save"
    /\ IF Holder(e) \subseteq {p}
       THEN account' = [account EXCEPT ![p].email = e] /\ Go(r, "cache")
       ELSE UNCHANGED account /\ Answer(r)
    /\ UNCHANGED <<otp, link, mailed, proof, crossed, raced>>

CacheToken(r) ==
    /\ call[r].op = "relink" /\ call[r].step = "cache"
    /\ link' = [link EXCEPT ![call[r].who] = [by |-> r, to |-> call[r].email]]
    /\ Go(r, "send")
    /\ UNCHANGED <<account, otp, mailed, proof, crossed, raced>>

\* The mail may also fail to be sent.
SendLink(r) ==
    /\ call[r].op = "relink" /\ call[r].step = "send"
    /\ \/ mailed' = mailed \cup {[by |-> r, to |-> call[r].email]}
       \/ UNCHANGED mailed
    /\ Answer(r)
    /\ UNCHANGED <<account, otp, link, proof, crossed, raced>>

LinkExpires(p) ==
    /\ link[p] # NoToken
    /\ link' = [link EXCEPT ![p] = NoToken]
    /\ UNCHANGED <<account, otp, mailed, call, proof, crossed, raced>>

\* EmailVerifyConfirmView loads the account ...
FollowLink(r, p) ==
    /\ account[p].state = "active" /\ ~account[p].verified
    /\ Arrives(r, [New EXCEPT !.op = "confirm", !.step = "match", !.who = p])
    /\ Cross(r, p, "confirm")
    /\ UNCHANGED <<account, otp, link, mailed, proof, raced>>

\* ... and compares a token that arrived with the one in the cache, which stays there.
MatchToken(r) ==
    LET token == link[call[r].who] IN
    /\ call[r].op = "confirm" /\ call[r].step = "match"
    /\ IF token \in mailed
       THEN call' = [call EXCEPT ![r].step = "save", ![r].email = token.to]
       ELSE Answer(r)
    /\ UNCHANGED <<account, otp, link, mailed, proof, crossed, raced>>

IdentityNext ==
    \/ \E p \in People :
           \/ SetStatus(p) \/ DeleteAccount(p) \/ AdminDeleteUser(p) \/ LinkExpires(p)
           \/ \E e \in Inboxes : Register(p, e)
    \/ \E c \in OtpIds : ExpireCode(c)
    \/ \E r \in Calls :
           \/ \E e \in Inboxes : AskCode(r, e)
           \/ CreateCode(r) \/ SendCode(r) \/ DropCode(r) \/ CutOff(r)
           \/ \E c \in OtpIds, op \in {"verify", "reset"} : PresentCode(r, c, op)
           \/ SpendCode(r) \/ FindAccount(r) \/ SaveVerified(r)
           \/ SaveAddress(r) \/ CacheToken(r) \/ SendLink(r) \/ MatchToken(r)
           \/ \E p \in People :
                  \/ CreateAccount(r, p) \/ FollowLink(r, p)
                  \/ \E e \in Inboxes : AskLink(r, p, e)

IdentitySpec == IdentityInit /\ [][IdentityNext]_identityVars

-----------------------------------------------------------------------------
IdentityTypeOK ==
    /\ account \in [People -> Account]
    /\ otp \in [OtpIds -> Otp]
    /\ link \in [People -> Token]
    /\ mailed \subseteq Token
    /\ call \in [Calls -> Call]
    /\ proof \in [People -> SUBSET Inboxes]
    /\ crossed \subseteq People
    /\ raced \subseteq Inboxes

\* A verified account has an address whose mail was read, through a code or a link,
\* to verify it: a second request for a link, its expiry, a reset or a reused code
\* cannot leave an account verified under an address nobody proved.  The exception is
\* an account whose address was being changed while another request verified it or
\* changed it too, or whose change was cut off.
VerifiedIsProven ==
    /\ IdentityTypeOK
    /\ \A p \in People : account[p].verified /\ p \notin crossed => account[p].email \in proof[p]

\* An inbox has one code that can be used, the last that was made, and no code lets
\* anyone in twice, unless two requests about the codes of that inbox overlapped.
OneCodePerInbox ==
    \A c \in OtpIds : otp[c].state # "none" /\ otp[c].email \notin raced =>
        /\ otp[c].accepted <= 1
        /\ otp[c].state = "live" =>
               /\ otp[c].accepted = 0
               /\ \A d \in OtpIds : d > c => otp[d].email # otp[c].email
=============================================================================
