------------------------------ MODULE MCService ------------------------------
(***************************************************************************)
(* Six components that serve staff and customers and share no state: a run *)
(* takes the steps of one of them and the others stay as they began.       *)
(***************************************************************************)
EXTENDS Operations, Identity, Reviews, PaymentTrail, Notices, Support, TLC

CONSTANTS host2, diagnosis1, diagnosis2, agent, manager, customer, low, high

VARIABLE part     \* the component that takes steps

RightsOfEach ==
    [u \in Users |-> CASE u = customer -> {}
                       [] u = agent    -> {"view_all", "reply", "view_notes", "add_note", "resolve"}
                       [] u = manager  -> Right]

\* A part that does not take steps begins in one of its states.
MCInit ==
    /\ Init /\ IdentityInit /\ ReviewInit /\ TrailInit /\ NoticeInit /\ SupportInit
    /\ part \in {"restarts", "diagnoses", "identity", "reviews", "trail", "notices", "support"}
    /\ part # "reviews" => \A a \in Authors : review[a].status = "none"
    /\ ticket.priority = low      \* the two differ in name only

\* Two hosts with one diagnosis, or two diagnoses with one host, where only the service
\* that runs them is restarted.  The diagnoses differ in name only, and with one incident the
\* first row is committed before there is a second.
OneOfEither ==
    /\ part = "restarts"  => diagnosis'[diagnosis2] = NoDiagnosis
    /\ part = "diagnoses" => /\ runner'[host2] = Idle
                             /\ \A o \in Ops : operation'[o].target \in {Worker, None}
    /\ diagnosis'[diagnosis2] # NoDiagnosis => diagnosis'[diagnosis1] # NoDiagnosis

\* One of the two accounts is suspended or deleted.
OneEnds == account'[2].state \in {"absent", "active"}

\* Two of the requests about a ticket work at once.
TwoAtOnce == Cardinality({r \in Requests : request'[r].step \notin {"new", "done"}}) <= 2

MCNext ==
    /\ UNCHANGED part
    /\ \/ /\ part \in {"restarts", "diagnoses"} /\ Next /\ OneOfEither
          /\ UNCHANGED <<identityVars, reviewVars, trailVars, noticeVars, supportVars>>
       \/ /\ part = "identity" /\ IdentityNext /\ OneEnds
          /\ UNCHANGED <<vars, reviewVars, trailVars, noticeVars, supportVars>>
       \/ /\ part = "reviews" /\ ReviewNext
          /\ UNCHANGED <<vars, identityVars, trailVars, noticeVars, supportVars>>
       \/ /\ part = "trail" /\ TrailNext
          /\ UNCHANGED <<vars, identityVars, reviewVars, noticeVars, supportVars>>
       \/ /\ part = "notices" /\ NoticeNext
          /\ UNCHANGED <<vars, identityVars, reviewVars, trailVars, supportVars>>
       \/ /\ part = "support" /\ SupportNext /\ TwoAtOnce
          /\ UNCHANGED <<vars, identityVars, reviewVars, trailVars, noticeVars>>

allVars == <<part, vars, identityVars, reviewVars, trailVars, noticeVars, supportVars>>
MCSpec == MCInit /\ [][MCNext]_allVars

Symmetry == Permutations(Inboxes)
=============================================================================
