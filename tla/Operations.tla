----------------------------- MODULE Operations -----------------------------
(***************************************************************************)
(* The control plane of observability.  Staff ask for a restart of a       *)
(* service, a second person approves, and a runner on the host, which only *)
(* talks to the database through claim and complete, carries it out.       *)
(* Staff also ask for AI diagnoses of incidents, which a Celery worker     *)
(* obtains from a provider; restarting the worker interrupts it.           *)
(*                                                                         *)
(* Anything may stop anywhere: a runner between claim, restart and report, *)
(* a web worker before it has queued a task it promised, a Celery worker   *)
(* during the provider's call.  A task may be queued although the broker   *)
(* raised an error, and may be delivered again.                            *)
(***************************************************************************)
EXTENDS Naturals, FiniteSets

CONSTANTS
    Operators, Approvers,   \* staff with the permission to request, to approve
    Targets, SafeTargets,   \* services; those the runner's own list allows
    Worker,                 \* the service that runs Celery tasks
    Ops,                    \* ids of operations
    Hosts,                  \* hosts with a runner
    Incidents,
    Diagnoses,              \* ids of diagnoses
    DailyLimit,             \* diagnoses a user may ask for in a day
    None

ASSUME OperationsAssumption ==
    /\ SafeTargets \subseteq Targets /\ Worker \in Targets
    /\ None \notin Operators \cup Approvers \cup Targets \cup Ops \cup Hosts \cup Incidents
    /\ DailyLimit \in Nat

VARIABLES
    operation,   \* InfrastructureOperation
    runner,      \* the process on each host
    restarts,    \* history: restarts carried out for each operation
    diagnosis,   \* AIDiagnosis
    queue,       \* diagnoses with a task in the broker
    task,        \* the worker's process for each diagnosis
    calls        \* history: calls made to the provider for each diagnosis

opVars == <<operation, runner, restarts>>
aiVars == <<diagnosis, queue, task, calls>>
vars == <<opVars, aiVars>>

Finished == {"rejected", "cancelled", "expired", "succeeded", "failed"}

OperationRow ==
    [status : {"none", "pending", "approved", "running"} \cup Finished,
     target : Targets \cup {None}, requester : Operators \cup {None},
     approver : Approvers \cup {None}, late : BOOLEAN, token : Hosts \cup {None}]

RunnerRow ==
    [step : {"idle", "polled", "claimed", "done"}, busy : SUBSET Targets,
     op : Ops \cup {None}, outcome : {"succeeded", "failed"}]

\* "opening" is a row whose transaction has not been committed; queuing is what
\* the web worker still has to do for the row once it has.
DiagnosisRow ==
    [status : {"none", "opening", "queued", "running", "succeeded", "failed"},
     incident : Incidents \cup {None}, user : Operators \cup {None},
     age : {"fresh", "today", "old"}, queuing : {"no", "due", "raised"},
     response : {"none", "report", "unavailable", "unsent"}]

Idle == [step |-> "idle", busy |-> {}, op |-> None, outcome |-> "failed"]
NoOperation ==
    [status |-> "none", target |-> None, requester |-> None, approver |-> None,
     late |-> FALSE, token |-> None]
NoDiagnosis ==
    [status |-> "none", incident |-> None, user |-> None, age |-> "fresh",
     queuing |-> "no", response |-> "none"]

Init ==
    /\ operation = [o \in Ops |-> NoOperation]
    /\ runner = [h \in Hosts |-> Idle]
    /\ restarts = [o \in Ops |-> 0]
    /\ diagnosis = [d \in Diagnoses |-> NoDiagnosis]
    /\ queue = {}
    /\ task = [d \in Diagnoses |-> "none"]
    /\ calls = [d \in Diagnoses |-> 0]

----------------------------------------------------------------------------
(* Requests for restarts. *)

Decide(o, status) ==
    /\ operation' = [operation EXCEPT ![o].status = status]
    /\ UNCHANGED <<runner, restarts, aiVars>>

Request(u, o, t) ==
    /\ operation[o].status = "none"
    /\ operation' = [operation EXCEPT ![o] =
            [NoOperation EXCEPT !.status = "pending", !.target = t, !.requester = u]]
    /\ UNCHANGED <<runner, restarts, aiVars>>

\* Thirty minutes pass.
PassDeadline(o) ==
    /\ operation[o].status \in {"pending", "approved"}
    /\ ~ operation[o].late
    /\ operation' = [operation EXCEPT ![o].late = TRUE]
    /\ UNCHANGED <<runner, restarts, aiVars>>

Approve(u, o) ==
    /\ operation[o].status = "pending"
    /\ ~ operation[o].late
    /\ operation[o].requester # u
    /\ operation' = [operation EXCEPT ![o].status = "approved", ![o].approver = u]
    /\ UNCHANGED <<runner, restarts, aiVars>>

ApproveTooLate(o) == operation[o].status = "pending" /\ operation[o].late /\ Decide(o, "expired")
Reject(o) == operation[o].status = "pending" /\ Decide(o, "rejected")

CancelOp(u, o) ==
    /\ operation[o].requester = u \/ u \in Approvers
    /\ operation[o].status \in {"pending", "approved"}
    /\ Decide(o, "cancelled")

----------------------------------------------------------------------------
(* The runner: one process at a time on each host, which a file lock sees to. *)

\* The targets of running operations, read before any row is locked.
Poll(h) ==
    /\ runner[h].step = "idle"
    /\ runner' = [runner EXCEPT ![h] = [Idle EXCEPT !.step = "polled",
            !.busy = {operation[o].target : o \in {p \in Ops : operation[p].status = "running"}}]]
    /\ UNCHANGED <<operation, restarts, aiVars>>

\* The bridge takes the oldest operation it may; the age of rows is left open.
Claim(h, o) ==
    /\ runner[h].step = "polled"
    /\ operation[o].status = "approved"
    /\ ~ operation[o].late
    /\ operation[o].target \in SafeTargets \ runner[h].busy
    /\ operation[o].approver \notin {None, operation[o].requester}
    /\ operation' = [operation EXCEPT ![o].status = "running", ![o].token = h]
    /\ runner' = [runner EXCEPT ![h].step = "claimed", ![h].op = o]
    /\ UNCHANGED <<restarts, aiVars>>

\* Docker restarts the service, which may fail or not come up again.  Tasks of a
\* worker that is restarted are lost.
Restart(h) ==
    LET o == runner[h].op
    IN /\ runner[h].step = "claimed"
       /\ restarts' = [restarts EXCEPT ![o] = @ + 1]
       /\ \E outcome \in {"succeeded", "failed"} :
            runner' = [runner EXCEPT ![h].step = "done", ![h].outcome = outcome]
       /\ task' = IF operation[o].target = Worker THEN [d \in Diagnoses |-> "none"] ELSE task
       /\ UNCHANGED <<operation, diagnosis, queue, calls>>

\* The service is not a single running container.
Refuse(h) ==
    /\ runner[h].step = "claimed"
    /\ runner' = [runner EXCEPT ![h].step = "done", ![h].outcome = "failed"]
    /\ UNCHANGED <<operation, restarts, aiVars>>

\* Mutant: the token decides alone, and is not cleared.
MutReport(h) ==
    LET o == runner[h].op
    IN /\ runner[h].step = "done"
       /\ operation' = [operation EXCEPT ![o].status = runner[h].outcome]
       /\ runner' = [runner EXCEPT ![h] = Idle]
       /\ UNCHANGED <<restarts, aiVars>>

Report(h) ==
    LET o == runner[h].op
    IN /\ runner[h].step = "done"
       /\ operation[o].status = "running" /\ operation[o].token = h
       /\ operation' = [operation EXCEPT ![o].status = runner[h].outcome, ![o].token = None]
       /\ runner' = [runner EXCEPT ![h] = Idle]
       /\ UNCHANGED <<restarts, aiVars>>

\* There was nothing to claim, an answer of the database got lost, the report
\* was refused, or the runner is killed.
Stop(h) ==
    /\ runner[h].step # "idle"
    /\ runner' = [runner EXCEPT ![h] = Idle]
    /\ UNCHANGED <<operation, restarts, aiVars>>

\* A person gives up an operation that has been running for ten minutes, be the
\* runner dead or only slow.
Reconcile(o) ==
    /\ operation[o].status = "running"
    /\ operation' = [operation EXCEPT ![o].status = "failed", ![o].token = None]
    /\ UNCHANGED <<runner, restarts, aiVars>>

----------------------------------------------------------------------------
(* Diagnoses. *)

Committed(d) == diagnosis[d].status \notin {"none", "opening"}

\* Mutant: a failed diagnosis does not count.
MutRecent(i) ==
    {d \in Diagnoses : diagnosis[d].status \in {"queued", "running", "succeeded"}
                        /\ diagnosis[d].incident = i /\ diagnosis[d].age = "fresh"}

\* Those of an incident within ten minutes, those of a user within a day.
Recent(i) ==
    {d \in Diagnoses : Committed(d) /\ diagnosis[d].incident = i /\ diagnosis[d].age = "fresh"}
Today(u) ==
    {d \in Diagnoses : Committed(d) /\ diagnosis[d].user = u /\ diagnosis[d].age # "old"}

\* Diagnose locks the incident, checks and inserts; other transactions see the
\* row when it is committed.
Diagnose(u, d, i) ==
    /\ diagnosis[d].status = "none"
    /\ \A e \in Diagnoses : diagnosis[e].status = "opening" => diagnosis[e].incident # i
    /\ Recent(i) = {}
    /\ Cardinality(Today(u)) < DailyLimit
    /\ diagnosis' = [diagnosis EXCEPT ![d] =
            [NoDiagnosis EXCEPT !.status = "opening", !.incident = i, !.user = u]]
    /\ UNCHANGED <<opVars, queue, task, calls>>

CommitDiagnosis(d) ==
    /\ diagnosis[d].status = "opening"
    /\ diagnosis' = [diagnosis EXCEPT ![d].status = "queued", ![d].queuing = "due"]
    /\ UNCHANGED <<opVars, queue, task, calls>>

\* The web worker dies: the row is gone, or stays queued without a task.
WebWorkerDies(d) ==
    /\ \/ diagnosis[d].status = "opening" /\ diagnosis' = [diagnosis EXCEPT ![d] = NoDiagnosis]
       \/ diagnosis[d].queuing # "no" /\ diagnosis' = [diagnosis EXCEPT ![d].queuing = "no"]
    /\ UNCHANGED <<opVars, queue, task, calls>>

\* The on_commit callback queues the task.  The broker may raise an error, also
\* after it has taken the task.
Enqueue(d) ==
    /\ diagnosis[d].queuing = "due"
    /\ \/ /\ queue' = queue \cup {d}
          /\ diagnosis' = [diagnosis EXCEPT ![d].queuing = "no"]
       \/ /\ queue' \in {queue, queue \cup {d}}
          /\ diagnosis' = [diagnosis EXCEPT ![d].queuing = "raised"]
    /\ UNCHANGED <<opVars, task, calls>>

\* Mutant: the error of the broker decides whatever became of the task.
MutMarkUnsent(d) ==
    /\ diagnosis[d].queuing = "raised"
    /\ diagnosis' = [diagnosis EXCEPT ![d].queuing = "no", ![d].status = "failed",
                                      ![d].response = "unsent"]
    /\ UNCHANGED <<opVars, queue, task, calls>>

\* "AI worker queue unavailable. No provider call was made."
MarkUnsent(d) ==
    /\ diagnosis[d].queuing = "raised"
    /\ diagnosis' = [diagnosis EXCEPT ![d] =
            IF @.status = "queued"
            THEN [@ EXCEPT !.queuing = "no", !.status = "failed", !.response = "unsent"]
            ELSE [@ EXCEPT !.queuing = "no"]]
    /\ UNCHANGED <<opVars, queue, task, calls>>

\* A task is delivered, for the last time or not, and runs once for a diagnosis.
StartTask(d) ==
    /\ d \in queue
    /\ queue' \in {queue, queue \ {d}}
    /\ diagnosis[d].status = "queued"
    /\ diagnosis' = [diagnosis EXCEPT ![d].status = "running"]
    /\ task' = [task EXCEPT ![d] = "started"]
    /\ UNCHANGED <<opVars, calls>>

\* The provider is asked, unless ask_ai_diagnosis refuses before that.
CallProvider(d) ==
    /\ task[d] = "started"
    /\ task' = [task EXCEPT ![d] = "calling"]
    /\ calls' = [calls EXCEPT ![d] = @ + 1]
    /\ UNCHANGED <<opVars, diagnosis, queue>>

IgnoreTask(d) ==
    /\ d \in queue
    /\ diagnosis[d].status # "queued"
    /\ queue' = queue \ {d}
    /\ UNCHANGED <<opVars, diagnosis, task, calls>>

\* The provider answers, or the call was refused, failed or took too long.
EndTask(d) ==
    LET End(status, response) ==
            diagnosis' = [diagnosis EXCEPT ![d] =
                IF @.status = "running" THEN [@ EXCEPT !.status = status, !.response = response]
                ELSE @]
    IN /\ task[d] # "none"
       /\ task' = [task EXCEPT ![d] = "none"]
       /\ \/ task[d] = "calling" /\ End("succeeded", "report")
          \/ End("failed", "unavailable")
       /\ UNCHANGED <<opVars, queue, calls>>

\* The task's process is killed, for its hard time limit or with the worker.
KillTask(d) ==
    /\ task[d] # "none"
    /\ task' = [task EXCEPT ![d] = "none"]
    /\ UNCHANGED <<opVars, diagnosis, queue, calls>>

\* Ten minutes pass, and then the rest of the day.
Age(d) ==
    /\ Committed(d)
    /\ diagnosis[d].age # "old"
    /\ diagnosis' = [diagnosis EXCEPT ![d].age = IF @ = "fresh" THEN "today" ELSE "old"]
    /\ UNCHANGED <<opVars, queue, task, calls>>

----------------------------------------------------------------------------
OperationNext ==
    \/ \E o \in Ops :
        \/ \E u \in Operators : CancelOp(u, o) \/ \E t \in Targets : Request(u, o, t)
        \/ \E u \in Approvers : Approve(u, o)
        \/ PassDeadline(o) \/ ApproveTooLate(o) \/ Reject(o) \/ Reconcile(o)
        \/ \E h \in Hosts : Claim(h, o)
    \/ \E h \in Hosts : Poll(h) \/ Restart(h) \/ Refuse(h) \/ Report(h) \/ Stop(h)

DiagnosisNext ==
    \E d \in Diagnoses :
        \/ \E u \in Operators, i \in Incidents : Diagnose(u, d, i)
        \/ CommitDiagnosis(d) \/ WebWorkerDies(d) \/ Enqueue(d) \/ MarkUnsent(d)
        \/ StartTask(d) \/ IgnoreTask(d) \/ CallProvider(d) \/ EndTask(d) \/ KillTask(d)
        \/ Age(d)

Next == OperationNext \/ DiagnosisNext

Spec == Init /\ [][Next]_vars

----------------------------------------------------------------------------
(* Properties. *)

TypeOK ==
    /\ operation \in [Ops -> OperationRow]
    /\ runner \in [Hosts -> RunnerRow]
    /\ restarts \in [Ops -> Nat]
    /\ diagnosis \in [Diagnoses -> DiagnosisRow]
    /\ queue \subseteq Diagnoses
    /\ task \in [Diagnoses -> {"none", "started", "calling"}]
    /\ calls \in [Diagnoses -> Nat]

\* Whatever runners crash, lose answers or are given up on: a service is restarted
\* at most once for an operation, for one that two people wanted and nobody had
\* withdrawn, and success is reported only of a restart.
RestartsAreApproved ==
    \A o \in Ops :
        /\ restarts[o] <= 1
        /\ restarts[o] = 1 =>
            /\ operation[o].status \in {"running", "succeeded", "failed"}
            /\ operation[o].approver \notin {None, operation[o].requester}
            /\ operation[o].target \in SafeTargets
        /\ operation[o].status = "succeeded" => restarts[o] = 1

\* A step that leaves finished operations as they are.
KeepsDecisions ==
    \A o \in Ops : operation[o].status \in Finished => operation'[o] = operation[o]

\* What was decided about an operation stays, also against a runner that reports
\* after somebody gave it up.
DecisionsAreFinal == [][KeepsDecisions]_vars

\* Whatever step is taken, a restart had its decision, and the decision stays.
RestartsAreDecided == [][RestartsAreApproved' /\ KeepsDecisions]_vars

\* The provider is called at most once for a diagnosis, has been if there is a
\* report, and never was if the row says that no call was made.
ProviderCalledOnce ==
    \A d \in Diagnoses :
        /\ calls[d] <= 1
        /\ diagnosis[d].response = "report" => calls[d] = 1
        /\ diagnosis[d].response = "unsent" => calls[d] = 0 /\ task[d] = "none"

\* "One diagnosis per incident every ten minutes."
CooldownHolds ==
    \A d, e \in Diagnoses :
        /\ Committed(d) /\ diagnosis[d].age = "fresh"
        /\ Committed(e) /\ diagnosis[e].age = "fresh"
        /\ diagnosis[d].incident = diagnosis[e].incident
        => d = e
=============================================================================
