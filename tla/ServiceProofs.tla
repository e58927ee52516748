---------------------------- MODULE ServiceProofs -----------------------------
(***************************************************************************)
(* What holds of the desk and of the machine room, for any number of     *)
(* staff, hosts, operations, diagnoses, requests, attempts and notices.  *)
(*                                                                       *)
(* The invariant of Operations has a part for restarts and a part for    *)
(* diagnoses.  Only a restart touches both, since it empties the worker, *)
(* and each part is preserved by the steps of the other, so the proof    *)
(* treats them apart.  A ticket and its audit trail, a user's            *)
(* notifications and the events of a payment are written in several      *)
(* statements without a lock: those proofs say what holds as long as no  *)
(* two requests touched the same part at once and none was cut off.      *)
(***************************************************************************)
EXTENDS Operations, Support, PaymentTrail, Notices, Reviews, SumTheorems
-------------------------------------------------------------------------------
\* Restarts and diagnoses (Operations).

RestartTypes ==
    /\ operation \in [Ops -> OperationRow]
    /\ runner \in [Hosts -> RunnerRow]
    /\ restarts \in [Ops -> Nat]

DiagnosisTypes ==
    /\ diagnosis \in [Diagnoses -> DiagnosisRow]
    /\ queue \subseteq Diagnoses
    /\ task \in [Diagnoses -> {"none", "started", "calling"}]
    /\ calls \in [Diagnoses -> Nat]

Engaged(h) == runner[h].step \in {"claimed", "done"}

\* A runner works for the operation it has claimed until it has reported, or
\* somebody has given the operation up, and no two runners for the same.
RunnersAgree ==
    \A h \in Hosts : Engaged(h) =>
        /\ runner[h].op \in Ops
        /\ operation[runner[h].op].status \in {"running", "failed"}
        /\ runner[h].step = "claimed" => restarts[runner[h].op] = 0
        /\ runner[h].step = "done" /\ runner[h].outcome = "succeeded"
                => restarts[runner[h].op] = 1
        /\ \A g \in Hosts : Engaged(g) /\ runner[g].op = runner[h].op => g = h

\* What the status of an operation says about its approval and its restarts.
RowsAgree ==
    \A o \in Ops :
        /\ operation[o].status \in {"approved", "running", "succeeded", "failed"} =>
                operation[o].approver \in Approvers \ {operation[o].requester}
        /\ operation[o].status \in {"running", "succeeded", "failed"} =>
                operation[o].target \in SafeTargets
        /\ operation[o].status \notin {"running", "succeeded", "failed"} => restarts[o] = 0
        /\ restarts[o] \in {0, 1}
        /\ operation[o].status = "succeeded" => restarts[o] = 1

RestartInv == RestartTypes /\ RunnersAgree /\ RowsAgree

\* What the status of a diagnosis says about calls to the provider.
CallsAgree ==
    \A d \in Diagnoses :
        /\ diagnosis[d].status \in {"none", "opening", "queued"} =>
                calls[d] = 0 /\ diagnosis[d].response = "none"
        /\ task[d] # "none" => diagnosis[d].status = "running"
        /\ task[d] = "started" => calls[d] = 0
        /\ task[d] = "calling" => calls[d] = 1
        /\ diagnosis[d].status = "running" => diagnosis[d].response = "none"
        /\ calls[d] \in {0, 1}
        /\ diagnosis[d].response = "report" => calls[d] = 1
        /\ diagnosis[d].response = "unsent" => calls[d] = 0

\* An incident has one fresh diagnosis, committed or not.
OneFresh ==
    \A d, e \in Diagnoses :
        /\ diagnosis[d].status # "none" /\ diagnosis[d].age = "fresh"
        /\ diagnosis[e].status # "none" /\ diagnosis[e].age = "fresh"
        /\ diagnosis[d].incident = diagnosis[e].incident
        => d = e

DiagnosisInv == DiagnosisTypes /\ CallsAgree /\ OneFresh

IInv == RestartInv /\ DiagnosisInv

LEMMA InitHolds == Init => IInv
<1> SUFFICES ASSUME Init PROVE IInv
  OBVIOUS
<1>1. NoOperation \in OperationRow /\ Idle \in RunnerRow /\ NoDiagnosis \in DiagnosisRow
  BY DEF NoOperation, OperationRow, Idle, RunnerRow, NoDiagnosis, DiagnosisRow
<1>2. RestartTypes /\ DiagnosisTypes
  BY <1>1 DEF Init, RestartTypes, DiagnosisTypes
<1>3. RunnersAgree /\ RowsAgree
  BY DEF Init, RunnersAgree, RowsAgree, Engaged, Idle, NoOperation
<1>4. CallsAgree /\ OneFresh
  BY DEF Init, CallsAgree, OneFresh, NoDiagnosis
<1> QED BY <1>2, <1>3, <1>4 DEF IInv, RestartInv, DiagnosisInv

----------------------------------------------------------------------------
(* Restarts. *)

\* A step that decides about an operation nobody runs leaves the runners alone.
LEMMA RequestsKeepRestarts ==
    ASSUME RestartInv, NEW o \in Ops,
           \/ \E u \in Operators : CancelOp(u, o) \/ \E t \in Targets : Request(u, o, t)
           \/ \E u \in Approvers : Approve(u, o)
           \/ PassDeadline(o) \/ ApproveTooLate(o) \/ Reject(o)
    PROVE  RestartInv'
<1> USE DEF RestartInv, RestartTypes
<1>1. /\ UNCHANGED <<runner, restarts>>
      /\ operation[o].status \in {"none", "pending", "approved"}
      /\ \A p \in Ops : p # o => operation'[p] = operation[p]
      /\ operation' \in [Ops -> OperationRow]
      /\ operation'[o].status \in {"pending", "approved", "cancelled", "expired", "rejected"}
      /\ operation'[o].status = "approved" =>
            operation'[o].approver \in Approvers \ {operation'[o].requester}
  <2>1. CASE \E u \in Operators : CancelOp(u, o)
    <3>1. /\ operation[o].status \in {"pending", "approved"}
          /\ operation' = [operation EXCEPT ![o] = [operation[o] EXCEPT !.status = "cancelled"]]
          /\ UNCHANGED <<runner, restarts>>
      BY <2>1 DEF CancelOp, Decide
    <3> DEFINE row == [operation[o] EXCEPT !.status = "cancelled"]
    <3>2. row \in OperationRow /\ row.status = "cancelled"
      BY DEF OperationRow, Finished
    <3>3. operation' = [operation EXCEPT ![o] = row]
      BY <3>1
    <3> HIDE DEF row
    <3> QED BY <3>1, <3>2, <3>3
  <2>2. CASE \E u \in Operators, t \in Targets : Request(u, o, t)
    <3> DEFINE row(u, t) == [NoOperation EXCEPT !.status = "pending", !.target = t, !.requester = u]
    <3>1. PICK u \in Operators, t \in Targets : Request(u, o, t)
      BY <2>2
    <3>2. row(u, t) \in OperationRow /\ row(u, t).status = "pending"
      BY DEF OperationRow, NoOperation
    <3>3. /\ operation[o].status = "none"
          /\ operation' = [operation EXCEPT ![o] = row(u, t)]
          /\ UNCHANGED <<runner, restarts>>
      BY <3>1 DEF Request
    <3> HIDE DEF row
    <3> QED BY <3>2, <3>3
  <2>3. CASE \E u \in Approvers : Approve(u, o)
    <3>1. PICK u \in Approvers : Approve(u, o)
      BY <2>3
    <3>2. /\ operation[o].status = "pending" /\ operation[o].requester # u
          /\ operation' = [operation EXCEPT ![o] =
                [operation[o] EXCEPT !.status = "approved", !.approver = u]]
          /\ UNCHANGED <<runner, restarts>>
      BY <3>1 DEF Approve
    <3>3. /\ [operation[o] EXCEPT !.status = "approved", !.approver = u] \in OperationRow
          /\ operation'[o].approver = u /\ operation'[o].requester = operation[o].requester
          /\ operation'[o].status = "approved"
      BY <3>2 DEF OperationRow
    <3> QED BY <3>2, <3>3
  <2>4. CASE PassDeadline(o)
    <3> DEFINE row == [operation[o] EXCEPT !.late = TRUE]
    <3>1. /\ row \in OperationRow /\ row.status = operation[o].status
          /\ row.approver = operation[o].approver /\ row.requester = operation[o].requester
      BY DEF OperationRow
    <3>2. /\ operation' = [operation EXCEPT ![o] = row]
          /\ operation[o].status \in {"pending", "approved"}
          /\ UNCHANGED <<runner, restarts>>
      BY <2>4 DEF PassDeadline
    <3> HIDE DEF row
    <3> QED BY <3>1, <3>2 DEF RowsAgree
  <2>5. CASE ApproveTooLate(o) \/ Reject(o)
    BY <2>5 DEF ApproveTooLate, Reject, Decide, OperationRow, Finished
  <2> QED BY <2>1, <2>2, <2>3, <2>4, <2>5
<1>2. RunnersAgree'
  BY <1>1 DEF RunnersAgree, Engaged
<1>3. RowsAgree'
  BY <1>1 DEF RowsAgree
<1> QED BY <1>1, <1>2, <1>3

\* A claim makes a runner the only one for an approved operation.
LEMMA ClaimKeepsRestarts ==
    ASSUME RestartInv, NEW h \in Hosts, NEW o \in Ops, Claim(h, o)
    PROVE  RestartInv'
<1> USE DEF RestartInv, RestartTypes
<1>1. /\ operation' \in [Ops -> OperationRow]
      /\ operation'[o] = [operation[o] EXCEPT !.status = "running", !.token = h]
      /\ \A p \in Ops : p # o => operation'[p] = operation[p]
      /\ UNCHANGED restarts
      /\ operation[o].status = "approved"
      /\ operation[o].target \in SafeTargets
  <2>1. /\ operation' = [operation EXCEPT ![o] =
                [operation[o] EXCEPT !.status = "running", !.token = h]]
        /\ UNCHANGED restarts
        /\ operation[o].status = "approved" /\ operation[o].target \in SafeTargets
    BY DEF Claim
  <2>2. [operation[o] EXCEPT !.status = "running", !.token = h] \in OperationRow
    BY DEF OperationRow
  <2> QED BY <2>1, <2>2
<1>2. /\ runner' \in [Hosts -> RunnerRow]
      /\ runner'[h].step = "claimed" /\ runner'[h].op = o
      /\ \A g \in Hosts : g # h => runner'[g] = runner[g]
  BY ZenonT(60) DEF Claim, RunnerRow
<1>3. \A g \in Hosts : Engaged(g) => runner[g].op # o
  BY <1>1 DEF RunnersAgree
<1>4. restarts[o] = 0
  BY <1>1 DEF RowsAgree
<1>5. operation'[o].status = "running"
  BY <1>1 DEF OperationRow
<1>6. RunnersAgree'
  <2> SUFFICES ASSUME NEW g \in Hosts, Engaged(g)'
               PROVE  /\ runner'[g].op \in Ops
                      /\ operation'[runner'[g].op].status \in {"running", "failed"}
                      /\ runner'[g].step = "claimed" => restarts'[runner'[g].op] = 0
                      /\ runner'[g].step = "done" /\ runner'[g].outcome = "succeeded"
                            => restarts'[runner'[g].op] = 1
                      /\ \A f \in Hosts : Engaged(f)' /\ runner'[f].op = runner'[g].op => f = g
    BY DEF RunnersAgree
  <2>1. CASE g = h
    BY <1>1, <1>2, <1>3, <1>4, <1>5, <2>1 DEF Engaged
  <2>2. CASE g # h
    BY <1>1, <1>2, <1>3, <2>2 DEF RunnersAgree, Engaged
  <2> QED BY <2>1, <2>2
<1>7. RowsAgree'
  <2>1. /\ operation'[o].approver = operation[o].approver
        /\ operation'[o].requester = operation[o].requester
        /\ operation'[o].target = operation[o].target
    BY <1>1 DEF OperationRow
  <2> QED BY ZenonT(60), <1>1, <1>4, <1>5, <2>1 DEF RowsAgree
<1> QED BY <1>1, <1>2, <1>6, <1>7

\* The restart is the first for its operation.
LEMMA RestartKeepsRestarts ==
    ASSUME RestartInv, NEW h \in Hosts, Restart(h)
    PROVE  RestartInv'
<1> USE DEF RestartInv, RestartTypes
<1> DEFINE o == runner[h].op
<1>1. /\ o \in Ops /\ operation[o].status \in {"running", "failed"} /\ restarts[o] = 0
      /\ \A g \in Hosts : Engaged(g) /\ runner[g].op = o => g = h
  BY DEF Restart, RunnersAgree, Engaged
<1>2. /\ UNCHANGED operation
      /\ restarts' \in [Ops -> Nat]
      /\ restarts'[o] = 1
      /\ \A p \in Ops : p # o => restarts'[p] = restarts[p]
  BY <1>1 DEF Restart
<1>3. /\ runner' \in [Hosts -> RunnerRow]
      /\ runner'[h].step = "done" /\ runner'[h].op = o
      /\ \A g \in Hosts : g # h => runner'[g] = runner[g]
  <2>1. PICK outcome \in {"succeeded", "failed"} :
            runner' = [runner EXCEPT ![h] =
                [runner[h] EXCEPT !.step = "done", !.outcome = outcome]]
    BY DEF Restart
  <2>2. /\ [runner[h] EXCEPT !.step = "done", !.outcome = outcome] \in RunnerRow
        /\ [runner[h] EXCEPT !.step = "done", !.outcome = outcome].op = o
        /\ [runner[h] EXCEPT !.step = "done", !.outcome = outcome].step = "done"
    BY DEF RunnerRow
  <2> QED BY <2>1, <2>2
<1> HIDE DEF o
<1>4. RunnersAgree'
  <2> SUFFICES ASSUME NEW g \in Hosts, Engaged(g)'
               PROVE  /\ runner'[g].op \in Ops
                      /\ operation'[runner'[g].op].status \in {"running", "failed"}
                      /\ runner'[g].step = "claimed" => restarts'[runner'[g].op] = 0
                      /\ runner'[g].step = "done" /\ runner'[g].outcome = "succeeded"
                            => restarts'[runner'[g].op] = 1
                      /\ \A f \in Hosts : Engaged(f)' /\ runner'[f].op = runner'[g].op => f = g
    BY DEF RunnersAgree
  <2>1. CASE g = h
    BY <1>1, <1>2, <1>3, <2>1 DEF Engaged
  <2>2. CASE g # h
    <3>1. Engaged(g) /\ runner[g].op # o
      BY <1>1, <1>3, <2>2 DEF Engaged
    <3> QED BY <1>2, <1>3, <2>2, <3>1 DEF RunnersAgree, Engaged
  <2> QED BY <2>1, <2>2
<1>5. RowsAgree'
  BY <1>1, <1>2 DEF RowsAgree
<1> QED BY <1>2, <1>3, <1>4, <1>5

\* A report ends the work for the operation it is about.
LEMMA ReportKeepsRestarts ==
    ASSUME RestartInv, NEW h \in Hosts, Report(h)
    PROVE  RestartInv'
<1> USE DEF RestartInv, RestartTypes
<1> DEFINE o == runner[h].op
<1>1. /\ o \in Ops
      /\ runner[h].outcome = "succeeded" => restarts[o] = 1
      /\ \A g \in Hosts : Engaged(g) /\ runner[g].op = o => g = h
      /\ operation[o].status = "running"
  BY DEF Report, RunnersAgree, Engaged
<1>2. runner[h].outcome \in {"succeeded", "failed"}
  BY DEF RunnerRow
<1>3. /\ operation' \in [Ops -> OperationRow]
      /\ operation'[o].status = runner[h].outcome
      /\ operation'[o].approver = operation[o].approver
      /\ operation'[o].requester = operation[o].requester
      /\ operation'[o].target = operation[o].target
      /\ \A p \in Ops : p # o => operation'[p] = operation[p]
      /\ UNCHANGED restarts
  BY SMTT(30), <1>1, <1>2 DEF Report, OperationRow, Finished
<1>4. /\ runner' \in [Hosts -> RunnerRow]
      /\ runner'[h].step = "idle"
      /\ \A g \in Hosts : g # h => runner'[g] = runner[g]
  BY DEF Report, Idle, RunnerRow
<1> HIDE DEF o
<1>5. RunnersAgree'
  <2>1. \A g \in Hosts : Engaged(g)' => g # h /\ Engaged(g) /\ runner[g].op # o
    BY <1>1, <1>4 DEF Engaged
  <2> QED BY <1>3, <1>4, <2>1 DEF RunnersAgree, Engaged
<1>6. RowsAgree'
  BY <1>1, <1>2, <1>3 DEF RowsAgree
<1> QED BY <1>3, <1>4, <1>5, <1>6

\* Giving an operation up leaves its runner with one that has failed.
LEMMA ReconcileKeepsRestarts ==
    ASSUME RestartInv, NEW o \in Ops, Reconcile(o)
    PROVE  RestartInv'
<1> USE DEF RestartInv, RestartTypes
<1>1. /\ operation' \in [Ops -> OperationRow]
      /\ operation[o].status = "running"
      /\ operation'[o].status = "failed"
      /\ operation'[o].approver = operation[o].approver
      /\ operation'[o].requester = operation[o].requester
      /\ operation'[o].target = operation[o].target
      /\ \A p \in Ops : p # o => operation'[p] = operation[p]
      /\ UNCHANGED <<runner, restarts>>
  BY ZenonT(60) DEF Reconcile, OperationRow, Finished
<1>2. RunnersAgree'
  BY <1>1 DEF RunnersAgree, Engaged
<1>3. RowsAgree'
  BY <1>1 DEF RowsAgree
<1> QED BY <1>1, <1>2, <1>3

\* The other steps of a runner touch nobody else.
LEMMA RunnerStepsKeepRestarts ==
    ASSUME RestartInv, NEW h \in Hosts, Poll(h) \/ Refuse(h) \/ Stop(h)
    PROVE  RestartInv'
<1> USE DEF RestartInv, RestartTypes
<1>1. /\ UNCHANGED <<operation, restarts>>
      /\ runner' \in [Hosts -> RunnerRow]
      /\ \A g \in Hosts : g # h => runner'[g] = runner[g]
      /\ \/ runner'[h].step \in {"idle", "polled"}
         \/ /\ runner[h].step = "claimed" /\ runner'[h].op = runner[h].op
            /\ runner'[h].step = "done" /\ runner'[h].outcome = "failed"
  <2>1. CASE Poll(h)
    <3>1. {operation[o].target : o \in {p \in Ops : operation[p].status = "running"}}
            \subseteq Targets
      BY OperationsAssumption DEF RowsAgree
    <3> DEFINE busy == {operation[o].target : o \in {p \in Ops : operation[p].status = "running"}}
               row == [Idle EXCEPT !.step = "polled", !.busy = busy]
    <3>2. row \in RunnerRow /\ row.step = "polled"
      BY <3>1 DEF Idle, RunnerRow
    <3>3. runner' = [runner EXCEPT ![h] = row] /\ UNCHANGED <<operation, restarts>>
      BY <2>1 DEF Poll
    <3> HIDE DEF row
    <3> QED BY <3>2, <3>3
  <2>2. CASE Refuse(h)
    <3> DEFINE row == [runner[h] EXCEPT !.step = "done", !.outcome = "failed"]
    <3>1. /\ row \in RunnerRow /\ row.step = "done" /\ row.outcome = "failed"
          /\ row.op = runner[h].op
      BY DEF RunnerRow
    <3>2. runner' = [runner EXCEPT ![h] = row] /\ runner[h].step = "claimed"
          /\ UNCHANGED <<operation, restarts>>
      BY <2>2 DEF Refuse
    <3> HIDE DEF row
    <3> QED BY <3>1, <3>2
  <2>3. CASE Stop(h)
    BY <2>3 DEF Stop, Idle, RunnerRow
  <2> QED BY <2>1, <2>2, <2>3
<1>2. \A g \in Hosts : Engaged(g)' =>
        /\ Engaged(g) /\ runner'[g].op = runner[g].op
        /\ runner'[g].step = "claimed" => runner[g].step = "claimed"
        /\ runner'[g].step = "done" /\ runner'[g].outcome = "succeeded" => runner'[g] = runner[g]
  BY <1>1 DEF Engaged
<1>3. RunnersAgree'
  BY <1>1, <1>2 DEF RunnersAgree
<1>4. RowsAgree'
  BY <1>1 DEF RowsAgree
<1> QED BY <1>1, <1>3, <1>4

----------------------------------------------------------------------------
(* Diagnoses. *)

\* A step that changes one diagnosis d into a row of the same incident and age,
\* or an older one, or none, leaves an incident one fresh diagnosis.
LEMMA OneFreshKept ==
    ASSUME OneFresh, NEW d \in Diagnoses,
           \A e \in Diagnoses : e # d => diagnosis'[e] = diagnosis[e],
           diagnosis'[d].status # "none" /\ diagnosis'[d].age = "fresh" =>
                /\ diagnosis[d].status # "none" /\ diagnosis[d].age = "fresh"
                /\ diagnosis'[d].incident = diagnosis[d].incident
    PROVE  OneFresh'
<1> SUFFICES ASSUME NEW x \in Diagnoses, NEW y \in Diagnoses,
                    diagnosis'[x].status # "none", diagnosis'[x].age = "fresh",
                    diagnosis'[y].status # "none", diagnosis'[y].age = "fresh",
                    diagnosis'[x].incident = diagnosis'[y].incident
             PROVE  x = y
  BY DEF OneFresh
<1>1. ASSUME NEW e \in {x, y}
      PROVE  /\ diagnosis[e].status # "none" /\ diagnosis[e].age = "fresh"
             /\ diagnosis'[e].incident = diagnosis[e].incident
  <2>1. CASE e = d
    BY <2>1
  <2>2. CASE e # d
    BY <2>2
  <2> QED BY <2>1, <2>2
<1> QED BY <1>1 DEF OneFresh

\* The incident's lock makes the diagnosis that is opened its only fresh one.
LEMMA DiagnoseKeepsDiagnoses ==
    ASSUME DiagnosisInv, NEW u \in Operators, NEW d \in Diagnoses, NEW i \in Incidents,
           Diagnose(u, d, i)
    PROVE  DiagnosisInv'
<1> USE DEF DiagnosisInv, DiagnosisTypes
<1> DEFINE row == [NoDiagnosis EXCEPT !.status = "opening", !.incident = i, !.user = u]
<1>1. /\ row \in DiagnosisRow /\ row.status = "opening" /\ row.response = "none"
      /\ row.incident = i
  BY DEF DiagnosisRow, NoDiagnosis
<1>2. /\ diagnosis' = [diagnosis EXCEPT ![d] = row]
      /\ diagnosis[d].status = "none"
      /\ UNCHANGED <<queue, task, calls>>
  BY DEF Diagnose
<1> HIDE DEF row
<1>3. CallsAgree'
  BY <1>1, <1>2 DEF CallsAgree
<1>4. \A e \in Diagnoses :
        diagnosis[e].status # "none" /\ diagnosis[e].age = "fresh" => diagnosis[e].incident # i
  BY DEF Diagnose, Recent, Committed
<1>5. OneFresh'
  <2> SUFFICES ASSUME NEW x \in Diagnoses, NEW y \in Diagnoses,
                      diagnosis'[x].status # "none", diagnosis'[x].age = "fresh",
                      diagnosis'[y].status # "none", diagnosis'[y].age = "fresh",
                      diagnosis'[x].incident = diagnosis'[y].incident
               PROVE  x = y
    BY DEF OneFresh
  <2>1. CASE x = d \/ y = d
    BY <1>1, <1>2, <1>4, <2>1
  <2>2. CASE x # d /\ y # d
    BY <1>2, <2>2 DEF OneFresh
  <2> QED BY <2>1, <2>2
<1> QED BY <1>1, <1>2, <1>3, <1>5

\* What has to be shown of a step that gives diagnosis d another row.
LEMMA RowKeepsDiagnoses ==
    ASSUME DiagnosisInv, NEW d \in Diagnoses, NEW row \in DiagnosisRow,
           diagnosis' = [diagnosis EXCEPT ![d] = row],
           queue' \subseteq Diagnoses,
           task' \in [Diagnoses -> {"none", "started", "calling"}],
           calls' \in [Diagnoses -> Nat],
           \A e \in Diagnoses : e # d => task'[e] = task[e] /\ calls'[e] = calls[e],
           row.status \in {"none", "opening", "queued"} =>
                calls'[d] = 0 /\ row.response = "none",
           task'[d] # "none" => row.status = "running",
           task'[d] = "started" => calls'[d] = 0,
           task'[d] = "calling" => calls'[d] = 1,
           row.status = "running" => row.response = "none",
           calls'[d] \in {0, 1},
           row.response = "report" => calls'[d] = 1,
           row.response = "unsent" => calls'[d] = 0,
           row.status # "none" /\ row.age = "fresh" =>
                /\ diagnosis[d].status # "none" /\ diagnosis[d].age = "fresh"
                /\ row.incident = diagnosis[d].incident
    PROVE  DiagnosisInv'
<1> USE DEF DiagnosisInv, DiagnosisTypes
<1>1. diagnosis'[d] = row /\ \A e \in Diagnoses : e # d => diagnosis'[e] = diagnosis[e]
  OBVIOUS
<1>2. CallsAgree'
  <2> SUFFICES ASSUME NEW e \in Diagnoses
               PROVE  /\ diagnosis'[e].status \in {"none", "opening", "queued"} =>
                            calls'[e] = 0 /\ diagnosis'[e].response = "none"
                      /\ task'[e] # "none" => diagnosis'[e].status = "running"
                      /\ task'[e] = "started" => calls'[e] = 0
                      /\ task'[e] = "calling" => calls'[e] = 1
                      /\ diagnosis'[e].status = "running" => diagnosis'[e].response = "none"
                      /\ calls'[e] \in {0, 1}
                      /\ diagnosis'[e].response = "report" => calls'[e] = 1
                      /\ diagnosis'[e].response = "unsent" => calls'[e] = 0
    BY DEF CallsAgree
  <2>1. CASE e = d
    BY <1>1, <2>1
  <2>2. CASE e # d
    BY <1>1, <2>2 DEF CallsAgree
  <2> QED BY <2>1, <2>2
<1>3. OneFresh'
  BY <1>1, OneFreshKept
<1> QED BY <1>2, <1>3

\* What becomes of a row between its insertion and the broker's answer.
LEMMA QueuingKeepsDiagnoses ==
    ASSUME DiagnosisInv, NEW d \in Diagnoses,
           CommitDiagnosis(d) \/ WebWorkerDies(d) \/ Enqueue(d) \/ MarkUnsent(d)
    PROVE  DiagnosisInv'
<1> USE DEF DiagnosisInv, DiagnosisTypes
<1> DEFINE r == diagnosis[d]
           quiet == [r EXCEPT !.queuing = "no"]
           due == [r EXCEPT !.status = "queued", !.queuing = "due"]
           raised == [r EXCEPT !.queuing = "raised"]
           unsent == [r EXCEPT !.queuing = "no", !.status = "failed", !.response = "unsent"]
           To(row) == /\ diagnosis' = [diagnosis EXCEPT ![d] = row]
                      /\ UNCHANGED <<task, calls>> /\ queue' \subseteq Diagnoses
<1>1. /\ r \in DiagnosisRow
      /\ r.status \in {"none", "opening", "queued"} => calls[d] = 0 /\ r.response = "none"
      /\ task[d] # "none" => r.status = "running"
      /\ task[d] = "started" => calls[d] = 0
      /\ task[d] = "calling" => calls[d] = 1
      /\ r.status = "running" => r.response = "none"
      /\ calls[d] \in {0, 1}
      /\ r.response = "report" => calls[d] = 1
      /\ r.response = "unsent" => calls[d] = 0
  BY DEF CallsAgree
<1>2. CASE r.status = "opening" /\ To(NoDiagnosis)
  <2>1. NoDiagnosis \in DiagnosisRow /\ NoDiagnosis.status = "none" /\ NoDiagnosis.response = "none"
    BY DEF NoDiagnosis, DiagnosisRow
  <2> QED BY <1>1, <1>2, <2>1, RowKeepsDiagnoses
<1>3. CASE r.status = "opening" /\ To(due)
  <2>1. /\ due \in DiagnosisRow /\ due.status = "queued" /\ due.response = r.response
        /\ due.age = r.age /\ due.incident = r.incident
    BY <1>1 DEF DiagnosisRow
  <2> HIDE DEF due
  <2> QED BY <1>1, <1>3, <2>1, RowKeepsDiagnoses
<1>4. CASE To(quiet)
  <2>1. /\ quiet \in DiagnosisRow /\ quiet.status = r.status /\ quiet.response = r.response
        /\ quiet.age = r.age /\ quiet.incident = r.incident
    BY <1>1 DEF DiagnosisRow
  <2> HIDE DEF quiet
  <2> QED BY <1>1, <1>4, <2>1, RowKeepsDiagnoses
<1>5. CASE To(raised)
  <2>1. /\ raised \in DiagnosisRow /\ raised.status = r.status /\ raised.response = r.response
        /\ raised.age = r.age /\ raised.incident = r.incident
    BY <1>1 DEF DiagnosisRow
  <2> HIDE DEF raised
  <2> QED BY <1>1, <1>5, <2>1, RowKeepsDiagnoses
<1>6. CASE r.status = "queued" /\ To(unsent)
  <2>1. /\ unsent \in DiagnosisRow /\ unsent.status = "failed" /\ unsent.response = "unsent"
        /\ unsent.age = r.age /\ unsent.incident = r.incident
    BY <1>1 DEF DiagnosisRow
  <2> HIDE DEF unsent
  <2> QED BY <1>1, <1>6, <2>1, RowKeepsDiagnoses
<1>7. CASE CommitDiagnosis(d)
  BY <1>3, <1>7 DEF CommitDiagnosis
<1>8. CASE WebWorkerDies(d)
  BY <1>2, <1>4, <1>8 DEF WebWorkerDies
<1>9. CASE Enqueue(d)
  BY <1>4, <1>5, <1>9 DEF Enqueue
<1>10. CASE MarkUnsent(d)
  BY <1>4, <1>6, <1>10 DEF MarkUnsent
<1> QED BY <1>7, <1>8, <1>9, <1>10

\* A task runs only from a queued row, so its call is the first.
LEMMA TasksKeepDiagnoses ==
    ASSUME DiagnosisInv, NEW d \in Diagnoses,
           StartTask(d) \/ IgnoreTask(d) \/ CallProvider(d) \/ EndTask(d) \/ KillTask(d)
                \/ Age(d)
    PROVE  DiagnosisInv'
<1> USE DEF DiagnosisInv, DiagnosisTypes
<1> DEFINE r == diagnosis[d]
<1>1. /\ r \in DiagnosisRow
      /\ r.status \in {"none", "opening", "queued"} => calls[d] = 0 /\ r.response = "none"
      /\ task[d] # "none" => r.status = "running"
      /\ task[d] = "started" => calls[d] = 0
      /\ task[d] = "calling" => calls[d] = 1
      /\ r.status = "running" => r.response = "none"
      /\ calls[d] \in {0, 1}
      /\ r.response = "report" => calls[d] = 1
      /\ r.response = "unsent" => calls[d] = 0
  BY DEF CallsAgree
<1>2. CASE StartTask(d)
  <2> DEFINE row == [r EXCEPT !.status = "running"]
  <2>1. /\ row \in DiagnosisRow /\ row.status = "running" /\ row.response = r.response
        /\ row.age = r.age /\ row.incident = r.incident
    BY <1>1 DEF DiagnosisRow
  <2>2. /\ diagnosis' = [diagnosis EXCEPT ![d] = row] /\ r.status = "queued"
        /\ queue' \subseteq Diagnoses /\ task' = [task EXCEPT ![d] = "started"]
        /\ UNCHANGED calls
    BY <1>2 DEF StartTask
  <2> HIDE DEF row
  <2> QED BY <1>1, <2>1, <2>2, RowKeepsDiagnoses
<1>3. CASE IgnoreTask(d) \/ KillTask(d)
  BY <1>3 DEF IgnoreTask, KillTask, CallsAgree, OneFresh
<1>4. CASE CallProvider(d)
  <2>1. /\ task[d] = "started" /\ task' = [task EXCEPT ![d] = "calling"]
        /\ calls' = [calls EXCEPT ![d] = calls[d] + 1]
        /\ UNCHANGED <<diagnosis, queue>>
    BY <1>4 DEF CallProvider
  <2>2. /\ calls' \in [Diagnoses -> Nat] /\ calls'[d] = 1
        /\ \A e \in Diagnoses : e # d => calls'[e] = calls[e]
    BY <1>1, <2>1
  <2>3. diagnosis' = [diagnosis EXCEPT ![d] = r]
    BY <2>1
  <2> HIDE DEF r
  <2> QED BY ZenonT(60), <1>1, <2>1, <2>2, <2>3, RowKeepsDiagnoses DEF r
<1>5. CASE EndTask(d)
  <2> DEFINE succeeded == [r EXCEPT !.status = "succeeded", !.response = "report"]
             failed == [r EXCEPT !.status = "failed", !.response = "unavailable"]
  <2>1. /\ r.status = "running" /\ UNCHANGED <<queue, calls>>
        /\ task' = [task EXCEPT ![d] = "none"]
        /\ \/ task[d] = "calling" /\ diagnosis' = [diagnosis EXCEPT ![d] = succeeded]
           \/ diagnosis' = [diagnosis EXCEPT ![d] = failed]
    BY <1>1, <1>5 DEF EndTask
  <2>2. /\ succeeded \in DiagnosisRow /\ failed \in DiagnosisRow
        /\ succeeded.status = "succeeded" /\ succeeded.response = "report"
        /\ failed.status = "failed" /\ failed.response = "unavailable"
        /\ succeeded.age = r.age /\ succeeded.incident = r.incident
        /\ failed.age = r.age /\ failed.incident = r.incident
    BY <1>1 DEF DiagnosisRow
  <2> HIDE DEF succeeded, failed
  <2>3. CASE diagnosis' = [diagnosis EXCEPT ![d] = failed]
    BY <1>1, <2>1, <2>2, <2>3, RowKeepsDiagnoses
  <2>4. CASE task[d] = "calling" /\ diagnosis' = [diagnosis EXCEPT ![d] = succeeded]
    BY <1>1, <2>1, <2>2, <2>4, RowKeepsDiagnoses
  <2> QED BY <2>1, <2>3, <2>4
<1>6. CASE Age(d)
  <2> DEFINE row == [r EXCEPT !.age = IF r.age = "fresh" THEN "today" ELSE "old"]
  <2>1. /\ row \in DiagnosisRow /\ row.status = r.status /\ row.response = r.response
        /\ row.age # "fresh"
    BY <1>1 DEF DiagnosisRow
  <2>2. diagnosis' = [diagnosis EXCEPT ![d] = row] /\ UNCHANGED <<queue, task, calls>>
    BY <1>6 DEF Age
  <2> HIDE DEF row
  <2> QED BY <1>1, <2>1, <2>2, RowKeepsDiagnoses
<1> QED BY <1>2, <1>3, <1>4, <1>5, <1>6

----------------------------------------------------------------------------
(* Both parts. *)

\* Restarts see nothing of diagnoses; a restart may empty the worker.
LEMMA OperationsKeepInvariant ==
    ASSUME IInv, OperationNext
    PROVE  IInv'
<1> USE DEF IInv
<1>1. RestartInv'
  BY RequestsKeepRestarts, ClaimKeepsRestarts, RestartKeepsRestarts, ReportKeepsRestarts,
     ReconcileKeepsRestarts, RunnerStepsKeepRestarts DEF OperationNext
<1>2. /\ UNCHANGED <<diagnosis, queue, calls>>
      /\ task' = task \/ task' = [d \in Diagnoses |-> "none"]
  BY DEF OperationNext, CancelOp, Request, Approve, PassDeadline, ApproveTooLate, Reject,
         Decide, Reconcile, Claim, Poll, Restart, Refuse, Report, Stop, aiVars
<1>3. DiagnosisInv'
  BY <1>2 DEF DiagnosisInv, DiagnosisTypes, CallsAgree, OneFresh
<1> QED BY <1>1, <1>3

\* Diagnoses see nothing of restarts.
LEMMA DiagnosesKeepInvariant ==
    ASSUME IInv, DiagnosisNext
    PROVE  IInv'
<1> USE DEF IInv
<1>1. DiagnosisInv'
  BY DiagnoseKeepsDiagnoses, QueuingKeepsDiagnoses, TasksKeepDiagnoses DEF DiagnosisNext
<1>2. UNCHANGED <<operation, runner, restarts>>
  BY DEF DiagnosisNext, Diagnose, CommitDiagnosis, WebWorkerDies, Enqueue, MarkUnsent,
         StartTask, IgnoreTask, CallProvider, EndTask, KillTask, Age, opVars
<1>3. RestartInv'
  BY <1>2 DEF RestartInv, RestartTypes, RunnersAgree, RowsAgree, Engaged
<1> QED BY <1>1, <1>3

LEMMA StutterKeepsInvariant == IInv /\ UNCHANGED vars => IInv'
  BY DEF vars, opVars, aiVars, IInv, RestartInv, RestartTypes, RunnersAgree, RowsAgree,
         Engaged, DiagnosisInv, DiagnosisTypes, CallsAgree, OneFresh

LEMMA InvariantHolds == Spec => []IInv
<1>1. IInv /\ [Next]_vars => IInv'
  BY OperationsKeepInvariant, DiagnosesKeepInvariant, StutterKeepsInvariant DEF Next
<1> QED BY InitHolds, <1>1, PTL DEF Spec

\* Every row, runner and task stays of its type.
THEOREM TypesAreCorrect == Spec => []TypeOK
<1>1. IInv => TypeOK
  BY DEF IInv, RestartInv, RestartTypes, DiagnosisInv, DiagnosisTypes, TypeOK
<1> QED BY InvariantHolds, <1>1, PTL

\* However runners crash or are given up on, a service is restarted at most once
\* for an operation, and only for one that two people wanted.
THEOREM RestartsAreApprovedAlways == Spec => []RestartsAreApproved
<1>1. IInv => RestartsAreApproved
  <2> SUFFICES ASSUME IInv, NEW o \in Ops
               PROVE  /\ restarts[o] <= 1
                      /\ restarts[o] = 1 =>
                            /\ operation[o].status \in {"running", "succeeded", "failed"}
                            /\ operation[o].approver \notin {None, operation[o].requester}
                            /\ operation[o].target \in SafeTargets
                      /\ operation[o].status = "succeeded" => restarts[o] = 1
    BY DEF RestartsAreApproved
  <2> QED BY OperationsAssumption DEF IInv, RestartInv, RowsAgree
<1> QED BY InvariantHolds, <1>1, PTL

\* What was decided about an operation stays, against a late report as well.
THEOREM DecisionsStay == Spec => DecisionsAreFinal
<1>1. IInv /\ [Next]_vars => [KeepsDecisions]_vars
  <2> SUFFICES ASSUME IInv, Next, NEW o \in Ops, operation[o].status \in Finished
               PROVE  operation'[o] = operation[o]
    BY DEF KeepsDecisions
  <2>1. CASE DiagnosisNext
    BY <2>1 DEF DiagnosisNext, Diagnose, CommitDiagnosis, WebWorkerDies, Enqueue, MarkUnsent,
                StartTask, IgnoreTask, CallProvider, EndTask, KillTask, Age, opVars
  <2>2. CASE OperationNext
    BY ZenonT(60), <2>2
       DEF OperationNext, Finished, IInv, RestartInv, RestartTypes, RunnersAgree, Engaged,
                CancelOp, Request, Approve, PassDeadline, ApproveTooLate, Reject, Decide,
                Reconcile, Claim, Poll, Restart, Refuse, Report, Stop
  <2> QED BY <2>1, <2>2 DEF Next
<1> QED BY InvariantHolds, <1>1, PTL DEF Spec, DecisionsAreFinal

\* Restarts are approved after every step, and no step changes what was decided.
THEOREM RestartsAreDecidedAlways == Spec => RestartsAreDecided
  BY RestartsAreApprovedAlways, DecisionsStay, PTL
  DEF RestartsAreDecided, DecisionsAreFinal

\* The provider is called at most once for a diagnosis, whatever becomes of its task.
THEOREM ProviderCalledOnceAlways == Spec => []ProviderCalledOnce
<1>1. IInv => ProviderCalledOnce
  BY DEF IInv, DiagnosisInv, DiagnosisTypes, DiagnosisRow, CallsAgree, ProviderCalledOnce
<1> QED BY InvariantHolds, <1>1, PTL

\* An incident has at most one diagnosis that is younger than ten minutes.
THEOREM CooldownHoldsAlways == Spec => []CooldownHolds
<1>1. IInv => CooldownHolds
  BY DEF IInv, DiagnosisInv, OneFresh, Committed, CooldownHolds
<1> QED BY InvariantHolds, <1>1, PTL

-------------------------------------------------------------------------------
\* The ticket and its trail (Support).

\* Two versions of the ticket have the same values in a column.
Same(c, t, u) ==
    /\ c = "status" => t.status = u.status /\ t.resolved = u.resolved /\ t.closed = u.closed
    /\ c = "assignee" => t.assignee = u.assignee
    /\ c = "priority" => t.priority = u.priority
    /\ c = "tags" => t.tags = u.tags

\* What the trail tells of a ticket, without the tags that were deleted since.
Faded(t) == [t EXCEPT !.tags = @ \ gone]

\* The ticket and its trail as they will be when request r has done its second half.
WillBe(r) == IF request[r].step = "save" /\ request[r].change \in Replies
             THEN Written(ticket, request[r].change) ELSE ticket
WillTell(r) == IF request[r].step = "log" /\ request[r].change \notin Replies
               THEN Faded(Written(trail, request[r].change)) ELSE Faded(trail)

Of(c) == {r \in Requests : request[r].change.column = c}

ColumnTold(c) ==
    /\ \A r, o \in Of(c) : r = o
    /\ Of(c) = {} => Same(c, ticket, Faded(trail))
    /\ \A r \in Of(c) : Same(c, WillBe(r), WillTell(r))

\* Requests between a row and its audit row.
IsRow(change) == change.column = "none" \/ change \in Replies
Untold(kind) == {r \in Requests : /\ request[r].step = "log"
                                  /\ IsRow(request[r].change) /\ RowOf(request[r].change) = kind}

CutKind(kind) == IF kind = "reply" THEN "status" ELSE kind
RowsTold(kind) == written[kind] = logged[kind] + Cardinality(Untold(kind))

\* How a request stands at each of its steps.
Fits(q) ==
    \/ q = Unused \/ q = Ended
    \/ /\ q.change \in Change
       /\ \/ q.step = "row" /\ IsRow(q.change)
          \/ q.step = "save" /\ q.change.column # "none"
          \/ q.step = "log"

SupportInv ==
    /\ SupportTypeOK
    /\ \A r \in Requests : Fits(request[r])
    /\ ticket.status = "none" => \A r \in Requests : request[r] = Unused
    /\ \A c \in Columns \ (mixed \cup cut) : ColumnTold(c)
    /\ \A kind \in RowKinds : CutKind(kind) \notin cut => RowsTold(kind)

-------------------------------------------------------------------------------
LEMMA ChangeShape ==
    ASSUME NEW change \in Change
    PROVE  /\ change.column \in Columns \cup {"none"}
           /\ change.column = "none" => change.to \in {"note", "file"}
           /\ change \in Replies <=> change.column = "status" /\ change.to \in {"customer", "staff"}
           /\ change.column = "status" =>
                  change.to \in {"customer", "staff", "resolve", "close", "reopen"}
           /\ change.column = "assignee" => change.to \in Users
           /\ change.column = "priority" => change.to \in Priorities
           /\ change.column = "tags" => change.to[1] \in {"add", "remove"} /\ change.to[2] \in Tags
           /\ KindOf(change) \in Columns \cup {"note", "file"}
BY DEF Change, Columns, Replies, KindOf

LEMMA RowShape ==
    ASSUME NEW change \in Change, IsRow(change)
    PROVE  /\ RowOf(change) \in RowKinds
           /\ KindOf(change) = CutKind(RowOf(change))
           /\ change \in Replies <=> RowOf(change) = "reply"
BY ChangeShape DEF RowOf, RowKinds, KindOf, CutKind, IsRow

LEMMA StatusAfterKeeps ==
    ASSUME NEW t \in Ticket, NEW what \in {"customer", "staff", "resolve", "close", "reopen"}
    PROVE  /\ StatusAfter(t, what) \in Ticket
           /\ StatusAfter(t, what).assignee = t.assignee
           /\ StatusAfter(t, what).priority = t.priority
           /\ StatusAfter(t, what).tags = t.tags
           /\ StatusAfter(t, what).status # "none"
BY DEF StatusAfter, Ticket

LEMMA StatusAfterAlike ==
    ASSUME NEW t \in Ticket, NEW u \in Ticket, Same("status", t, u),
           NEW what \in {"customer", "staff", "resolve", "close", "reopen"}
    PROVE  Same("status", StatusAfter(t, what), StatusAfter(u, what))
BY DEF StatusAfter, Ticket, Same

\* A change writes the type, its own column alike and no other.
LEMMA WrittenKeeps ==
    ASSUME NEW change \in Change, NEW t \in Ticket
    PROVE  /\ Written(t, change) \in Ticket
           /\ \A c \in Columns : c # change.column => Same(c, Written(t, change), t)
           /\ change.column = "none" => Written(t, change) = t
           /\ t.status # "none" => Written(t, change).status # "none"
<1>1. CASE change.column = "status"
  <2>1. Written(t, change) = StatusAfter(t, change.to)
    BY <1>1 DEF Written
  <2> QED  BY <1>1, <2>1, ChangeShape, StatusAfterKeeps DEF Same, Columns
<1>2. CASE change.column = "assignee"
  <2>1. Written(t, change) = [t EXCEPT !.assignee = change.to] /\ change.to \in Users
    BY <1>2, ChangeShape DEF Written
  <2> QED  BY <1>2, <2>1 DEF Same, Columns, Ticket
<1>3. CASE change.column = "priority"
  <2>1. Written(t, change) = [t EXCEPT !.priority = change.to] /\ change.to \in Priorities
    BY <1>3, ChangeShape DEF Written
  <2> QED  BY <1>3, <2>1 DEF Same, Columns, Ticket
<1>4. CASE change.column = "tags"
  <2> DEFINE tags == IF change.to[1] = "add" THEN t.tags \cup {change.to[2]}
                     ELSE t.tags \ {change.to[2]}
  <2>1. Written(t, change) = [t EXCEPT !.tags = tags]
    BY <1>4 DEF Written, Ticket
  <2>2. tags \in SUBSET Tags
    BY <1>4, ChangeShape DEF Ticket
  <2> HIDE DEF tags
  <2> QED  BY <1>4, <2>1, <2>2 DEF Same, Columns, Ticket
<1>5. CASE change.column = "none"
  BY <1>5 DEF Written, Same
<1> QED
  BY <1>1, <1>2, <1>3, <1>4, <1>5, ChangeShape DEF Columns

LEMMA WrittenAlike ==
    ASSUME NEW change \in Change, NEW t \in Ticket, NEW u \in Ticket,
           Same(change.column, t, u)
    PROVE  Same(change.column, Written(t, change), Written(u, change))
<1>1. CASE change.column = "status"
  BY <1>1, ChangeShape, StatusAfterAlike DEF Written
<1>2. CASE change.column = "assignee"
  BY <1>2 DEF Written, Same, Ticket
<1>3. CASE change.column = "priority"
  BY <1>3 DEF Written, Same, Ticket
<1>4. CASE change.column = "tags"
  BY <1>4 DEF Written, Same, Ticket
<1>5. CASE change.column = "none"
  BY <1>5 DEF Same
<1> QED
  BY <1>1, <1>2, <1>3, <1>4, <1>5, ChangeShape DEF Columns

LEMMA SameIsEqual ==
    ASSUME NEW c, NEW t, NEW u, NEW v
    PROVE  /\ Same(c, t, t)
           /\ Same(c, t, u) => Same(c, u, t)
           /\ Same(c, t, u) /\ Same(c, u, v) => Same(c, t, v)
BY DEF Same

LEMMA FadedKeeps ==
    ASSUME NEW c, NEW t \in Ticket, NEW u \in Ticket
    PROVE  /\ Faded(t) \in Ticket /\ Faded(t).tags = t.tags \ gone
           /\ c # "tags" => Same(c, Faded(t), t)
           /\ Same(c, t, u) => Same(c, Faded(t), Faded(u))
BY DEF Faded, Same, Ticket

\* A change that is not refused, done to a ticket and told by its trail.
LEMMA WrittenFades ==
    ASSUME NEW change \in Change, ~Refused(change), NEW t \in Ticket, NEW u \in Ticket,
           Same(change.column, t, Faded(u))
    PROVE  Same(change.column, Written(t, change), Faded(Written(u, change)))
<1>1. Written(t, change) \in Ticket /\ Written(u, change) \in Ticket
  BY WrittenKeeps
<1>2. CASE change.column # "tags"
  <2>1. Same(change.column, t, u)
    BY <1>2, FadedKeeps, SameIsEqual
  <2>2. Same(change.column, Written(t, change), Written(u, change))
    BY <2>1, WrittenAlike
  <2> QED  BY <1>1, <1>2, <2>2, FadedKeeps, SameIsEqual
<1>3. CASE change.column = "tags"
  <2>1. t.tags = u.tags \ gone
    BY <1>3, FadedKeeps DEF Same
  <2>2. Written(t, change).tags = IF change.to[1] = "add" THEN t.tags \cup {change.to[2]}
                                  ELSE t.tags \ {change.to[2]}
    BY <1>3 DEF Written, Ticket
  <2>3. Written(u, change).tags = IF change.to[1] = "add" THEN u.tags \cup {change.to[2]}
                                  ELSE u.tags \ {change.to[2]}
    BY <1>3 DEF Written, Ticket
  <2>4. change.to[1] = "add" => change.to[2] \notin gone
    BY <1>3 DEF Refused
  <2>5. Faded(Written(u, change)).tags = Written(u, change).tags \ gone
    BY <1>1, FadedKeeps
  <2>6. Written(t, change).tags = Written(u, change).tags \ gone
    BY <2>1, <2>2, <2>3, <2>4
  <2> QED  BY <1>3, <2>5, <2>6 DEF Same
<1> QED
  BY <1>2, <1>3

LEMMA RequestShapes ==
    /\ Unused \in RequestRow /\ Unused.change.column = "none" /\ Unused.step = "new"
    /\ Ended \in RequestRow /\ Ended.change.column = "none" /\ Ended.step = "done"
    /\ Ended # Unused
BY DEF Unused, Ended, RequestRow

LEMMA SupportBegins == SupportInit => SupportInv
<1> SUFFICES ASSUME SupportInit PROVE SupportInv
  OBVIOUS
<1>1. SupportTypeOK
  BY RequestShapes DEF SupportInit, SupportTypeOK, Ticket, Columns, RowKinds
<1>2. \A r \in Requests : request[r] = Unused
  BY DEF SupportInit
<1>3. \A r \in Requests : Fits(request[r])
  BY <1>2 DEF Fits
<1>4. ASSUME NEW c \in Columns PROVE ColumnTold(c)
  <2>1. Of(c) = {}
    BY <1>2, RequestShapes DEF Of, Columns
  <2>2. ticket = trail /\ ticket \in Ticket /\ gone = {}
    BY <1>1 DEF SupportInit, SupportTypeOK
  <2>3. Same(c, ticket, Faded(trail))
    BY <2>2 DEF Same, Faded, Ticket
  <2> QED  BY <2>1, <2>3 DEF ColumnTold
<1>5. ASSUME NEW kind \in RowKinds PROVE RowsTold(kind)
  <2>1. Untold(kind) = {}
    BY <1>2, RequestShapes DEF Untold
  <2>2. Cardinality(Untold(kind)) = 0
    BY <2>1, FS_EmptySet
  <2> QED  BY <2>2 DEF RowsTold, SupportInit
<1> QED
  BY <1>1, <1>2, <1>3, <1>4, <1>5 DEF SupportInv

\* A step of a request about something else leaves a column told.
LEMMA OtherColumn ==
    ASSUME SupportInv, SupportTypeOK', NEW c \in Columns, ColumnTold(c), NEW r \in Requests,
           request[r].change.column # c, request'[r].change.column # c,
           \A o \in Requests : o # r => request'[o] = request[o],
           Same(c, ticket', ticket), Same(c, trail', trail), gone' = gone
    PROVE  ColumnTold(c)'
<1>1. Of(c)' = Of(c) /\ r \notin Of(c)
  BY DEF Of
<1>2. Of(c) = {} => Same(c, ticket', Faded(trail)')
  <2>1. trail \in Ticket /\ trail' \in Ticket
    BY DEF SupportInv, SupportTypeOK
  <2>2. Same(c, Faded(trail'), Faded(trail))
    BY <2>1, FadedKeeps
  <2>3. Faded(trail)' = Faded(trail')
    BY DEF Faded
  <2> QED  BY <2>2, <2>3, SameIsEqual DEF ColumnTold
<1>3. ASSUME NEW o \in Of(c) PROVE Same(c, WillBe(o)', WillTell(o)')
  <2>1. o \in Requests /\ o # r /\ request'[o] = request[o] /\ request[o].change.column = c
    BY <1>1, <1>3 DEF Of
  <2>2. request[o].change \in Change
    BY <2>1, RequestShapes DEF SupportInv, Fits, Columns
  <2>3. ticket \in Ticket /\ trail \in Ticket /\ ticket' \in Ticket /\ trail' \in Ticket
    BY DEF SupportInv, SupportTypeOK
  <2>4. Same(c, Written(ticket', request[o].change), Written(ticket, request[o].change))
    BY <2>1, <2>2, <2>3, WrittenAlike
  <2>5. Same(c, Written(trail', request[o].change), Written(trail, request[o].change))
    BY <2>1, <2>2, <2>3, WrittenAlike
  <2>6. Same(c, WillBe(o)', WillBe(o))
    BY <2>1, <2>4 DEF WillBe
  <2>7. Same(c, WillTell(o)', WillTell(o))
    <3>1. /\ Written(trail', request[o].change) \in Ticket
          /\ Written(trail, request[o].change) \in Ticket
      BY <2>2, <2>3, WrittenKeeps
    <3>2. Same(c, Faded(Written(trail', request[o].change)),
               Faded(Written(trail, request[o].change)))
      BY <2>5, <3>1, FadedKeeps
    <3>3. Same(c, Faded(trail'), Faded(trail))
      BY <2>3, FadedKeeps
    <3>4. WillTell(o)' = IF request[o].step = "log" /\ request[o].change \notin Replies
                         THEN Faded(Written(trail', request[o].change)) ELSE Faded(trail')
      BY <2>1 DEF WillTell, Faded
    <3> QED  BY <3>2, <3>3, <3>4 DEF WillTell
  <2>8. Same(c, WillBe(o), WillTell(o))
    BY <1>3 DEF ColumnTold
  <2> QED  BY <2>6, <2>7, <2>8, SameIsEqual
<1> QED
  BY <1>1, <1>2, <1>3 DEF ColumnTold

\* The one request about a column ends or moves on.
LEMMA OwnColumn ==
    ASSUME NEW c \in Columns, ColumnTold(c), NEW r \in Of(c),
           \A o \in Requests : o # r => request'[o] = request[o],
           request'[r].change.column = c => Same(c, WillBe(r)', WillTell(r)'),
           request'[r].change.column # c => Same(c, ticket', Faded(trail)')
    PROVE  ColumnTold(c)'
<1>1. Of(c) = {r} /\ r \in Requests
  BY DEF ColumnTold, Of
<1>2. \A o \in Requests : o # r => request'[o].change.column # c
  BY <1>1 DEF Of
<1>3. Of(c)' = IF request'[r].change.column = c THEN {r} ELSE {}
  BY <1>1, <1>2 DEF Of
<1> QED
  BY <1>3 DEF ColumnTold

LEMMA UntoldFinite ==
    ASSUME SupportTypeOK, NEW kind
    PROVE  IsFiniteSet(Untold(kind)) /\ Cardinality(Untold(kind)) \in Nat
<1>1. IsFiniteSet(Requests)
  BY SupportAssumption, FS_Interval DEF SupportAssumption, Requests
<1>2. Untold(kind) \subseteq Requests
  BY DEF Untold
<1> QED
  BY <1>1, <1>2, FS_Subset, FS_CardinalityType

LEMMA RequestStep ==
    ASSUME SupportTypeOK, NEW r \in Requests, NEW q \in RequestRow,
           request' = [request EXCEPT ![r] = q]
    PROVE  /\ request' \in [Requests -> RequestRow]
           /\ request'[r] = q
           /\ \A o \in Requests : o # r => request'[o] = request[o]
BY DEF SupportTypeOK


\* A request that is and stays outside the count leaves it as it was.
LEMMA CountStays ==
    ASSUME NEW kind \in RowKinds, RowsTold(kind), NEW r \in Requests,
           \A o \in Requests : o # r => request'[o] = request[o],
           r \notin Untold(kind), r \notin Untold(kind)',
           written'[kind] = written[kind], logged'[kind] = logged[kind]
    PROVE  RowsTold(kind)'
<1>1. \A o \in Requests : o \in Untold(kind)' <=> o \in Untold(kind)
  BY DEF Untold
<1>2. Untold(kind)' = Untold(kind)
  BY <1>1 DEF Untold
<1> QED
  BY <1>2 DEF RowsTold

LEMMA CreateKeepsTrail ==
    ASSUME SupportInv, CreateTicket
    PROVE  SupportInv'
<1>1. /\ ticket' = [ticket EXCEPT !.status = "open"] /\ trail' = [trail EXCEPT !.status = "open"]
      /\ written' = [written EXCEPT !["reply"] = 1] /\ logged' = [logged EXCEPT !["reply"] = 1]
      /\ UNCHANGED <<gone, request, mixed, cut>>
  BY DEF CreateTicket
<1>2. \A r \in Requests : request[r] = Unused /\ request'[r] = Unused
  BY <1>1 DEF CreateTicket, SupportInv
<1>3. SupportTypeOK' /\ ticket'.status # "none"
  <2>1. written' \in [RowKinds -> Nat] /\ logged' \in [RowKinds -> Nat]
    BY <1>1 DEF SupportInv, SupportTypeOK
  <2>2. ticket' \in Ticket /\ trail' \in Ticket /\ ticket'.status # "none"
    BY <1>1 DEF SupportInv, SupportTypeOK, Ticket
  <2> QED  BY <1>1, <2>1, <2>2 DEF SupportInv, SupportTypeOK
<1>4. ASSUME NEW c \in Columns, c \notin mixed' \cup cut' PROVE ColumnTold(c)'
  <2>1. Of(c) = {} /\ Of(c)' = {}
    BY <1>2, RequestShapes DEF Of, Columns
  <2>2. Same(c, ticket, Faded(trail))
    BY <1>1, <1>4, <2>1 DEF ColumnTold, SupportInv
  <2>3. Same(c, ticket', Faded(trail)')
    BY <1>1, <2>2 DEF Same, Faded, SupportInv, SupportTypeOK, Ticket
  <2> QED  BY <2>1, <2>3 DEF ColumnTold
<1>5. ASSUME NEW kind \in RowKinds, CutKind(kind) \notin cut' PROVE RowsTold(kind)'
  <2>1. Untold(kind) = {} /\ Untold(kind)' = {}
    BY <1>2, RequestShapes DEF Untold
  <2>2. Cardinality(Untold(kind)) = 0 /\ Cardinality(Untold(kind)') = 0
    BY <2>1, FS_EmptySet
  <2>3. written[kind] = logged[kind]
    BY <1>1, <1>5, <2>2 DEF RowsTold, SupportInv, SupportTypeOK
  <2>4. written'[kind] = logged'[kind] /\ logged'[kind] \in Nat
    BY <1>1, <2>3 DEF SupportInv, SupportTypeOK, RowKinds
  <2> QED  BY <2>2, <2>4 DEF RowsTold
<1> QED
  BY <1>2, <1>3, <1>4, <1>5 DEF SupportInv, Fits

\* What Load is asked for.
Asked(change, step) ==
    /\ change \in Change
    /\ \/ step = "row" /\ IsRow(change)
       \/ step = "save" /\ change.column # "none" /\ change \notin Replies

LEMMA ArriveLoads ==
    ASSUME NEW r \in Requests, NEW u \in Users, Arrive(r, u)
    PROVE  \E change, step : Asked(change, step) /\ Load(r, change, step)
<1>1. CASE Resolve(r, u)
  BY <1>1 DEF Resolve, Alter, Asked, Change, Replies
<1>2. CASE Close(r, u)
  BY <1>2 DEF Close, Alter, Asked, Change, Replies
<1>3. CASE Reopen(r, u)
  BY <1>3 DEF Reopen, Asked, Change, Replies
<1>4. CASE Reply(r, u)
  BY <1>4 DEF Reply, Asked, IsRow, Change, Replies
<1>5. CASE AddNote(r, u)
  BY <1>5 DEF AddNote, Asked, IsRow, Change
<1>6. CASE UploadAttachment(r, u)
  BY <1>6 DEF UploadAttachment, Asked, IsRow, Change
<1>7. ASSUME NEW v \in Users, Assign(r, u, v)
      PROVE  \E change, step : Asked(change, step) /\ Load(r, change, step)
  BY <1>7 DEF Assign, Alter, Asked, Change, Replies
<1>8. ASSUME NEW p \in Priorities, SetPriority(r, u, p)
      PROVE  \E change, step : Asked(change, step) /\ Load(r, change, step)
  BY <1>8 DEF SetPriority, Alter, Asked, Change, Replies
<1>9. ASSUME NEW t \in Tags, AddTag(r, u, t) \/ RemoveTag(r, u, t)
      PROVE  \E change, step : Asked(change, step) /\ Load(r, change, step)
  BY <1>9 DEF AddTag, RemoveTag, Tag, Alter, Asked, Change, Replies
<1> QED
  BY <1>1, <1>2, <1>3, <1>4, <1>5, <1>6, <1>7, <1>8, <1>9 DEF Arrive

LEMMA LoadKeepsTrail ==
    ASSUME SupportInv, NEW r \in Requests, NEW change, NEW step, Asked(change, step),
           Load(r, change, step)
    PROVE  SupportInv'
<1> DEFINE loaded == [step |-> step, change |-> change]
<1>1. /\ request' = [request EXCEPT ![r] = loaded] /\ request[r] = Unused
      /\ UNCHANGED <<ticket, written, trail, logged, gone, cut>>
      /\ ticket.status # "none"
  BY DEF Load
<1>2. loaded \in RequestRow /\ Fits(loaded)
  BY DEF Asked, RequestRow, Fits
<1>3. /\ request' \in [Requests -> RequestRow]
      /\ request'[r].step = step /\ request'[r].change = change
      /\ \A o \in Requests : o # r => request'[o] = request[o]
      /\ \A o \in Requests : Fits(request'[o])
  BY <1>1, <1>2, RequestStep DEF SupportInv
<1>4. change.column \in Columns \cup {"none"}
  BY ChangeShape DEF Asked
<1>5. SupportTypeOK'
  BY <1>1, <1>3, <1>4 DEF Load, SupportInv, SupportTypeOK
<1>6. ASSUME NEW c \in Columns, c \notin mixed' \cup cut' PROVE ColumnTold(c)'
  <2>1. c \notin mixed \cup cut /\ ColumnTold(c)
    BY <1>1, <1>6 DEF Load, SupportInv
  <2>2. request[r].change.column # c
    BY <1>1, RequestShapes DEF Columns
  <2>3. CASE change.column # c
    BY <1>1, <1>3, <1>5, <2>1, <2>2, <2>3, SameIsEqual, OtherColumn
  <2>4. CASE change.column = c
    <3>1. \A o \in Requests : request[o].change.column # c
      BY <1>6, <2>4 DEF Load, Columns
    <3>2. Of(c) = {} /\ Of(c)' = {r}
      BY <1>3, <2>4, <3>1 DEF Of
    <3>3. WillBe(r)' = ticket' /\ WillTell(r)' = Faded(trail)'
      BY <1>3 DEF WillBe, WillTell, Asked
    <3>4. Same(c, ticket', Faded(trail)')
      BY <1>1, <2>1, <3>2 DEF ColumnTold, Faded
    <3> QED  BY <3>2, <3>3, <3>4 DEF ColumnTold
  <2> QED  BY <2>3, <2>4
<1>7. ASSUME NEW kind \in RowKinds, CutKind(kind) \notin cut' PROVE RowsTold(kind)'
  <2>1. RowsTold(kind)
    BY <1>1, <1>7 DEF SupportInv
  <2>2. r \notin Untold(kind) /\ r \notin Untold(kind)'
    BY <1>1, <1>3, RequestShapes DEF Untold, Asked
  <2> QED  BY <1>1, <1>3, <2>1, <2>2, CountStays
<1> QED
  BY <1>1, <1>3, <1>5, <1>6, <1>7 DEF SupportInv

LEMMA WriteRowKeepsTrail ==
    ASSUME SupportInv, NEW r \in Requests, WriteRow(r)
    PROVE  SupportInv'
<1> DEFINE change == request[r].change
           kind == RowOf(change)
<1>1. /\ request[r].step = "row"
      /\ written' = [written EXCEPT ![kind] = @ + 1]
      /\ request' = [request EXCEPT ![r].step = "log"]
      /\ UNCHANGED <<ticket, trail, logged, gone, mixed, cut>>
  BY DEF WriteRow
<1>2. change \in Change /\ IsRow(change)
  BY <1>1, RequestShapes DEF SupportInv, Fits
<1>3. /\ request' \in [Requests -> RequestRow]
      /\ request'[r].step = "log" /\ request'[r].change = change
      /\ \A o \in Requests : o # r => request'[o] = request[o]
  BY <1>1, <1>2 DEF SupportInv, SupportTypeOK, RequestRow
<1>4. kind \in RowKinds
  BY <1>2, RowShape
<1>5. SupportTypeOK'
  BY <1>1, <1>3, <1>4 DEF SupportInv, SupportTypeOK
<1>6. \A o \in Requests : Fits(request'[o])
  BY <1>2, <1>3 DEF SupportInv, Fits
<1>7. ticket'.status # "none"
  BY <1>1, RequestShapes DEF SupportInv
<1> HIDE DEF change, kind
<1>8. ASSUME NEW c \in Columns, c \notin mixed' \cup cut' PROVE ColumnTold(c)'
  <2>1. ColumnTold(c)
    BY <1>1, <1>8 DEF SupportInv
  <2>2. CASE change.column # c
    BY <1>1, <1>3, <1>5, <2>1, <2>2, SameIsEqual, OtherColumn DEF change
  <2>3. CASE change.column = c
    <3>1. change \in Replies
      BY <1>2, <2>3 DEF IsRow, Columns
    <3>2. r \in Of(c)
      BY <2>3 DEF Of, change
    <3>3. Same(c, WillBe(r), WillTell(r))
      BY <2>1, <3>2 DEF ColumnTold
    <3>4. WillBe(r) = ticket /\ WillTell(r) = Faded(trail)
      BY <1>1 DEF WillBe, WillTell
    <3>5. WillBe(r)' = ticket /\ WillTell(r)' = Faded(trail)
      BY <1>1, <1>3, <3>1 DEF WillBe, WillTell, Faded
    <3> QED  BY <1>3, <2>1, <2>3, <3>2, <3>3, <3>4, <3>5, OwnColumn
  <2> QED  BY <2>2, <2>3
<1>9. ASSUME NEW k \in RowKinds, CutKind(k) \notin cut' PROVE RowsTold(k)'
  <2>1. RowsTold(k)
    BY <1>1, <1>9 DEF SupportInv
  <2>2. CASE k # kind
    <3>1. r \notin Untold(k) /\ r \notin Untold(k)'
      BY <1>1, <1>3, <2>2 DEF Untold, kind, change
    <3>2. written'[k] = written[k] /\ logged'[k] = logged[k]
      BY <1>1, <2>2 DEF SupportInv, SupportTypeOK
    <3> QED  BY <1>3, <2>1, <3>1, <3>2, CountStays
  <2>3. CASE k = kind
    <3>1. r \notin Untold(k)
      BY <1>1 DEF Untold
    <3>2. Untold(k)' = Untold(k) \cup {r}
      BY <1>2, <1>3, <2>3 DEF Untold, kind
    <3>3. Cardinality(Untold(k) \cup {r}) = Cardinality(Untold(k)) + 1
      BY <3>1, UntoldFinite, FS_AddElement DEF SupportInv
    <3>4. written'[k] = written[k] + 1 /\ logged'[k] = logged[k]
      BY <1>1, <2>3 DEF SupportInv, SupportTypeOK
    <3>5. logged[k] \in Nat /\ Cardinality(Untold(k)) \in Nat
      BY UntoldFinite DEF SupportInv, SupportTypeOK
    <3> QED  BY <2>1, <3>2, <3>3, <3>4, <3>5 DEF RowsTold
  <2> QED  BY <2>2, <2>3
<1> QED
  BY <1>5, <1>6, <1>7, <1>8, <1>9 DEF SupportInv

LEMMA SaveKeepsTrail ==
    ASSUME SupportInv, NEW r \in Requests, Save(r)
    PROVE  SupportInv'
<1> DEFINE change == request[r].change
           after == IF change \in Replies THEN Ended ELSE [change |-> change, step |-> "log"]
<1>1. /\ request[r].step = "save"
      /\ ticket' = Written(ticket, change)
      /\ request' = [request EXCEPT ![r] = after]
      /\ UNCHANGED <<written, trail, logged, gone, mixed, cut>>
      /\ ~Refused(change)
  BY DEF Save
<1>2. change \in Change /\ change.column # "none"
  BY <1>1, RequestShapes DEF SupportInv, Fits
<1>3. after \in RequestRow /\ Fits(after)
  BY <1>2, RequestShapes DEF RequestRow, Fits
<1>4. /\ request' \in [Requests -> RequestRow] /\ request'[r] = after
      /\ \A o \in Requests : o # r => request'[o] = request[o]
      /\ \A o \in Requests : Fits(request'[o])
  BY <1>1, <1>3, RequestStep DEF SupportInv
<1> HIDE DEF change
<1>5. ticket \in Ticket /\ trail \in Ticket
  BY DEF SupportInv, SupportTypeOK
<1>6. SupportTypeOK'
  BY <1>1, <1>2, <1>4, <1>5, WrittenKeeps DEF SupportInv, SupportTypeOK
<1>7. ticket'.status # "none"
  <2>1. ticket.status # "none"
    BY <1>1, RequestShapes DEF SupportInv
  <2> QED  BY <1>1, <1>2, <1>5, <2>1, WrittenKeeps
<1>8. ASSUME NEW c \in Columns, c \notin mixed' \cup cut' PROVE ColumnTold(c)'
  <2>1. ColumnTold(c)
    BY <1>1, <1>8 DEF SupportInv
  <2>2. CASE change.column # c
    <3>1. Same(c, ticket', ticket)
      BY <1>1, <1>2, <1>5, <2>2, WrittenKeeps
    <3>2. request'[r].change.column # c
      BY <1>4, <2>2, RequestShapes DEF Columns
    <3> QED  BY <1>1, <1>4, <1>6, <2>1, <2>2, <3>1, <3>2, SameIsEqual, OtherColumn DEF change
  <2>3. CASE change.column = c
    <3>1. r \in Of(c)
      BY <2>3 DEF Of, change
    <3>2. Same(c, WillBe(r), WillTell(r))
      BY <2>1, <3>1 DEF ColumnTold
    <3>3. WillTell(r) = Faded(trail) /\ Faded(trail)' = Faded(trail)
      BY <1>1 DEF WillTell, Faded
    <3>4. CASE change \in Replies
      <4>1. WillBe(r) = ticket'
        BY <1>1, <3>4 DEF WillBe, change
      <4>2. request'[r].change.column # c
        BY <1>4, <3>4, RequestShapes DEF Columns
      <4> QED  BY <1>1, <1>4, <2>1, <3>1, <3>2, <3>3, <4>1, <4>2, OwnColumn
    <3>5. CASE change \notin Replies
      <4>1. WillBe(r) = ticket
        BY <3>5 DEF WillBe, change
      <4>2. request'[r].change = change /\ request'[r].step = "log"
        BY <1>4, <3>5
      <4>3. WillBe(r)' = Written(ticket, change) /\ WillTell(r)' = Faded(Written(trail, change))
        BY <1>1, <3>5, <4>2 DEF WillBe, WillTell, Faded
      <4>4. Same(c, Written(ticket, change), Faded(Written(trail, change)))
        BY <1>1, <1>2, <1>5, <2>3, <3>2, <3>3, <4>1, WrittenFades
      <4> QED  BY <1>4, <2>1, <2>3, <3>1, <4>2, <4>3, <4>4, OwnColumn
    <3> QED  BY <3>4, <3>5
  <2> QED  BY <2>2, <2>3
<1>9. ASSUME NEW k \in RowKinds, CutKind(k) \notin cut' PROVE RowsTold(k)'
  <2>1. RowsTold(k)
    BY <1>1, <1>9 DEF SupportInv
  <2>2. r \notin Untold(k)
    BY <1>1 DEF Untold
  <2>3. ~(request'[r].step = "log" /\ IsRow(request'[r].change))
    BY <1>2, <1>4, RequestShapes DEF IsRow
  <2>4. r \notin Untold(k)'
    BY <2>3 DEF Untold
  <2> QED  BY <1>1, <1>4, <2>1, <2>2, <2>4, CountStays
<1> QED
  BY <1>4, <1>6, <1>7, <1>8, <1>9 DEF SupportInv

LEMMA LogKeepsTrail ==
    ASSUME SupportInv, NEW r \in Requests, Log(r)
    PROVE  SupportInv'
<1> DEFINE change == request[r].change
           after == IF change \in Replies THEN [change |-> change, step |-> "save"] ELSE Ended
<1>1. /\ request[r].step = "log"
      /\ trail' = Written(trail, change)
      /\ logged' = IF IsRow(change) THEN [logged EXCEPT ![RowOf(change)] = @ + 1] ELSE logged
      /\ request' = [request EXCEPT ![r] = after]
      /\ UNCHANGED <<ticket, written, gone, mixed, cut>>
  BY DEF Log, IsRow
<1>2. change \in Change
  BY <1>1, RequestShapes DEF SupportInv, Fits
<1>3. after \in RequestRow /\ Fits(after)
  BY <1>2, ChangeShape, RequestShapes DEF RequestRow, Fits
<1>4. /\ request' \in [Requests -> RequestRow] /\ request'[r] = after
      /\ \A o \in Requests : o # r => request'[o] = request[o]
      /\ \A o \in Requests : Fits(request'[o])
  BY <1>1, <1>3, RequestStep DEF SupportInv
<1>5. ticket \in Ticket /\ trail \in Ticket
  BY DEF SupportInv, SupportTypeOK
<1>6. SupportTypeOK'
  <2>1. trail' \in Ticket
    BY <1>1, <1>2, <1>5, WrittenKeeps
  <2>2. IsRow(change) => RowOf(change) \in RowKinds
    BY <1>2, RowShape
  <2> HIDE DEF change
  <2>3. logged' \in [RowKinds -> Nat]
    BY <1>1, <2>2 DEF SupportInv, SupportTypeOK
  <2> QED  BY <1>1, <1>4, <2>1, <2>3 DEF SupportInv, SupportTypeOK
<1> HIDE DEF change
<1>7. ticket'.status # "none"
  BY <1>1, RequestShapes DEF SupportInv
<1>8. ASSUME NEW c \in Columns, c \notin mixed' \cup cut' PROVE ColumnTold(c)'
  <2>1. ColumnTold(c)
    BY <1>1, <1>8 DEF SupportInv
  <2>2. CASE change.column # c
    <3>1. Same(c, trail', trail)
      BY <1>1, <1>2, <1>5, <2>2, WrittenKeeps
    <3>2. request'[r].change.column # c
      BY <1>4, <2>2, RequestShapes DEF Columns
    <3> QED  BY <1>1, <1>4, <1>6, <2>1, <2>2, <3>1, <3>2, SameIsEqual, OtherColumn DEF change
  <2>3. CASE change.column = c
    <3>1. r \in Of(c)
      BY <2>3 DEF Of, change
    <3>2. Same(c, WillBe(r), WillTell(r))
      BY <2>1, <3>1 DEF ColumnTold
    <3>3. WillBe(r) = ticket
      BY <1>1 DEF WillBe
    <3>4. CASE change \in Replies
      <4>1. WillTell(r) = Faded(trail) /\ ~Refused(change)
        BY <1>2, <3>4, ChangeShape DEF WillTell, Refused, change
      <4>2. request'[r].change = change /\ request'[r].step = "save"
        BY <1>4, <3>4
      <4>3. WillBe(r)' = Written(ticket, change) /\ WillTell(r)' = Faded(Written(trail, change))
        BY <1>1, <3>4, <4>2 DEF WillBe, WillTell, Faded
      <4>4. Same(c, Written(ticket, change), Faded(Written(trail, change)))
        BY <1>2, <1>5, <2>3, <3>2, <3>3, <4>1, WrittenFades
      <4> QED  BY <1>4, <2>1, <2>3, <3>1, <4>2, <4>3, <4>4, OwnColumn
    <3>5. CASE change \notin Replies
      <4>1. WillTell(r) = Faded(trail)'
        BY <1>1, <3>5 DEF WillTell, Faded, change
      <4>2. request'[r].change.column # c
        BY <1>4, <3>5, RequestShapes DEF Columns
      <4> QED  BY <1>1, <1>4, <2>1, <3>1, <3>2, <3>3, <4>1, <4>2, OwnColumn
    <3> QED  BY <3>4, <3>5
  <2> QED  BY <2>2, <2>3
<1>9. ASSUME NEW k \in RowKinds, CutKind(k) \notin cut' PROVE RowsTold(k)'
  <2>1. RowsTold(k)
    BY <1>1, <1>9 DEF SupportInv
  <2>2. r \notin Untold(k)'
    BY <1>4, RequestShapes DEF Untold
  <2>3. logged \in [RowKinds -> Nat] /\ written \in [RowKinds -> Nat]
    BY DEF SupportInv, SupportTypeOK
  <2>4. CASE IsRow(change) /\ RowOf(change) = k
    <3>1. r \in Untold(k)
      BY <1>1, <2>4 DEF Untold, change
    <3>2. \A o \in Requests : o \in Untold(k)' <=> o \in Untold(k) \ {r}
      BY <1>4, <2>2 DEF Untold
    <3>3. Untold(k)' = Untold(k) \ {r}
      BY <3>2 DEF Untold
    <3>4. Cardinality(Untold(k) \ {r}) = Cardinality(Untold(k)) - 1
      BY <3>1, UntoldFinite, FS_RemoveElement DEF SupportInv
    <3>5. logged'[k] = logged[k] + 1 /\ written'[k] = written[k]
      BY <1>1, <2>3, <2>4
    <3>6. Cardinality(Untold(k)) \in Nat
      BY UntoldFinite DEF SupportInv
    <3> QED  BY <2>1, <2>3, <3>3, <3>4, <3>5, <3>6 DEF RowsTold
  <2>5. CASE ~(IsRow(change) /\ RowOf(change) = k)
    <3>1. r \notin Untold(k)
      BY <2>5 DEF Untold, change
    <3>2. logged'[k] = logged[k] /\ written'[k] = written[k]
      BY <1>1, <2>3, <2>5
    <3> QED  BY <1>4, <2>1, <2>2, <3>1, <3>2, CountStays
  <2> QED  BY <2>4, <2>5
<1> QED
  BY <1>4, <1>6, <1>7, <1>8, <1>9 DEF SupportInv

LEMMA FailKeepsTrail ==
    ASSUME SupportInv, NEW r \in Requests, Fail(r)
    PROVE  SupportInv'
<1> DEFINE change == request[r].change
<1>1. /\ cut' = cut \cup {KindOf(change)} /\ request' = [request EXCEPT ![r] = Ended]
      /\ request[r] \notin {Unused, Ended}
      /\ UNCHANGED <<ticket, written, trail, logged, gone, mixed>>
  BY DEF Fail
<1>2. change \in Change
  BY <1>1 DEF SupportInv, Fits
<1>3. /\ request' \in [Requests -> RequestRow] /\ request'[r] = Ended
      /\ \A o \in Requests : o # r => request'[o] = request[o]
      /\ \A o \in Requests : Fits(request'[o])
  BY <1>1, RequestShapes, RequestStep DEF SupportInv, Fits
<1>4. SupportTypeOK'
  BY <1>1, <1>2, <1>3, ChangeShape DEF SupportInv, SupportTypeOK
<1>5. ticket'.status # "none"
  BY <1>1 DEF SupportInv
<1> HIDE DEF change
<1>6. ASSUME NEW c \in Columns, c \notin mixed' \cup cut' PROVE ColumnTold(c)'
  <2>1. ColumnTold(c)
    BY <1>1, <1>6 DEF SupportInv
  <2>2. change.column # c
    BY <1>1, <1>6 DEF KindOf, Columns
  <2>3. request'[r].change.column # c
    BY <1>3, RequestShapes DEF Columns
  <2> QED  BY <1>1, <1>3, <1>4, <2>1, <2>2, <2>3, SameIsEqual, OtherColumn DEF change
<1>7. ASSUME NEW k \in RowKinds, CutKind(k) \notin cut' PROVE RowsTold(k)'
  <2>1. RowsTold(k)
    BY <1>1, <1>7 DEF SupportInv
  <2>2. r \notin Untold(k)
    BY <1>1, <1>2, <1>7, RowShape DEF Untold, change
  <2>3. r \notin Untold(k)'
    BY <1>3, RequestShapes DEF Untold
  <2> QED  BY <1>1, <1>3, <2>1, <2>2, <2>3, CountStays
<1> QED
  BY <1>3, <1>4, <1>5, <1>6, <1>7 DEF SupportInv

\* The deleted tag leaves the ticket, and what the trail tells of it fades.
LEMMA DeleteKeepsTrail ==
    ASSUME SupportInv, NEW u \in Users, NEW t \in Tags, DeleteTag(u, t)
    PROVE  SupportInv'
<1>1. /\ gone' = gone \cup {t} /\ ticket' = [ticket EXCEPT !.tags = @ \ {t}]
      /\ UNCHANGED <<written, trail, logged, request, mixed, cut>>
  BY DEF DeleteTag
<1>2. ticket \in Ticket /\ trail \in Ticket
  BY DEF SupportInv, SupportTypeOK
<1>3. /\ ticket' \in Ticket /\ ticket'.status = ticket.status
      /\ ticket'.tags = ticket.tags \ {t}
      /\ \A c \in Columns : c # "tags" => Same(c, ticket', ticket)
  BY <1>1, <1>2 DEF Ticket, Same, Columns
<1>4. SupportTypeOK'
  BY <1>1, <1>3 DEF SupportInv, SupportTypeOK
<1>5. ASSUME NEW x \in Ticket
      PROVE  /\ [x EXCEPT !.tags = @ \ gone'].tags = Faded(x).tags \ {t}
             /\ \A c \in Columns : c # "tags" => Same(c, [x EXCEPT !.tags = @ \ gone'], Faded(x))
  BY <1>1, <1>5 DEF Faded, Ticket, Same, Columns
<1>6. \A c \in Columns : Of(c)' = Of(c)
  BY <1>1 DEF Of
<1>7. ASSUME NEW c \in Columns, NEW x \in Ticket, Same(c, ticket, Faded(x))
      PROVE  Same(c, ticket', [x EXCEPT !.tags = @ \ gone'])
  <2>1. CASE c # "tags"
    BY <1>3, <1>5, <1>7, <2>1, SameIsEqual
  <2>2. CASE c = "tags"
    BY <1>3, <1>5, <1>7, <2>2 DEF Same
  <2> QED  BY <2>1, <2>2
<1>8. ASSUME NEW c \in Columns, c \notin mixed' \cup cut' PROVE ColumnTold(c)'
  <2>1. ColumnTold(c)
    BY <1>1, <1>8 DEF SupportInv
  <2>2. Of(c) = {} => Same(c, ticket', Faded(trail)')
    BY <1>1, <1>2, <1>7, <2>1 DEF ColumnTold, Faded
  <2>3. ASSUME NEW r \in Of(c) PROVE Same(c, WillBe(r)', WillTell(r)')
    <3> DEFINE change == request[r].change
               told == IF request[r].step = "log" /\ change \notin Replies
                       THEN Written(trail, change) ELSE trail
    <3>1. r \in Requests /\ change.column = c
      BY <2>3 DEF Of
    <3>2. change \in Change
      BY <3>1, RequestShapes DEF SupportInv, Fits, Columns
    <3>3. told \in Ticket
      BY <1>2, <3>2, WrittenKeeps
    <3>4. WillTell(r) = Faded(told) /\ WillTell(r)' = [told EXCEPT !.tags = @ \ gone']
      BY <1>1 DEF WillTell, Faded
    <3>5. Same(c, WillBe(r), Faded(told))
      BY <2>1, <2>3, <3>4 DEF ColumnTold
    <3> HIDE DEF told
    <3>6. CASE change \in Replies
      <4>1. c = "status"
        BY <3>1, <3>2, <3>6, ChangeShape
      <4>2. Same(c, ticket', ticket) /\ Same(c, [told EXCEPT !.tags = @ \ gone'], Faded(told))
        BY <1>3, <1>5, <3>3, <4>1
      <4>3. Same(c, Written(ticket', change), Written(ticket, change))
        BY <1>2, <1>3, <3>1, <3>2, <4>2, WrittenAlike
      <4>4. Same(c, WillBe(r)', WillBe(r))
        BY <1>1, <4>2, <4>3 DEF WillBe
      <4> QED  BY <3>4, <3>5, <4>2, <4>4, SameIsEqual
    <3>7. CASE change \notin Replies
      <4>1. WillBe(r) = ticket /\ WillBe(r)' = ticket'
        BY <1>1, <3>7 DEF WillBe
      <4> QED  BY <1>7, <3>3, <3>4, <3>5, <4>1
    <3> QED  BY <3>6, <3>7
  <2> QED  BY <1>1, <1>6, <2>1, <2>2, <2>3 DEF ColumnTold
<1>9. ASSUME NEW k \in RowKinds, CutKind(k) \notin cut' PROVE RowsTold(k)'
  <2>1. RowsTold(k)
    BY <1>1, <1>9 DEF SupportInv
  <2> QED  BY <1>1, <2>1 DEF RowsTold, Untold
<1> QED
  BY <1>1, <1>3, <1>4, <1>8, <1>9 DEF SupportInv

LEMMA TrailStays == SupportInv /\ [SupportNext]_supportVars => SupportInv'
<1> SUFFICES ASSUME SupportInv, [SupportNext]_supportVars PROVE SupportInv'
  OBVIOUS
<1>1. CASE CreateTicket
  BY <1>1, CreateKeepsTrail
<1>2. ASSUME NEW r \in Requests, WriteRow(r) \/ Save(r) \/ Log(r) \/ Fail(r)
      PROVE  SupportInv'
  BY <1>2, WriteRowKeepsTrail, SaveKeepsTrail, LogKeepsTrail, FailKeepsTrail
<1>3. ASSUME NEW r \in Requests, NEW u \in Users, Arrive(r, u)
      PROVE  SupportInv'
  BY <1>3, ArriveLoads, LoadKeepsTrail
<1>4. CASE UNCHANGED supportVars
  <2>1. /\ UNCHANGED <<ticket, written, trail, logged, gone, request, mixed, cut>>
        /\ SupportTypeOK'
    BY <1>4 DEF supportVars, SupportInv, SupportTypeOK
  <2>2. ASSUME NEW c \in Columns, ColumnTold(c) PROVE ColumnTold(c)'
    BY <2>1, <2>2 DEF ColumnTold, Of, WillBe, WillTell, Faded
  <2>3. ASSUME NEW kind \in RowKinds, RowsTold(kind) PROVE RowsTold(kind)'
    BY <2>1, <2>3 DEF RowsTold, Untold
  <2> QED  BY <2>1, <2>2, <2>3 DEF SupportInv
<1>5. ASSUME NEW u \in Users, NEW t \in Tags, DeleteTag(u, t)
      PROVE  SupportInv'
  BY <1>5, DeleteKeepsTrail
<1> QED
  BY <1>1, <1>2, <1>3, <1>4, <1>5 DEF SupportNext

LEMMA TrailAlways == SupportSpec => []SupportInv
  BY SupportBegins, TrailStays, PTL DEF SupportSpec

\* The ticket, its audit trail and the requests keep their types through every statement of
\* SupportTicketViewSet.
THEOREM SupportTypesHold == SupportSpec => []SupportTypeOK
<1>1. SupportInv => SupportTypeOK
  BY DEF SupportInv
<1> QED
  BY <1>1, TrailAlways, PTL

\* What the audit rows tell is what the ticket shows: in each column no request is changing,
\* unless two changed it at once or one was cut off, but for the tags that were deleted
\* since; and of every message, note and file.
THEOREM TrailAlwaysTellsTicket == SupportSpec => []TrailTellsTicket
<1>1. SupportInv => TrailTellsTicket
  <2> SUFFICES ASSUME SupportInv PROVE TrailTellsTicket
    OBVIOUS
  <2>1. ASSUME NEW c \in Columns, Settled(c) PROVE Same(c, ticket, Faded(trail))
    <3>1. Of(c) = {} /\ c \notin mixed \cup cut
      BY <2>1 DEF Settled, Quiet, Busy, Of, KindOf, Columns
    <3> QED  BY <3>1 DEF ColumnTold, SupportInv
  <2>2. ASSUME NEW kind \in RowKinds, Quiet(CutKind(kind)) PROVE written[kind] = logged[kind]
    <3>1. ASSUME NEW r \in Untold(kind) PROVE FALSE
      <4>1. r \in Requests /\ request[r].step = "log" /\ IsRow(request[r].change)
        BY DEF Untold
      <4>2. request[r].change \in Change
        BY <4>1, RequestShapes DEF SupportInv, Fits
      <4>3. KindOf(request[r].change) = CutKind(kind)
        BY <4>1, <4>2, RowShape DEF Untold
      <4> QED  BY <2>2, <4>1, <4>3 DEF Quiet, Busy
    <3>2. Cardinality(Untold(kind)) = 0
      BY <3>1, FS_EmptySet
    <3>3. written[kind] \in Nat /\ logged[kind] \in Nat
      BY DEF SupportInv, SupportTypeOK
    <3> QED  BY <2>2, <3>2, <3>3 DEF Quiet, RowsTold, SupportInv
  <2>3. /\ Quiet("status") => written.reply = logged.reply
        /\ \A kind \in {"note", "file"} : Quiet(kind) => written[kind] = logged[kind]
    BY <2>2 DEF RowKinds, CutKind
  <2>4. /\ Settled("status") => Same("status", ticket, Faded(trail))
        /\ Settled("assignee") => Same("assignee", ticket, Faded(trail))
        /\ Settled("priority") => Same("priority", ticket, Faded(trail))
        /\ Settled("tags") => Same("tags", ticket, Faded(trail))
    BY <2>1 DEF Columns
  <2>5. trail \in Ticket
    BY DEF SupportInv, SupportTypeOK
  <2> QED  BY <2>3, <2>4, <2>5 DEF TrailTellsTicket, Same, Faded, Ticket
<1> QED
  BY <1>1, TrailAlways, PTL

-------------------------------------------------------------------------------
\* The events of a payment (PaymentTrail).

\* A history in which each event takes up where the one before it left off, the status it
\* ends with, one more event, and where it tells of a success.
Linked(s) == \A i \in 1..Len(s) : s[i].old = (IF i = 1 THEN "none" ELSE s[i - 1].new)
LastStatus(s) == IF s = <<>> THEN "none" ELSE s[Len(s)].new
More(s, old, new) == Append(s, [old |-> old, new |-> new])
Successes(s) == {i \in 1..Len(s) : s[i].new = "success"}

\* A request whose change is committed and whose event is still to be written.
Owes(v) == visit[v].step \in {"refresh", "write"}
Wins(v) == Owes(v) /\ visit[v].to = "success"

VisitOK(v) ==
    \/ visit[v] = NewVisit
    \/ visit[v] = EndedVisit
    \/ /\ visit[v].step \in {"act", "refresh", "write"}
       /\ visit[v].of \in Attempts
       /\ visit[v].to \in {"success", "failed", "cancelled"}
       /\ attempt[visit[v].of] # "none"
       /\ Owes(v) =>
              /\ attempt[visit[v].of] \in {"success", "failed", "cancelled", "refunded"}
              /\ attempt[visit[v].of] \in {"success", "refunded"} => Wins(v)
       /\ visit[v].step = "write" => (visit[v].new = "success" => Wins(v))

\* What holds of an attempt whose requests did not overlap.
History(p) ==
    /\ Linked(event[p])
    /\ \A v, w \in Visits : visit[v].of = p /\ visit[w].of = p => v = w
    /\ (\A v \in Visits : visit[v].of = p => ~Owes(v)) => LastStatus(event[p]) \in LastToldOf(p)
    /\ \A v \in Visits : visit[v].of = p =>
           /\ visit[v].step = "act" =>
                  /\ MayBecome(visit[v].old, visit[v].to)
                  /\ attempt[p] \in {visit[v].old, "cancelled", "success", "refunded"}
           /\ Owes(v) => LastStatus(event[p]) = visit[v].old /\ p \notin silent
           /\ visit[v].step = "write" => visit[v].new \in LastToldOf(p)

OneSuccess ==
    /\ \A v, w \in Visits : Wins(v) /\ Wins(w) => v = w
    /\ \A v \in Visits, p \in Attempts : Wins(v) => Successes(event[p]) = {}
    /\ \A p, q \in Attempts : \A i \in Successes(event[p]), j \in Successes(event[q]) :
           p = q /\ i = j
    /\ awaiting => /\ \A v \in Visits : ~Wins(v)
                   /\ \A p \in Attempts : Successes(event[p]) = {} /\ attempt[p] # "success"

TrailInv ==
    /\ TrailTypeOK
    /\ \A p \in silent : attempt[p] \in {"success", "refunded"}
    /\ \A v \in Visits : VisitOK(v)
    /\ \A p \in Attempts \ muddled : History(p)
    /\ OneSuccess

-------------------------------------------------------------------------------
(* Sequences of events. *)

LEMMA NoEvents == <<>> \in Seq(Event) /\ Linked(<<>>) /\ LastStatus(<<>>) = "none" /\ Successes(<<>>) = {}
BY DEF Linked, LastStatus, Successes

LEMMA OneMoreEvent ==
    ASSUME NEW s \in Seq(Event), NEW old \in AttemptStatus, NEW new \in AttemptStatus
    PROVE  /\ More(s, old, new) \in Seq(Event)
           /\ LastStatus(More(s, old, new)) = new
           /\ Linked(s) /\ old = LastStatus(s) => Linked(More(s, old, new))
           /\ new # "success" => Successes(More(s, old, new)) = Successes(s)
           /\ new = "success" => Successes(More(s, old, new)) = Successes(s) \cup {Len(s) + 1}
<1> DEFINE t == More(s, old, new)
<1>1. /\ [old |-> old, new |-> new] \in Event /\ t \in Seq(Event) /\ Len(t) = Len(s) + 1
      /\ Len(s) \in Nat
      /\ t[Len(s) + 1] = [old |-> old, new |-> new]
      /\ \A i \in 1..Len(s) : t[i] = s[i]
  BY DEF Event, More
<1> HIDE DEF t
<1>2. t # <<>> /\ LastStatus(t) = new
  BY <1>1 DEF LastStatus
<1>3. ASSUME Linked(s), old = LastStatus(s)
      PROVE  Linked(t)
  <2>1. CASE s = <<>>
    BY <1>1, <1>3, <2>1 DEF Linked, LastStatus
  <2>2. CASE s # <<>>
    <3>1. Len(s) > 0 /\ old = s[Len(s)].new
      BY <1>3, <2>2 DEF LastStatus
    <3>2. ASSUME NEW i \in 1..Len(t)
          PROVE  t[i].old = (IF i = 1 THEN "none" ELSE t[i - 1].new)
      <4>1. CASE i = Len(s) + 1
        BY <1>1, <3>1, <4>1
      <4>2. CASE i # Len(s) + 1
        <5>1. i \in 1..Len(s) /\ (i # 1 => i - 1 \in 1..Len(s))
          BY <1>1, <3>2, <4>2
        <5> QED
          BY <1>1, <1>3, <5>1 DEF Linked
      <4> QED  BY <4>1, <4>2
    <3> QED  BY <3>2 DEF Linked
  <2> QED  BY <2>1, <2>2
<1>4. Successes(t) = Successes(s) \cup (IF new = "success" THEN {Len(s) + 1} ELSE {})
  BY <1>1 DEF Successes
<1> QED
  BY <1>1, <1>2, <1>3, <1>4 DEF t

-------------------------------------------------------------------------------
(* What a step leaves alone. *)

\* The requests about an attempt, and which of them owe an event, are as before.
SameVisits(p) ==
    \A v \in Visits : /\ visit'[v].of = p <=> visit[v].of = p
                      /\ visit[v].of = p => visit'[v] = visit[v]

LEMMA HistoryKept ==
    ASSUME NEW p \in Attempts, History(p), SameVisits(p), event'[p] = event[p],
           attempt'[p] = attempt[p], p \in silent' <=> p \in silent
    PROVE  History(p)'
<1>1. \A v \in Visits : visit[v].of = p => (Owes(v)' <=> Owes(v))
  BY DEF SameVisits, Owes
<1> QED
  BY <1>1 DEF History, SameVisits, LastToldOf

\* An attempt that ends because of another, or with the order.
LEMMA HistorySwept ==
    ASSUME TrailInv, NEW p \in Attempts, History(p), SameVisits(p),
           attempt[p] = "pending", attempt'[p] = "cancelled",
           event'[p] = WithEvent(p, "pending", "cancelled"), p \notin silent'
    PROVE  History(p)'
<1>1. \A v \in Visits : visit[v].of = p => ~Owes(v) /\ (Owes(v)' <=> Owes(v))
  BY TrailAssumption DEF TrailAssumption, TrailInv, VisitOK, SameVisits, Owes, NewVisit, EndedVisit
<1>2. p \notin silent /\ event[p] \in Seq(Event)
  BY DEF TrailInv, TrailTypeOK
<1>3. LastStatus(event[p]) = "pending"
  BY <1>1, <1>2 DEF History, LastToldOf
<1>4. Linked(event'[p]) /\ LastStatus(event'[p]) = "cancelled"
  <2>1. Linked(event[p]) /\ "pending" \in AttemptStatus /\ "cancelled" \in AttemptStatus
    BY DEF History, AttemptStatus
  <2>2. event'[p] = More(event[p], "pending", "cancelled")
    BY DEF WithEvent, More
  <2>3. /\ Linked(More(event[p], "pending", "cancelled"))
        /\ LastStatus(More(event[p], "pending", "cancelled")) = "cancelled"
    BY <1>2, <1>3, <2>1, OneMoreEvent
  <2> QED
    BY <2>2, <2>3
<1>5. ASSUME NEW v \in Visits, visit'[v].of = p
      PROVE  /\ ~Owes(v)' /\ visit'[v].step # "write"
             /\ visit'[v].step = "act" => MayBecome(visit'[v].old, visit'[v].to)
  BY <1>1, <1>5 DEF History, SameVisits, Owes
<1>6. \A v, w \in Visits : visit'[v].of = p /\ visit'[w].of = p => v = w
  BY DEF History, SameVisits
<1> QED
  BY <1>4, <1>5, <1>6 DEF History, LastToldOf

\* Nothing about successes changes.
LEMMA OneSuccessKept ==
    ASSUME OneSuccess, awaiting' => awaiting,
           \A v \in Visits : Wins(v)' => Wins(v),
           \A p \in Attempts : Successes(event'[p]) = Successes(event[p]),
           \A p \in Attempts : awaiting' /\ attempt'[p] = "success" => attempt[p] = "success"
    PROVE  OneSuccess'
BY DEF OneSuccess

\* The other requests fit as before, whatever ended because of another attempt.
LEMMA VisitKept ==
    ASSUME NEW v \in Visits, VisitOK(v), visit'[v] = visit[v],
           \A p \in Attempts : attempt'[p] # attempt[p] =>
                                    attempt[p] = "pending" /\ attempt'[p] # "none"
    PROVE  VisitOK(v)'
<1>1. /\ visit[v].step \in {"act", "refresh", "write"} => visit[v].of \in Attempts
      /\ (Owes(v)' <=> Owes(v)) /\ (Wins(v)' <=> Wins(v))
  BY DEF VisitOK, Owes, Wins, NewVisit, EndedVisit
<1>2. CASE visit[v] \in {NewVisit, EndedVisit}
  BY <1>2 DEF VisitOK, NewVisit, EndedVisit
<1>3. CASE visit[v] \notin {NewVisit, EndedVisit}
  BY <1>1, <1>3 DEF VisitOK
<1> QED  BY <1>2, <1>3

-------------------------------------------------------------------------------
(* One lemma per action. *)

LEMMA InitTrail == TrailInit => TrailInv
<1> SUFFICES ASSUME TrailInit PROVE TrailInv
  OBVIOUS
<1>1. NewVisit \in Visit
  BY DEF NewVisit, Visit, AttemptStatus
<1>2. TrailTypeOK
  BY <1>1, NoEvents DEF TrailInit, TrailTypeOK, AttemptStatus
<1>3. \A v \in Visits : visit[v] = NewVisit /\ ~Owes(v) /\ ~Wins(v) /\ VisitOK(v)
  BY DEF TrailInit, NewVisit, Owes, Wins, VisitOK
<1>4. ASSUME NEW p \in Attempts PROVE History(p) /\ Successes(event[p]) = {}
  <2>1. event[p] = <<>> /\ LastToldOf(p) = {"none"}
    BY DEF TrailInit, LastToldOf
  <2>2. \A v \in Visits : visit[v].of # p
    BY <1>3, TrailAssumption DEF TrailAssumption, NewVisit
  <2> QED
    BY <2>1, <2>2, NoEvents DEF History
<1>5. OneSuccess
  BY <1>3, <1>4 DEF TrailInit, OneSuccess
<1> QED
  BY <1>2, <1>3, <1>4, <1>5 DEF TrailInit, TrailInv

LEMMA VisitCreateKeeps ==
    ASSUME TrailInv, NEW p \in Attempts, CreateAttempt(p)
    PROVE  TrailInv'
<1> DEFINE e == More(event[p], "none", "pending")
<1>1. /\ event' = [event EXCEPT ![p] = e] /\ event[p] \in Seq(Event)
      /\ attempt' = [attempt EXCEPT ![p] = "pending"] /\ attempt[p] = "none"
      /\ UNCHANGED <<awaiting, visit, silent, muddled>>
      /\ "none" \in AttemptStatus /\ "pending" \in AttemptStatus
  BY DEF CreateAttempt, WithEvent, More, TrailInv, TrailTypeOK, AttemptStatus
<1>2. /\ e \in Seq(Event) /\ LastStatus(e) = "pending" /\ Successes(e) = Successes(event[p])
      /\ Linked(event[p]) /\ LastStatus(event[p]) = "none" => Linked(e)
  BY <1>1, OneMoreEvent
<1> HIDE DEF e
<1>3. TrailTypeOK'
  BY <1>1, <1>2 DEF TrailInv, TrailTypeOK
<1>4. p \notin silent /\ \A v \in Visits : visit[v].of # p
  BY <1>1, TrailAssumption
     DEF TrailAssumption, TrailInv, VisitOK, NewVisit, EndedVisit
<1>5. /\ attempt'[p] = "pending" /\ event'[p] = e
      /\ \A q \in Attempts : q # p => attempt'[q] = attempt[q] /\ event'[q] = event[q]
  BY <1>1 DEF TrailInv, TrailTypeOK
<1>6. \A v \in Visits : VisitOK(v)'
  <2>1. ASSUME NEW v \in Visits PROVE VisitOK(v)'
    <3>1. VisitOK(v) /\ visit[v].of # p
      BY <1>4 DEF TrailInv
    <3> QED
      BY <1>1, <1>5, <3>1 DEF VisitOK, Owes, Wins, NewVisit, EndedVisit
  <2> QED  BY <2>1
<1>7. ASSUME NEW q \in Attempts \ muddled' PROVE History(q)'
  <2>1. History(q) /\ SameVisits(q)
    BY <1>1 DEF TrailInv, SameVisits
  <2>2. CASE q = p
    <3>1. Linked(e)
      BY <1>1, <1>2, <1>4, <2>1, <2>2 DEF History, LastToldOf
    <3> QED
      BY <1>1, <1>2, <1>4, <1>5, <2>2, <3>1 DEF History, LastToldOf
  <2>3. CASE q # p
    BY <1>1, <1>5, <2>1, <2>3, HistoryKept
  <2> QED  BY <2>2, <2>3
<1>8. OneSuccess'
  <2>1. \A v \in Visits : Wins(v)' => Wins(v)
    BY <1>1 DEF Wins, Owes
  <2>2. \A q \in Attempts : Successes(event'[q]) = Successes(event[q])
    BY <1>2, <1>5
  <2> QED
    BY <1>1, <1>5, <2>1, <2>2, OneSuccessKept DEF TrailInv
<1> QED
  BY <1>1, <1>3, <1>4, <1>5, <1>6, <1>7, <1>8 DEF TrailInv, TrailTypeOK

LEMMA VisitLoadKeeps ==
    ASSUME TrailInv, NEW v \in Visits, NEW p \in Attempts,
           NEW to \in {"success", "failed", "cancelled"}, LoadAttempt(v, p, to)
    PROVE  TrailInv'
<1> DEFINE row == [step |-> "act", to |-> to, of |-> p, old |-> attempt[p], new |-> attempt[p]]
<1>1. /\ visit' = [visit EXCEPT ![v] = row] /\ visit[v] = NewVisit
      /\ MayBecome(attempt[p], to)
      /\ UNCHANGED <<attempt, awaiting, event, silent>>
      /\ muddled' \subseteq Attempts /\ muddled \subseteq muddled'
      /\ p \notin muddled' => \A w \in Visits : visit[w].of # p
  BY DEF LoadAttempt, TrailInv, TrailTypeOK
<1>2. /\ row \in Visit /\ row.step = "act" /\ row.of = p /\ row.to = to
      /\ row.old = attempt[p] /\ attempt[p] # "none"
  BY <1>1 DEF Visit, TrailInv, TrailTypeOK, AttemptStatus, MayBecome
<1> HIDE DEF row
<1>3. TrailTypeOK'
  BY <1>1, <1>2 DEF TrailInv, TrailTypeOK
<1>4. visit'[v] = row /\ \A w \in Visits : w # v => visit'[w] = visit[w]
  BY <1>1 DEF TrailInv, TrailTypeOK
<1>5. ASSUME NEW w \in Visits PROVE VisitOK(w)'
  <2>1. CASE w = v
    BY <1>1, <1>2, <1>4, <2>1 DEF VisitOK, Owes
  <2>2. CASE w # v
    <3>1. VisitOK(w) /\ visit'[w] = visit[w] /\ \A q \in Attempts : attempt'[q] = attempt[q]
      BY <1>1, <1>4, <2>2 DEF TrailInv
    <3> QED
      BY <3>1, VisitKept
  <2> QED  BY <2>1, <2>2
<1>6. \A w \in Visits : Wins(w)' => Wins(w)
  BY <1>2, <1>4 DEF Wins, Owes
<1>7. OneSuccess'
  BY <1>1, <1>6, OneSuccessKept DEF TrailInv
<1>8. ASSUME NEW q \in Attempts \ muddled' PROVE History(q)'
  <2>1. History(q)
    BY <1>1 DEF TrailInv
  <2>2. CASE q = p
    <3>1. \A w \in Visits : w # v => visit'[w].of # p
      BY <1>1, <1>4, <2>2
    <3>2. LastStatus(event[p]) \in LastToldOf(p)
      BY <1>1, <2>1, <2>2 DEF History
    <3> QED
      BY <1>1, <1>2, <1>4, <2>1, <2>2, <3>1, <3>2 DEF History, LastToldOf, Owes
  <2>3. CASE q # p
    <3>1. SameVisits(q)
      BY <1>1, <1>2, <1>4, <2>3, TrailAssumption DEF TrailAssumption, SameVisits, NewVisit
    <3> QED
      BY <1>1, <2>1, <3>1, HistoryKept
  <2> QED  BY <2>2, <2>3
<1> QED
  BY <1>1, <1>3, <1>5, <1>7, <1>8 DEF TrailInv

\* A request that ends without an event.
LEMMA VisitEndKeeps ==
    ASSUME TrailInv, NEW v \in Visits, visit' = [visit EXCEPT ![v] = EndedVisit],
           UNCHANGED <<attempt, awaiting, event, silent>>,
           muddled' \subseteq Attempts, muddled \subseteq muddled',
           Owes(v) => visit[v].of \in muddled'
    PROVE  TrailInv'
<1>1. EndedVisit \in Visit /\ EndedVisit.step = "done" /\ EndedVisit.of = 0
  BY DEF EndedVisit, NewVisit, Visit, AttemptStatus
<1>2. TrailTypeOK'
  BY <1>1 DEF TrailInv, TrailTypeOK
<1>3. visit'[v] = EndedVisit /\ \A w \in Visits : w # v => visit'[w] = visit[w]
  BY DEF TrailInv, TrailTypeOK
<1>4. ASSUME NEW w \in Visits PROVE VisitOK(w)'
  <2>1. CASE w = v
    BY <1>3, <2>1 DEF VisitOK
  <2>2. CASE w # v
    <3>1. VisitOK(w) /\ visit'[w] = visit[w] /\ \A q \in Attempts : attempt'[q] = attempt[q]
      BY <1>3, <2>2 DEF TrailInv
    <3> QED
      BY <3>1, VisitKept
  <2> QED  BY <2>1, <2>2
<1>5. \A w \in Visits : Wins(w)' => Wins(w)
  BY <1>1, <1>3 DEF Wins, Owes
<1>6. OneSuccess'
  BY <1>5, OneSuccessKept DEF TrailInv
<1>7. ASSUME NEW q \in Attempts \ muddled' PROVE History(q)'
  <2>1. History(q) /\ q # 0
    BY TrailAssumption DEF TrailAssumption, TrailInv
  <2>2. CASE visit[v].of = q
    <3>1. \A w \in Visits : visit'[w].of # q
      BY <1>1, <1>3, <2>1, <2>2 DEF History
    <3>2. LastStatus(event[q]) \in LastToldOf(q)
      BY <2>1, <2>2 DEF History
    <3> QED
      BY <2>1, <3>1, <3>2 DEF History, LastToldOf
  <2>3. CASE visit[v].of # q
    <3>1. SameVisits(q)
      BY <1>1, <1>3, <2>1, <2>3 DEF SameVisits
    <3> QED
      BY <2>1, <3>1, HistoryKept
  <2> QED  BY <2>2, <2>3
<1> QED
  BY <1>2, <1>4, <1>6, <1>7 DEF TrailInv

LEMMA RefreshKeeps ==
    ASSUME TrailInv, NEW v \in Visits, RefreshAttempt(v)
    PROVE  TrailInv'
<1> DEFINE p == visit[v].of
<1>1. /\ visit[v].step = "refresh" /\ Owes(v) /\ p \in Attempts /\ VisitOK(v)
      /\ visit[v] \in Visit
      /\ visit' = [visit EXCEPT ![v].new = attempt[p], ![v].step = "write"]
      /\ UNCHANGED <<attempt, awaiting, event, silent, muddled>>
  BY DEF RefreshAttempt, TrailInv, TrailTypeOK, VisitOK, NewVisit, EndedVisit, Owes
<1>2. attempt[p] \in AttemptStatus
  BY <1>1 DEF TrailInv, TrailTypeOK
<1>3. /\ visit' \in [Visits -> Visit]
      /\ \A w \in Visits : w # v => visit'[w] = visit[w]
      /\ visit'[v].step = "write" /\ visit'[v].of = p /\ visit'[v].to = visit[v].to
      /\ visit'[v].old = visit[v].old /\ visit'[v].new = attempt[p]
  BY <1>1, <1>2 DEF TrailInv, TrailTypeOK, Visit
<1> HIDE DEF p
<1>4. /\ attempt[p] \in {"success", "failed", "cancelled", "refunded"}
      /\ attempt[p] \in {"success", "refunded"} => Wins(v)
      /\ visit[v].to \in {"success", "failed", "cancelled"}
  BY <1>1 DEF VisitOK, NewVisit, EndedVisit, Owes, p
<1>5. Owes(v)' /\ (Wins(v)' <=> Wins(v)) /\ \A w \in Visits : (Wins(w)' => Wins(w))
  BY <1>1, <1>3 DEF Wins, Owes
<1>6. ASSUME NEW w \in Visits PROVE VisitOK(w)'
  <2>1. CASE w = v
    BY <1>1, <1>3, <1>4, <1>5, <2>1 DEF VisitOK
  <2>2. CASE w # v
    <3>1. VisitOK(w) /\ visit'[w] = visit[w] /\ \A q \in Attempts : attempt'[q] = attempt[q]
      BY <1>1, <1>3, <2>2 DEF TrailInv
    <3> QED
      BY <3>1, VisitKept
  <2> QED  BY <2>1, <2>2
<1>7. OneSuccess'
  BY <1>1, <1>5, OneSuccessKept DEF TrailInv
<1>8. ASSUME NEW q \in Attempts \ muddled' PROVE History(q)'
  <2>1. History(q)
    BY <1>1 DEF TrailInv
  <2>2. CASE q = p
    <3>1. visit[v].of = q /\ visit'[v].of = q /\ visit'[v].step = "write" /\ Owes(v)'
      BY <1>1, <1>3, <1>5, <2>2 DEF p
    <3>2. \A w \in Visits : visit'[w].of = q => w = v
      BY <1>3, <2>1, <3>1 DEF History
    <3>3. LastStatus(event[q]) = visit[v].old /\ q \notin silent
      BY <1>1, <2>1, <3>1 DEF History
    <3>4. visit'[v].new \in LastToldOf(q) /\ LastToldOf(q)' = LastToldOf(q)
      BY <1>1, <1>3, <2>2, <3>3 DEF LastToldOf
    <3>5. UNCHANGED <<event, attempt, silent>> /\ Linked(event[q]) /\ visit'[v].old = visit[v].old
      BY <1>1, <1>3, <2>1 DEF History
    <3> QED
      BY <3>1, <3>2, <3>3, <3>4, <3>5 DEF History
  <2>3. CASE q # p
    <3>1. SameVisits(q)
      BY <1>1, <1>3, <2>3 DEF SameVisits, p
    <3> QED
      BY <1>1, <2>1, <3>1, HistoryKept
  <2> QED  BY <2>2, <2>3
<1> QED
  BY <1>1, <1>3, <1>6, <1>7, <1>8 DEF TrailInv, TrailTypeOK

LEMMA WriteKeeps ==
    ASSUME TrailInv, NEW v \in Visits, WriteEvent(v)
    PROVE  TrailInv'
<1> DEFINE p == visit[v].of
           e == More(event[p], visit[v].old, visit[v].new)
<1>1. /\ visit[v].step = "write" /\ Owes(v) /\ p \in Attempts /\ p # 0 /\ VisitOK(v)
      /\ visit[v] \in Visit /\ event[p] \in Seq(Event)
      /\ visit' = [visit EXCEPT ![v] = EndedVisit]
      /\ event' = [event EXCEPT ![p] = e]
      /\ UNCHANGED <<attempt, awaiting, silent, muddled>>
  BY TrailAssumption
     DEF TrailAssumption, WriteEvent, WithEvent, More, TrailInv, TrailTypeOK, VisitOK, NewVisit,
         EndedVisit, Owes
<1>2. /\ e \in Seq(Event) /\ LastStatus(e) = visit[v].new
      /\ Linked(event[p]) /\ visit[v].old = LastStatus(event[p]) => Linked(e)
      /\ visit[v].new # "success" => Successes(e) = Successes(event[p])
      /\ visit[v].new = "success" => Successes(e) = Successes(event[p]) \cup {Len(event[p]) + 1}
  <2>1. visit[v].old \in AttemptStatus /\ visit[v].new \in AttemptStatus
    BY <1>1 DEF Visit
  <2> QED
    BY <1>1, <2>1, OneMoreEvent
<1>3. visit[v].new = "success" => Wins(v)
  BY <1>1 DEF VisitOK, NewVisit, EndedVisit
<1> HIDE DEF e
<1>4. EndedVisit \in Visit /\ EndedVisit.step = "done" /\ EndedVisit.of = 0
  BY DEF EndedVisit, NewVisit, Visit, AttemptStatus
<1>5. /\ visit'[v] = EndedVisit /\ \A w \in Visits : w # v => visit'[w] = visit[w]
      /\ event'[p] = e /\ \A q \in Attempts : q # p => event'[q] = event[q]
  BY <1>1 DEF TrailInv, TrailTypeOK
<1>6. TrailTypeOK'
  BY <1>1, <1>2, <1>4 DEF TrailInv, TrailTypeOK
<1>7. ASSUME NEW w \in Visits PROVE VisitOK(w)'
  <2>1. CASE w = v
    BY <1>5, <2>1 DEF VisitOK
  <2>2. CASE w # v
    <3>1. VisitOK(w) /\ visit'[w] = visit[w] /\ \A q \in Attempts : attempt'[q] = attempt[q]
      BY <1>1, <1>5, <2>2 DEF TrailInv
    <3> QED
      BY <3>1, VisitKept
  <2> QED  BY <2>1, <2>2
<1>8. ~Wins(v)' /\ \A w \in Visits : Wins(w)' => Wins(w)
  BY <1>4, <1>5 DEF Wins, Owes
<1>9. OneSuccess'
  <2>1. CASE visit[v].new = "success"
    <3>1. /\ ~awaiting' /\ \A w \in Visits : ~Wins(w)'
      BY <1>1, <1>3, <1>8, <2>1 DEF TrailInv, OneSuccess
    <3>2. /\ Successes(event'[p]) = {Len(event[p]) + 1}
          /\ \A q \in Attempts : q # p => Successes(event'[q]) = {}
      BY <1>1, <1>2, <1>3, <1>5, <2>1 DEF TrailInv, OneSuccess
    <3>3. \A q, r \in Attempts : \A i \in Successes(event'[q]), j \in Successes(event'[r]) :
              q = r /\ i = j
      BY SMTT(30), <3>2
    <3> QED
      BY <3>1, <3>3 DEF OneSuccess
  <2>2. CASE visit[v].new # "success"
    <3>1. \A q \in Attempts : Successes(event'[q]) = Successes(event[q])
      BY <1>2, <1>5, <2>2
    <3> QED
      BY <1>1, <1>8, <3>1, OneSuccessKept DEF TrailInv
  <2> QED  BY <2>1, <2>2
<1>10. ASSUME NEW q \in Attempts \ muddled' PROVE History(q)'
  <2>1. History(q) /\ q # 0
    BY <1>1, TrailAssumption DEF TrailAssumption, TrailInv
  <2>2. CASE q = p
    <3>1. /\ visit[v].old = LastStatus(event[p]) /\ p \notin silent
          /\ visit[v].new \in LastToldOf(p) /\ Linked(event[p])
      BY <1>1, <2>1, <2>2 DEF History
    <3>2. \A w \in Visits : visit'[w].of # q
      BY <1>4, <1>5, <2>1, <2>2 DEF History
    <3> QED
      BY <1>1, <1>2, <1>5, <2>2, <3>1, <3>2 DEF History, LastToldOf
  <2>3. CASE q # p
    <3>1. SameVisits(q)
      BY <1>4, <1>5, <2>1, <2>3 DEF SameVisits
    <3> QED
      BY <1>1, <1>5, <2>1, <2>3, <3>1, HistoryKept
  <2> QED  BY <2>2, <2>3
<1> QED
  BY <1>1, <1>6, <1>7, <1>9, <1>10 DEF TrailInv

-------------------------------------------------------------------------------
(* Steps that end other attempts. *)

Swept(q) ==
    /\ attempt[q] = "pending" /\ attempt'[q] = "cancelled"
    /\ event'[q] = WithEvent(q, "pending", "cancelled")

Kept(q) == attempt'[q] = attempt[q] /\ event'[q] = event[q]

LEMMA EventSwept ==
    ASSUME TrailInv, NEW q \in Attempts
    PROVE  /\ WithEvent(q, "pending", "cancelled") \in Seq(Event)
           /\ Successes(WithEvent(q, "pending", "cancelled")) = Successes(event[q])
<1>1. event[q] \in Seq(Event) /\ "pending" \in AttemptStatus /\ "cancelled" \in AttemptStatus
  BY DEF TrailInv, TrailTypeOK, AttemptStatus
<1>2. /\ More(event[q], "pending", "cancelled") \in Seq(Event)
      /\ Successes(More(event[q], "pending", "cancelled")) = Successes(event[q])
  BY <1>1, OneMoreEvent
<1> QED
  BY <1>2 DEF WithEvent, More

LEMMA CancelOrderKeeps ==
    ASSUME TrailInv, CancelTheOrder
    PROVE  TrailInv'
<1>1. UNCHANGED <<visit, silent, muddled>> /\ ~awaiting'
  BY DEF CancelTheOrder
<1>2. \A q \in Attempts : Swept(q) \/ Kept(q)
  BY DEF CancelTheOrder, TrailInv, TrailTypeOK, Swept, Kept
<1>3. TrailTypeOK'
  <2>1. attempt' \in [Attempts -> AttemptStatus]
    BY DEF CancelTheOrder, TrailInv, TrailTypeOK, AttemptStatus
  <2>2. event' \in [Attempts -> Seq(Event)]
    BY EventSwept DEF CancelTheOrder, TrailInv, TrailTypeOK
  <2> QED
    BY <1>1, <2>1, <2>2 DEF CancelTheOrder, TrailInv, TrailTypeOK
<1>4. \A p \in silent' : attempt'[p] \in {"success", "refunded"}
  BY <1>1, <1>2 DEF TrailInv, TrailTypeOK, Swept, Kept
<1>5. ASSUME NEW w \in Visits PROVE VisitOK(w)'
  <2>1. \A q \in Attempts : attempt'[q] # attempt[q] =>
                                attempt[q] = "pending" /\ attempt'[q] # "none"
    BY <1>2 DEF Swept, Kept
  <2>2. VisitOK(w) /\ visit'[w] = visit[w]
    BY <1>1 DEF TrailInv
  <2> QED
    BY <2>1, <2>2, VisitKept
<1>6. OneSuccess'
  <2>1. \A w \in Visits : Wins(w)' => Wins(w)
    BY <1>1 DEF Wins, Owes
  <2>2. \A q \in Attempts : Successes(event'[q]) = Successes(event[q])
    BY <1>2, EventSwept DEF Swept, Kept
  <2> QED
    BY <1>1, <2>1, <2>2, OneSuccessKept DEF TrailInv
<1>7. ASSUME NEW q \in Attempts \ muddled' PROVE History(q)'
  <2>1. History(q) /\ SameVisits(q) /\ (q \in silent' <=> q \in silent)
    BY <1>1 DEF TrailInv, SameVisits
  <2>2. CASE Kept(q)
    BY <2>1, <2>2, HistoryKept DEF Kept
  <2>3. CASE Swept(q)
    <3>1. q \notin silent'
      BY <1>4, <2>3 DEF Swept
    <3> QED
      BY <2>1, <2>3, <3>1, HistorySwept DEF Swept
  <2> QED  BY <1>2, <2>2, <2>3
<1> QED
  BY <1>3, <1>4, <1>5, <1>6, <1>7 DEF TrailInv

\* An attempt succeeds and the others that are pending end with it.
LEMMA SuccessSweeps ==
    ASSUME TrailInv, NEW p \in Attempts, EndOthers(p, "success"), attempt[p] = "pending"
    PROVE  /\ attempt'[p] = "success" /\ event'[p] = event[p]
           /\ \A q \in Attempts : q # p => Swept(q) \/ Kept(q)
           /\ attempt' \in [Attempts -> AttemptStatus] /\ event' \in [Attempts -> Seq(Event)]
           /\ \A q \in Attempts : Successes(event'[q]) = Successes(event[q])
           /\ \A q \in Attempts : attempt'[q] # attempt[q] =>
                                     attempt[q] = "pending" /\ attempt'[q] # "none"
<1>1. /\ attempt'[p] = "success" /\ event'[p] = event[p]
      /\ \A q \in Attempts : q # p => Swept(q) \/ Kept(q)
  BY DEF EndOthers, PendingIn, Swept, Kept
<1>2. attempt' \in [Attempts -> AttemptStatus]
  BY DEF EndOthers, PendingIn, TrailInv, TrailTypeOK, AttemptStatus
<1>3. event' \in [Attempts -> Seq(Event)]
  BY EventSwept DEF EndOthers, PendingIn, TrailInv, TrailTypeOK
<1>4. \A q \in Attempts : Successes(event'[q]) = Successes(event[q])
  BY <1>1, EventSwept DEF Swept, Kept
<1>5. \A q \in Attempts : attempt'[q] # attempt[q] =>
                              attempt[q] = "pending" /\ attempt'[q] # "none"
  BY <1>1 DEF Swept, Kept
<1> QED
  BY <1>1, <1>2, <1>3, <1>4, <1>5

LEMMA MarkSuccessKeeps ==
    ASSUME TrailInv, NEW v \in Visits, MarkAttempt(v), visit[v].to = "success"
    PROVE  TrailInv'
<1> DEFINE p == visit[v].of
<1>1. /\ visit[v].step = "act" /\ p \in Attempts /\ visit[v] \in Visit
      /\ attempt[p] = "pending" /\ awaiting /\ awaiting' = FALSE
      /\ EndOthers(p, "success")
      /\ visit' = [visit EXCEPT ![v].step = "refresh"]
      /\ UNCHANGED <<silent, muddled>>
  BY DEF MarkAttempt, MayBecome, TrailInv, TrailTypeOK, VisitOK, NewVisit, EndedVisit
<1>2. /\ visit' \in [Visits -> Visit]
      /\ \A w \in Visits : w # v => visit'[w] = visit[w]
      /\ visit'[v].step = "refresh" /\ visit'[v].of = p /\ visit'[v].to = "success"
      /\ visit'[v].old = visit[v].old
  BY <1>1 DEF TrailInv, TrailTypeOK, Visit
<1> HIDE DEF p
<1>3. /\ attempt'[p] = "success" /\ event'[p] = event[p]
      /\ \A q \in Attempts : q # p => Swept(q) \/ Kept(q)
      /\ attempt' \in [Attempts -> AttemptStatus] /\ event' \in [Attempts -> Seq(Event)]
      /\ \A q \in Attempts : Successes(event'[q]) = Successes(event[q])
      /\ \A q \in Attempts : attempt'[q] # attempt[q] =>
                                attempt[q] = "pending" /\ attempt'[q] # "none"
  BY <1>1, SuccessSweeps
<1>4. TrailTypeOK'
  BY <1>1, <1>2, <1>3 DEF TrailInv, TrailTypeOK
<1>5. \A q \in silent' : attempt'[q] \in {"success", "refunded"}
  BY <1>1, <1>3 DEF TrailInv, TrailTypeOK
<1>6. Wins(v)' /\ Owes(v)' /\ \A w \in Visits : w # v => ~Wins(w)'
  BY <1>1, <1>2 DEF Wins, Owes, TrailInv, OneSuccess
<1>7. ASSUME NEW w \in Visits PROVE VisitOK(w)'
  <2>1. CASE w = v
    BY <1>1, <1>2, <1>3, <1>6, <2>1 DEF VisitOK
  <2>2. CASE w # v
    <3>1. VisitOK(w) /\ visit'[w] = visit[w]
      BY <1>2, <2>2 DEF TrailInv
    <3> QED
      BY <1>3, <3>1, VisitKept
  <2> QED  BY <2>1, <2>2
<1>8. OneSuccess'
  <2>1. \A q \in Attempts : Successes(event'[q]) = {}
    BY <1>1, <1>3 DEF TrailInv, OneSuccess
  <2> QED
    BY <1>1, <1>6, <2>1 DEF OneSuccess
<1>9. ASSUME NEW q \in Attempts \ muddled' PROVE History(q)'
  <2>1. History(q) /\ (q \in silent' <=> q \in silent)
    BY <1>1 DEF TrailInv
  <2>2. CASE q = p
    <3>1. p \notin silent /\ LastStatus(event[p]) = "pending" /\ visit[v].old = "pending"
      <4>1. p \notin silent
        BY <1>1 DEF TrailInv
      <4>2. \A w \in Visits : visit[w].of = p => ~Owes(w)
        BY <1>1, <2>1, <2>2 DEF History, Owes, p
      <4>3. attempt[p] \in {visit[v].old, "cancelled", "success", "refunded"}
        BY <1>1, <2>1, <2>2 DEF History, p
      <4> QED
        BY <1>1, <2>1, <2>2, <4>1, <4>2, <4>3 DEF History, LastToldOf
    <3>2. \A w \in Visits : visit'[w].of = p => w = v
      BY <1>2, <2>1, <2>2 DEF History, p
    <3> QED
      BY <1>1, <1>2, <1>3, <1>6, <2>1, <2>2, <3>1, <3>2 DEF History
  <2>3. CASE q # p
    <3>1. SameVisits(q)
      BY <1>2, <2>3 DEF SameVisits, p
    <3>2. CASE Kept(q)
      BY <2>1, <3>1, <3>2, HistoryKept DEF Kept
    <3>3. CASE Swept(q)
      <4>1. q \notin silent'
        BY <1>5, <3>3 DEF Swept
      <4> QED
        BY <2>1, <3>1, <3>3, <4>1, HistorySwept DEF Swept
    <3> QED  BY <1>3, <2>3, <3>2, <3>3
  <2> QED  BY <2>2, <2>3
<1> QED
  BY <1>4, <1>5, <1>7, <1>8, <1>9 DEF TrailInv

LEMMA MarkOtherKeeps ==
    ASSUME TrailInv, NEW v \in Visits, MarkAttempt(v), visit[v].to # "success"
    PROVE  TrailInv'
<1> DEFINE p == visit[v].of
           to == visit[v].to
<1>1. /\ visit[v].step = "act" /\ p \in Attempts /\ visit[v] \in Visit
      /\ to \in {"failed", "cancelled"} /\ MayBecome(attempt[p], to)
      /\ attempt' = [attempt EXCEPT ![p] = to]
      /\ visit' = [visit EXCEPT ![v].step = "refresh"]
      /\ UNCHANGED <<awaiting, event, silent, muddled>>
  BY DEF MarkAttempt, TrailInv, TrailTypeOK, VisitOK, NewVisit, EndedVisit
<1>2. /\ visit' \in [Visits -> Visit]
      /\ \A w \in Visits : w # v => visit'[w] = visit[w]
      /\ visit'[v].step = "refresh" /\ visit'[v].of = p /\ visit'[v].to = to
      /\ visit'[v].old = visit[v].old
  BY <1>1 DEF TrailInv, TrailTypeOK, Visit
<1>3. /\ attempt'[p] = to /\ \A q \in Attempts : q # p => attempt'[q] = attempt[q]
      /\ attempt' \in [Attempts -> AttemptStatus]
  BY <1>1 DEF TrailInv, TrailTypeOK, AttemptStatus
<1> HIDE DEF p, to
<1>4. attempt[p] \in {"pending", "failed"} /\ p \notin silent
  BY <1>1 DEF MayBecome, TrailInv
<1>5. TrailTypeOK'
  BY <1>1, <1>2, <1>3 DEF TrailInv, TrailTypeOK
<1>6. \A q \in silent' : attempt'[q] \in {"success", "refunded"}
  BY <1>1, <1>3, <1>4 DEF TrailInv, TrailTypeOK
<1>7. Owes(v)' /\ \A w \in Visits : Wins(w)' => Wins(w)
  BY <1>1, <1>2 DEF Wins, Owes
<1>8. ASSUME NEW w \in Visits PROVE VisitOK(w)'
  <2>1. CASE w = v
    BY <1>1, <1>2, <1>3, <1>7, <2>1 DEF VisitOK
  <2>2. CASE w # v
    <3>1. VisitOK(w) /\ visit'[w] = visit[w] /\ (Owes(w)' <=> Owes(w)) /\ (Wins(w)' <=> Wins(w))
      BY <1>2, <2>2 DEF TrailInv, Owes, Wins
    <3> QED
      BY <1>1, <1>3, <1>4, <3>1 DEF VisitOK, NewVisit, EndedVisit
  <2> QED  BY <2>1, <2>2
<1>9. OneSuccess'
  <2>1. \A q \in Attempts : awaiting' /\ attempt'[q] = "success" => attempt[q] = "success"
    BY <1>1, <1>3
  <2> QED
    BY <1>1, <1>7, <2>1, OneSuccessKept DEF TrailInv
<1>10. ASSUME NEW q \in Attempts \ muddled' PROVE History(q)'
  <2>1. History(q)
    BY <1>1 DEF TrailInv
  <2>2. CASE q = p
    <3>1. LastStatus(event[p]) = visit[v].old
      <4>1. \A w \in Visits : visit[w].of = p => ~Owes(w)
        BY <1>1, <2>1, <2>2 DEF History, Owes, p
      <4>2. attempt[p] \in {visit[v].old, "cancelled", "success", "refunded"}
        BY <1>1, <2>1, <2>2 DEF History, p
      <4> QED
        BY <1>4, <2>1, <2>2, <4>1, <4>2 DEF History, LastToldOf
    <3>2. \A w \in Visits : visit'[w].of = p => w = v
      BY <1>2, <2>1, <2>2 DEF History, p
    <3> QED
      BY <1>1, <1>2, <1>3, <1>4, <1>7, <2>1, <2>2, <3>1, <3>2 DEF History
  <2>3. CASE q # p
    <3>1. SameVisits(q)
      BY <1>2, <2>3 DEF SameVisits, p
    <3> QED
      BY <1>1, <1>3, <2>1, <2>3, <3>1, HistoryKept
  <2> QED  BY <2>2, <2>3
<1> QED
  BY <1>5, <1>6, <1>8, <1>9, <1>10 DEF TrailInv

LEMMA CaptureKeeps ==
    ASSUME TrailInv, NEW p \in Attempts, ConfirmCapture(p)
    PROVE  TrailInv'
<1>1. /\ attempt[p] = "pending" /\ awaiting /\ awaiting' = FALSE /\ EndOthers(p, "success")
      /\ silent' = silent \cup {p} /\ UNCHANGED <<visit, muddled>>
  BY DEF ConfirmCapture
<1>2. /\ attempt'[p] = "success" /\ event'[p] = event[p]
      /\ \A q \in Attempts : q # p => Swept(q) \/ Kept(q)
      /\ attempt' \in [Attempts -> AttemptStatus] /\ event' \in [Attempts -> Seq(Event)]
      /\ \A q \in Attempts : Successes(event'[q]) = Successes(event[q])
      /\ \A q \in Attempts : attempt'[q] # attempt[q] =>
                                attempt[q] = "pending" /\ attempt'[q] # "none"
  BY <1>1, SuccessSweeps
<1>3. TrailTypeOK'
  BY <1>1, <1>2 DEF TrailInv, TrailTypeOK
<1>4. \A q \in silent' : attempt'[q] \in {"success", "refunded"}
  BY <1>1, <1>2 DEF TrailInv, TrailTypeOK
<1>5. ASSUME NEW w \in Visits PROVE VisitOK(w)'
  <2>1. VisitOK(w) /\ visit'[w] = visit[w]
    BY <1>1 DEF TrailInv
  <2> QED
    BY <1>2, <2>1, VisitKept
<1>6. OneSuccess'
  <2>1. \A w \in Visits : Wins(w)' => Wins(w)
    BY <1>1 DEF Wins, Owes
  <2> QED
    BY <1>1, <1>2, <2>1, OneSuccessKept DEF TrailInv
<1>7. ASSUME NEW q \in Attempts \ muddled' PROVE History(q)'
  <2>1. History(q) /\ SameVisits(q)
    BY <1>1 DEF TrailInv, SameVisits
  <2>2. CASE q = p
    <3>1. p \notin silent
      BY <1>1 DEF TrailInv
    <3>2. \A w \in Visits : visit[w].of = p => ~Owes(w) /\ ~Owes(w)'
      BY <1>1, TrailAssumption
         DEF TrailAssumption, TrailInv, VisitOK, Owes, NewVisit, EndedVisit
    <3>3. LastStatus(event[p]) = "pending" /\ Linked(event'[p])
      BY <1>1, <1>2, <2>1, <2>2, <3>1, <3>2 DEF History, LastToldOf
    <3> QED
      BY <1>1, <1>2, <2>1, <2>2, <3>2, <3>3 DEF History, LastToldOf, Owes
  <2>3. CASE q # p /\ Kept(q)
    BY <1>1, <2>1, <2>3, HistoryKept DEF Kept
  <2>4. CASE q # p /\ Swept(q)
    <3>1. q \notin silent'
      BY <1>4, <2>4 DEF Swept
    <3> QED
      BY <2>1, <2>4, <3>1, HistorySwept DEF Swept
  <2> QED  BY <1>2, <2>2, <2>3, <2>4
<1> QED
  BY <1>3, <1>4, <1>5, <1>6, <1>7 DEF TrailInv

\* A refund is told by no event; only a request that marked the attempt may still see it.
LEMMA RefundAttemptKeeps ==
    ASSUME TrailInv, NEW p \in Attempts, RefundAttempt(p)
    PROVE  TrailInv'
<1>1. /\ attempt[p] = "success" /\ attempt' = [attempt EXCEPT ![p] = "refunded"]
      /\ UNCHANGED <<awaiting, event, visit, silent, muddled>>
  BY DEF RefundAttempt
<1>2. /\ attempt'[p] = "refunded" /\ attempt' \in [Attempts -> AttemptStatus]
      /\ \A q \in Attempts : q # p => attempt'[q] = attempt[q]
  BY <1>1 DEF TrailInv, TrailTypeOK, AttemptStatus
<1>3. TrailTypeOK'
  BY <1>1, <1>2 DEF TrailInv, TrailTypeOK
<1>4. \A q \in silent' : attempt'[q] \in {"success", "refunded"}
  BY <1>1, <1>2, <1>3 DEF TrailInv, TrailTypeOK
<1>5. \A v \in Visits : visit'[v] = visit[v] /\ (Owes(v)' <=> Owes(v)) /\ (Wins(v)' <=> Wins(v))
  BY <1>1 DEF Owes, Wins
<1>6. ASSUME NEW v \in Visits PROVE VisitOK(v)'
  <2>1. VisitOK(v)
    BY DEF TrailInv
  <2>2. CASE visit[v] \in {NewVisit, EndedVisit}
    BY <1>5, <2>2 DEF VisitOK
  <2>3. CASE visit[v] \notin {NewVisit, EndedVisit}
    <3>1. CASE visit[v].of = p
      BY <1>1, <1>2, <1>5, <2>1, <2>3, <3>1 DEF VisitOK
    <3>2. CASE visit[v].of # p
      BY <1>1, <1>2, <1>5, <2>1, <2>3, <3>2 DEF VisitOK
    <3> QED  BY <3>1, <3>2
  <2> QED  BY <2>2, <2>3
<1>7. OneSuccess'
  <2>1. \A q \in Attempts : Successes(event'[q]) = Successes(event[q])
    BY <1>1
  <2>2. \A q \in Attempts : awaiting' /\ attempt'[q] = "success" => attempt[q] = "success"
    BY <1>1, <1>2
  <2> QED  BY <1>1, <1>5, <2>1, <2>2, OneSuccessKept DEF TrailInv
<1>8. ASSUME NEW q \in Attempts \ muddled' PROVE History(q)'
  <2>1. History(q) /\ SameVisits(q) /\ event'[q] = event[q] /\ (q \in silent' <=> q \in silent)
    BY <1>1 DEF TrailInv, SameVisits
  <2>2. CASE q = p
    <3>1. LastToldOf(p) \subseteq LastToldOf(p)'
      BY <1>1, <1>2 DEF LastToldOf
    <3> QED
      BY <1>1, <1>2, <1>5, <2>1, <2>2, <3>1 DEF History
  <2>3. CASE q # p
    BY <1>2, <2>1, <2>3, HistoryKept
  <2> QED  BY <2>2, <2>3
<1> QED
  BY <1>1, <1>3, <1>4, <1>6, <1>7, <1>8 DEF TrailInv

LEMMA StepKeepsTrail == TrailInv /\ [TrailNext]_trailVars => TrailInv'
<1> SUFFICES ASSUME TrailInv, [TrailNext]_trailVars
             PROVE  TrailInv'
  OBVIOUS
<1>1. ASSUME NEW v \in Visits, RefuseAttempt(v) \/ CutOffVisit(v)
      PROVE  TrailInv'
  <2>1. /\ visit' = [visit EXCEPT ![v] = EndedVisit]
        /\ UNCHANGED <<attempt, awaiting, event, silent>>
        /\ muddled \subseteq muddled' /\ (Owes(v) => visit[v].of \in muddled')
    BY <1>1 DEF RefuseAttempt, CutOffVisit, Owes
  <2>2. visit[v].step # "new" => visit[v] = EndedVisit \/ visit[v].of \in Attempts
    BY DEF TrailInv, VisitOK, NewVisit
  <2>3. muddled' \subseteq Attempts
    BY <1>1, <2>2 DEF RefuseAttempt, CutOffVisit, TrailInv, TrailTypeOK, EndedVisit, NewVisit
  <2> QED
    BY <2>1, <2>3, VisitEndKeeps
<1>2. ASSUME NEW v \in Visits, MarkAttempt(v)
      PROVE  TrailInv'
  BY <1>2, MarkSuccessKeeps, MarkOtherKeeps
<1>3. CASE UNCHANGED trailVars
  <2>1. \A v \in Visits : (Owes(v)' <=> Owes(v)) /\ (Wins(v)' <=> Wins(v))
    BY <1>3 DEF trailVars, Owes, Wins
  <2>2. ASSUME NEW v \in Visits PROVE VisitOK(v)'
    BY <1>3, <2>1 DEF trailVars, TrailInv, VisitOK
  <2>3. ASSUME NEW p \in Attempts \ muddled' PROVE History(p)'
    BY <1>3, <2>1 DEF trailVars, TrailInv, History, LastToldOf
  <2> QED
    BY <1>3, <2>1, <2>2, <2>3 DEF trailVars, TrailInv, TrailTypeOK, OneSuccess
<1> QED
  BY <1>1, <1>2, <1>3, VisitCreateKeeps, VisitLoadKeeps, RefreshKeeps, WriteKeeps, CancelOrderKeeps,
     CaptureKeeps, RefundAttemptKeeps DEF TrailNext

-------------------------------------------------------------------------------
\* Attempts, events and requests keep their types (payments.Payment, PaymentEvent).
THEOREM TrailTypesHold == TrailSpec => []TrailTypeOK
<1>1. TrailInv => TrailTypeOK
  BY DEF TrailInv
<1> QED
  BY <1>1, InitTrail, StepKeepsTrail, PTL DEF TrailSpec

\* The events of every attempt whose requests did not overlap are its history, and no two
\* events of an order tell of a success, for any number of attempts and requests
\* (PaymentViewSet.mark_success, mark_failed, cancel); only a confirmed capture and a refund
\* of all that was paid leave no event.
THEOREM EventsAreAlwaysHistory == TrailSpec => []EventsAreHistory
<1>1. TrailInv => EventsAreHistory
  <2> SUFFICES ASSUME TrailInv PROVE EventsAreHistory
    OBVIOUS
  <2>1. ASSUME NEW p \in Attempts \ muddled
        PROVE  /\ \A i \in 1..Len(event[p]) :
                      event[p][i].old = (IF i = 1 THEN "none" ELSE event[p][i - 1].new)
               /\ (\A v \in Visits : visit[v].of # p) /\ attempt[p] # "none" =>
                      event[p][Len(event[p])].new \in LastToldOf(p)
    <3>1. History(p)
      BY DEF TrailInv
    <3>2. ASSUME \A v \in Visits : visit[v].of # p, attempt[p] # "none"
          PROVE  event[p] # <<>> /\ event[p][Len(event[p])].new \in LastToldOf(p)
      BY <3>1, <3>2 DEF History, LastStatus, LastToldOf
    <3> QED
      BY <3>1, <3>2 DEF History, Linked, LastToldOf
  <2>2. ASSUME NEW p \in Attempts, NEW q \in Attempts,
               NEW i \in 1..Len(event[p]), NEW j \in 1..Len(event[q]),
               event[p][i].new = "success", event[q][j].new = "success"
        PROVE  p = q /\ i = j
    BY <2>2 DEF TrailInv, OneSuccess, Successes
  <2> QED
    BY <2>1, <2>2 DEF EventsAreHistory
<1> QED
  BY <1>1, InitTrail, StepKeepsTrail, PTL DEF TrailSpec

-------------------------------------------------------------------------------
\* Muted notifications (Notices).

Fields == {"types", "channels", "off"}

\* What SilentWhenMuted needs while no two changes of the preferences overlapped: there is one
\* at most, and but for the field it changes it has the row as it is; what was muted when it
\* happened is still muted when the preferences are asked.
NoticesAgree ==
    /\ preference = wish
    /\ unwanted = {}
    /\ \A e, o \in Errands : errand[e].step = "save" /\ errand[o].step = "save" => e = o
    /\ \A e \in Errands : errand[e].step = "save" =>
           \A field \in Fields : field # errand[e].field =>
               errand[e].row[field] = preference[field]
    /\ \A e \in Errands : errand[e].step = "tell" /\ errand[e].muted =>
           ~is_notification_allowed(wish, errand[e].type, errand[e].channel)
    /\ \A e \in Errands : errand[e].step = "create" => ~errand[e].muted

NoticeInv == NoticeTypeOK /\ (~clash => NoticesAgree)

LEMMA PreferenceFields ==
    /\ DOMAIN NothingMuted = Fields
    /\ NothingMuted \in Preference
BY DEF NothingMuted, Fields, Preference

LEMMA SamePreference ==
    ASSUME NEW p \in Preference, NEW q \in Preference, \A field \in Fields : p[field] = q[field]
    PROVE  p = q
BY DEF Fields, Preference

LEMMA ErrandTypes ==
    /\ NoNote \in Note /\ NewErrand \in Errand /\ EndedErrand \in Errand
    /\ NewErrand.step = "new" /\ EndedErrand.step = "done" /\ ~EndedErrand.muted
<1>1. Types # {} /\ Channels # {}
  BY NoticeAssumption DEF NoticeAssumption, Types
<1>2. NoNote.type \in Types /\ NoNote.channel \in Channels
  BY <1>1 DEF NoNote
<1>3. NoNote \in Note
  BY <1>2 DEF NoNote, Note
<1>4. NewErrand \in Errand
  BY <1>2, PreferenceFields DEF NewErrand, Errand, Fields
<1> QED
  BY <1>3, <1>4 DEF EndedErrand, NewErrand, Errand

LEMMA NoticesBegin == NoticeInit => NoticeInv
<1> SUFFICES ASSUME NoticeInit PROVE NoticeInv
  OBVIOUS
<1>1. NoticeTypeOK
  BY PreferenceFields, ErrandTypes DEF NoticeInit, NoticeTypeOK
<1>2. NoticesAgree
  BY ErrandTypes DEF NoticeInit, NoticesAgree
<1> QED
  BY <1>1, <1>2 DEF NoticeInv

\* An errand that moves on or ends, while the preferences stay.
LEMMA ErrandMoves ==
    ASSUME NoticeInv, NEW e \in Errands, NEW work \in Errand,
           errand' = [errand EXCEPT ![e] = work],
           note' \in [Notes -> Note], UNCHANGED <<preference, wish, clash>>,
           ~clash => unwanted' = unwanted, unwanted' \subseteq Notes,
           work.step # "save",
           ~clash /\ work.step = "tell" /\ work.muted =>
               ~is_notification_allowed(wish, work.type, work.channel),
           ~clash /\ work.step = "create" => ~work.muted
    PROVE  NoticeInv'
<1>1. \A o \in Errands : errand'[o] = IF o = e THEN work ELSE errand[o]
  BY DEF NoticeInv, NoticeTypeOK
<1>2. NoticeTypeOK'
  BY <1>1 DEF NoticeInv, NoticeTypeOK
<1>3. ASSUME ~clash' PROVE NoticesAgree'
  <2>1. NoticesAgree /\ preference' = preference /\ wish' = wish /\ unwanted' = unwanted
    BY <1>3 DEF NoticeInv
  <2>2. \A o \in Errands : errand'[o].step = "save" => errand'[o] = errand[o]
    BY <1>1
  <2>3. \A o \in Errands :
            /\ errand'[o].step = "tell" /\ errand'[o].muted =>
                   ~is_notification_allowed(wish, errand'[o].type, errand'[o].channel)
            /\ errand'[o].step = "create" => ~errand'[o].muted
    BY <1>1, <1>3, <2>1 DEF NoticesAgree
  <2>4. \A o \in Errands : errand'[o].step = "save" =>
            \A field \in Fields : field # errand'[o].field =>
                errand'[o].row[field] = preference[field]
    BY <2>1, <2>2 DEF NoticesAgree
  <2>5. \A o, k \in Errands : errand'[o].step = "save" /\ errand'[k].step = "save" => o = k
    BY <2>1, <2>2 DEF NoticesAgree
  <2>6. \A o \in Errands : errand'[o].step = "tell" /\ errand'[o].muted =>
            ~is_notification_allowed(wish', errand'[o].type, errand'[o].channel)
    BY <2>1, <2>3
  <2> QED  BY <2>1, <2>3, <2>4, <2>5, <2>6 DEF NoticesAgree
<1> QED
  BY <1>2, <1>3 DEF NoticeInv

LEMMA EndKeeps ==
    ASSUME NoticeInv, NEW e \in Errands, End(e),
           note' \in [Notes -> Note], UNCHANGED <<preference, wish, clash>>,
           ~clash => unwanted' = unwanted, unwanted' \subseteq Notes
    PROVE  NoticeInv'
BY ErrandTypes, ErrandMoves DEF End

LEMMA HappensKeeps ==
    ASSUME NoticeInv, NEW e \in Errands, NEW h \in Happenings, NEW channel \in Channels,
           Happens(e, h, channel)
    PROVE  NoticeInv'
<1> DEFINE type == NOTIFICATION_TEMPLATES[h]
           muted == ~is_notification_allowed(wish, type, channel)
           work == [NewErrand EXCEPT !.step = "tell", !.type = type, !.channel = channel,
                                     !.muted = muted]
<1>1. type \in Types
  BY DEF Types
<1>2. muted \in BOOLEAN
  BY DEF is_notification_allowed
<1> HIDE DEF type, muted
<1>3. /\ work \in Errand /\ work.step = "tell" /\ work.muted = muted
      /\ work.type = type /\ work.channel = channel
  BY <1>1, <1>2, ErrandTypes DEF Errand
<1>4. /\ errand' = [errand EXCEPT ![e] = work]
      /\ UNCHANGED <<preference, wish, note, unwanted, clash>>
  BY DEF Happens, Begins, type, muted
<1>5. work.muted => ~is_notification_allowed(wish, work.type, work.channel)
  BY <1>3 DEF muted
<1> HIDE DEF work
<1> QED
  BY <1>3, <1>4, <1>5, ErrandMoves DEF NoticeInv, NoticeTypeOK

LEMMA AskKeeps ==
    ASSUME NoticeInv, NEW e \in Errands, AskPreference(e)
    PROVE  NoticeInv'
<1>1. /\ errand[e].step = "tell" /\ errand[e] \in Errand
      /\ UNCHANGED <<preference, wish, note, unwanted, clash>>
      /\ note \in [Notes -> Note] /\ unwanted \subseteq Notes
  BY DEF AskPreference, NoticeInv, NoticeTypeOK
<1>2. CASE ~is_notification_allowed(preference, errand[e].type, errand[e].channel)
  <2>1. End(e)
    BY <1>2 DEF AskPreference
  <2> QED  BY <1>1, <2>1, EndKeeps
<1>3. CASE is_notification_allowed(preference, errand[e].type, errand[e].channel)
  <2> DEFINE work == [errand[e] EXCEPT !.step = "create"]
  <2>1. errand' = [errand EXCEPT ![e] = work]
    BY <1>3 DEF AskPreference, NoticeInv, NoticeTypeOK
  <2>2. work \in Errand /\ work.step = "create" /\ work.muted = errand[e].muted
    BY <1>1 DEF Errand
  <2>3. ~clash => ~errand[e].muted
    BY <1>1, <1>3 DEF NoticeInv, NoticesAgree
  <2> HIDE DEF work
  <2> QED  BY <1>1, <2>1, <2>2, <2>3, ErrandMoves
<1> QED
  BY <1>2, <1>3

LEMMA CreateKeeps ==
    ASSUME NoticeInv, NEW e \in Errands, NEW n \in Notes, CreateNotification(e, n)
    PROVE  NoticeInv'
<1>1. /\ errand[e].step = "create" /\ errand[e] \in Errand /\ End(e)
      /\ UNCHANGED <<preference, wish, clash>>
      /\ unwanted \subseteq Notes /\ note \in [Notes -> Note]
  BY DEF CreateNotification, NoticeInv, NoticeTypeOK
<1> DEFINE made == [state |-> "unread", type |-> errand[e].type, channel |-> errand[e].channel]
<1>2. note' = [note EXCEPT ![n] = made] /\ made \in Note
  BY <1>1 DEF CreateNotification, Note, Errand
<1> HIDE DEF made
<1>3. note' \in [Notes -> Note]
  BY <1>1, <1>2
<1>4. unwanted' = IF errand[e].muted THEN unwanted \cup {n} ELSE unwanted
  BY DEF CreateNotification
<1>5. ~clash => ~errand[e].muted
  BY <1>1 DEF NoticeInv, NoticesAgree
<1> QED
  BY <1>1, <1>3, <1>4, <1>5, EndKeeps

LEMMA LoadKeeps ==
    ASSUME NoticeInv, NEW e \in Errands, NEW field \in Fields,
           NEW value, [preference EXCEPT ![field] = value] \in Preference,
           LoadPreferences(e, field, value)
    PROVE  NoticeInv'
<1> DEFINE edited == [preference EXCEPT ![field] = value]
           work == [NewErrand EXCEPT !.step = "save", !.field = field, !.row = edited]
<1>1. /\ errand' = [errand EXCEPT ![e] = work]
      /\ clash' = (clash \/ \E o \in Errands : errand[o].step = "save")
      /\ UNCHANGED <<preference, wish, note, unwanted>>
  BY DEF LoadPreferences, Begins
<1>2. \A other \in Fields : other # field => edited[other] = preference[other]
  BY DEF Preference, NoticeInv, NoticeTypeOK, Fields
<1> HIDE DEF edited
<1>3. work \in Errand /\ work.step = "save" /\ work.field = field /\ work.row = edited
  BY PreferenceFields, ErrandTypes DEF Errand, edited
<1> HIDE DEF work
<1>4. \A o \in Errands : errand'[o] = IF o = e THEN work ELSE errand[o]
  BY <1>1 DEF NoticeInv, NoticeTypeOK
<1>5. NoticeTypeOK'
  BY <1>1, <1>3, <1>4 DEF NoticeInv, NoticeTypeOK
<1>6. ASSUME ~clash' PROVE NoticesAgree'
  <2>1. NoticesAgree /\ \A o \in Errands : errand[o].step # "save"
    BY <1>1, <1>6 DEF NoticeInv
  <2>2. \A o \in Errands : errand'[o].step = "save" => o = e
    BY <1>4, <2>1
  <2>3. \A o \in Errands : errand'[o].step # "save" => errand'[o] = errand[o]
    BY <1>3, <1>4
  <2>4. \A o \in Errands : errand'[o].step = "tell" /\ errand'[o].muted =>
            ~is_notification_allowed(wish', errand'[o].type, errand'[o].channel)
    BY <1>1, <2>1, <2>3 DEF NoticesAgree
  <2>5. \A o \in Errands : errand'[o].step = "create" => ~errand'[o].muted
    BY <2>1, <2>3 DEF NoticesAgree
  <2>6. \A other \in Fields : other # errand'[e].field =>
            errand'[e].row[other] = preference'[other]
    BY <1>1, <1>2, <1>3, <1>4
  <2>7. preference' = wish' /\ unwanted' = {}
    BY <1>1, <2>1 DEF NoticesAgree
  <2>8. \A o \in Errands : errand'[o].step = "save" =>
            \A other \in Fields : other # errand'[o].field =>
                errand'[o].row[other] = preference'[other]
    BY <2>2, <2>6
  <2> QED  BY <2>2, <2>4, <2>5, <2>7, <2>8 DEF NoticesAgree
<1> QED
  BY <1>5, <1>6 DEF NoticeInv

LEMMA SaveKeeps ==
    ASSUME NoticeInv, NEW e \in Errands, SavePreferences(e)
    PROVE  NoticeInv'
<1> DEFINE field == errand[e].field
           edited == errand[e].row
           stillMuted(o) == errand[o].muted
                       /\ ~is_notification_allowed(wish', errand[o].type, errand[o].channel)
<1>1. /\ errand[e].step = "save" /\ errand[e] \in Errand
      /\ UNCHANGED <<note, unwanted, clash>>
      /\ preference' = edited /\ wish' = [wish EXCEPT ![field] = edited[field]]
      /\ errand' = [o \in Errands |-> IF o = e THEN EndedErrand
                                      ELSE [errand[o] EXCEPT !.muted = stillMuted(o)]]
  BY DEF SavePreferences, NoticeInv, NoticeTypeOK
<1>2. field \in Fields /\ edited \in Preference
  BY <1>1, PreferenceFields DEF Errand
<1>3. wish' \in Preference /\ \A other \in Fields :
          wish'[other] = IF other = field THEN edited[field] ELSE wish[other]
  BY <1>1, <1>2 DEF NoticeInv, NoticeTypeOK, Preference, Fields
<1>4. \A o \in Errands : stillMuted(o) \in BOOLEAN
  BY DEF NoticeInv, NoticeTypeOK, Errand
<1>5. \A o \in Errands \ {e} :
          /\ errand'[o] \in Errand /\ errand'[o].muted = stillMuted(o)
          /\ errand'[o].step = errand[o].step /\ errand'[o].type = errand[o].type
          /\ errand'[o].channel = errand[o].channel
  <2> TAKE o \in Errands \ {e}
  <2> DEFINE still == stillMuted(o)
  <2>1. still \in BOOLEAN /\ errand[o] \in Errand
    BY <1>4 DEF NoticeInv, NoticeTypeOK
  <2>2. errand'[o] = [errand[o] EXCEPT !.muted = still]
    BY <1>1
  <2> HIDE DEF still
  <2>3. /\ errand'[o] \in Errand /\ errand'[o].muted = still
        /\ errand'[o].step = errand[o].step /\ errand'[o].type = errand[o].type
        /\ errand'[o].channel = errand[o].channel
    BY <2>1, <2>2 DEF Errand
  <2> QED  BY <2>3 DEF still
<1> HIDE DEF stillMuted
<1>6. errand' \in [Errands -> Errand] /\ errand'[e] = EndedErrand
  BY <1>1, <1>5, ErrandTypes
<1>7. NoticeTypeOK'
  BY <1>1, <1>2, <1>3, <1>6 DEF NoticeInv, NoticeTypeOK
<1>8. ASSUME ~clash' PROVE NoticesAgree'
  <2>1. NoticesAgree
    BY <1>1, <1>8 DEF NoticeInv
  <2>2. \A o \in Errands \ {e} : errand[o].step # "save"
    BY <1>1, <2>1 DEF NoticesAgree
  <2>3. \A o \in Errands : errand'[o].step # "save"
    BY <1>5, <1>6, <2>2, ErrandTypes
  <2>4. \A other \in Fields : wish'[other] = edited[other]
    BY <1>1, <1>2, <1>3, <2>1 DEF NoticesAgree
  <2>5. wish' = preference'
    BY <1>1, <1>2, <1>3, <2>4, SamePreference
  <2>6. \A o \in Errands : errand'[o].step = "tell" /\ errand'[o].muted =>
            ~is_notification_allowed(wish', errand'[o].type, errand'[o].channel)
    BY <1>5, <1>6, ErrandTypes DEF stillMuted
  <2>7. \A o \in Errands : errand'[o].step = "create" => ~errand'[o].muted
    BY <1>5, <1>6, <2>1, ErrandTypes DEF stillMuted, NoticesAgree
  <2> QED  BY <1>1, <2>1, <2>3, <2>5, <2>6, <2>7 DEF NoticesAgree
<1> QED
  BY <1>7, <1>8 DEF NoticeInv

LEMMA MarkKeeps ==
    ASSUME NoticeInv, NEW e \in Errands, NEW n \in Notes, SaveMark(e, n)
    PROVE  NoticeInv'
<1>1. /\ errand[e].step = "mark" /\ errand[e] \in Errand
      /\ UNCHANGED <<preference, wish, unwanted, clash>>
      /\ note \in [Notes -> Note] /\ unwanted \subseteq Notes
  BY DEF SaveMark, NoticeInv, NoticeTypeOK
<1>2. note' \in [Notes -> Note]
  <2>1. note' = note \/ note' = [note EXCEPT ![n].state = errand[e].to]
    BY DEF SaveMark
  <2>2. [note[n] EXCEPT !.state = errand[e].to] \in Note
    BY <1>1 DEF Note, Errand
  <2> QED  BY <1>1, <2>1, <2>2
<1>3. CASE End(e)
  BY <1>1, <1>2, <1>3, EndKeeps
<1>4. CASE errand' = [errand EXCEPT ![e].of = @ \ {n}]
  <2> DEFINE work == [errand[e] EXCEPT !.of = @ \ {n}]
  <2>1. errand' = [errand EXCEPT ![e] = work]
    BY <1>4 DEF NoticeInv, NoticeTypeOK
  <2>2. work \in Errand /\ work.step = "mark"
    BY <1>1 DEF Errand
  <2> HIDE DEF work
  <2> QED  BY <1>1, <1>2, <2>1, <2>2, ErrandMoves
<1> QED
  BY <1>3, <1>4 DEF SaveMark

LEMMA LoadToMarkKeeps ==
    ASSUME NoticeInv, NEW e \in Errands, NEW ns \in SUBSET Notes, NEW to \in {"unread", "read"},
           LoadToMark(e, ns, to)
    PROVE  NoticeInv'
<1> DEFINE work == [NewErrand EXCEPT !.step = "mark", !.of = ns, !.to = to]
<1>1. /\ errand' = [errand EXCEPT ![e] = work]
      /\ UNCHANGED <<preference, wish, note, unwanted, clash>>
  BY DEF LoadToMark, Begins
<1>2. work \in Errand /\ work.step = "mark"
  BY ErrandTypes DEF Errand
<1> HIDE DEF work
<1> QED
  BY <1>1, <1>2, ErrandMoves DEF NoticeInv, NoticeTypeOK

\* Steps that touch the notifications only.
LEMMA NoteKeeps ==
    ASSUME NoticeInv, note' \in [Notes -> Note],
           UNCHANGED <<preference, wish, errand, unwanted, clash>>
    PROVE  NoticeInv'
BY DEF NoticeInv, NoticeTypeOK, NoticesAgree

LEMMA RemoveKeeps ==
    ASSUME NoticeInv, NEW ns, Remove(ns)
    PROVE  NoticeInv'
<1>1. \A n \in Notes : [note[n] EXCEPT !.state = "deleted"] \in Note /\ note[n] \in Note
  BY DEF NoticeInv, NoticeTypeOK, Note
<1>2. note' \in [Notes -> Note]
  BY <1>1 DEF Remove
<1> QED
  BY <1>2, NoteKeeps DEF Remove

LEMMA NoticesStay == NoticeInv /\ [NoticeNext]_noticeVars => NoticeInv'
<1> SUFFICES ASSUME NoticeInv, [NoticeNext]_noticeVars PROVE NoticeInv'
  OBVIOUS
<1>1. CASE UNCHANGED noticeVars
  BY <1>1, NoteKeeps DEF noticeVars, NoticeInv, NoticeTypeOK
<1>2. CASE MarkAllRead
  <2>1. \A n \in Notes : [note[n] EXCEPT !.state = "read"] \in Note /\ note[n] \in Note
    BY DEF NoticeInv, NoticeTypeOK, Note
  <2>2. note' \in [Notes -> Note]
    BY <1>2, <2>1 DEF MarkAllRead
  <2> QED  BY <1>2, <2>2, NoteKeeps DEF MarkAllRead
<1>3. CASE ClearRead \/ ClearAll
  BY <1>3, RemoveKeeps DEF ClearRead, ClearAll
<1>4. CASE \E n \in Notes : CleanUp(n)
  BY <1>4, RemoveKeeps DEF CleanUp
<1>5. CASE \E ns \in SUBSET Notes : DeleteSelected(ns)
  BY <1>5, RemoveKeeps DEF DeleteSelected
<1>6. ASSUME NEW e \in Errands, AskPreference(e) PROVE NoticeInv'
  BY <1>6, AskKeeps
<1>7. ASSUME NEW e \in Errands, SavePreferences(e) PROVE NoticeInv'
  BY <1>7, SaveKeeps
<1>8. ASSUME NEW e \in Errands, \E h \in Happenings, c \in Channels : Happens(e, h, c)
      PROVE  NoticeInv'
  BY <1>8, HappensKeeps
<1>9. ASSUME NEW e \in Errands, \E n \in Notes : CreateNotification(e, n) \/ SaveMark(e, n)
      PROVE  NoticeInv'
  BY <1>9, CreateKeeps, MarkKeeps
<1>10. ASSUME NEW e \in Errands, NEW types \in SUBSET Types, LoadPreferences(e, "types", types)
       PROVE  NoticeInv'
  <2>1. [preference EXCEPT !["types"] = types] \in Preference /\ "types" \in Fields
    BY DEF NoticeInv, NoticeTypeOK, Preference, Fields
  <2> QED  BY <1>10, <2>1, LoadKeeps
<1>11. ASSUME NEW e \in Errands, NEW field \in {"channels", "off"}, NEW cs \in SUBSET Channels,
              LoadPreferences(e, field, cs)
       PROVE  NoticeInv'
  <2>1. [preference EXCEPT ![field] = cs] \in Preference /\ field \in Fields
    BY DEF NoticeInv, NoticeTypeOK, Preference, Fields
  <2> QED  BY <1>11, <2>1, LoadKeeps
<1>12. ASSUME NEW e \in Errands,
              \E ns \in SUBSET Notes, to \in {"unread", "read"} : LoadToMark(e, ns, to)
       PROVE  NoticeInv'
  BY <1>12, LoadToMarkKeeps
<1> QED
  BY <1>1, <1>2, <1>3, <1>4, <1>5, <1>6, <1>7, <1>8, <1>9, <1>10, <1>11, <1>12 DEF NoticeNext

LEMMA NoticesAlways == NoticeSpec => []NoticeInv
<1> QED
  BY NoticesBegin, NoticesStay, PTL DEF NoticeSpec

\* Preferences, notifications and what callers are doing with them keep their types: no step
\* of the receivers, the views or the clean-up leaves a row half made.
THEOREM NoticeTypesHold == NoticeSpec => []NoticeTypeOK
<1>1. NoticeInv => NoticeTypeOK
  BY DEF NoticeInv
<1> QED
  BY <1>1, NoticesAlways, PTL

\* create_notification makes no notification of a type or channel that was muted when it
\* happened and stayed so, as long as no two changes of the preferences overlapped.
THEOREM MutedIsAlwaysSilent == NoticeSpec => []SilentWhenMuted
<1>1. NoticeInv => SilentWhenMuted
  BY DEF NoticeInv, NoticesAgree, SilentWhenMuted
<1> QED
  BY <1>1, NoticesAlways, PTL

-------------------------------------------------------------------------------
\* What is stored because it was counted (Reviews).

AtWork(j) == Working(j) /\ job[j].op # "vote"

\* A review that exists has a rating, and so has one that is about to be saved.
ReviewsFit ==
    /\ \A a \in Authors : review[a].status # "none" => review[a].rating \in Ratings
    /\ \A j \in Jobs : job[j].op \in Forms => job[j].row.rating \in Ratings

\* One request at most is alone, and what it read to store is still so.
AloneIsAlone ==
    \A j \in Jobs : AtWork(j) /\ job[j].alone =>
        /\ \A k \in Jobs : AtWork(k) => k = j
        /\ Refreshing(j) /\ job[j].step = "store" => job[j].stats = Aggregate

\* Counts an edit has read are those of the votes until one comes between.
EditsAreCurrent ==
    \A j \in Jobs : \A a \in job[j].of \ miscounted :
        job[j].op \in Forms /\ job[j].step = "save" => job[j].row.counts = CountVotes(a, votes)

RatingIsCurrent == ~stale /\ (\A j \in Jobs : ~Refreshing(j)) => shown = Aggregate

ReviewInv ==
    /\ ReviewTypeOK
    /\ ReviewsFit
    /\ AloneIsAlone
    /\ RatingIsCurrent
    /\ EditsAreCurrent
    /\ CountsAreVotes

LEMMA Rounded ==
    ASSUME NEW n \in Nat, n # 0, NEW total \in Nat, total <= 5 * n
    PROVE  (200 * total + n) \div (2 * n) \in 0..500
OBVIOUS

LEMMA JobRows ==
    /\ NoReview \in Review /\ NoReview.status = "none" /\ NoReview.rating = 0
    /\ NoReview.counts = NoCounts /\ NoStats \in Stats
    /\ NewJob \in Job /\ DoneJob \in Job
    /\ NewJob.op = "new" /\ DoneJob.op = "done" /\ NewJob.step = "" /\ DoneJob.step = ""
    /\ NewJob.of = {} /\ DoneJob.of = {}
<1>1. NoReview \in Review /\ NoStats \in Stats
  BY DEF NoReview, Review, NoCounts, Counts, NoStats, Stats
<1>2. NewJob \in Job
  BY <1>1 DEF NewJob, Job
<1>3. DoneJob \in Job
  BY <1>2 DEF DoneJob, NewJob, Job
<1> QED
  BY <1>1, <1>2, <1>3 DEF NoReview, NewJob, DoneJob

LEMMA ReviewRows ==
    ASSUME review \in [Authors -> Review]
    PROVE  /\ \A a \in Authors : review[a] \in Review /\ review[a].rating \in Nat
           /\ IsFiniteSet(Authors) /\ IsFiniteSet(Approved) /\ Approved \subseteq Authors
<1>1. \A a \in Authors : review[a] \in Review
  OBVIOUS
<1>2. Ratings \cup {0} \subseteq Nat
  BY ReviewAssumption
<1>3. \A a \in Authors : review[a].rating \in Nat
  BY <1>1, <1>2 DEF Review
<1>4. Approved \in SUBSET Authors
  BY DEF Approved
<1> QED
  BY <1>1, <1>3, <1>4, ReviewAssumption, FS_Subset

LEMMA AggregateTypes ==
    ASSUME review \in [Authors -> Review]
    PROVE  Aggregate \in Stats
<1> DEFINE n == Cardinality(Approved)
           f == [a \in Authors |-> review[a].rating]
           total == SumFunctionOnSet(f, Approved)
<1>1. IsFiniteSet(Approved) /\ Approved \subseteq Authors
  BY ReviewRows
<1>2. \A a \in Approved : f[a] \in Nat /\ f[a] \in Int /\ f[a] <= 5
  <2>1. ASSUME NEW a \in Approved PROVE review[a].rating \in 0..5
    <3>1. review[a] \in Review
      BY <1>1, ReviewRows
    <3>2. review[a].rating \in Ratings \cup {0}
      BY <3>1 DEF Review
    <3>3. Ratings \cup {0} \subseteq 0..5
      BY ReviewAssumption
    <3> HIDE DEF f, n, total
    <3> QED  BY <3>2, <3>3
  <2> QED  BY <1>1, <2>1
<1>3. Aggregate = IF n = 0 THEN NoStats
                  ELSE [count |-> n, average |-> (200 * total + n) \div (2 * n)]
  BY DEF Aggregate
<1>4. n \in Nat
  BY <1>1, FS_CardinalityType
<1>5. total \in Nat /\ total <= 5 * n
  <2> HIDE DEF f
  <2> QED  BY <1>1, <1>2, SumNat, SumAtMost
<1> HIDE DEF n, total
<1>6. CASE n = 0
  BY <1>3, <1>6, JobRows
<1>7. CASE n # 0
  <2>1. (200 * total + n) \div (2 * n) \in 0..500
    BY <1>4, <1>5, <1>7, Rounded
  <2> QED  BY <1>3, <1>4, <1>7, <2>1 DEF Stats
<1> QED
  BY <1>6, <1>7

\* The rating is that of the approved reviews.
LEMMA AggregateStays ==
    ASSUME review \in [Authors -> Review],
           \A a \in Authors : /\ review'[a].status = "approved" <=> review[a].status = "approved"
                              /\ review[a].status = "approved" =>
                                     review'[a].rating = review[a].rating
    PROVE  Aggregate' = Aggregate
<1> DEFINE f == [a \in Authors |-> review[a].rating]
           g == [a \in Authors |-> review'[a].rating]
<1>1. IsFiniteSet(Approved) /\ Approved \subseteq Authors
  BY ReviewRows
<1>2. Approved' = Approved
  BY DEF Approved
<1>3. \A a \in Approved : f[a] \in Int /\ f[a] = g[a]
  BY <1>1, ReviewRows DEF Approved
<1>4. SumFunctionOnSet(f, Approved) = SumFunctionOnSet(g, Approved)
  <2> HIDE DEF f, g
  <2> QED  BY <1>1, <1>3, SumSame
<1> QED
  BY <1>2, <1>4 DEF Aggregate

LEMMA CountTypes == \A a, v : CountVotes(a, v) \in Counts
<1> TAKE a, v
<1>1. ASSUME NEW s PROVE Cardinality({u \in Voters : v[<<a, u>>] = s}) \in Nat
  <2>1. IsFiniteSet({u \in Voters : v[<<a, u>>] = s})
    BY ReviewAssumption, FS_Subset
  <2> QED  BY <2>1, FS_CardinalityType
<1> QED
  BY <1>1 DEF CountVotes, Counts

LEMMA CountsAlike ==
    ASSUME NEW a, NEW v, NEW w, \A u \in Voters : v[<<a, u>>] = w[<<a, u>>]
    PROVE  CountVotes(a, v) = CountVotes(a, w)
BY DEF CountVotes

LEMMA NobodyVoted ==
    ASSUME NEW a, NEW v, \A u \in Voters : v[<<a, u>>] = "none"
    PROVE  CountVotes(a, v) = NoCounts
<1>1. \A s \in {"helpful", "not_helpful"} : {u \in Voters : v[<<a, u>>] = s} = {}
  OBVIOUS
<1> QED
  BY <1>1, FS_EmptySet DEF CountVotes, NoCounts

LEMMA ReviewsBegin == ReviewInit => ReviewInv
<1> SUFFICES ASSUME ReviewInit PROVE ReviewInv
  OBVIOUS
<1>1. PICK rating \in [Authors -> Ratings], old \in SUBSET Authors :
          review = [a \in Authors |-> IF a \in old
                                    THEN [NoReview EXCEPT !.status = "approved",
                                                          !.rating = rating[a]]
                                    ELSE NoReview]
  BY DEF ReviewInit
<1>2. \A a \in Authors : /\ review[a] \in Review /\ review[a].counts = NoCounts
                         /\ review[a].status # "none" => review[a].rating \in Ratings
  <2>1. \A a \in Authors : LET r == [NoReview EXCEPT !.status = "approved", !.rating = rating[a]]
                           IN  r \in Review /\ r.counts = NoCounts /\ r.rating \in Ratings
    BY JobRows DEF NoReview, Review, Verdicts
  <2> QED  BY <1>1, <2>1, JobRows
<1>3. review \in [Authors -> Review]
  BY <1>1, <1>2
<1>4. shown = Aggregate /\ votes = [x \in Authors \X Voters |-> "none"]
      /\ job = [j \in Jobs |-> NewJob] /\ stale = FALSE /\ miscounted = {}
  BY DEF ReviewInit
<1>5. shown \in Stats
  BY <1>3, <1>4, AggregateTypes
<1> QED
  BY <1>2, <1>3, <1>4, <1>5, JobRows, NobodyVoted
  DEF ReviewInv, ReviewTypeOK, ReviewsFit, AloneIsAlone, RatingIsCurrent, EditsAreCurrent,
      CountsAreVotes, AtWork, Working, Refreshing, Forms

\* What a step does to the request it serves, and to no other.
LEMMA StepMoves ==
    ASSUME ReviewTypeOK, NEW j \in Jobs, NEW s \in {"", "save", "read", "store"}, Step(j, s)
    PROVE  /\ job' \in [Jobs -> Job] /\ \A k \in Jobs \ {j} : job'[k] = job[k]
           /\ job'[j].op = job[j].op /\ job'[j].step = s /\ job'[j].of = job[j].of
           /\ job'[j].row = job[j].row /\ job'[j].alone = job[j].alone
BY DEF ReviewTypeOK, Step, Job

LEMMA EndMoves ==
    ASSUME ReviewTypeOK, NEW j \in Jobs, Ends(j)
    PROVE  /\ job' \in [Jobs -> Job] /\ job'[j] = DoneJob
           /\ \A k \in Jobs \ {j} : job'[k] = job[k]
BY JobRows DEF ReviewTypeOK, Ends

LEMMA EnterMoves ==
    ASSUME ReviewTypeOK, NEW j \in Jobs, NEW q \in Job, Enters(j, q)
    PROVE  /\ job' \in [Jobs -> Job] /\ job[j] = NewJob
           /\ \A k \in Jobs \ {j} :
                  /\ job'[k].op = job[k].op /\ job'[k].step = job[k].step
                  /\ job'[k].of = job[k].of /\ job'[k].row = job[k].row
                  /\ job'[k].stats = job[k].stats
                  /\ job'[k].alone => job[k].alone /\ ~(AtWork(k) /\ q.op # "vote")
           /\ job'[j].op = q.op /\ job'[j].step = q.step /\ job'[j].of = q.of
           /\ job'[j].row = q.row /\ job'[j].stats = q.stats
           /\ job'[j].alone => \A k \in Jobs : ~AtWork(k)
<1> DEFINE others == {k \in Jobs : Working(k) /\ job[k].op # "vote"}
           flag == others = {}
           mine == [q EXCEPT !.alone = flag]
<1>1. /\ job[j] = NewJob
      /\ job' = [k \in Jobs |->
                    CASE k = j -> mine
                      [] k \in others /\ q.op # "vote" -> [job[k] EXCEPT !.alone = FALSE]
                      [] OTHER -> job[k]]
  BY DEF Enters
<1>2. (\A k \in Jobs : k \in others <=> AtWork(k)) /\ flag \in BOOLEAN
      /\ (flag => \A k \in Jobs : ~AtWork(k))
  BY DEF AtWork
<1>3. \A k \in Jobs : job[k] \in Job
  BY DEF ReviewTypeOK
<1> HIDE DEF others
<1>4. /\ mine \in Job /\ mine.op = q.op /\ mine.step = q.step /\ mine.of = q.of
      /\ mine.row = q.row /\ mine.stats = q.stats /\ mine.alone = flag
  BY <1>2 DEF Job
<1> HIDE DEF mine, flag
<1>5. job'[j] = mine /\ j \notin others
  <2>1. j \notin others
    BY <1>1, JobRows DEF others, Working
  <2> QED  BY <1>1, <2>1
<1>6. ASSUME NEW k \in Jobs \ {j}
      PROVE  /\ job'[k] \in Job
             /\ job'[k].op = job[k].op /\ job'[k].step = job[k].step
             /\ job'[k].of = job[k].of /\ job'[k].row = job[k].row
             /\ job'[k].stats = job[k].stats
             /\ job'[k].alone => job[k].alone /\ ~(AtWork(k) /\ q.op # "vote")
  <2> DEFINE off == [job[k] EXCEPT !.alone = FALSE]
  <2>1. /\ off \in Job /\ off.op = job[k].op /\ off.step = job[k].step
        /\ off.of = job[k].of /\ off.row = job[k].row /\ off.stats = job[k].stats
        /\ off.alone = FALSE
    BY <1>3 DEF Job
  <2> HIDE DEF off
  <2>2. CASE k \in others /\ q.op # "vote"
    <3>1. job'[k] = off
      BY <1>1, <2>2 DEF off
    <3> QED  BY <2>1, <3>1
  <2>3. CASE ~(k \in others /\ q.op # "vote")
    <3>1. job'[k] = job[k]
      BY <1>1, <2>3
    <3> QED  BY <1>2, <1>3, <2>3, <3>1
  <2> QED  BY <2>2, <2>3
<1>7. job' \in [Jobs -> Job]
  <2>1. \A k \in Jobs : job'[k] \in Job
    BY <1>4, <1>5, <1>6
  <2> QED  BY <1>1, <2>1
<1> QED
  BY <1>1, <1>2, <1>4, <1>5, <1>6, <1>7

\* A request arrives: nothing else happens.
LEMMA EnterKeeps ==
    ASSUME ReviewInv, NEW j \in Jobs, NEW q \in Job, Enters(j, q), q.step = "save",
           q.op \notin {"new", "done"},
           q.op \in Forms => /\ q.row.rating \in Ratings
                             /\ \A a \in q.of : a \in Authors /\ q.row.counts = review[a].counts
    PROVE  ReviewInv'
<1>0. ReviewTypeOK
  BY DEF ReviewInv
<1>1. UNCHANGED <<review, votes, shown, stale, miscounted>>
  BY DEF Enters
<1>2. /\ job' \in [Jobs -> Job] /\ job[j] = NewJob
      /\ \A k \in Jobs \ {j} :
             /\ job'[k].op = job[k].op /\ job'[k].step = job[k].step
             /\ job'[k].of = job[k].of /\ job'[k].row = job[k].row
             /\ job'[k].stats = job[k].stats
             /\ job'[k].alone => job[k].alone /\ ~(AtWork(k) /\ q.op # "vote")
      /\ job'[j].op = q.op /\ job'[j].step = q.step /\ job'[j].of = q.of
      /\ job'[j].row = q.row /\ job'[j].stats = q.stats
      /\ job'[j].alone => \A k \in Jobs : ~AtWork(k)
  BY <1>0, EnterMoves
<1>3. ReviewTypeOK'
  BY <1>0, <1>1, <1>2 DEF ReviewTypeOK
<1>4. ReviewsFit'
  BY <1>1, <1>2 DEF ReviewInv, ReviewsFit
<1>5. \A k \in Jobs \ {j} : (AtWork(k)' <=> AtWork(k)) /\ (Refreshing(k)' <=> Refreshing(k))
  BY <1>2 DEF AtWork, Working, Refreshing
<1>6. Aggregate' = Aggregate
  BY <1>1 DEF Aggregate, Approved
<1>7. AloneIsAlone'
  <2> SUFFICES ASSUME NEW k \in Jobs, AtWork(k)', job'[k].alone
               PROVE  /\ \A o \in Jobs : AtWork(o)' => o = k
                      /\ Refreshing(k)' /\ job'[k].step = "store" => job'[k].stats = Aggregate'
    BY DEF AloneIsAlone
  <2>1. CASE k = j
    BY <1>2, <1>5, <2>1
  <2>2. CASE k # j
    <3>1. AtWork(k) /\ job[k].alone /\ q.op = "vote"
      BY <1>2, <1>5, <2>2
    <3>2. ~AtWork(j)'
      BY <1>2, <3>1 DEF AtWork
    <3> QED  BY <1>2, <1>5, <1>6, <2>2, <3>1, <3>2 DEF ReviewInv, AloneIsAlone
  <2> QED  BY <2>1, <2>2
<1>8. RatingIsCurrent'
  <2>1. ~Refreshing(j)
    BY <1>2, JobRows DEF Refreshing, Working
  <2> QED  BY <1>1, <1>5, <1>6, <2>1 DEF ReviewInv, RatingIsCurrent
<1>9. CountsAreVotes' /\ \A a \in Authors : CountVotes(a, votes)' = CountVotes(a, votes)
  BY <1>1 DEF ReviewInv, CountsAreVotes, CountVotes
<1>10. EditsAreCurrent'
  <2> SUFFICES ASSUME NEW k \in Jobs, NEW a \in job'[k].of \ miscounted, job'[k].op \in Forms,
                      job'[k].step = "save"
               PROVE  job'[k].row.counts = CountVotes(a, votes)
    BY <1>1 DEF EditsAreCurrent
  <2>1. CASE k = j
    BY <1>2, <2>1 DEF ReviewInv, CountsAreVotes
  <2>2. CASE k # j
    BY <1>2, <2>2 DEF ReviewInv, EditsAreCurrent
  <2> QED  BY <2>1, <2>2
<1> QED
  BY <1>3, <1>4, <1>7, <1>8, <1>9, <1>10 DEF ReviewInv

\* The requests that arrive.
LEMMA ArrivalsKeep ==
    ASSUME ReviewInv, NEW j \in Jobs,
           \/ \E rs \in SUBSET Authors, verdict \in Verdicts : Moderate(j, rs, verdict)
           \/ \E a \in Authors : \/ Delete(j, a) \/ Vote(j, a)
                                 \/ \E rating \in Ratings : Edit(j, a, rating)
                                 \/ \E verdict \in Verdicts : EditForm(j, a, verdict)
    PROVE  ReviewInv'
<1>0. review \in [Authors -> Review]
  BY DEF ReviewInv, ReviewTypeOK
<1>1. ASSUME NEW rs \in SUBSET Authors, NEW op \in {"delete", "vote"} \cup Verdicts,
             Enters(j, [NewJob EXCEPT !.op = op, !.step = "save", !.of = rs])
      PROVE  ReviewInv'
  <2> DEFINE q == [NewJob EXCEPT !.op = op, !.step = "save", !.of = rs]
  <2>1. q \in Job /\ q.op = op /\ q.step = "save"
    BY JobRows DEF NewJob, Job
  <2>2. op \notin Forms /\ op \notin {"new", "done"}
    BY DEF Forms, Verdicts
  <2> HIDE DEF q
  <2> QED  BY <1>1, <2>1, <2>2, EnterKeeps DEF q
<1>2. ASSUME NEW op \in Forms, NEW a \in Authors, NEW row \in Review, row.rating \in Ratings,
             row.counts = review[a].counts,
             Enters(j, [NewJob EXCEPT !.op = op, !.step = "save", !.of = {a}, !.row = row])
      PROVE  ReviewInv'
  <2> DEFINE q == [NewJob EXCEPT !.op = op, !.step = "save", !.of = {a}, !.row = row]
  <2>1. q \in Job /\ q.op = op /\ q.step = "save" /\ q.of = {a} /\ q.row = row
    BY JobRows DEF NewJob, Job, Forms
  <2>2. op \notin {"new", "done"}
    BY DEF Forms
  <2> HIDE DEF q
  <2> QED  BY <1>2, <2>1, <2>2, EnterKeeps DEF q
<1>3. ASSUME NEW rs \in SUBSET Authors, NEW verdict \in Verdicts, Moderate(j, rs, verdict)
      PROVE  ReviewInv'
  BY <1>1, <1>3 DEF Moderate
<1>4. ASSUME NEW a \in Authors, Delete(j, a) \/ Vote(j, a) PROVE ReviewInv'
  BY <1>1, <1>4 DEF Delete, Vote
<1>5. ASSUME NEW a \in Authors, NEW rating \in Ratings, Edit(j, a, rating) PROVE ReviewInv'
  <2> DEFINE row == [review[a] EXCEPT !.rating = rating]
  <2>1. row \in Review /\ row.rating = rating /\ row.counts = review[a].counts
    BY <1>0 DEF Review
  <2> HIDE DEF row
  <2> QED  BY <1>2, <1>5, <2>1 DEF Edit, Forms, row
<1>6. ASSUME NEW a \in Authors, NEW verdict \in Verdicts, EditForm(j, a, verdict)
      PROVE  ReviewInv'
  <2> DEFINE row == [review[a] EXCEPT !.status = verdict]
  <2>1. row \in Review /\ row.rating = review[a].rating /\ row.counts = review[a].counts
    BY <1>0 DEF Review
  <2>2. review[a].rating \in Ratings
    BY <1>6 DEF EditForm, ReviewInv, ReviewsFit
  <2> HIDE DEF row
  <2> QED  BY <1>2, <1>6, <2>1, <2>2 DEF EditForm, Forms, row
<1> QED
  BY <1>3, <1>4, <1>5, <1>6

\* A request other than a vote moves on: no other was alone, or it was and still is.
LEMMA AloneMoves ==
    ASSUME ReviewInv, NEW j \in Jobs, AtWork(j), \A k \in Jobs \ {j} : job'[k] = job[k],
           AtWork(j)' /\ job'[j].alone =>
               /\ job[j].alone
               /\ Refreshing(j)' /\ job'[j].step = "store" => job'[j].stats = Aggregate'
    PROVE  AloneIsAlone'
<1> SUFFICES ASSUME NEW k \in Jobs, AtWork(k)', job'[k].alone
             PROVE  /\ \A o \in Jobs : AtWork(o)' => o = k
                    /\ Refreshing(k)' /\ job'[k].step = "store" => job'[k].stats = Aggregate'
  BY DEF AloneIsAlone
<1>1. \A o \in Jobs \ {j} : AtWork(o)' => AtWork(o)
  BY DEF AtWork, Working
<1>2. k = j
  BY <1>1 DEF ReviewInv, AloneIsAlone
<1>3. \A o \in Jobs : AtWork(o)' => o = k
  BY <1>1, <1>2 DEF ReviewInv, AloneIsAlone
<1> QED
  BY <1>2, <1>3

\* A request ends and the rating stays what it would be.
LEMMA AloneEnds ==
    ASSUME ReviewInv, NEW j \in Jobs, \A k \in Jobs \ {j} : job'[k] = job[k], job'[j] = DoneJob,
           Aggregate' = Aggregate
    PROVE  AloneIsAlone'
<1>1. ~AtWork(j)'
  BY JobRows DEF AtWork, Working
<1>2. \A o \in Jobs \ {j} : (AtWork(o)' <=> AtWork(o)) /\ (Refreshing(o)' <=> Refreshing(o))
  BY DEF AtWork, Working, Refreshing
<1> QED
  BY <1>1, <1>2 DEF ReviewInv, AloneIsAlone

\* What edits have read stays so if the votes do and the request at work is no new edit.
LEMMA EditsStay ==
    ASSUME ReviewInv, NEW j \in Jobs, \A k \in Jobs \ {j} : job'[k] = job[k],
           job'[j].op \in Forms => job'[j].step # "save",
           \A a \in Authors : a \notin miscounted' =>
               ~Edited(a) \/ (a \notin miscounted /\ CountVotes(a, votes') = CountVotes(a, votes))
    PROVE  EditsAreCurrent'
<1> SUFFICES ASSUME NEW k \in Jobs, NEW a \in job'[k].of \ miscounted', job'[k].op \in Forms,
                    job'[k].step = "save"
             PROVE  job'[k].row.counts = CountVotes(a, votes')
  BY DEF EditsAreCurrent
<1>1. k # j /\ job'[k] = job[k]
  OBVIOUS
<1>2. a \in Authors /\ Edited(a)
  BY <1>1 DEF ReviewInv, ReviewTypeOK, Job, Edited
<1>3. a \in job[k].of \ miscounted /\ CountVotes(a, votes') = CountVotes(a, votes)
  BY <1>1, <1>2
<1> QED
  BY <1>1, <1>3 DEF ReviewInv, EditsAreCurrent

\* Review a is saved as r, and the votes are v.
LEMMA RowMoves ==
    ASSUME ReviewInv, NEW a \in Authors, NEW r \in Review,
           review' = [review EXCEPT ![a] = r]
    PROVE  /\ review' \in [Authors -> Review] /\ review'[a] = r
           /\ \A b \in Authors \ {a} : review'[b] = review[b]
BY DEF ReviewInv, ReviewTypeOK

\* Saving one of the verdicts.
LEMMA VerdictKeeps ==
    ASSUME ReviewInv, NEW j \in Jobs, NEW a \in Authors, SaveVerdict(j, a)
    PROVE  ReviewInv'
<1>0. /\ ReviewTypeOK /\ job[j] \in Job /\ review[a] \in Review
      /\ job[j].op \in Verdicts /\ job[j].step = "save" /\ AtWork(j) /\ Refreshing(j)
      /\ UNCHANGED <<votes, shown, miscounted>>
  BY DEF ReviewInv, ReviewTypeOK, SaveVerdict, AtWork, Working, Refreshing, Verdicts
<1>1. CASE review[a].status = "none"
  <2>1. UNCHANGED review /\ Ends(j) /\ stale' = TRUE
    BY <1>1 DEF SaveVerdict
  <2>2. job' \in [Jobs -> Job] /\ job'[j] = DoneJob /\ \A k \in Jobs \ {j} : job'[k] = job[k]
    BY <1>0, <2>1, EndMoves
  <2>3. Aggregate' = Aggregate
    BY <2>1 DEF Aggregate, Approved
  <2>4. AloneIsAlone'
    BY <2>2, <2>3, AloneEnds
  <2>5. EditsAreCurrent'
    BY <1>0, <2>2, JobRows, EditsStay DEF Forms
  <2>6. ReviewTypeOK' /\ RatingIsCurrent'
    BY <1>0, <2>1, <2>2 DEF ReviewTypeOK, RatingIsCurrent
  <2>7. ReviewsFit'
    BY <2>1, <2>2, JobRows DEF ReviewInv, ReviewsFit, Forms
  <2>8. CountsAreVotes'
    BY <1>0, <2>1 DEF ReviewInv, CountsAreVotes, CountVotes
  <2> QED  BY <2>4, <2>5, <2>6, <2>7, <2>8 DEF ReviewInv
<1>2. CASE review[a].status # "none"
  <2> DEFINE r == [review[a] EXCEPT !.status = job[j].op]
             step == IF job[j].of = {a} THEN "read" ELSE "save"
             q == [job[j] EXCEPT !.of = @ \ {a}, !.step = step]
  <2>1. review' = [review EXCEPT ![a] = r] /\ UNCHANGED stale
    BY <1>2 DEF SaveVerdict
  <2>2. job' = [job EXCEPT ![j] = q]
    BY <1>2 DEF SaveVerdict
  <2>3. r \in Review /\ r.rating = review[a].rating /\ r.counts = review[a].counts
    BY <1>0 DEF Review
  <2>4. /\ q \in Job /\ q.op = job[j].op /\ q.step \in {"read", "save"}
        /\ q.row = job[j].row /\ q.alone = job[j].alone
    BY <1>0 DEF Job
  <2> HIDE DEF r, q
  <2>5. /\ review' \in [Authors -> Review] /\ review'[a] = r
        /\ \A b \in Authors \ {a} : review'[b] = review[b]
    BY <2>1, <2>3, RowMoves
  <2>6. job' \in [Jobs -> Job] /\ job'[j] = q /\ \A k \in Jobs \ {j} : job'[k] = job[k]
    BY <1>0, <2>2, <2>4 DEF ReviewTypeOK
  <2>7. Refreshing(j)' /\ job'[j].op \notin Forms /\ job'[j].step # "store"
    BY <1>0, <2>4, <2>6 DEF Refreshing, Working, Verdicts, Forms
  <2>8. AloneIsAlone'
    BY <1>0, <2>4, <2>6, <2>7, AloneMoves
  <2>9. EditsAreCurrent'
    BY <1>0, <2>6, <2>7, EditsStay
  <2>10. ReviewsFit'
    BY <1>2, <2>3, <2>5, <2>6, <2>7 DEF ReviewInv, ReviewsFit
  <2>11. CountsAreVotes'
    BY <1>0, <2>3, <2>5 DEF ReviewInv, CountsAreVotes, CountVotes
  <2>12. ReviewTypeOK' /\ RatingIsCurrent'
    BY <1>0, <2>1, <2>5, <2>6, <2>7 DEF ReviewTypeOK, RatingIsCurrent
  <2> QED  BY <2>8, <2>9, <2>10, <2>11, <2>12 DEF ReviewInv
<1> QED
  BY <1>1, <1>2

\* Deleting a review: its votes go too, and an edit at work may put it back.
LEMMA DeletionKeeps ==
    ASSUME ReviewInv, NEW j \in Jobs, NEW a \in Authors, SaveDeletion(j, a)
    PROVE  ReviewInv'
<1>0. /\ ReviewTypeOK /\ job[j] \in Job /\ job[j].op = "delete" /\ AtWork(j) /\ Refreshing(j)
      /\ UNCHANGED <<shown, stale>>
  BY DEF ReviewInv, ReviewTypeOK, SaveDeletion, AtWork, Working, Refreshing
<1>1. /\ review' = [review EXCEPT ![a] = NoReview]
      /\ votes' = [x \in DOMAIN votes |-> IF x[1] = a THEN "none" ELSE votes[x]]
      /\ Step(j, "read")
      /\ miscounted' = IF Edited(a) THEN miscounted \cup {a} ELSE miscounted
  BY DEF SaveDeletion
<1>2. /\ job' \in [Jobs -> Job] /\ \A k \in Jobs \ {j} : job'[k] = job[k]
      /\ job'[j].op = job[j].op /\ job'[j].step = "read" /\ job'[j].alone = job[j].alone
  BY <1>0, <1>1, StepMoves
<1>3. /\ review' \in [Authors -> Review] /\ review'[a] = NoReview
      /\ \A b \in Authors \ {a} : review'[b] = review[b]
  BY <1>1, JobRows, RowMoves
<1>4. DOMAIN votes = Authors \X Voters
      /\ \A x \in Authors \X Voters : votes[x] \in {"none", "helpful", "not_helpful"}
  BY <1>0 DEF ReviewTypeOK
<1>5. /\ votes' \in [Authors \X Voters -> {"none", "helpful", "not_helpful"}]
      /\ \A u \in Voters : votes'[<<a, u>>] = "none"
      /\ \A b \in Authors \ {a} : \A u \in Voters : votes'[<<b, u>>] = votes[<<b, u>>]
  BY <1>1, <1>4
<1>6. CountVotes(a, votes') = NoCounts
  BY <1>5, NobodyVoted
<1>7. \A b \in Authors \ {a} : CountVotes(b, votes') = CountVotes(b, votes)
  BY <1>5, CountsAlike
<1>8. miscounted \subseteq miscounted' /\ miscounted' \subseteq miscounted \cup {a}
      /\ (a \notin miscounted' => ~Edited(a))
  BY <1>1
<1>9. Refreshing(j)' /\ job'[j].op \notin Forms
  BY <1>0, <1>2 DEF Refreshing, Working, Forms
<1>10. AloneIsAlone'
  BY <1>0, <1>2, AloneMoves
<1>11. EditsAreCurrent'
  <2>1. \A b \in Authors : b \notin miscounted' =>
            ~Edited(b) \/ (b \notin miscounted /\ CountVotes(b, votes') = CountVotes(b, votes))
    BY <1>7, <1>8
  <2> QED  BY <1>2, <1>9, <2>1, EditsStay
<1>12. ReviewsFit'
  BY <1>2, <1>3, <1>9, JobRows DEF ReviewInv, ReviewsFit
<1>13. CountsAreVotes'
  <2> SUFFICES ASSUME NEW b \in Authors \ miscounted'
               PROVE  review'[b].counts = CountVotes(b, votes')
    BY DEF CountsAreVotes, CountVotes
  <2>1. CASE b = a
    BY <1>3, <1>6, <2>1, JobRows
  <2>2. CASE b # a
    BY <1>3, <1>7, <1>8, <2>2 DEF ReviewInv, CountsAreVotes
  <2> QED  BY <2>1, <2>2
<1>14. ReviewTypeOK' /\ RatingIsCurrent'
  BY <1>0, <1>2, <1>3, <1>5, <1>8, <1>9 DEF ReviewTypeOK, RatingIsCurrent
<1> QED
  BY <1>10, <1>11, <1>12, <1>13, <1>14 DEF ReviewInv

\* The rating is computed, and stored.
LEMMA RatingKeeps ==
    ASSUME ReviewInv, NEW j \in Jobs, ReadStats(j) \/ StoreStats(j)
    PROVE  ReviewInv'
<1>0. /\ ReviewTypeOK /\ job[j] \in Job /\ AtWork(j) /\ Refreshing(j)
      /\ UNCHANGED <<review, votes, miscounted>>
  BY DEF ReviewInv, ReviewTypeOK, ReadStats, StoreStats, AtWork, Working, Refreshing
<1>1. Aggregate' = Aggregate /\ Aggregate \in Stats
  BY <1>0, AggregateTypes DEF Aggregate, Approved, ReviewTypeOK
<1>2. CountsAreVotes'
  BY <1>0 DEF ReviewInv, CountsAreVotes, CountVotes
<1>3. CASE ReadStats(j)
  <2> DEFINE q == [job[j] EXCEPT !.stats = Aggregate, !.step = "store"]
  <2>1. job' = [job EXCEPT ![j] = q] /\ UNCHANGED <<shown, stale>>
    BY <1>3 DEF ReadStats
  <2>2. /\ q \in Job /\ q.op = job[j].op /\ q.step = "store" /\ q.row = job[j].row
        /\ q.alone = job[j].alone /\ q.stats = Aggregate
    BY <1>0, <1>1 DEF Job
  <2> HIDE DEF q
  <2>3. job' \in [Jobs -> Job] /\ job'[j] = q /\ \A k \in Jobs \ {j} : job'[k] = job[k]
    BY <1>0, <2>1, <2>2 DEF ReviewTypeOK
  <2>4. AloneIsAlone'
    BY <1>0, <1>1, <2>2, <2>3, AloneMoves
  <2>5. EditsAreCurrent'
    BY <1>0, <2>2, <2>3, EditsStay
  <2>6. ReviewsFit'
    BY <1>0, <2>2, <2>3 DEF ReviewInv, ReviewsFit
  <2>7. Refreshing(j)'
    BY <1>0, <2>2, <2>3 DEF Refreshing, Working
  <2>8. ReviewTypeOK' /\ RatingIsCurrent'
    BY <1>0, <2>1, <2>3, <2>7 DEF ReviewTypeOK, RatingIsCurrent
  <2> QED  BY <1>2, <2>4, <2>5, <2>6, <2>8 DEF ReviewInv
<1>4. CASE StoreStats(j)
  <2>1. shown' = job[j].stats /\ stale' = ~job[j].alone /\ Ends(j) /\ job[j].step = "store"
    BY <1>4 DEF StoreStats
  <2>2. job' \in [Jobs -> Job] /\ job'[j] = DoneJob /\ \A k \in Jobs \ {j} : job'[k] = job[k]
    BY <1>0, <2>1, EndMoves
  <2>3. AloneIsAlone'
    BY <1>1, <2>2, AloneEnds
  <2>4. EditsAreCurrent'
    BY <1>0, <2>2, JobRows, EditsStay DEF Forms
  <2>5. ReviewsFit'
    BY <1>0, <2>2, JobRows DEF ReviewInv, ReviewsFit, Forms
  <2>6. shown' \in Stats /\ stale' \in BOOLEAN
    BY <1>0, <2>1 DEF Job
  <2>7. RatingIsCurrent'
    BY <1>0, <1>1, <2>1 DEF ReviewInv, AloneIsAlone, RatingIsCurrent
  <2>8. ReviewTypeOK'
    BY <1>0, <2>2, <2>6 DEF ReviewTypeOK
  <2> QED  BY <1>2, <2>3, <2>4, <2>5, <2>7, <2>8 DEF ReviewInv
<1> QED
  BY <1>3, <1>4

\* A whole review is saved as it was read, or is new.
LEMMA EditKeeps ==
    ASSUME ReviewInv, NEW j \in Jobs, NEW a \in Authors, SaveEdit(j, a)
    PROVE  ReviewInv'
<1> DEFINE r == job[j].row
<1>0. /\ ReviewTypeOK /\ job[j] \in Job /\ r \in Review /\ job[j].op \in Forms
      /\ job[j].step = "save" /\ a \in job[j].of /\ AtWork(j) /\ r.rating \in Ratings
      /\ UNCHANGED <<votes, shown, miscounted>>
  BY DEF ReviewInv, ReviewTypeOK, SaveEdit, AtWork, Working, Forms, ReviewsFit, Job
<1>1. review' = [review EXCEPT ![a] = r]
  BY DEF SaveEdit
<1>2. a \notin miscounted => r.counts = CountVotes(a, votes)
  BY <1>0 DEF ReviewInv, EditsAreCurrent
<1> HIDE DEF r
<1>3. /\ review' \in [Authors -> Review] /\ review'[a] = r
      /\ \A b \in Authors \ {a} : review'[b] = review[b]
  BY <1>0, <1>1, RowMoves
<1>4. CountsAreVotes'
  <2> SUFFICES ASSUME NEW b \in Authors \ miscounted
               PROVE  review'[b].counts = CountVotes(b, votes)
    BY <1>0 DEF CountsAreVotes, CountVotes
  <2> QED  BY <1>2, <1>3 DEF ReviewInv, CountsAreVotes
<1>5. /\ job' \in [Jobs -> Job] /\ \A k \in Jobs \ {j} : job'[k] = job[k]
      /\ \/ job'[j] = DoneJob /\ stale' = TRUE
         \/ /\ job'[j].op = "form" /\ job'[j].step = "read" /\ job'[j].row = r
            /\ job'[j].alone = job[j].alone /\ UNCHANGED stale
  <2>1. CASE job[j].op = "edit"
    BY <1>0, <2>1, EndMoves DEF SaveEdit
  <2>2. CASE job[j].op # "edit"
    <3>1. Step(j, "read") /\ UNCHANGED stale /\ job[j].op = "form"
      BY <1>0, <2>2 DEF SaveEdit, Forms
    <3> QED  BY <1>0, <3>1, StepMoves DEF r
  <2> QED  BY <2>1, <2>2
<1>6. DoneJob.op \notin Forms /\ DoneJob.op = "done"
  BY JobRows DEF Forms
<1>7. AloneIsAlone'
  <2>1. AtWork(j)' /\ job'[j].alone => job[j].alone /\ job'[j].step # "store"
    BY <1>5, <1>6 DEF AtWork, Working
  <2> QED  BY <1>0, <1>5, <2>1, AloneMoves
<1>8. EditsAreCurrent'
  BY <1>0, <1>5, <1>6, EditsStay
<1>9. ReviewsFit'
  BY <1>0, <1>3, <1>5, <1>6 DEF ReviewInv, ReviewsFit
<1>10. stale' \/ Refreshing(j)'
  BY <1>5 DEF Refreshing, Working
<1>11. ReviewTypeOK' /\ RatingIsCurrent'
  BY <1>0, <1>3, <1>5, <1>10 DEF ReviewTypeOK, RatingIsCurrent
<1> QED
  BY <1>4, <1>7, <1>8, <1>9, <1>11 DEF ReviewInv

\* A request ends and no review has changed in what the rating sees.
LEMMA QuietEnd ==
    ASSUME ReviewInv, NEW j \in Jobs, Ends(j), ~Refreshing(j) \/ stale',
           stale => stale', stale' \in BOOLEAN, UNCHANGED shown, Aggregate' = Aggregate
    PROVE  /\ job' \in [Jobs -> Job] /\ AloneIsAlone' /\ RatingIsCurrent'
           /\ \A k \in Jobs \ {j} : job'[k] = job[k]
           /\ job'[j] = DoneJob /\ DoneJob.op \notin Forms
<1>1. ReviewTypeOK
  BY DEF ReviewInv
<1>2. job' \in [Jobs -> Job] /\ job'[j] = DoneJob /\ \A k \in Jobs \ {j} : job'[k] = job[k]
  BY <1>1, EndMoves
<1>3. AloneIsAlone'
  BY <1>2, AloneEnds
<1>4. DoneJob.op \notin Forms
  BY JobRows DEF Forms
<1>5. \A k \in Jobs \ {j} : Refreshing(k)' <=> Refreshing(k)
  BY <1>2 DEF Refreshing, Working
<1>6. RatingIsCurrent'
  BY <1>5 DEF ReviewInv, RatingIsCurrent
<1> QED
  BY <1>2, <1>3, <1>4, <1>6

\* Votes and counts change together.
LEMMA VoteKeeps ==
    ASSUME ReviewInv, NEW j \in Jobs, NEW a \in Authors, NEW u \in Voters,
           NEW vote \in {"helpful", "not_helpful"}, SaveVote(j, a, u, vote)
    PROVE  ReviewInv'
<1>0. /\ ReviewTypeOK /\ job[j].op = "vote" /\ ~Refreshing(j) /\ Ends(j)
      /\ UNCHANGED <<shown, stale>> /\ stale' \in BOOLEAN
  BY DEF ReviewInv, ReviewTypeOK, SaveVote, Refreshing
<1>1. CASE review[a].status = "none"
  <2>1. UNCHANGED <<review, votes, miscounted>>
    BY <1>1 DEF SaveVote
  <2>2. Aggregate' = Aggregate
    BY <2>1 DEF Aggregate, Approved
  <2>3. /\ job' \in [Jobs -> Job] /\ AloneIsAlone' /\ RatingIsCurrent'
        /\ \A k \in Jobs \ {j} : job'[k] = job[k]
        /\ job'[j] = DoneJob /\ DoneJob.op \notin Forms
    BY <1>0, <2>2, QuietEnd
  <2>4. EditsAreCurrent'
    BY <2>1, <2>3, EditsStay
  <2>5. ReviewsFit' /\ ReviewTypeOK'
    BY <1>0, <2>1, <2>3 DEF ReviewInv, ReviewsFit, ReviewTypeOK
  <2>6. CountsAreVotes'
    BY <2>1 DEF ReviewInv, CountsAreVotes, CountVotes
  <2> QED  BY <2>3, <2>4, <2>5, <2>6 DEF ReviewInv
<1>2. CASE review[a].status # "none"
  <2> DEFINE c == CountVotes(a, votes')
             r == [review[a] EXCEPT !.counts = c]
  <2>1. /\ votes' = [votes EXCEPT ![<<a, u>>] = vote]
        /\ review' = [review EXCEPT ![a].counts = CountVotes(a, votes')]
        /\ miscounted' = IF Edited(a) THEN miscounted \cup {a} ELSE miscounted \ {a}
    BY <1>2 DEF SaveVote
  <2>2. review' = [review EXCEPT ![a] = r]
    BY <2>1
  <2>3. c \in Counts
    BY CountTypes
  <2> HIDE DEF c
  <2>4. r \in Review /\ r.status = review[a].status /\ r.rating = review[a].rating /\ r.counts = c
    BY <1>0, <2>3 DEF ReviewTypeOK, Review
  <2> HIDE DEF r
  <2>5. /\ review' \in [Authors -> Review] /\ review'[a] = r
        /\ \A b \in Authors \ {a} : review'[b] = review[b]
    BY <2>2, <2>4, RowMoves
  <2>6. Aggregate' = Aggregate
    <3>1. \A b \in Authors : review'[b].status = review[b].status
                             /\ review'[b].rating = review[b].rating
      BY <2>4, <2>5
    <3> QED  BY <1>0, <3>1, AggregateStays DEF ReviewTypeOK
  <2>7. /\ job' \in [Jobs -> Job] /\ AloneIsAlone' /\ RatingIsCurrent'
        /\ \A k \in Jobs \ {j} : job'[k] = job[k]
        /\ job'[j] = DoneJob /\ DoneJob.op \notin Forms
    BY <1>0, <2>6, QuietEnd
  <2>8. /\ votes' \in [Authors \X Voters -> {"none", "helpful", "not_helpful"}]
        /\ \A b \in Authors \ {a} : \A w \in Voters : votes'[<<b, w>>] = votes[<<b, w>>]
    BY <1>0, <2>1 DEF ReviewTypeOK
  <2>9. \A b \in Authors \ {a} : CountVotes(b, votes') = CountVotes(b, votes)
    BY <2>8, CountsAlike
  <2>10. /\ miscounted' \subseteq Authors
         /\ \A b \in Authors \ {a} : b \in miscounted' <=> b \in miscounted
         /\ (a \notin miscounted' => ~Edited(a))
    BY <1>0, <2>1 DEF ReviewTypeOK
  <2>11. EditsAreCurrent'
    <3>1. \A b \in Authors : b \notin miscounted' =>
              ~Edited(b) \/ (b \notin miscounted /\ CountVotes(b, votes') = CountVotes(b, votes))
      BY <2>9, <2>10
    <3> QED  BY <2>7, <3>1, EditsStay
  <2>12. ReviewsFit'
    BY <1>2, <2>4, <2>5, <2>7 DEF ReviewInv, ReviewsFit
  <2>13. CountsAreVotes'
    <3> SUFFICES ASSUME NEW b \in Authors \ miscounted'
                 PROVE  review'[b].counts = CountVotes(b, votes')
      BY DEF CountsAreVotes, CountVotes
    <3>1. CASE b = a
      BY <2>4, <2>5, <3>1 DEF c
    <3>2. CASE b # a
      BY <2>5, <2>9, <2>10, <3>2 DEF ReviewInv, CountsAreVotes
    <3> QED  BY <3>1, <3>2
  <2>14. ReviewTypeOK'
    BY <1>0, <2>5, <2>7, <2>8, <2>10 DEF ReviewTypeOK
  <2> QED  BY <2>7, <2>11, <2>12, <2>13, <2>14 DEF ReviewInv
<1> QED
  BY <1>1, <1>2

LEMMA KillKeeps ==
    ASSUME ReviewInv, NEW j \in Jobs, Killed(j)
    PROVE  ReviewInv'
<1>0. /\ ReviewTypeOK /\ UNCHANGED <<review, votes, shown, miscounted>> /\ Ends(j)
      /\ stale' = (stale \/ Refreshing(j))
  BY DEF ReviewInv, Killed
<1>1. Aggregate' = Aggregate
  BY <1>0 DEF Aggregate, Approved
<1>2. stale' \in BOOLEAN /\ (stale => stale') /\ (~Refreshing(j) \/ stale')
  BY <1>0 DEF ReviewTypeOK
<1>3. /\ job' \in [Jobs -> Job] /\ AloneIsAlone' /\ RatingIsCurrent'
      /\ \A k \in Jobs \ {j} : job'[k] = job[k]
      /\ job'[j] = DoneJob /\ DoneJob.op \notin Forms
  BY <1>0, <1>1, <1>2, QuietEnd
<1>4. EditsAreCurrent'
  BY <1>0, <1>3, EditsStay
<1>5. ReviewsFit' /\ ReviewTypeOK'
  BY <1>0, <1>2, <1>3 DEF ReviewInv, ReviewsFit, ReviewTypeOK
<1>6. CountsAreVotes'
  BY <1>0 DEF ReviewInv, CountsAreVotes, CountVotes
<1> QED
  BY <1>3, <1>4, <1>5, <1>6 DEF ReviewInv

\* A new review waits for moderation.
LEMMA SubmissionKeeps ==
    ASSUME ReviewInv, NEW a \in Authors, NEW rating \in Ratings, Submit(a, rating)
    PROVE  ReviewInv'
<1> DEFINE r == [review[a] EXCEPT !.status = "pending", !.rating = rating]
<1>0. ReviewTypeOK /\ review[a].status = "none" /\ UNCHANGED <<votes, shown, job, stale, miscounted>>
  BY DEF ReviewInv, Submit
<1>1. review' = [review EXCEPT ![a] = r]
  BY DEF Submit
<1>2. r \in Review /\ r.status = "pending" /\ r.rating = rating /\ r.counts = review[a].counts
  BY <1>0 DEF ReviewTypeOK, Review
<1> HIDE DEF r
<1>3. /\ review' \in [Authors -> Review] /\ review'[a] = r
      /\ \A b \in Authors \ {a} : review'[b] = review[b]
  BY <1>1, <1>2, RowMoves
<1>4. Aggregate' = Aggregate
  <2>1. \A b \in Authors : /\ review'[b].status = "approved" <=> review[b].status = "approved"
                           /\ review[b].status = "approved" => review'[b].rating = review[b].rating
    BY <1>0, <1>2, <1>3
  <2> QED  BY <1>0, <2>1, AggregateStays DEF ReviewTypeOK
<1>5. AloneIsAlone' /\ RatingIsCurrent'
  BY <1>0, <1>4 DEF ReviewInv, AloneIsAlone, RatingIsCurrent, AtWork, Working, Refreshing
<1>6. EditsAreCurrent'
  BY <1>0 DEF ReviewInv, EditsAreCurrent, CountVotes
<1>7. ReviewsFit'
  BY <1>0, <1>2, <1>3 DEF ReviewInv, ReviewsFit
<1>8. CountsAreVotes'
  BY <1>0, <1>2, <1>3 DEF ReviewInv, CountsAreVotes, CountVotes
<1>9. ReviewTypeOK'
  BY <1>0, <1>3 DEF ReviewTypeOK
<1> QED
  BY <1>5, <1>6, <1>7, <1>8, <1>9 DEF ReviewInv

LEMMA ReviewsInductive == ReviewInv /\ [ReviewNext]_reviewVars => ReviewInv'
<1> SUFFICES ASSUME ReviewInv, [ReviewNext]_reviewVars PROVE ReviewInv'
  OBVIOUS
<1>1. CASE UNCHANGED reviewVars
  BY SMTT(30), <1>1
     DEF reviewVars, ReviewInv, ReviewTypeOK, ReviewsFit, AloneIsAlone, RatingIsCurrent,
              EditsAreCurrent, CountsAreVotes, AtWork, Working, Refreshing, Aggregate, Approved,
              CountVotes
<1>2. ASSUME NEW a \in Authors, NEW rating \in Ratings, Submit(a, rating) PROVE ReviewInv'
  BY <1>2, SubmissionKeeps
<1>3. ASSUME NEW j \in Jobs, ReadStats(j) \/ StoreStats(j) \/ Killed(j) PROVE ReviewInv'
  BY <1>3, RatingKeeps, KillKeeps
<1>4. ASSUME NEW j \in Jobs, NEW rs \in SUBSET Authors \ {{}}, NEW verdict \in Verdicts,
             Moderate(j, rs, verdict)
      PROVE  ReviewInv'
  BY <1>4, ArrivalsKeep
<1>5. ASSUME NEW j \in Jobs, NEW a \in Authors,
             SaveVerdict(j, a) \/ SaveDeletion(j, a) \/ SaveEdit(j, a)
      PROVE  ReviewInv'
  BY <1>5, VerdictKeeps, DeletionKeeps, EditKeeps
<1>6. ASSUME NEW j \in Jobs, NEW a \in Authors,
             \/ Delete(j, a) \/ Vote(j, a)
             \/ \E rating \in Ratings : Edit(j, a, rating)
             \/ \E verdict \in Verdicts : EditForm(j, a, verdict)
      PROVE  ReviewInv'
  BY <1>6, ArrivalsKeep
<1>7. ASSUME NEW j \in Jobs, NEW a \in Authors, NEW u \in Voters,
             NEW vote \in {"helpful", "not_helpful"}, SaveVote(j, a, u, vote)
      PROVE  ReviewInv'
  BY <1>7, VoteKeeps
<1> QED
  BY <1>1, <1>2, <1>3, <1>4, <1>5, <1>6, <1>7 DEF ReviewNext

\* The stars, counted one by one, are the approved reviews.
LEMMA StarsAreReviews ==
    ASSUME ReviewTypeOK, ReviewsFit
    PROVE  SumFunction([s \in Ratings |-> Cardinality({a \in Approved : review[a].rating = s})])
               = Cardinality(Approved)
<1> DEFINE f == [s \in Ratings |-> Cardinality({a \in Approved : review[a].rating = s})]
           class == [a \in Authors |-> review[a].rating]
<1>1. IsFiniteSet(Approved) /\ Approved \subseteq Authors
  BY ReviewRows DEF ReviewTypeOK
<1>2. IsFiniteSet(Ratings)
  <2>1. IsFiniteSet(1..5)
    <3>1. 1 \in Int /\ 5 \in Int
      OBVIOUS
    <3> QED  BY <3>1, FS_Interval, Zenon
  <2>2. Ratings \in SUBSET (1..5)
    BY ReviewAssumption
  <2> HIDE DEF f, class
  <2> QED  BY <2>1, <2>2, FS_Subset
<1>3. \A a \in Approved : class[a] \in Ratings /\ class[a] = review[a].rating
  BY <1>1 DEF Approved, ReviewsFit
<1>4. SumFunction(f) = SumFunctionOnSet(f, DOMAIN f) /\ DOMAIN f = Ratings
  <2> HIDE DEF class
  <2> QED  BY DEF SumFunction
<1>5. f = [s \in Ratings |-> Cardinality({a \in Approved : class[a] = s})]
  <2>1. \A s \in Ratings : {a \in Approved : review[a].rating = s} = {a \in Approved : class[a] = s}
    BY <1>3
  <2> QED  BY <2>1
<1> HIDE DEF f, class
<1>6. SumFunctionOnSet(f, Ratings) = Cardinality(Approved)
  BY <1>1, <1>2, <1>3, <1>5, SumOfClasses
<1> QED
  BY <1>4, <1>6 DEF f

\* Ratings and vote counts are those that counting would give, for any number of
\* customers, of voters and of requests at work.
THEOREM CountsAlwaysStored == ReviewSpec => []CountedIsStored
<1>1. ReviewInit => ReviewInv
  BY ReviewsBegin
<1>2. ReviewInv /\ [ReviewNext]_reviewVars => ReviewInv'
  BY ReviewsInductive
<1>3. ReviewInv => CountedIsStored
  <2> SUFFICES ASSUME ReviewInv PROVE RatingIsAverage
    BY DEF ReviewInv, CountedIsStored
  <2>1. ReviewTypeOK /\ ReviewsFit /\ RatingIsCurrent
    BY DEF ReviewInv
  <2>2. review \in [Authors -> Review] /\ IsFiniteSet(Approved)
    BY <2>1, ReviewRows DEF ReviewTypeOK
  <2>3. Summary = [shown EXCEPT !.count = Cardinality(Approved)]
    BY <2>1, StarsAreReviews DEF Summary
  <2>4. Aggregate.count = Cardinality(Approved)
    BY <2>2, FS_CardinalityType DEF Aggregate, NoStats
  <2>5. Aggregate \in Stats
    BY <2>2, AggregateTypes
  <2>6. Summary = Aggregate \/ shown # Aggregate
    BY <2>3, <2>4, <2>5 DEF Stats
  <2> QED  BY <2>1, <2>6 DEF RatingIsCurrent, RatingIsAverage
<1> QED
  BY <1>1, <1>2, <1>3, PTL DEF ReviewSpec

===============================================================================
