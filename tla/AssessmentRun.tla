---------------------------- MODULE AssessmentRun ----------------------------
(***************************************************************************)
(* One governed website assessment, from the approval request to the end   *)
(* of the scan: the web request that decides the approval                  *)
(* (approval_decision_view, record_approval_decision), the web request     *)
(* that stops the run (stop_agent_run, the chat's cancel), and the worker  *)
(* (run_once), over the four stores they share: approvals, the task graph, *)
(* the agent's task and the spool.  No transaction spans two stores: each  *)
(* step below is one call of one store.  WorkerSpool, TaskGraph,           *)
(* ExecutionStore and ApprovalStore model the stores themselves.           *)
(***************************************************************************)
EXTENDS Naturals

CONSTANTS MaxCrashes, \* bound: how often the worker or a web request dies
          None

ASSUME RunAssumption == MaxCrashes \in Nat

VARIABLES approval, \* the approval request: [status, decision]
          graph,    \* the task graph: [revision, approval, execution] stages
          task,     \* the stored task: [revision, status, queued]
          job,      \* the area of the spool the job file is in
          marker,   \* the cancellation marker
          decider,  \* the web request that decides: [pc, task, graph, ...]
          stopper,  \* the web request that stops: [pc, task, graph]
          worker,   \* the worker: [pc, task, result]
          scans,    \* scanner processes started
          stopped,  \* stop_agent_run reported success
          crashes

stores == <<approval, graph, task, job, marker>>
vars == <<stores, decider, stopper, worker, scans, stopped, crashes>>

TERMINAL_NODE == {"completed", "blocked", "cancelled"}
TERMINAL_TASK == {"blocked", "failed", "completed", "cancelled", "timed_out"}

Decision == {"approve_once", "approve_with_conditions",
             "request_more_information", "propose_safer_alternative",
             "deny_continue_safely", "deny_stop_run"}

Approves(decision) == decision \in {"approve_once", "approve_with_conditions"}

AllowedTask(from, to) ==
    CASE from = "paused_approval" ->
           to \in {"paused_approval", "running", "blocked", "cancelled", "timed_out"}
      [] from = "running" -> to \in TERMINAL_TASK \cup {"running"}
      [] OTHER -> FALSE

\* Mutant: the revision is not compared.
MutSavesTask(snapshot, status) == AllowedTask(snapshot.status, status)

\* evolved, from the snapshot, and save_task(expected_revision).
SavesTask(snapshot, status) ==
    /\ AllowedTask(snapshot.status, status)
    /\ snapshot.revision = task.revision

SavedTask(status, queued) ==
    [revision |-> task.revision + 1, status |-> status, queued |-> queued]

\* _transition: update_status(expected_revision) of one stage's node.
MovesGraph(snapshot) == snapshot.revision = graph.revision

-----------------------------------------------------------------------------
(***************************************************************************)
(* The decision.  intended: execution_intended.  built: queued_job is set. *)
(***************************************************************************)

Deciding(label) == decider.pc = label

DGoto(label) == decider' = [decider EXCEPT !.pc = label]

NoDecider == [pc |-> "idle", decision |-> None, task |-> None, graph |-> None,
              built |-> FALSE]

\* store.decide: an approval that is open takes any decision.
Decide ==
    /\ Deciding("idle")
    /\ approval.status = "open"
    /\ \E d \in Decision :
         /\ approval' = [status |-> CASE Approves(d) -> "approved"
                                      [] d \in {"deny_continue_safely",
                                                "deny_stop_run"} -> "denied"
                                      [] OTHER -> "open",
                         decision |-> d]
         /\ decider' = [NoDecider EXCEPT !.pc = "load", !.decision = d]
    /\ UNCHANGED <<graph, task, job, marker, stopper, worker, scans, stopped,
                   crashes>>

\* record_approval_decision reads the task, which it saves last.  It raises if
\* the plan has expired since the decision was admitted.
LoadTask ==
    /\ Deciding("load")
    /\ \/ decider' = [decider EXCEPT !.pc = "graph", !.task = task]
       \/ decider' = NoDecider
    /\ UNCHANGED <<stores, stopper, worker, scans, stopped, crashes>>

\* Mutant: an approval that comes after the stage was cancelled goes on.
MutLoadGraph ==
    /\ Deciding("graph")
    /\ decider' = [decider EXCEPT !.graph = graph,
         !.pc = IF graph.approval # "waiting" THEN "execution"
                ELSE IF Approves(decider.decision) THEN "approval_running"
                                                   ELSE "approval_cancelled"]
    /\ UNCHANGED <<stores, stopper, worker, scans, stopped, crashes>>

\* project_approval reads the graph, which it moves by one stage at a time; a
\* conflict ends the projection, and no job is built then.
LoadGraph ==
    /\ Deciding("graph")
    /\ decider' = [decider EXCEPT !.graph = graph,
         !.pc = IF Approves(decider.decision)
                  THEN CASE graph.approval = "waiting"   -> "approval_running"
                         [] graph.approval = "completed" -> "execution"
                         [] OTHER -> "save"
                  ELSE CASE graph.approval = "waiting"   -> "approval_cancelled"
                         [] graph.approval = "cancelled" -> "execution"
                         [] OTHER -> "save"]
    /\ UNCHANGED <<stores, stopper, worker, scans, stopped, crashes>>

ProjectStage(label, field, status, next) ==
    /\ Deciding(label)
    /\ IF MovesGraph(decider.graph)
         THEN /\ graph' = [graph EXCEPT ![field] = status, !.revision = @ + 1]
              /\ decider' = [decider EXCEPT !.pc = next, !.graph = graph']
         ELSE UNCHANGED graph /\ DGoto("save")
    /\ UNCHANGED <<approval, task, job, marker, stopper, worker, scans,
                   stopped, crashes>>

ApprovalRunning == ProjectStage("approval_running", "approval", "running",
                                "approval_completed")

ApprovalCompleted == ProjectStage("approval_completed", "approval",
                                  "completed", "execution")

ApprovalCancelled == ProjectStage("approval_cancelled", "approval",
                                  "cancelled", "execution")

\* The execution stage.  intended is FALSE when enqueueing is not enabled or
\* the profile is not passive.
ProjectExecution ==
    /\ Deciding("execution")
    /\ \E intended \in BOOLEAN :
         LET approves == Approves(decider.decision)
             next == IF approves /\ intended THEN "build" ELSE "save"
         IN IF decider.graph.execution \in TERMINAL_NODE
              THEN /\ DGoto(next)
                   /\ UNCHANGED <<stores, stopper, worker, scans, stopped,
                                  crashes>>
              ELSE ProjectStage("execution", "execution",
                                CASE ~approves -> "cancelled"
                                  [] approves /\ intended -> "running"
                                  [] OTHER -> "blocked", next)

\* build_approved_pilot_job: the signing key or a manifest may be refused.
Build ==
    /\ Deciding("build")
    /\ \/ decider' = [decider EXCEPT !.pc = "enqueue", !.built = TRUE]
       \/ DGoto("block")
    /\ UNCHANGED <<stores, stopper, worker, scans, stopped, crashes>>

\* enqueue: raises if the job is there or its file cannot be written.  The job
\* that was built is not forgotten then.
Enqueue ==
    /\ Deciding("enqueue")
    /\ \/ job = "none" /\ job' = "pending" /\ DGoto("save")
       \/ UNCHANGED job /\ DGoto("block")
    /\ UNCHANGED <<approval, graph, task, marker, stopper, worker, scans,
                   stopped, crashes>>

\* mark_execution_blocked loads the graph; a conflict between that and its
\* write is ignored, like a stage that has ended otherwise.
MarkExecutionBlocked ==
    /\ Deciding("block")
    /\ DGoto("save")
    /\ \/ /\ graph.execution \notin TERMINAL_NODE
          /\ graph' = [graph EXCEPT !.execution = "blocked", !.revision = @ + 1]
       \/ UNCHANGED graph
    /\ UNCHANGED <<approval, task, job, marker, stopper, worker, scans,
                   stopped, crashes>>

DecidedStatus ==
    CASE decider.built -> "running"
      [] ~decider.built /\ Approves(decider.decision) -> "blocked"
      [] OTHER -> "cancelled"

SaveDecision ==
    /\ Deciding("save")
    /\ task' = IF SavesTask(decider.task, DecidedStatus)
                 THEN SavedTask(DecidedStatus, decider.built) ELSE task
    /\ decider' = NoDecider
    /\ UNCHANGED <<approval, graph, job, marker, stopper, worker, scans,
                   stopped, crashes>>

DeciderStep ==
    \/ Decide \/ LoadTask \/ LoadGraph \/ ApprovalRunning \/ ApprovalCompleted
    \/ ApprovalCancelled \/ ProjectExecution \/ Build \/ Enqueue
    \/ MarkExecutionBlocked \/ SaveDecision

-----------------------------------------------------------------------------
(***************************************************************************)
(* The stop.                                                               *)
(***************************************************************************)

Stopping(label) == stopper.pc = label

NoStopper == [pc |-> "idle", task |-> None, graph |-> None]

\* A run that has ended is refused.
RequestStop ==
    /\ Stopping("idle")
    /\ task.status \notin TERMINAL_TASK
    /\ stopper' = [stopper EXCEPT !.pc = IF job = "pending" THEN "withdraw"
                                                            ELSE "mark"]
    /\ UNCHANGED <<stores, decider, worker, scans, stopped, crashes>>

\* If a worker claimed the job meanwhile the request ends with an error.
WithdrawJob ==
    /\ Stopping("withdraw")
    /\ IF job = "pending"
         THEN job' = "failed" /\ stopper' = [stopper EXCEPT !.pc = "load"]
         ELSE UNCHANGED job /\ stopper' = NoStopper
    /\ UNCHANGED <<approval, graph, task, marker, decider, worker, scans,
                   stopped, crashes>>

\* Mutant: no marker for a job that is not queued yet.
MutWriteMarker ==
    /\ Stopping("mark")
    /\ marker' = (marker \/ job = "processing")
    /\ stopper' = [stopper EXCEPT !.pc = "load"]
    /\ UNCHANGED <<approval, graph, task, job, decider, worker, scans, stopped,
                   crashes>>

WriteMarker ==
    /\ Stopping("mark")
    /\ marker' = TRUE
    /\ stopper' = [stopper EXCEPT !.pc = "load"]
    /\ UNCHANGED <<approval, graph, task, job, decider, worker, scans, stopped,
                   crashes>>

\* controller.cancel returns a task that has ended as it is; the stop then
\* reports that it came too late.
LoadForCancel ==
    /\ Stopping("load")
    /\ stopper' = IF task.status \in TERMINAL_TASK
                    THEN NoStopper
                    ELSE [stopper EXCEPT !.pc = "cancel", !.task = task]
    /\ stopped' = (stopped \/ task.status = "cancelled")
    /\ UNCHANGED <<stores, decider, worker, scans, crashes>>

\* The graph is only cancelled when the stop came from the chat.
CancelTask ==
    /\ Stopping("cancel")
    /\ IF SavesTask(stopper.task, "cancelled")
         THEN /\ task' = SavedTask("cancelled", task.queued)
              /\ stopped' = TRUE
              /\ \/ stopper' = [stopper EXCEPT !.pc = "stages"]
                 \/ stopper' = NoStopper
         ELSE /\ UNCHANGED <<task, stopped>>
              /\ stopper' = NoStopper
    /\ UNCHANGED <<approval, graph, job, marker, decider, worker, scans, crashes>>

\* project_terminal: a conflict ends it, and is ignored.
LoadStages ==
    /\ Stopping("stages")
    /\ stopper' = [stopper EXCEPT !.pc = "stage", !.graph = graph]
    /\ UNCHANGED <<stores, decider, worker, scans, stopped, crashes>>

CancelStage ==
    /\ Stopping("stage")
    /\ LET open == {f \in {"approval", "execution"} :
                      stopper.graph[f] \notin TERMINAL_NODE}
           next == IF "approval" \in open THEN "approval" ELSE "execution"
       IN IF open # {} /\ MovesGraph(stopper.graph)
            THEN /\ graph' = [graph EXCEPT ![next] = "cancelled", !.revision = @ + 1]
                 /\ stopper' = [stopper EXCEPT !.graph = graph']
            ELSE /\ UNCHANGED graph
                 /\ stopper' = NoStopper
    /\ UNCHANGED <<approval, task, job, marker, decider, worker, scans,
                   stopped, crashes>>

StopperStep ==
    \/ RequestStop \/ WithdrawJob \/ WriteMarker \/ LoadForCancel \/ CancelTask
    \/ LoadStages \/ CancelStage

-----------------------------------------------------------------------------
(***************************************************************************)
(* The worker.                                                             *)
(***************************************************************************)

Working(label) == worker.pc = label

WGoto(label) == worker' = [worker EXCEPT !.pc = label]

\* Mutant: a job found in processing/ is queued again.
MutLaunch ==
    /\ Working("off")
    /\ job' = IF job = "processing" THEN "pending" ELSE job
    /\ WGoto("idle")
    /\ UNCHANGED <<approval, graph, task, marker, decider, stopper, scans,
                   stopped, crashes>>

\* Start-up: a job in processing/ is rejected; the run's task is not touched.
Launch ==
    /\ Working("off")
    /\ IF job = "processing" THEN job' = "failed" /\ marker' = FALSE
                             ELSE UNCHANGED <<job, marker>>
    /\ WGoto("idle")
    /\ UNCHANGED <<approval, graph, task, decider, stopper, scans, stopped,
                   crashes>>

Claim ==
    /\ Working("idle") /\ job = "pending"
    /\ job' = "processing"
    /\ WGoto("check")
    /\ UNCHANGED <<approval, graph, task, marker, decider, stopper, scans,
                   stopped, crashes>>

\* load_claimed and execute_pilot up to its last look at the marker: the job
\* is rejected (expired, badly signed), cancelled, blocked by policy, refused
\* by the revalidation, or goes on.
Check ==
    /\ Working("check")
    /\ \/ WGoto("reject")
       \/ /\ marker
          /\ worker' = [worker EXCEPT !.pc = "load", !.result = "cancelled"]
       \/ /\ ~marker
          /\ worker' = [worker EXCEPT !.pc = "load", !.result = "failed"]
       \/ /\ ~marker
          /\ WGoto("start")
    /\ UNCHANGED <<stores, decider, stopper, scans, stopped, crashes>>

Start ==
    /\ Working("start")
    /\ scans' = scans + 1
    /\ WGoto("scan")
    /\ UNCHANGED <<stores, decider, stopper, stopped, crashes>>

Scan ==
    /\ Working("scan")
    /\ \E result \in {"completed", "failed", "timed_out", "cancelled"} :
         /\ result = "cancelled" => marker
         /\ worker' = [worker EXCEPT !.pc = "load", !.result = result]
    /\ UNCHANGED <<stores, decider, stopper, scans, stopped, crashes>>

\* _project_run_state: the task's status wins if it is cancelled.
LoadForProjection ==
    /\ Working("load")
    /\ worker' = [worker EXCEPT !.pc = "project", !.task = task,
                   !.result = IF task.status = "cancelled" THEN "cancelled" ELSE @]
    /\ UNCHANGED <<stores, decider, stopper, scans, stopped, crashes>>

\* Mutant: the run is reported completed whatever the scan came to.
MutProject ==
    /\ Working("project")
    /\ IF SavesTask(worker.task, "completed")
         THEN task' = SavedTask("completed", FALSE) /\ WGoto("finish")
         ELSE UNCHANGED task /\ WGoto("reject")
    /\ UNCHANGED <<approval, graph, job, marker, decider, stopper, scans,
                   stopped, crashes>>

\* A task that has ended is immutable, also when it is cancelled already, and
\* one that still waits for its approval cannot complete: the job is rejected.
Project ==
    /\ Working("project")
    /\ IF SavesTask(worker.task, worker.result)
         THEN task' = SavedTask(worker.result, FALSE) /\ WGoto("finish")
         ELSE UNCHANGED task /\ WGoto("reject")
    /\ UNCHANGED <<approval, graph, job, marker, decider, stopper, scans,
                   stopped, crashes>>

\* finish, with its receipt; run_once raises after a rejection.
Finish ==
    /\ Working("finish") \/ Working("reject")
    /\ job' = IF Working("finish") /\ worker.result = "completed"
                THEN "completed" ELSE "failed"
    /\ marker' = FALSE
    /\ worker' = [pc |-> IF Working("finish") THEN "idle" ELSE "off",
                  task |-> None, result |-> None]
    /\ UNCHANGED <<approval, graph, task, decider, stopper, scans, stopped,
                   crashes>>

WorkerStep ==
    \/ Launch \/ Claim \/ Check \/ Start \/ Scan \/ LoadForProjection
    \/ Project \/ Finish

-----------------------------------------------------------------------------

Crash ==
    /\ crashes < MaxCrashes
    /\ crashes' = crashes + 1
    /\ \/ /\ ~Working("off")
          /\ worker' = [pc |-> "off", task |-> None, result |-> None]
          /\ UNCHANGED <<decider, stopper>>
       \/ /\ ~Deciding("idle")
          /\ decider' = NoDecider
          /\ UNCHANGED <<worker, stopper>>
       \/ /\ ~Stopping("idle")
          /\ stopper' = NoStopper
          /\ UNCHANGED <<worker, decider>>
    /\ UNCHANGED <<stores, scans, stopped>>

Init ==
    /\ approval = [status |-> "open", decision |-> None]
    /\ graph = [revision |-> 0, approval |-> "waiting", execution |-> "pending"]
    /\ task = [revision |-> 0, status |-> "paused_approval", queued |-> FALSE]
    /\ job = "none" /\ marker = FALSE
    /\ decider = NoDecider /\ stopper = NoStopper
    /\ worker = [pc |-> "off", task |-> None, result |-> None]
    /\ scans = 0 /\ stopped = FALSE /\ crashes = 0

Next == DeciderStep \/ StopperStep \/ WorkerStep \/ Crash

Spec == Init /\ [][Next]_vars

-----------------------------------------------------------------------------
(***************************************************************************)
(* Properties.                                                             *)
(***************************************************************************)

Task == [revision : Nat, queued : BOOLEAN,
         status : {"paused_approval", "running"} \cup TERMINAL_TASK]

Graph == [revision : Nat,
          approval : {"waiting", "running", "completed", "cancelled"},
          execution : {"pending", "running", "blocked", "cancelled"}]

DeciderLabel == {"idle", "load", "graph", "approval_running",
                 "approval_completed", "approval_cancelled", "execution",
                 "build", "enqueue", "block", "save"}

TypeOK ==
    /\ approval \in [status : {"open", "approved", "denied"},
                     decision : Decision \cup {None}]
    /\ graph \in Graph /\ task \in Task
    /\ job \in {"none", "pending", "processing", "completed", "failed"}
    /\ marker \in BOOLEAN /\ stopped \in BOOLEAN
    /\ decider \in [pc : DeciderLabel, decision : Decision \cup {None},
                    task : Task \cup {None}, graph : Graph \cup {None},
                    built : BOOLEAN]
    /\ stopper \in [pc : {"idle", "withdraw", "mark", "load", "cancel", "stages",
                          "stage"},
                    task : Task \cup {None}, graph : Graph \cup {None}]
    /\ worker \in [pc : {"off", "idle", "check", "start", "scan", "load",
                         "project", "finish", "reject"},
                   task : Task \cup {None},
                   result : {"completed", "failed", "timed_out", "cancelled", None}]
    /\ scans \in 0..1 /\ crashes \in 0..MaxCrashes

\* Once a stop has reported success, whenever its approval comes and whoever
\* is about to queue the run, its job has ended or a marker waits for the
\* worker's next look.
StoppedIsMarked == stopped => marker \/ job \in {"completed", "failed"}

\* What a run reports it has earned: a scan only ran when a human had approved
\* it and the graph says so as well, and a run that is reported completed was
\* scanned and not stopped before.
ReportIsTrue ==
    /\ scans > 0 => approval.status = "approved" /\ graph.approval = "completed"
    /\ task.status = "completed" => scans = 1 /\ ~stopped

\* What was reported as the end of a run is not changed by a later store call.
EndOfRunStays ==
    [][task.status \in TERMINAL_TASK => task' = task]_vars
=============================================================================
