-------------------------- MODULE AgentController --------------------------
(***************************************************************************)
(* The bounded agent runtime (vulnhunter/agent): one persisted task, and   *)
(* controller commands - run, approve_and_resume, cancel, pause, resume -  *)
(* issued concurrently by several processes.                               *)
(*                                                                         *)
(* The store serialises single statements only.  A command works on the    *)
(* snapshot it loaded and saves with expected_revision = snapshot.revision,*)
(* so whatever another command saved in between makes the save raise and   *)
(* the command stop where it is.  Every access to the store, every audit   *)
(* event and every tool execution is a step of its own; a process may die  *)
(* between any two.                                                        *)
(***************************************************************************)
EXTENDS Naturals, FiniteSets

CONSTANTS Procs,           \* processes that issue controller commands
          MaxSteps,        \* permission_manifest.max_steps
          MaxToolCalls,    \* permission_manifest.max_tool_calls
          MaxFailures,     \* permission_manifest.max_identical_failures
          MaxIterations,   \* runtime config: iterations of one run
          MaxCommands,     \* bound: commands issued in a behaviour
          Crashes          \* BOOLEAN: may a process die in mid-command

ASSUME AgentAssumption ==
    /\ IsFiniteSet(Procs) /\ Procs # {}
    /\ MaxSteps \in Nat /\ MaxToolCalls \in Nat
    /\ MaxFailures \in Nat \ {0} /\ MaxIterations \in Nat \ {0}
    /\ MaxCommands \in Nat /\ Crashes \in BOOLEAN

TaskStatus == {"created", "running", "paused_approval", "paused_budget",
               "paused_operator", "blocked", "failed", "completed",
               "cancelled", "timed_out"}

Terminal == {"blocked", "failed", "completed", "cancelled", "timed_out"}

AllowedTaskTransitions ==
    [s \in TaskStatus |->
       CASE s = "created" -> {"created", "running", "paused_operator",
                              "cancelled", "timed_out"}
         [] s = "running" -> TaskStatus \ {"created"}
         [] s = "paused_approval" -> {"paused_approval", "running", "blocked",
                                      "cancelled", "timed_out"}
         [] s = "paused_budget" -> {"paused_budget", "running",
                                    "paused_operator", "cancelled", "timed_out"}
         [] s = "paused_operator" -> {"paused_operator", "running",
                                      "cancelled", "timed_out"}
         [] OTHER -> {}]

\* What a planner may propose: end or pause the task; a call policy always
\* denies (a forged approval_reference included); a call it allows; a call of
\* an action that requires approval, "gated" without a reference, "echoed" with
\* the one the planner reads in the task's memory and as the bound request
\* names it; or the planner fails.
Proposals == {"complete", "pause", "forbidden", "tool", "gated", "echoed", "error"}

\* "approved": the pending gated call, replayed with the consumed approval.
Work == Proposals \cup {"approved", "none"}

\* Calls of an action that requires approval.
GatedCalls == {"gated", "echoed", "approved"}

\* pending: memory holds pending_proposal; approved: memory holds
\* approved_pending_call; consumed: memory holds consumed_approval_sha256.
Task == [status : TaskStatus, revision : Nat, steps : Nat, calls : Nat,
         failures : Nat, pending : BOOLEAN, approved : BOOLEAN,
         consumed : BOOLEAN]

NewTask == [status |-> "created", revision |-> 0, steps |-> 0, calls |-> 0,
            failures |-> 0, pending |-> FALSE, approved |-> FALSE,
            consumed |-> FALSE]

VARIABLES task,      \* the stored row of agent_tasks
          run,       \* run[p]: the command p is executing
          commands,  \* commands issued so far
          approval,  \* the bound request in the Approval Centre
          expired,   \* the task's immutable deadline has passed
          audit,     \* events appended: tool executions and final ones
          ran        \* tool handlers entered: for the pending call that
                     \* was approved, for a gated call before any approval was
                     \* consumed, after the task ended

vars == <<task, run, commands, approval, expired, audit, ran>>

\* A command in progress: its next step, the snapshot it works on, the
\* iterations its run has left, the proposal it is carrying out.
Idle == [pc |-> "idle", mine |-> NewTask, left |-> 0, work |-> "none"]

Mine(p) == run[p].mine

At(p, label) == run[p].pc = label

Become(p, r) == run' = [run EXCEPT ![p] = IF r.pc = "idle" THEN Idle ELSE r]

Goto(p, label) == Become(p, [run[p] EXCEPT !.pc = label])

\* get_task, then label.
LoadThen(p, label) == Become(p, [run[p] EXCEPT !.mine = task, !.pc = label])

\* Mutant: the store accepts any valid update, whatever revision it is based on.
MutCanSave(p, new) ==
    /\ Mine(p).status \notin Terminal
    /\ new.status \in AllowedTaskTransitions[Mine(p).status]

\* AgentTask.evolved and AgentStore.save_task: validated against the snapshot,
\* stored only if the row still has the snapshot's revision.
CanSave(p, new) ==
    /\ Mine(p).revision = task.revision
    /\ Mine(p).status \notin Terminal
    /\ new.status \in AllowedTaskTransitions[Mine(p).status]

\* A save after which the command goes on as r; if it raises the command ends.
SaveThen(p, new, r) ==
    IF CanSave(p, new)
      THEN /\ task' = [new EXCEPT !.revision = @ + 1]
           /\ Become(p, [r EXCEPT !.mine = task'])
      ELSE /\ Become(p, Idle)
           /\ UNCHANGED task

Save(p, new, label) == SaveThen(p, new, [run[p] EXCEPT !.pc = label])

Log(event) == audit' = [audit EXCEPT !.final = @ \cup {event}]

-----------------------------------------------------------------------------
(***************************************************************************)
(* AgentController.run                                                     *)
(***************************************************************************)

\* run: return at once on a task that is over, paused by an operator or
\* waiting for an approval; otherwise mark it running.
Run(p) ==
    /\ At(p, "run")
    /\ LoadThen(p, IF task.status \in Terminal THEN "idle"
               ELSE IF expired THEN "timeout"
               ELSE IF \/ task.status = "paused_operator"
                       \/ task.status = "paused_approval" /\ ~task.approved
                    THEN "idle" ELSE "start")
    /\ UNCHANGED <<task, commands, approval, expired, audit, ran>>

Start(p) ==
    /\ At(p, "start")
    /\ SaveThen(p, [Mine(p) EXCEPT !.status = "running"],
                [run[p] EXCEPT !.pc = "loop", !.left = MaxIterations])
    /\ UNCHANGED <<commands, approval, expired, audit, ran>>

\* The top of an iteration: reload, then replay an approved call or plan.
Loop(p) ==
    /\ At(p, "loop") /\ run[p].left > 0
    /\ Become(p, [run[p] EXCEPT
          !.mine = task,
          !.left = @ - 1,
          !.pc   = IF task.status \in Terminal THEN "idle"
                   ELSE IF expired THEN "timeout"
                   ELSE IF task.pending /\ task.approved THEN "replay"
                   ELSE "plan"])
    /\ UNCHANGED <<task, commands, approval, expired, audit, ran>>

\* The iteration budget is used up.
LoopDone(p) ==
    /\ At(p, "loop") /\ run[p].left = 0
    /\ LoadThen(p, "save_budget")
    /\ UNCHANGED <<task, commands, approval, expired, audit, ran>>

\* Mutant: the approval stays in memory when its call is replayed.
MutReplayed(snapshot) == snapshot

\* The pending proposal and its approval leave the memory before the call runs.
Replayed(snapshot) == [snapshot EXCEPT !.pending = FALSE, !.approved = FALSE]

\* The bound request may name another call than the pending one; policy then
\* denies it.
Replay(p) ==
    /\ At(p, "replay")
    /\ \E work \in {"approved", "forbidden"} :
         SaveThen(p, Replayed(Mine(p)),
                  [run[p] EXCEPT !.pc = "dispatch", !.work = work])
    /\ UNCHANGED <<commands, approval, expired, audit, ran>>

\* The planner answers, then _interruption_checkpoint: if the task changed
\* while it thought, the run returns or raises.
Plan(p) ==
    /\ At(p, "plan")
    /\ \E proposal \in Proposals :
         Become(p, [run[p] EXCEPT
            !.work = proposal,
            !.pc   = IF proposal = "error" THEN "save_failed"
                     ELSE IF task.revision # Mine(p).revision THEN "idle"
                     ELSE "advance"])
    /\ UNCHANGED <<task, commands, approval, expired, audit, ran>>

Advance(p) ==
    /\ At(p, "advance")
    /\ Save(p, [Mine(p) EXCEPT !.steps = @ + 1], "dispatch")
    /\ UNCHANGED <<commands, approval, expired, audit, ran>>

\* Mutant of the policy: the call budget checked one call late.
MutLatePolicy(snapshot, proposal) ==
    IF proposal = "forbidden" \/ snapshot.calls > MaxToolCalls THEN "denied"
    ELSE IF proposal = "gated" THEN "requires_approval" ELSE "allowed"

\* AgentPolicyEngine.evaluate on the snapshot: a reference counts if it is
\* consumed_approval_sha256, whoever put it into the call, and that digest
\* stays in the memory for good.
Policy(snapshot, proposal) ==
    IF \/ proposal = "forbidden"
       \/ snapshot.steps > MaxSteps
       \/ snapshot.calls >= MaxToolCalls
       \/ proposal \in {"approved", "echoed"} /\ ~snapshot.consumed
    THEN "denied"
    ELSE IF proposal = "gated" THEN "requires_approval" ELSE "allowed"

\* Events task.completed, task.paused, policy.decided, approval.required.
Dispatch(p) ==
    /\ At(p, "dispatch")
    /\ LET decision == Policy(Mine(p), run[p].work)
       IN  Goto(p, IF run[p].work = "complete" THEN "save_completed"
                   ELSE IF run[p].work = "pause" THEN "save_paused"
                   ELSE IF decision = "denied" THEN "save_blocked"
                   ELSE IF decision = "requires_approval" THEN "save_gated"
                   ELSE IF expired THEN "timeout" ELSE "execute")
    /\ IF run[p].work = "complete" THEN Log("completed") ELSE UNCHANGED audit
    /\ UNCHANGED <<task, commands, approval, expired, ran>>

\* The tool handler runs on the snapshot; nothing is reloaded before it.
Execute(p) ==
    /\ At(p, "execute")
    /\ ran' = [ran EXCEPT
          !.replayed = IF run[p].work = "approved" THEN @ + 1 ELSE @,
          !.early    = IF run[p].work \in GatedCalls /\ approval # "consumed"
                         THEN @ + 1 ELSE @,
          !.late     = IF task.status \in Terminal THEN @ + 1 ELSE @]
    /\ Goto(p, "record")
    /\ UNCHANGED <<task, commands, approval, expired, audit>>

Record(p) ==
    /\ At(p, "record")
    /\ Save(p, [Mine(p) EXCEPT !.calls = @ + 1], "log")
    /\ UNCHANGED <<commands, approval, expired, audit, ran>>

\* tool.executed, then ResultEvaluator: continue, retry or fail.
LogExecution(p) ==
    /\ At(p, "log")
    /\ audit' = [audit EXCEPT !.executed = @ + 1]
    /\ \E next \in {"save_output", "save_retry", "save_failed"} : Goto(p, next)
    /\ UNCHANGED <<task, commands, approval, expired, ran>>

SaveOutput(p) ==
    /\ At(p, "save_output")
    /\ Save(p, Mine(p), "loop")
    /\ UNCHANGED <<commands, approval, expired, audit, ran>>

\* A retryable failure is counted; at the limit the task is blocked.
SaveRetry(p) ==
    /\ At(p, "save_retry")
    /\ LET new == [Mine(p) EXCEPT !.failures = @ + 1]
       IN Save(p, new, IF new.failures >= MaxFailures THEN "save_blocked"
                                                      ELSE "loop")
    /\ UNCHANGED <<commands, approval, expired, audit, ran>>

-----------------------------------------------------------------------------
(***************************************************************************)
(* The saves a command ends with.                                          *)
(***************************************************************************)

EndsWith(p, label, status) ==
    /\ At(p, label)
    /\ Save(p, [Mine(p) EXCEPT !.status = status], "idle")
    /\ UNCHANGED <<commands, approval, expired, audit, ran>>

SaveCompleted(p) == EndsWith(p, "save_completed", "completed")
SavePaused(p)    == EndsWith(p, "save_paused", "paused_operator")
SaveBlocked(p)   == EndsWith(p, "save_blocked", "blocked")
SaveFailed(p)    == EndsWith(p, "save_failed", "failed")
SaveBudget(p)    == EndsWith(p, "save_budget", "paused_budget")
SaveTimedOut(p)  == EndsWith(p, "save_timed_out", "timed_out")

SaveGated(p) ==
    /\ At(p, "save_gated")
    /\ Save(p, [Mine(p) EXCEPT !.status = "paused_approval",
                               !.pending = TRUE], "idle")
    /\ UNCHANGED <<commands, approval, expired, audit, ran>>

\* _time_out appends its event before it saves.
TimeOut(p) ==
    /\ At(p, "timeout")
    /\ Log("timed_out")
    /\ Goto(p, "save_timed_out")
    /\ UNCHANGED <<task, commands, approval, expired, ran>>

-----------------------------------------------------------------------------
(***************************************************************************)
(* approve_and_resume, cancel, pause, resume                               *)
(***************************************************************************)

Approve(p) ==
    /\ At(p, "approve")
    /\ LoadThen(p, IF task.status # "paused_approval" THEN "idle"
               ELSE IF expired THEN "timeout" ELSE "consume")
    /\ UNCHANGED <<task, commands, approval, expired, audit, ran>>

\* ApprovalService.consume succeeds once, on an approved request.
Consume(p) ==
    /\ At(p, "consume")
    /\ IF approval = "approved"
         THEN approval' = "consumed" /\ Goto(p, "save_approved")
         ELSE Goto(p, "idle") /\ UNCHANGED approval
    /\ UNCHANGED <<task, commands, expired, audit, ran>>

SaveApproved(p) ==
    /\ At(p, "save_approved")
    /\ Save(p, [Mine(p) EXCEPT !.status = "running", !.approved = TRUE,
                               !.consumed = TRUE], "run")
    /\ UNCHANGED <<commands, approval, expired, audit, ran>>

Cancel(p) ==
    /\ At(p, "cancel")
    /\ LoadThen(p, IF task.status \in Terminal THEN "idle" ELSE "save_cancelled")
    /\ UNCHANGED <<task, commands, approval, expired, audit, ran>>

SaveCancelled(p) ==
    /\ At(p, "save_cancelled")
    /\ Save(p, [Mine(p) EXCEPT !.status = "cancelled"], "log_cancelled")
    /\ UNCHANGED <<commands, approval, expired, audit, ran>>

LogCancelled(p) ==
    /\ At(p, "log_cancelled")
    /\ Log("cancelled")
    /\ Goto(p, "idle")
    /\ UNCHANGED <<task, commands, approval, expired, ran>>

\* An approval-paused task cannot be paused again, a paused one need not be.
Pause(p) ==
    /\ At(p, "pause")
    /\ LoadThen(p, IF task.status \in Terminal \cup {"paused_operator", "paused_approval"}
                 THEN "idle" ELSE "save_paused")
    /\ UNCHANGED <<task, commands, approval, expired, audit, ran>>

Resume(p) ==
    /\ At(p, "resume")
    /\ LoadThen(p, IF task.status # "paused_operator" THEN "idle"
               ELSE IF expired THEN "timeout" ELSE "save_resumed")
    /\ UNCHANGED <<task, commands, approval, expired, audit, ran>>

SaveResumed(p) ==
    /\ At(p, "save_resumed")
    /\ Save(p, [Mine(p) EXCEPT !.status = "running"], "run")
    /\ UNCHANGED <<commands, approval, expired, audit, ran>>

-----------------------------------------------------------------------------

Issue(p) ==
    /\ At(p, "idle") /\ commands < MaxCommands
    /\ \E command \in {"run", "approve", "cancel", "pause", "resume"} :
         Goto(p, command)
    /\ commands' = commands + 1
    /\ UNCHANGED <<task, approval, expired, audit, ran>>

Crash(p) ==
    /\ Crashes /\ ~At(p, "idle")
    /\ Goto(p, "idle")
    /\ UNCHANGED <<task, commands, approval, expired, audit, ran>>

\* A human approves the bound request (see ApprovalStore).
HumanApproves ==
    /\ approval = "pending"
    /\ approval' = "approved"
    /\ UNCHANGED <<task, run, commands, expired, audit, ran>>

DeadlinePasses ==
    /\ ~expired
    /\ expired' = TRUE
    /\ UNCHANGED <<task, run, commands, approval, audit, ran>>

RunStep(p) ==
    \/ Run(p) \/ Start(p) \/ Loop(p) \/ LoopDone(p) \/ Replay(p) \/ Plan(p)
    \/ Advance(p) \/ Dispatch(p) \/ Execute(p) \/ Record(p)
    \/ LogExecution(p) \/ SaveOutput(p) \/ SaveRetry(p)

CommandStep(p) ==
    \/ SaveCompleted(p) \/ SavePaused(p) \/ SaveBlocked(p) \/ SaveFailed(p)
    \/ SaveBudget(p) \/ SaveTimedOut(p) \/ SaveGated(p) \/ TimeOut(p)
    \/ Approve(p) \/ Consume(p) \/ SaveApproved(p) \/ Cancel(p)
    \/ SaveCancelled(p) \/ LogCancelled(p) \/ Pause(p) \/ Resume(p)
    \/ SaveResumed(p)

Init ==
    /\ task = NewTask
    /\ run = [p \in Procs |-> Idle]
    /\ commands = 0
    /\ approval = "pending"
    /\ expired = FALSE
    /\ audit = [executed |-> 0, final |-> {}]
    /\ ran = [replayed |-> 0, early |-> 0, late |-> 0]

Next ==
    \/ HumanApproves \/ DeadlinePasses
    \/ \E p \in Procs : Issue(p) \/ RunStep(p) \/ CommandStep(p) \/ Crash(p)

Spec == Init /\ [][Next]_vars

-----------------------------------------------------------------------------
(***************************************************************************)
(* Properties.                                                             *)
(***************************************************************************)

Label == {"idle", "run", "start", "loop", "replay", "plan", "advance",
          "dispatch", "execute", "record", "log", "save_output", "save_retry",
          "save_completed", "save_paused", "save_blocked", "save_failed",
          "save_budget", "save_timed_out", "save_gated", "timeout", "approve",
          "consume", "save_approved", "cancel", "save_cancelled",
          "log_cancelled", "pause", "resume", "save_resumed"}

Command == [pc : Label, mine : Task, left : Nat, work : Work]

\* The state has its types, and no snapshot is newer than the stored task.
TypeOK ==
    /\ task \in Task
    /\ run \in [Procs -> Command]
    /\ commands \in Nat
    /\ approval \in {"pending", "approved", "consumed"}
    /\ expired \in BOOLEAN
    /\ audit \in [executed : Nat, final : SUBSET {"completed", "cancelled", "timed_out"}]
    /\ ran \in [replayed : Nat, early : Nat, late : Nat]
    /\ \A p \in Procs : Mine(p).revision <= task.revision

\* No call of an action that requires approval runs before the human approval
\* was consumed, whatever reference the planner puts into it, and the pending
\* call that was approved runs at most once, through any interleaving of runs,
\* approvals and crashes: the approval leaves the memory before the tool is
\* entered.  (Calls that echo the consumed approval are bounded only by the
\* budgets.)
ApprovedOnce == ran.early = 0 /\ ran.replayed <= 1

\* The tool calls recorded in the task never exceed its budget, whatever runs
\* work on it at the same time.
CallBudget == task.calls <= MaxToolCalls

\* A cancellation, timeout or other end of the task stops every run: the
\* process that ended it enters no tool any more, each other one at most the
\* tool it was about to enter.
EndStopsTools == ran.late <= Cardinality(Procs) - 1

\* What one command stored no command that holds an older snapshot undoes: a
\* task that ended stays as it is, and the steps, tool calls and failures
\* counted in it are never uncounted.
StoredTaskAdvances ==
    [][/\ task.status \in Terminal => task' = task
       /\ task'.steps >= task.steps
       /\ task'.calls >= task.calls
       /\ task'.failures >= task.failures]_vars
=============================================================================
