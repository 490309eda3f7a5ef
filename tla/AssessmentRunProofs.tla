------------------------- MODULE AssessmentRunProofs -------------------------
(***************************************************************************)
(* The properties of AssessmentRun for every number of crashes.            *)
(*                                                                         *)
(* No transaction spans the approval, the graph, the task and the spool.   *)
(* What holds across them is carried by the revisions: whoever saves the   *)
(* task or the graph loaded a state that was current once, and the same    *)
(* revision means the same state.  So a decision that completed the        *)
(* approval stage finds it completed for ever, and a stop that the store   *)
(* accepted is preceded by its marker, or by the end of the job.           *)
(***************************************************************************)
EXTENDS AssessmentRun, TLAPS

Results == {"completed", "failed", "timed_out", "cancelled"}

DeciderState ==
    [pc : DeciderLabel, decision : Decision \cup {None}, task : Task \cup {None},
     graph : Graph \cup {None}, built : BOOLEAN]

StopperState ==
    [pc : {"idle", "withdraw", "mark", "load", "cancel", "stages", "stage"},
     task : Task \cup {None}, graph : Graph \cup {None}]

WorkerState ==
    [pc : {"off", "idle", "check", "start", "scan", "load", "project", "finish", "reject"},
     task : Task \cup {None}, result : Results \cup {None}]

\* A task, or a graph, that was the stored one at its revision.
TaskSnapshot(t, now) ==
    t \in Task /\ t.revision <= now.revision /\ (t.revision = now.revision => t = now)

GraphSnapshot(g, now) ==
    g \in Graph /\ g.revision <= now.revision /\ (g.revision = now.revision => g = now)

\* No scanner can start any more for a job that is not past its last check.
Sealed == marker \/ job \in {"completed", "failed"}

\* Approved, in the approval store and in the graph.
Granted == approval.status = "approved" /\ graph.approval = "completed"

DeciderOK ==
    /\ decider.pc # "idle" =>
         /\ decider.decision \in Decision
         /\ Approves(decider.decision) => approval.status = "approved"
    /\ decider.pc \notin {"idle", "load"} => TaskSnapshot(decider.task, task)
    /\ decider.pc \notin {"idle", "load", "graph"} => GraphSnapshot(decider.graph, graph)
    /\ decider.pc \in {"approval_running", "approval_cancelled"} =>
         decider.graph.approval = "waiting"
    /\ decider.pc = "approval_completed" => decider.graph.approval = "running"
    /\ decider.pc \in {"approval_running", "approval_completed", "build", "enqueue"} =>
         Approves(decider.decision)
    /\ decider.pc = "approval_cancelled" => ~ Approves(decider.decision)
    /\ decider.pc \in {"execution", "build", "enqueue"} /\ Approves(decider.decision) =>
         graph.approval = "completed"

StopperOK ==
    /\ stopper.pc \in {"load", "cancel", "stages", "stage"} => Sealed
    /\ stopper.pc = "cancel" => TaskSnapshot(stopper.task, task)
    /\ stopper.pc = "stage" => GraphSnapshot(stopper.graph, graph)

WorkerOK ==
    /\ worker.pc = "idle" => job # "processing"
    /\ worker.pc \notin {"off", "idle"} => job = "processing"
    /\ worker.pc \in {"check", "start"} => scans = 0
    /\ worker.pc = "scan" => scans = 1
    /\ worker.pc \in {"load", "project", "finish"} =>
         worker.result \in Results /\ (worker.result = "completed" => scans = 1)
    /\ worker.pc = "project" => TaskSnapshot(worker.task, task)

JobOK ==
    /\ job \in {"none", "pending"} => scans = 0
    /\ job # "none" => Granted
    /\ stopped => Sealed /\ task.status = "cancelled"
    /\ task.status = "completed" => scans = 1

IInv == TypeOK /\ DeciderOK /\ StopperOK /\ WorkerOK /\ JobOK

-----------------------------------------------------------------------------
(***************************************************************************)
(* What the steps of the others leave of each part.                        *)
(***************************************************************************)

LEMMA Types ==
    ASSUME TypeOK
    PROVE  decider \in DeciderState /\ stopper \in StopperState /\ worker \in WorkerState
  BY DEF TypeOK, DeciderState, StopperState, WorkerState, Results

\* The stores only go on: revisions grow with every save, an approval and a
\* completed approval stage stay, and so does what keeps the scanner away.
TaskMoves == task' = task \/ (task' \in Task /\ task'.revision = task.revision + 1)

GraphMoves ==
    /\ graph' = graph \/ (graph' \in Graph /\ graph'.revision = graph.revision + 1)
    /\ graph.approval = "completed" => graph'.approval = "completed"

Goes ==
    /\ TaskMoves /\ GraphMoves
    /\ approval.status = "approved" => approval'.status = "approved"
    /\ Sealed => Sealed'

LEMMA TaskStays ==
    ASSUME task \in Task, TaskMoves, NEW t, TaskSnapshot(t, task)
    PROVE  TaskSnapshot(t, task')
  BY DEF TaskMoves, TaskSnapshot, Task

LEMMA GraphStays ==
    ASSUME graph \in Graph, GraphMoves, NEW g, GraphSnapshot(g, graph)
    PROVE  GraphSnapshot(g, graph')
  BY DEF GraphMoves, GraphSnapshot, Graph

LEMMA DeciderKept ==
    ASSUME IInv, Goes, UNCHANGED decider
    PROVE  DeciderOK'
  <1>1. task \in Task /\ graph \in Graph /\ TaskMoves /\ GraphMoves /\ DeciderOK
    BY DEF IInv, TypeOK, Goes
  <1>2. TaskSnapshot(decider.task, task) => TaskSnapshot(decider.task, task')
    BY <1>1, TaskStays
  <1>3. GraphSnapshot(decider.graph, graph) => GraphSnapshot(decider.graph, graph')
    BY <1>1, GraphStays
  <1> QED BY <1>1, <1>2, <1>3 DEF DeciderOK, Goes, GraphMoves

LEMMA StopperKept ==
    ASSUME IInv, Goes, UNCHANGED stopper
    PROVE  StopperOK'
  <1>1. task \in Task /\ graph \in Graph /\ TaskMoves /\ GraphMoves /\ StopperOK
    BY DEF IInv, TypeOK, Goes
  <1>2. TaskSnapshot(stopper.task, task) => TaskSnapshot(stopper.task, task')
    BY <1>1, TaskStays
  <1>3. GraphSnapshot(stopper.graph, graph) => GraphSnapshot(stopper.graph, graph')
    BY <1>1, GraphStays
  <1> QED BY <1>1, <1>2, <1>3 DEF StopperOK, Goes

LEMMA WorkerKept ==
    ASSUME IInv, Goes, UNCHANGED <<worker, scans>>, job' = "processing" <=> job = "processing"
    PROVE  WorkerOK'
  <1>1. task \in Task /\ TaskMoves /\ WorkerOK
    BY DEF IInv, TypeOK, Goes
  <1>2. TaskSnapshot(worker.task, task) => TaskSnapshot(worker.task, task')
    BY <1>1, TaskStays
  <1> QED BY <1>1, <1>2 DEF WorkerOK

\* What the job and the ended task promise, when nothing is scanned or stopped.
LEMMA JobKept ==
    ASSUME IInv, Goes, UNCHANGED <<scans, stopped>>,
           job' \in {"none", "pending"} => job \in {"none", "pending"},
           job' # "none" => job # "none" \/ Granted,
           stopped \/ task'.status = "completed" => task' = task
    PROVE  JobOK'
  BY DEF IInv, JobOK, Goes, GraphMoves, Granted

-----------------------------------------------------------------------------
(***************************************************************************)
(* Saves.                                                                  *)
(***************************************************************************)

\* Whoever saves the task ends a task that had not ended.
LEMMA SavesOnlyOpen ==
    ASSUME NEW t, TaskSnapshot(t, task), NEW status, SavesTask(t, status)
    PROVE  /\ task \in Task /\ task.status \notin TERMINAL_TASK
           /\ status \in {"paused_approval", "running"} \cup TERMINAL_TASK
           /\ status = "completed" => task.status = "running"
  BY DEF TaskSnapshot, SavesTask, AllowedTask, TERMINAL_TASK

LEMMA SavedMoves ==
    ASSUME task \in Task, NEW status \in {"paused_approval", "running"} \cup TERMINAL_TASK,
           NEW queued \in BOOLEAN, task' = SavedTask(status, queued)
    PROVE  TaskMoves /\ task' \in Task /\ task'.status = status
  BY DEF SavedTask, TaskMoves, Task

-----------------------------------------------------------------------------
(***************************************************************************)
(* The decision.                                                           *)
(***************************************************************************)

LEMMA NoDeciderTyped ==
    /\ NoDecider \in DeciderState /\ NoDecider.pc = "idle"
  BY DEF NoDecider, DeciderState, DeciderLabel

\* A step of the decision that keeps its promises and those of the job.
LEMMA DeciderFrame ==
    ASSUME IInv, Goes, decider' \in DeciderState, DeciderOK', JobOK',
           approval' \in [status : {"open", "approved", "denied"},
                          decision : Decision \cup {None}],
           job' \in {"none", "pending", "processing", "completed", "failed"},
           job' = "processing" <=> job = "processing",
           UNCHANGED <<marker, stopper, worker, scans, stopped, crashes>>
    PROVE  IInv'
  <1>1. StopperOK' /\ WorkerOK'
    BY StopperKept, WorkerKept
  <1>2. task' \in Task /\ graph' \in Graph
    BY DEF Goes, TaskMoves, GraphMoves, IInv, TypeOK
  <1>3. TypeOK'
    BY <1>2 DEF IInv, TypeOK, DeciderState
  <1> QED BY <1>1, <1>3 DEF IInv

\* A step that only touches the decision and the graph.
LEMMA DeciderMoves ==
    ASSUME IInv, GraphMoves, decider' \in DeciderState, DeciderOK',
           UNCHANGED <<approval, task, job, marker, stopper, worker, scans, stopped, crashes>>
    PROVE  IInv'
  <1>1. Goes
    BY DEF Goes, TaskMoves, Sealed
  <1>2. JobOK'
    BY <1>1, JobKept
  <1> QED BY <1>1, <1>2, DeciderFrame DEF IInv, TypeOK

\* What the decision looks like after it went on to a step.
LEMMA GoneTo ==
    ASSUME TypeOK, NEW label \in DeciderLabel, DGoto(label)
    PROVE  /\ decider' \in DeciderState /\ decider'.pc = label
           /\ decider'.decision = decider.decision /\ decider'.task = decider.task
           /\ decider'.graph = decider.graph
  BY Types DEF DGoto, DeciderState

LEMMA DecideOK ==
    ASSUME IInv, Decide PROVE IInv'
  <1>1. PICK d \in Decision :
          /\ approval' = [status |-> CASE Approves(d) -> "approved"
                                      [] d \in {"deny_continue_safely",
                                                "deny_stop_run"} -> "denied"
                                      [] OTHER -> "open",
                          decision |-> d]
          /\ decider' = [NoDecider EXCEPT !.pc = "load", !.decision = d]
    BY DEF Decide
  <1>2. UNCHANGED <<graph, task, job, marker, stopper, worker, scans, stopped, crashes>>
        /\ approval.status = "open"
    BY DEF Decide
  <1>3. /\ approval'.status \in {"open", "approved", "denied"} /\ approval'.decision = d
        /\ approval' \in [status : {"open", "approved", "denied"},
                          decision : Decision \cup {None}]
        /\ Approves(d) => approval'.status = "approved"
    BY <1>1 DEF Approves
  <1>4. Goes
    BY <1>2 DEF Goes, TaskMoves, GraphMoves, Sealed
  <1>5. decider' \in DeciderState /\ decider'.pc = "load" /\ decider'.decision = d
    BY <1>1 DEF NoDecider, DeciderState, DeciderLabel
  <1>6. DeciderOK'
    BY <1>3, <1>5 DEF DeciderOK
  <1>7. JobOK'
    BY <1>2, <1>4, JobKept
  <1> QED BY <1>2, <1>3, <1>4, <1>5, <1>6, <1>7, DeciderFrame DEF IInv, TypeOK

LEMMA LoadTaskOK ==
    ASSUME IInv, LoadTask PROVE IInv'
  <1>1. GraphMoves /\ task \in Task /\ decider \in DeciderState /\ decider.pc = "load"
        /\ UNCHANGED <<approval, graph, task, job, marker, stopper, worker, scans,
                       stopped, crashes>>
    BY Types DEF IInv, TypeOK, LoadTask, stores, GraphMoves, Deciding
  <1>2. CASE decider' = [decider EXCEPT !.pc = "graph", !.task = task]
    <2>1. /\ decider' \in DeciderState /\ decider'.pc = "graph"
          /\ decider'.decision = decider.decision /\ decider'.task = task
      BY <1>1, <1>2 DEF DeciderState, DeciderLabel
    <2>2. TaskSnapshot(task, task)
      BY <1>1 DEF TaskSnapshot, Task
    <2>3. DeciderOK'
      BY <1>1, <2>1, <2>2 DEF DeciderOK, IInv
    <2> QED BY <1>1, <2>1, <2>3, DeciderMoves
  <1>3. CASE decider' = NoDecider
    BY <1>1, <1>3, NoDeciderTyped, DeciderMoves DEF DeciderOK
  <1> QED BY <1>2, <1>3 DEF LoadTask

LEMMA LoadGraphOK ==
    ASSUME IInv, LoadGraph PROVE IInv'
  <1>1. GraphMoves /\ graph \in Graph /\ decider \in DeciderState /\ decider.pc = "graph"
        /\ UNCHANGED <<approval, graph, task, job, marker, stopper, worker, scans,
                       stopped, crashes>>
    BY Types DEF IInv, TypeOK, LoadGraph, stores, GraphMoves, Deciding
  <1> DEFINE label ==
               IF Approves(decider.decision)
                  THEN CASE graph.approval = "waiting"   -> "approval_running"
                         [] graph.approval = "completed" -> "execution"
                         [] OTHER -> "save"
                  ELSE CASE graph.approval = "waiting"   -> "approval_cancelled"
                         [] graph.approval = "cancelled" -> "execution"
                         [] OTHER -> "save"
  <1>2. /\ label \in {"approval_running", "approval_cancelled", "execution", "save"}
        /\ label \in {"approval_running", "approval_cancelled"} => graph.approval = "waiting"
        /\ label = "approval_running" => Approves(decider.decision)
        /\ label = "approval_cancelled" => ~ Approves(decider.decision)
        /\ label = "execution" /\ Approves(decider.decision) => graph.approval = "completed"
    OBVIOUS
  <1>3. decider' = [decider EXCEPT !.graph = graph, !.pc = label]
    BY DEF LoadGraph
  <1> HIDE DEF label
  <1>4. /\ decider' \in DeciderState /\ decider'.pc = label
        /\ decider'.decision = decider.decision /\ decider'.task = decider.task
        /\ decider'.graph = graph
    BY <1>1, <1>2, <1>3 DEF DeciderState, DeciderLabel
  <1>5. GraphSnapshot(graph, graph)
    BY <1>1 DEF GraphSnapshot, Graph
  <1>6. DeciderOK'
    BY <1>1, <1>2, <1>4, <1>5 DEF DeciderOK, IInv
  <1> QED BY <1>1, <1>4, <1>6, DeciderMoves

\* One stage is moved, from the graph as it was when it was last read or moved,
\* or the projection ends with a conflict.
LEMMA StageMoved ==
    ASSUME IInv, NEW label \in DeciderLabel \ {"idle", "load", "graph"},
           NEW field \in {"approval", "execution"}, NEW status, NEW next \in DeciderLabel,
           field = "approval" => status \in {"running", "completed", "cancelled"},
           field = "execution" => status \in {"running", "blocked", "cancelled"},
           ProjectStage(label, field, status, next)
    PROVE  /\ UNCHANGED <<approval, task, job, marker, stopper, worker, scans, stopped, crashes>>
           /\ decider.pc = label /\ decider' \in DeciderState
           /\ decider'.decision = decider.decision /\ decider'.task = decider.task
           /\ \/ graph' = graph /\ decider'.graph = decider.graph /\ decider'.pc = "save"
              \/ /\ graph = decider.graph /\ decider'.graph = graph' /\ decider'.pc = next
                 /\ graph' \in Graph /\ graph'.revision = graph.revision + 1
                 /\ graph'.approval = IF field = "approval" THEN status ELSE graph.approval
  <1>1. /\ UNCHANGED <<approval, task, job, marker, stopper, worker, scans, stopped, crashes>>
        /\ decider.pc = label /\ TypeOK /\ decider \in DeciderState
    BY Types DEF ProjectStage, Deciding, IInv
  <1>2. CASE MovesGraph(decider.graph)
    <2>1. /\ graph' = [graph EXCEPT ![field] = status, !.revision = @ + 1]
          /\ decider' = [decider EXCEPT !.pc = next, !.graph = graph']
      BY <1>2 DEF ProjectStage
    <2>2. graph = decider.graph
      BY <1>1, <1>2 DEF MovesGraph, IInv, DeciderOK, GraphSnapshot
    <2>3. graph \in Graph
      BY <1>1 DEF TypeOK
    <2>4. /\ graph' \in Graph /\ graph'.revision = graph.revision + 1
          /\ graph'.approval = IF field = "approval" THEN status ELSE graph.approval
      <3>1. PICK n \in Nat : n = graph.revision + 1
        BY <2>3 DEF Graph
      <3>2. graph' = [graph EXCEPT ![field] = status, !.revision = n]
        BY <2>1, <3>1
      <3>3. CASE field = "approval"
        BY <2>3, <3>1, <3>2, <3>3 DEF Graph
      <3>4. CASE field = "execution"
        BY <2>3, <3>1, <3>2, <3>4 DEF Graph
      <3> QED BY <3>3, <3>4
    <2>5. /\ decider' \in DeciderState /\ decider'.pc = next /\ decider'.graph = graph'
          /\ decider'.decision = decider.decision /\ decider'.task = decider.task
      BY <1>1, <2>1, <2>4 DEF DeciderState
    <2> QED BY <1>1, <2>2, <2>4, <2>5
  <1>3. CASE ~ MovesGraph(decider.graph)
    <2>1. graph' = graph /\ DGoto("save") /\ "save" \in DeciderLabel
      BY <1>3 DEF ProjectStage, DeciderLabel
    <2> QED BY <1>1, <2>1, GoneTo
  <1> QED BY <1>2, <1>3

\* A decision that gave up, or whose graph is the stored one after its move.
LEMMA MovedOK ==
    ASSUME IInv, decider.pc \notin {"idle", "load", "graph"}, decider' \in DeciderState,
           decider'.decision = decider.decision, decider'.task = decider.task,
           UNCHANGED <<approval, task, job, marker, stopper, worker, scans, stopped, crashes>>,
           graph.approval = "completed" => graph'.approval = "completed",
           \/ graph' = graph /\ decider'.graph = decider.graph /\ decider'.pc = "save"
           \/ /\ decider'.graph = graph' /\ graph' \in Graph
              /\ graph'.revision = graph.revision + 1
              /\ \/ decider'.pc = "save"
                 \/ decider'.pc = "approval_completed" /\ graph'.approval = "running"
                    /\ Approves(decider.decision)
                 \/ decider'.pc \in {"execution", "build"}
                    /\ (Approves(decider.decision) => graph'.approval = "completed")
                    /\ (decider'.pc = "build" => Approves(decider.decision))
    PROVE  IInv'
  <1>1. GraphMoves
    BY DEF GraphMoves
  <1>2. TaskSnapshot(decider'.task, task') /\ graph \in Graph /\ GraphSnapshot(decider.graph, graph)
    BY DEF IInv, DeciderOK, TypeOK
  <1>3. GraphSnapshot(decider'.graph, graph')
    BY <1>2 DEF GraphSnapshot, Graph
  <1>4. decider'.decision \in Decision
        /\ (Approves(decider'.decision) => approval'.status = "approved")
    BY DEF IInv, DeciderOK
  <1>5. DeciderOK'
    BY <1>2, <1>3, <1>4 DEF DeciderOK
  <1> QED BY <1>1, <1>5, DeciderMoves

LEMMA ApprovalStageOK ==
    ASSUME IInv, ApprovalRunning \/ ApprovalCompleted \/ ApprovalCancelled PROVE IInv'
  <1>1. CASE ApprovalRunning
    <2>1. ProjectStage("approval_running", "approval", "running", "approval_completed")
      BY <1>1 DEF ApprovalRunning
    <2>2. decider.pc = "approval_running" => /\ decider.graph.approval = "waiting"
                                             /\ Approves(decider.decision)
      BY DEF IInv, DeciderOK
    <2> QED BY <2>1, <2>2, StageMoved, MovedOK DEF DeciderLabel
  <1>2. CASE ApprovalCompleted
    <2>1. ProjectStage("approval_completed", "approval", "completed", "execution")
      BY <1>2 DEF ApprovalCompleted
    <2> QED BY <2>1, StageMoved, MovedOK DEF DeciderLabel
  <1>3. CASE ApprovalCancelled
    <2>1. ProjectStage("approval_cancelled", "approval", "cancelled", "execution")
      BY <1>3 DEF ApprovalCancelled
    <2>2. decider.pc = "approval_cancelled" => /\ decider.graph.approval = "waiting"
                                               /\ ~ Approves(decider.decision)
      BY DEF IInv, DeciderOK
    <2> QED BY <2>1, <2>2, StageMoved, MovedOK DEF DeciderLabel
  <1> QED BY <1>1, <1>2, <1>3

\* A step of the decision that leaves the stores alone.
LEMMA DeciderGoes ==
    ASSUME IInv, decider.pc \notin {"idle", "load", "graph"}, decider' \in DeciderState,
           decider'.decision = decider.decision, decider'.task = decider.task,
           decider'.graph = decider.graph,
           UNCHANGED <<stores, stopper, worker, scans, stopped, crashes>>,
           \/ decider'.pc \in {"save", "block"}
           \/ /\ decider'.pc \in {"build", "enqueue"} /\ Approves(decider.decision)
              /\ graph.approval = "completed"
    PROVE  IInv'
  <1>1. GraphMoves
    BY DEF GraphMoves, stores
  <1>2. DeciderOK'
    BY DEF IInv, DeciderOK, stores
  <1> QED BY <1>1, <1>2, DeciderMoves DEF stores

LEMMA ProjectExecutionOK ==
    ASSUME IInv, ProjectExecution PROVE IInv'
  <1>1. PICK intended \in BOOLEAN :
          LET approves == Approves(decider.decision)
              next == IF approves /\ intended THEN "build" ELSE "save"
          IN IF decider.graph.execution \in TERMINAL_NODE
               THEN /\ DGoto(next)
                    /\ UNCHANGED <<stores, stopper, worker, scans, stopped,
                                   crashes>>
               ELSE ProjectStage("execution", "execution",
                                 CASE ~approves -> "cancelled"
                                   [] approves /\ intended -> "running"
                                   [] OTHER -> "blocked", next)
    BY DEF ProjectExecution
  <1> DEFINE approves == Approves(decider.decision)
             next == IF approves /\ intended THEN "build" ELSE "save"
             status == CASE ~approves -> "cancelled"
                         [] approves /\ intended -> "running"
                         [] OTHER -> "blocked"
  <1>2. /\ next \in {"build", "save"} /\ (next = "build" => approves)
        /\ status \in {"running", "blocked", "cancelled"} /\ TypeOK
        /\ decider.pc = "execution" /\ (approves => graph.approval = "completed")
    BY DEF ProjectExecution, Deciding, IInv, DeciderOK
  <1>3. CASE decider.graph.execution \in TERMINAL_NODE
    <2>1. DGoto(next) /\ UNCHANGED <<stores, stopper, worker, scans, stopped, crashes>>
      BY <1>1, <1>3
    <2> HIDE DEF next, status
    <2> QED BY <1>2, <2>1, GoneTo, DeciderGoes DEF DeciderLabel
  <1>4. CASE decider.graph.execution \notin TERMINAL_NODE
    <2>1. ProjectStage("execution", "execution", status, next)
      BY <1>1, <1>4
    <2> HIDE DEF next, status
    <2> QED BY <1>2, <2>1, StageMoved, MovedOK DEF DeciderLabel
  <1> QED BY <1>3, <1>4

LEMMA BuildOK ==
    ASSUME IInv, Build PROVE IInv'
  <1>1. /\ TypeOK /\ decider \in DeciderState /\ decider.pc = "build"
        /\ Approves(decider.decision) /\ graph.approval = "completed"
        /\ UNCHANGED <<stores, stopper, worker, scans, stopped, crashes>>
    BY Types DEF Build, Deciding, IInv, DeciderOK
  <1>2. CASE decider' = [decider EXCEPT !.pc = "enqueue", !.built = TRUE]
    <2>1. /\ decider' \in DeciderState /\ decider'.pc = "enqueue"
          /\ decider'.decision = decider.decision /\ decider'.task = decider.task
          /\ decider'.graph = decider.graph
      BY <1>1, <1>2 DEF DeciderState, DeciderLabel
    <2> QED BY <1>1, <2>1, DeciderGoes
  <1>3. CASE DGoto("block")
    BY <1>1, <1>3, GoneTo, DeciderGoes DEF DeciderLabel
  <1> QED BY <1>2, <1>3 DEF Build

\* The job is only queued with the approval and its stage behind it.
LEMMA EnqueueOK ==
    ASSUME IInv, Enqueue PROVE IInv'
  <1>1. /\ TypeOK /\ decider.pc = "enqueue" /\ Granted
        /\ UNCHANGED <<approval, graph, task, marker, stopper, worker, scans, stopped, crashes>>
    BY DEF Enqueue, Deciding, IInv, DeciderOK, Granted
  <1>2. CASE job = "none" /\ job' = "pending" /\ DGoto("save")
    <2>1. /\ decider' \in DeciderState /\ decider'.pc = "save"
          /\ decider'.decision = decider.decision /\ decider'.task = decider.task
          /\ decider'.graph = decider.graph
      BY <1>1, <1>2, GoneTo DEF DeciderLabel
    <2>2. Goes
      BY <1>1, <1>2 DEF Goes, TaskMoves, GraphMoves, Sealed
    <2>3. DeciderOK'
      BY <1>1, <2>1 DEF DeciderOK, IInv
    <2>4. JobOK'
      BY <1>1, <1>2, <2>2, JobKept
    <2> QED BY <1>1, <1>2, <2>1, <2>2, <2>3, <2>4, DeciderFrame DEF TypeOK
  <1>3. CASE UNCHANGED job /\ DGoto("block")
    BY <1>1, <1>3, GoneTo, DeciderGoes DEF DeciderLabel, stores
  <1> QED BY <1>2, <1>3 DEF Enqueue

LEMMA MarkExecutionBlockedOK ==
    ASSUME IInv, MarkExecutionBlocked PROVE IInv'
  <1>1. /\ TypeOK /\ decider.pc = "block" /\ graph \in Graph
        /\ UNCHANGED <<approval, task, job, marker, stopper, worker, scans, stopped, crashes>>
    BY DEF MarkExecutionBlocked, Deciding, IInv, TypeOK
  <1>2. /\ decider' \in DeciderState /\ decider'.pc = "save"
        /\ decider'.decision = decider.decision /\ decider'.task = decider.task
        /\ decider'.graph = decider.graph
    BY <1>1, GoneTo DEF DeciderLabel, MarkExecutionBlocked
  <1>3. GraphMoves
    <2>1. PICK n \in Nat : n = graph.revision + 1
      BY <1>1 DEF Graph
    <2>2. CASE graph' = [graph EXCEPT !.execution = "blocked", !.revision = n]
      BY <1>1, <2>1, <2>2 DEF GraphMoves, Graph
    <2>3. CASE graph' = graph
      BY <2>3 DEF GraphMoves
    <2> QED BY <2>1, <2>2, <2>3 DEF MarkExecutionBlocked
  <1>4. GraphSnapshot(decider.graph, graph')
    BY <1>1, <1>3, GraphStays DEF IInv, DeciderOK
  <1>5. DeciderOK'
    BY <1>1, <1>2, <1>4 DEF DeciderOK, IInv
  <1> QED BY <1>1, <1>2, <1>3, <1>5, DeciderMoves

\* The decision is saved only over a task that has not ended: a stop that was
\* reported ended it.
LEMMA SaveDecisionOK ==
    ASSUME IInv, SaveDecision PROVE IInv'
  <1>1. /\ TypeOK /\ decider.pc = "save" /\ task \in Task /\ decider.built \in BOOLEAN
        /\ TaskSnapshot(decider.task, task)
        /\ UNCHANGED <<approval, graph, job, marker, stopper, worker, scans, stopped, crashes>>
        /\ decider' = NoDecider
    BY DEF SaveDecision, Deciding, IInv, TypeOK, DeciderOK
  <1>2. DecidedStatus \in {"running", "blocked", "cancelled"}
    BY <1>1 DEF DecidedStatus
  <1>3. /\ TaskMoves /\ task' \in Task
        /\ stopped \/ task'.status = "completed" => task' = task
    <2>1. CASE SavesTask(decider.task, DecidedStatus)
      <3>1. task' = SavedTask(DecidedStatus, decider.built)
        BY <2>1 DEF SaveDecision
      <3>2. task.status \notin TERMINAL_TASK
        BY <1>1, <2>1, SavesOnlyOpen
      <3>3. ~ stopped
        BY <3>2 DEF IInv, JobOK, TERMINAL_TASK
      <3>4. TaskMoves /\ task' \in Task /\ task'.status = DecidedStatus
        BY <1>1, <1>2, <3>1, SavedMoves DEF TERMINAL_TASK
      <3> QED BY <1>2, <3>3, <3>4
    <2>2. CASE ~ SavesTask(decider.task, DecidedStatus)
      BY <1>1, <2>2 DEF SaveDecision, TaskMoves
    <2> QED BY <2>1, <2>2
  <1>4. Goes
    BY <1>1, <1>3 DEF Goes, GraphMoves, Sealed
  <1>5. DeciderOK'
    BY <1>1, NoDeciderTyped DEF DeciderOK
  <1>6. JobOK'
    BY <1>1, <1>3, <1>4, JobKept
  <1> QED BY <1>1, <1>4, <1>5, <1>6, NoDeciderTyped, DeciderFrame DEF TypeOK

-----------------------------------------------------------------------------
(***************************************************************************)
(* The stop.                                                               *)
(***************************************************************************)

LEMMA NoStopperTyped == NoStopper \in StopperState /\ NoStopper.pc = "idle"
  BY DEF NoStopper, StopperState

\* A step of the stop that keeps its promises and those of the job.
LEMMA StopperFrame ==
    ASSUME IInv, Goes, stopper' \in StopperState, StopperOK', JobOK',
           job' \in {"none", "pending", "processing", "completed", "failed"},
           job' = "processing" <=> job = "processing",
           marker' \in BOOLEAN, stopped' \in BOOLEAN,
           UNCHANGED <<approval, decider, worker, scans, crashes>>
    PROVE  IInv'
  <1>1. DeciderOK' /\ WorkerOK'
    BY DeciderKept, WorkerKept
  <1>2. task' \in Task /\ graph' \in Graph
    BY DEF Goes, TaskMoves, GraphMoves, IInv, TypeOK
  <1>3. TypeOK'
    BY <1>2 DEF IInv, TypeOK, StopperState
  <1> QED BY <1>1, <1>3 DEF IInv

\* A step of the stop that leaves the stores alone.
LEMMA StopperGoes ==
    ASSUME IInv, stopper' \in StopperState, StopperOK',
           UNCHANGED <<stores, decider, worker, scans, stopped, crashes>>
    PROVE  IInv'
  <1>1. Goes /\ JobOK'
    BY JobKept DEF Goes, TaskMoves, GraphMoves, Sealed, stores
  <1> QED BY <1>1, StopperFrame DEF IInv, TypeOK, stores

LEMMA RequestStopOK ==
    ASSUME IInv, RequestStop PROVE IInv'
  <1> DEFINE label == IF job = "pending" THEN "withdraw" ELSE "mark"
  <1>1. label \in {"withdraw", "mark"} /\ stopper' = [stopper EXCEPT !.pc = label]
    BY DEF RequestStop
  <1> HIDE DEF label
  <1>2. stopper' \in StopperState /\ stopper'.pc = label
    BY <1>1, Types DEF StopperState, IInv
  <1>3. StopperOK'
    BY <1>1, <1>2 DEF StopperOK
  <1> QED BY <1>2, <1>3, StopperGoes DEF RequestStop

\* A job that is withdrawn has ended, whatever the worker does next.
LEMMA WithdrawJobOK ==
    ASSUME IInv, WithdrawJob PROVE IInv'
  <1>1. UNCHANGED <<approval, graph, task, marker, decider, worker, scans, stopped, crashes>>
        /\ stopper \in StopperState /\ marker \in BOOLEAN /\ stopped \in BOOLEAN
    BY Types DEF WithdrawJob, IInv, TypeOK
  <1>2. CASE job = "pending"
    <2>1. job' = "failed" /\ stopper' = [stopper EXCEPT !.pc = "load"]
      BY <1>2 DEF WithdrawJob
    <2>2. stopper' \in StopperState /\ stopper'.pc = "load"
      BY <1>1, <2>1 DEF StopperState
    <2>3. Goes
      BY <1>1, <2>1 DEF Goes, TaskMoves, GraphMoves, Sealed
    <2>4. StopperOK'
      BY <2>1, <2>2 DEF StopperOK, Sealed
    <2>5. JobOK'
      BY <1>1, <1>2, <2>1, <2>3, JobKept
    <2> QED BY <1>1, <1>2, <2>1, <2>2, <2>3, <2>4, <2>5, StopperFrame
  <1>3. CASE job # "pending"
    <2>1. UNCHANGED job /\ stopper' = NoStopper
      BY <1>3 DEF WithdrawJob
    <2>2. StopperOK'
      BY <2>1, NoStopperTyped DEF StopperOK
    <2> QED BY <1>1, <2>1, <2>2, NoStopperTyped, StopperGoes DEF stores
  <1> QED BY <1>2, <1>3

LEMMA WriteMarkerOK ==
    ASSUME IInv, WriteMarker PROVE IInv'
  <1>1. /\ UNCHANGED <<approval, graph, task, job, decider, worker, scans, stopped, crashes>>
        /\ marker' = TRUE /\ stopper' = [stopper EXCEPT !.pc = "load"]
        /\ stopper \in StopperState /\ TypeOK
    BY Types DEF WriteMarker, IInv
  <1>2. stopper' \in StopperState /\ stopper'.pc = "load"
    BY <1>1 DEF StopperState
  <1>3. Goes
    BY <1>1 DEF Goes, TaskMoves, GraphMoves, Sealed
  <1>4. StopperOK'
    BY <1>1, <1>2 DEF StopperOK, Sealed
  <1>5. JobOK'
    BY <1>1, <1>3, JobKept
  <1> QED BY <1>1, <1>2, <1>3, <1>4, <1>5, StopperFrame DEF TypeOK

\* The run was ended by a stop that saw to its marker, as this one did.
LEMMA LoadForCancelOK ==
    ASSUME IInv, LoadForCancel PROVE IInv'
  <1>1. /\ UNCHANGED <<stores, decider, worker, scans, crashes>>
        /\ stopped' = (stopped \/ task.status = "cancelled")
        /\ stopper \in StopperState /\ TypeOK /\ Sealed /\ task \in Task
    BY Types DEF LoadForCancel, Stopping, IInv, StopperOK, TypeOK
  <1>2. Goes
    BY <1>1 DEF Goes, TaskMoves, GraphMoves, Sealed, stores
  <1>3. JobOK'
    BY <1>1 DEF JobOK, IInv, stores, Sealed, Granted
  <1>4. stopper' \in StopperState /\ StopperOK'
    <2>1. CASE task.status \in TERMINAL_TASK
      BY <2>1, NoStopperTyped DEF LoadForCancel, StopperOK
    <2>2. CASE task.status \notin TERMINAL_TASK
      <3>1. stopper' = [stopper EXCEPT !.pc = "cancel", !.task = task]
        BY <2>2 DEF LoadForCancel
      <3>2. stopper' \in StopperState /\ stopper'.pc = "cancel" /\ stopper'.task = task
        BY <1>1, <3>1 DEF StopperState
      <3>3. TaskSnapshot(task, task)
        BY <1>1 DEF TaskSnapshot, Task
      <3> QED BY <1>1, <3>2, <3>3 DEF StopperOK, Sealed, stores
    <2> QED BY <2>1, <2>2
  <1> QED BY <1>1, <1>2, <1>3, <1>4, StopperFrame DEF TypeOK, stores

\* The stop is reported when the store took it, and the marker was there before.
LEMMA CancelTaskOK ==
    ASSUME IInv, CancelTask PROVE IInv'
  <1>1. /\ UNCHANGED <<approval, graph, job, marker, decider, worker, scans, crashes>>
        /\ stopper \in StopperState /\ TypeOK /\ Sealed /\ task \in Task
        /\ TaskSnapshot(stopper.task, task)
    BY Types DEF CancelTask, Stopping, IInv, StopperOK, TypeOK
  <1>2. CASE SavesTask(stopper.task, "cancelled")
    <2>1. /\ task' = SavedTask("cancelled", task.queued) /\ stopped' = TRUE
          /\ stopper' = [stopper EXCEPT !.pc = "stages"] \/ stopper' = NoStopper
      BY <1>2 DEF CancelTask
    <2>2. TaskMoves /\ task' \in Task /\ task'.status = "cancelled"
      <3>1. task.queued \in BOOLEAN
        BY <1>1 DEF Task
      <3> QED BY <1>1, <2>1, <3>1, SavedMoves DEF TERMINAL_TASK
    <2>3. Goes
      BY <1>1, <2>2 DEF Goes, GraphMoves, Sealed
    <2>4. stopper' \in StopperState /\ stopper'.pc \in {"stages", "idle"}
      BY <1>1, <2>1, NoStopperTyped DEF StopperState
    <2>5. StopperOK'
      BY <1>1, <2>4 DEF StopperOK, Sealed
    <2>6. JobOK'
      BY <1>1, <2>1, <2>2 DEF JobOK, IInv, Sealed, Granted
    <2> QED BY <1>1, <2>1, <2>3, <2>4, <2>5, <2>6, StopperFrame DEF TypeOK
  <1>3. CASE ~ SavesTask(stopper.task, "cancelled")
    <2>1. UNCHANGED <<task, stopped>> /\ stopper' = NoStopper
      BY <1>3 DEF CancelTask
    <2>2. StopperOK'
      BY <2>1, NoStopperTyped DEF StopperOK
    <2> QED BY <1>1, <2>1, <2>2, NoStopperTyped, StopperGoes DEF stores
  <1> QED BY <1>2, <1>3

LEMMA LoadStagesOK ==
    ASSUME IInv, LoadStages PROVE IInv'
  <1>1. /\ stopper \in StopperState /\ Sealed /\ graph \in Graph
        /\ UNCHANGED <<stores, decider, worker, scans, stopped, crashes>>
        /\ stopper' = [stopper EXCEPT !.pc = "stage", !.graph = graph]
    BY Types DEF LoadStages, Stopping, IInv, StopperOK, TypeOK
  <1>2. stopper' \in StopperState /\ stopper'.pc = "stage" /\ stopper'.graph = graph
    BY <1>1 DEF StopperState
  <1>3. GraphSnapshot(graph, graph)
    BY <1>1 DEF GraphSnapshot, Graph
  <1>4. StopperOK'
    BY <1>1, <1>2, <1>3 DEF StopperOK, Sealed, stores
  <1> QED BY <1>1, <1>2, <1>4, StopperGoes

\* A completed approval stage is not cancelled: it is terminal in the graph that
\* the stop read, which is the stored one when the move is accepted.
LEMMA CancelStageOK ==
    ASSUME IInv, CancelStage PROVE IInv'
  <1> DEFINE open == {f \in {"approval", "execution"} : stopper.graph[f] \notin TERMINAL_NODE}
             next == IF "approval" \in open THEN "approval" ELSE "execution"
  <1>1. /\ stopper \in StopperState /\ TypeOK /\ Sealed /\ graph \in Graph
        /\ GraphSnapshot(stopper.graph, graph)
        /\ UNCHANGED <<approval, task, job, marker, decider, worker, scans, stopped, crashes>>
    BY Types DEF CancelStage, Stopping, IInv, StopperOK, TypeOK
  <1>2. CASE open # {} /\ MovesGraph(stopper.graph)
    <2>1. /\ graph' = [graph EXCEPT ![next] = "cancelled", !.revision = @ + 1]
          /\ stopper' = [stopper EXCEPT !.graph = graph']
      BY <1>2 DEF CancelStage
    <2>2. stopper.graph = graph
      BY <1>1, <1>2 DEF MovesGraph, GraphSnapshot
    <2>3. next = "execution" \/ (next = "approval" /\ graph.approval # "completed")
      BY <2>2 DEF TERMINAL_NODE
    <2>4. PICK n \in Nat : n = graph.revision + 1
      BY <1>1 DEF Graph
    <2> HIDE DEF open, next
    <2>5. graph' = [graph EXCEPT ![next] = "cancelled", !.revision = n]
      BY <2>1, <2>4
    <2>6. /\ graph' \in Graph /\ graph'.revision = n
          /\ graph.approval = "completed" => graph'.approval = "completed"
      <3>1. CASE next = "approval" /\ graph.approval # "completed"
        BY <1>1, <2>5, <3>1 DEF Graph
      <3>2. CASE next = "execution"
        BY <1>1, <2>5, <3>2 DEF Graph
      <3> QED BY <2>3, <3>1, <3>2
    <2>7. Goes
      BY <1>1, <2>4, <2>6 DEF Goes, GraphMoves, TaskMoves, Sealed
    <2>8. /\ stopper' \in StopperState /\ stopper'.pc = stopper.pc
          /\ stopper'.graph = graph' /\ stopper.pc = "stage"
      BY <1>1, <2>1, <2>6 DEF StopperState, CancelStage, Stopping
    <2>9. GraphSnapshot(stopper'.graph, graph')
      BY <2>6, <2>8 DEF GraphSnapshot, Graph
    <2>10. StopperOK'
      BY <1>1, <2>8, <2>9 DEF StopperOK, Sealed
    <2>11. JobOK'
      BY <1>1, <2>7, JobKept
    <2> QED BY <1>1, <2>7, <2>8, <2>10, <2>11, StopperFrame DEF TypeOK
  <1>3. CASE ~ (open # {} /\ MovesGraph(stopper.graph))
    <2>1. UNCHANGED graph /\ stopper' = NoStopper
      BY <1>3 DEF CancelStage
    <2>2. StopperOK'
      BY <2>1, NoStopperTyped DEF StopperOK
    <2> QED BY <1>1, <2>1, <2>2, NoStopperTyped, StopperGoes DEF stores
  <1> QED BY <1>2, <1>3

-----------------------------------------------------------------------------
(***************************************************************************)
(* The worker.                                                             *)
(***************************************************************************)

NoWorker == [pc |-> "off", task |-> None, result |-> None]

LEMMA NoWorkerTyped == NoWorker \in WorkerState /\ NoWorker.pc = "off"
  BY DEF NoWorker, WorkerState

\* A step of the worker that keeps its promises and those of the job.
LEMMA WorkerFrame ==
    ASSUME IInv, Goes, worker' \in WorkerState, WorkerOK', JobOK',
           job' \in {"none", "pending", "processing", "completed", "failed"},
           marker' \in BOOLEAN, scans' \in 0..1,
           UNCHANGED <<approval, graph, decider, stopper, stopped, crashes>>
    PROVE  IInv'
  <1>1. DeciderOK' /\ StopperOK'
    BY DeciderKept, StopperKept
  <1>2. task' \in Task
    BY DEF Goes, TaskMoves, IInv, TypeOK
  <1>3. TypeOK'
    BY <1>2 DEF IInv, TypeOK, WorkerState, Results
  <1> QED BY <1>1, <1>3 DEF IInv

\* A step of the worker that leaves the stores alone.
LEMMA WorkerGoes ==
    ASSUME IInv, worker' \in WorkerState, WorkerOK',
           UNCHANGED <<stores, decider, stopper, scans, stopped, crashes>>
    PROVE  IInv'
  <1>1. Goes /\ JobOK'
    BY JobKept DEF Goes, TaskMoves, GraphMoves, Sealed, stores
  <1> QED BY <1>1, WorkerFrame DEF IInv, TypeOK, stores

\* What the worker looks like after it went on to a step.
LEMMA WorkerGoneTo ==
    ASSUME TypeOK, NEW label \in {"idle", "check", "start", "scan", "finish", "reject"},
           WGoto(label)
    PROVE  /\ worker' \in WorkerState /\ worker'.pc = label
           /\ worker'.result = worker.result
  BY Types DEF WGoto, WorkerState

LEMMA LaunchOK ==
    ASSUME IInv, Launch PROVE IInv'
  <1>1. /\ UNCHANGED <<approval, graph, task, decider, stopper, scans, stopped, crashes>>
        /\ TypeOK /\ worker' \in WorkerState /\ worker'.pc = "idle"
        /\ IF job = "processing" THEN job' = "failed" /\ marker' = FALSE
                                 ELSE UNCHANGED <<job, marker>>
    BY WorkerGoneTo DEF Launch, IInv
  <1>2. Goes
    BY <1>1 DEF Goes, TaskMoves, GraphMoves, Sealed
  <1>3. WorkerOK'
    BY <1>1 DEF WorkerOK
  <1>4. JobOK'
    BY <1>1, <1>2, JobKept
  <1> QED BY <1>1, <1>2, <1>3, <1>4, WorkerFrame DEF TypeOK

LEMMA ClaimOK ==
    ASSUME IInv, Claim PROVE IInv'
  <1>1. /\ UNCHANGED <<approval, graph, task, marker, decider, stopper, scans, stopped, crashes>>
        /\ TypeOK /\ worker' \in WorkerState /\ worker'.pc = "check"
        /\ job = "pending" /\ job' = "processing"
    BY WorkerGoneTo DEF Claim, IInv
  <1>2. Goes
    BY <1>1 DEF Goes, TaskMoves, GraphMoves, Sealed
  <1>3. WorkerOK'
    BY <1>1 DEF WorkerOK, IInv, JobOK
  <1>4. JobOK'
    BY <1>1, <1>2, JobKept
  <1> QED BY <1>1, <1>2, <1>3, <1>4, WorkerFrame DEF TypeOK

LEMMA CheckOK ==
    ASSUME IInv, Check PROVE IInv'
  <1>1. /\ UNCHANGED <<stores, decider, stopper, scans, stopped, crashes>>
        /\ TypeOK /\ worker \in WorkerState /\ worker.pc = "check"
        /\ job = "processing" /\ scans = 0
    BY Types DEF Check, Working, IInv, WorkerOK
  <1>2. CASE WGoto("reject") \/ WGoto("start")
    <2>1. worker' \in WorkerState /\ worker'.pc \in {"reject", "start"}
      BY <1>1, <1>2, WorkerGoneTo
    <2>2. WorkerOK'
      BY <1>1, <2>1 DEF WorkerOK, stores
    <2> QED BY <1>1, <2>1, <2>2, WorkerGoes
  <1>3. ASSUME NEW result \in {"cancelled", "failed"},
               worker' = [worker EXCEPT !.pc = "load", !.result = result]
        PROVE  IInv'
    <2>1. worker' \in WorkerState /\ worker'.pc = "load" /\ worker'.result = result
      BY <1>1, <1>3 DEF WorkerState, Results
    <2>2. WorkerOK'
      BY <1>1, <2>1 DEF WorkerOK, stores, Results
    <2> QED BY <1>1, <2>1, <2>2, WorkerGoes
  <1> QED BY <1>2, <1>3 DEF Check

LEMMA StartOK ==
    ASSUME IInv, Start PROVE IInv'
  <1>1. /\ UNCHANGED <<stores, decider, stopper, stopped, crashes>> /\ scans' = 1
        /\ TypeOK /\ worker' \in WorkerState /\ worker'.pc = "scan"
        /\ job = "processing"
    BY WorkerGoneTo DEF Start, Working, IInv, WorkerOK
  <1>2. Goes
    BY <1>1 DEF Goes, TaskMoves, GraphMoves, Sealed, stores
  <1>3. WorkerOK'
    BY <1>1 DEF WorkerOK, stores
  <1>4. JobOK'
    BY <1>1 DEF JobOK, IInv, stores, Sealed, Granted
  <1> QED BY <1>1, <1>2, <1>3, <1>4, WorkerFrame DEF TypeOK, stores

LEMMA ScanOK ==
    ASSUME IInv, Scan PROVE IInv'
  <1>1. /\ UNCHANGED <<stores, decider, stopper, scans, stopped, crashes>>
        /\ worker \in WorkerState /\ job = "processing" /\ scans = 1
    BY Types DEF Scan, Working, IInv, WorkerOK
  <1>2. PICK result \in Results : worker' = [worker EXCEPT !.pc = "load", !.result = result]
    BY DEF Scan, Results
  <1>3. worker' \in WorkerState /\ worker'.pc = "load" /\ worker'.result = result
    BY <1>1, <1>2 DEF WorkerState
  <1>4. WorkerOK'
    BY <1>1, <1>3 DEF WorkerOK, stores
  <1> QED BY <1>1, <1>3, <1>4, WorkerGoes

LEMMA LoadForProjectionOK ==
    ASSUME IInv, LoadForProjection PROVE IInv'
  <1> DEFINE result == IF task.status = "cancelled" THEN "cancelled" ELSE worker.result
  <1>1. /\ UNCHANGED <<stores, decider, stopper, scans, stopped, crashes>>
        /\ worker \in WorkerState /\ job = "processing" /\ task \in Task
        /\ result \in Results /\ (result = "completed" => scans = 1)
    BY Types DEF LoadForProjection, Working, IInv, WorkerOK, TypeOK, Results
  <1>2. worker' = [worker EXCEPT !.pc = "project", !.task = task, !.result = result]
    BY DEF LoadForProjection
  <1> HIDE DEF result
  <1>3. /\ worker' \in WorkerState /\ worker'.pc = "project" /\ worker'.result = result
        /\ worker'.task = task
    BY <1>1, <1>2 DEF WorkerState
  <1>4. TaskSnapshot(task, task)
    BY <1>1 DEF TaskSnapshot, Task
  <1>5. WorkerOK'
    BY <1>1, <1>3, <1>4 DEF WorkerOK, stores
  <1> QED BY <1>1, <1>3, <1>5, WorkerGoes

\* The worker reports what the scan came to, never over a run that has ended.
LEMMA ProjectOK ==
    ASSUME IInv, Project PROVE IInv'
  <1>1. /\ UNCHANGED <<approval, graph, job, marker, decider, stopper, scans, stopped, crashes>>
        /\ TypeOK /\ task \in Task /\ job = "processing" /\ worker.result \in Results
        /\ TaskSnapshot(worker.task, task) /\ (worker.result = "completed" => scans = 1)
    BY DEF Project, Working, IInv, WorkerOK, TypeOK
  <1>2. CASE SavesTask(worker.task, worker.result)
    <2>1. task' = SavedTask(worker.result, FALSE) /\ WGoto("finish")
      BY <1>2 DEF Project
    <2>2. task.status \notin TERMINAL_TASK
      BY <1>1, <1>2, SavesOnlyOpen
    <2>3. worker.result \in TERMINAL_TASK
      BY <1>1 DEF Results, TERMINAL_TASK
    <2>4. TaskMoves /\ task' \in Task /\ task'.status = worker.result
      BY <1>1, <2>1, <2>3, SavedMoves
    <2>5. Goes
      BY <1>1, <2>4 DEF Goes, GraphMoves, Sealed
    <2>6. /\ worker' \in WorkerState /\ worker'.pc = "finish"
          /\ worker'.result = worker.result
      BY <1>1, <2>1, WorkerGoneTo
    <2>7. WorkerOK'
      BY <1>1, <2>6 DEF WorkerOK
    <2>8. JobOK'
      BY <1>1, <2>2, <2>4 DEF JobOK, IInv, Sealed, Granted, TERMINAL_TASK
    <2> QED BY <1>1, <2>5, <2>6, <2>7, <2>8, WorkerFrame DEF TypeOK
  <1>3. CASE ~ SavesTask(worker.task, worker.result)
    <2>1. UNCHANGED task /\ WGoto("reject")
      BY <1>3 DEF Project
    <2>2. worker' \in WorkerState /\ worker'.pc = "reject"
      BY <1>1, <2>1, WorkerGoneTo
    <2>3. WorkerOK'
      BY <1>1, <2>2 DEF WorkerOK
    <2> QED BY <1>1, <2>1, <2>2, <2>3, WorkerGoes DEF stores
  <1> QED BY <1>2, <1>3

LEMMA FinishOK ==
    ASSUME IInv, Finish PROVE IInv'
  <1>1. /\ UNCHANGED <<approval, graph, task, decider, stopper, scans, stopped, crashes>>
        /\ marker' = FALSE /\ job' \in {"completed", "failed"} /\ job = "processing" /\ TypeOK
    BY DEF Finish, Working, IInv, WorkerOK
  <1>2. worker' \in WorkerState /\ worker'.pc \in {"idle", "off"}
    BY DEF Finish, WorkerState
  <1>3. Goes
    BY <1>1 DEF Goes, TaskMoves, GraphMoves, Sealed
  <1>4. WorkerOK'
    BY <1>1, <1>2 DEF WorkerOK
  <1>5. JobOK'
    BY <1>1, <1>3, JobKept
  <1> QED BY <1>1, <1>2, <1>3, <1>4, <1>5, WorkerFrame DEF TypeOK

-----------------------------------------------------------------------------
(***************************************************************************)
(* The theorems.                                                           *)
(***************************************************************************)

\* Whoever dies only forgets what it had read.
LEMMA CrashOK ==
    ASSUME IInv, Crash PROVE IInv'
  <1>1. UNCHANGED <<stores, scans, stopped>> /\ crashes' \in 0..MaxCrashes /\ TypeOK
    BY RunAssumption DEF Crash, IInv, TypeOK
  <1>2. Goes
    BY <1>1 DEF Goes, TaskMoves, GraphMoves, Sealed, stores
  <1>3. JobOK'
    BY <1>1, <1>2, JobKept DEF stores
  <1>4. /\ UNCHANGED worker \/ worker' = NoWorker
        /\ UNCHANGED decider \/ decider' = NoDecider
        /\ UNCHANGED stopper \/ stopper' = NoStopper
    BY DEF Crash, NoWorker
  <1>5. WorkerOK'
    BY <1>1, <1>2, <1>4, WorkerKept, NoWorkerTyped DEF WorkerOK, stores
  <1>6. DeciderOK'
    BY <1>1, <1>2, <1>4, DeciderKept, NoDeciderTyped DEF DeciderOK
  <1>7. StopperOK'
    BY <1>1, <1>2, <1>4, StopperKept, NoStopperTyped DEF StopperOK
  <1>8. worker' \in WorkerState /\ decider' \in DeciderState /\ stopper' \in StopperState
    BY <1>1, <1>4, Types, NoWorkerTyped, NoDeciderTyped, NoStopperTyped
  <1>9. TypeOK'
    BY <1>1, <1>8 DEF TypeOK, stores, WorkerState, DeciderState, StopperState, Results
  <1> QED BY <1>3, <1>5, <1>6, <1>7, <1>9 DEF IInv

LEMMA InitIInv == Init => IInv
  <1> SUFFICES ASSUME Init PROVE IInv
    OBVIOUS
  <1>1. worker = NoWorker
    BY DEF Init, NoWorker
  <1>2. TypeOK
    <2>1. task \in Task /\ graph \in Graph
      BY DEF Init, Task, Graph
    <2>2. approval \in [status : {"open", "approved", "denied"}, decision : Decision \cup {None}]
      BY DEF Init
    <2>3. worker \in WorkerState /\ decider \in DeciderState /\ stopper \in StopperState
      BY <1>1, NoWorkerTyped, NoDeciderTyped, NoStopperTyped DEF Init
    <2>4. /\ job = "none" /\ marker = FALSE /\ stopped = FALSE
          /\ scans \in 0..1 /\ crashes \in 0..MaxCrashes
      BY RunAssumption DEF Init
    <2> QED BY <2>1, <2>2, <2>3, <2>4
            DEF TypeOK, WorkerState, DeciderState, StopperState, Results
  <1>3. DeciderOK /\ StopperOK /\ WorkerOK /\ JobOK
    BY <1>1, NoWorkerTyped, NoDeciderTyped, NoStopperTyped
       DEF Init, DeciderOK, StopperOK, WorkerOK, JobOK
  <1> QED BY <1>2, <1>3 DEF IInv

LEMMA NextIInv == IInv /\ [Next]_vars => IInv'
  <1> SUFFICES ASSUME IInv, [Next]_vars PROVE IInv'
    OBVIOUS
  <1>1. CASE UNCHANGED vars
    <2>1. Goes
      BY <1>1 DEF vars, stores, Goes, TaskMoves, GraphMoves, Sealed
    <2>2. DeciderOK' /\ StopperOK' /\ WorkerOK' /\ JobOK'
      BY <1>1, <2>1, DeciderKept, StopperKept, WorkerKept, JobKept DEF vars, stores
    <2>3. TypeOK'
      BY <1>1 DEF vars, stores, IInv, TypeOK
    <2> QED BY <2>2, <2>3 DEF IInv
  <1>2. CASE DeciderStep
    BY <1>2, DecideOK, LoadTaskOK, LoadGraphOK, ApprovalStageOK, ProjectExecutionOK, BuildOK,
       EnqueueOK, MarkExecutionBlockedOK, SaveDecisionOK DEF DeciderStep
  <1>3. CASE StopperStep
    BY <1>3, RequestStopOK, WithdrawJobOK, WriteMarkerOK, LoadForCancelOK, CancelTaskOK,
       LoadStagesOK, CancelStageOK DEF StopperStep
  <1>4. CASE WorkerStep
    BY <1>4, LaunchOK, ClaimOK, CheckOK, StartOK, ScanOK, LoadForProjectionOK, ProjectOK,
       FinishOK DEF WorkerStep
  <1>5. CASE Crash
    BY <1>5, CrashOK
  <1> QED BY <1>1, <1>2, <1>3, <1>4, <1>5 DEF Next

THEOREM Invariance == Spec => []IInv
  BY InitIInv, NextIInv, PTL DEF Spec

\* The stores, the two web requests and the worker have their types.
THEOREM TypeCorrect == Spec => []TypeOK
  <1>1. IInv => TypeOK
    BY DEF IInv
  <1> QED BY Invariance, <1>1, PTL

\* After stop_agent_run has reported success the job has ended, or the marker
\* waits for the worker: also for a job that the decision queues afterwards.
THEOREM StopIsMarked == Spec => []StoppedIsMarked
  <1>1. IInv => StoppedIsMarked
    BY DEF IInv, JobOK, Sealed, StoppedIsMarked
  <1> QED BY Invariance, <1>1, PTL

\* A scan is preceded by the approval and by its completed stage in the graph; a
\* run that is reported completed was scanned, and not stopped before.
THEOREM ReportsAreTrue == Spec => []ReportIsTrue
  <1>1. IInv => ReportIsTrue
    BY DEF IInv, TypeOK, JobOK, Granted, ReportIsTrue
  <1> QED BY Invariance, <1>1, PTL

\* No save changes a task that has ended: the snapshot it was made from is the
\* stored task, or the revision refuses it.
LEMMA EndedStays ==
    ASSUME IInv, [Next]_vars, task.status \in TERMINAL_TASK
    PROVE  task' = task
  <1>1. ASSUME SaveDecision PROVE task' = task
    <2>1. TaskSnapshot(decider.task, task)
      BY <1>1 DEF SaveDecision, Deciding, IInv, DeciderOK
    <2> QED BY <1>1, <2>1, SavesOnlyOpen DEF SaveDecision
  <1>2. ASSUME CancelTask PROVE task' = task
    <2>1. TaskSnapshot(stopper.task, task)
      BY <1>2 DEF CancelTask, Stopping, IInv, StopperOK
    <2> QED BY <1>2, <2>1, SavesOnlyOpen DEF CancelTask
  <1>3. ASSUME Project PROVE task' = task
    <2>1. TaskSnapshot(worker.task, task)
      BY <1>3 DEF Project, Working, IInv, WorkerOK
    <2> QED BY <1>3, <2>1, SavesOnlyOpen DEF Project
  <1>4. CASE DeciderStep
    BY <1>1, <1>4 DEF DeciderStep, Decide, LoadTask, LoadGraph, ApprovalRunning,
       ApprovalCompleted, ApprovalCancelled, ProjectStage, ProjectExecution, Build, Enqueue,
       MarkExecutionBlocked, stores
  <1>5. CASE StopperStep
    BY <1>2, <1>5 DEF StopperStep, RequestStop, WithdrawJob, WriteMarker, LoadForCancel,
       LoadStages, CancelStage, stores
  <1>6. CASE WorkerStep
    BY <1>3, <1>6 DEF WorkerStep, Launch, Claim, Check, Start, Scan, LoadForProjection,
       Finish, stores
  <1>7. CASE Crash \/ UNCHANGED vars
    BY <1>7 DEF Crash, vars, stores
  <1> QED BY <1>4, <1>5, <1>6, <1>7 DEF Next

\* What was reported as the end of a run stays, for every step of every caller.
THEOREM EndStays == Spec => EndOfRunStays
  <1>1. IInv /\ [Next]_vars => [task.status \in TERMINAL_TASK => task' = task]_vars
    BY EndedStays
  <1> QED BY Invariance, <1>1, PTL DEF Spec, EndOfRunStays
=============================================================================
