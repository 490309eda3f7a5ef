---------------------------- MODULE WorkerSpool ----------------------------
(***************************************************************************)
(* SignedWorkerSpool (vulnhunter/security_tools/worker_spool.py): signed   *)
(* jobs handed from the web manager to isolated workers through            *)
(* directories, and the worker loop that serves them (run_once of          *)
(* nuclei_pilot_service.py, started by vh_run_nuclei_worker.py).           *)
(*                                                                         *)
(* Nothing locks the spool: each rename, exclusive create, existence test  *)
(* and unlink is one step, and every process may stop between two of them. *)
(***************************************************************************)
EXTENDS Naturals, FiniteSets

CONSTANTS Jobs,        \* job identifiers (the run identifiers)
          Workers,     \* worker processes polling the spool
          Stoppers,    \* web requests that ask for a cancellation
          MaxCrashes,  \* bound: how often a process dies
          NoJob

ASSUME SpoolAssumption ==
    /\ MaxCrashes \in Nat
    /\ NoJob \notin Jobs

VARIABLES pending,       \* job files in pending/
          processing,    \* job files in processing/
          completed,     \* job files in completed/
          failed,        \* job files in failed/
          cancellations, \* markers in cancellations/
          receipts,      \* receipts[j]: the receipts written for j
          worker,        \* worker[w]: the worker process
          stopper,       \* stopper[s]: a request_cancellation call
          enqueued,      \* jobs the manager has enqueued
          started,       \* started[j]: times the scanner was started for j
          crashes        \* processes that died so far

files == <<pending, processing, completed, failed, cancellations, receipts>>
vars == <<files, worker, stopper, enqueued, started, crashes>>

\* A receipt lies in completed/ or failed/ and tells how the job ended.
Receipt == [area : {"completed", "failed"},
            state : {"completed", "failed", "cancelled", "rejected"}]

ReceiptIn(j, area) == \E r \in receipts[j] : r.area = area

\* The exclusive creation of a receipt: it raises if one is there.
WriteReceipt(j, area, state) ==
    receipts' = [receipts EXCEPT ![j] = @ \cup {[area |-> area, state |-> state]}]

\* off: not running.  recover: recover_processing at start-up.  idle: polling.
\* load, check, scan: a claimed job.  receipt, rename, unlink: finish,
\* after which the process goes on to `next`.
Off  == [pc |-> "off", job |-> NoJob, state |-> "rejected", next |-> "off",
         todo |-> {}]
Poll == [pc |-> "idle", job |-> NoJob, state |-> "rejected", next |-> "idle",
         todo |-> {}]

Become(w, r) == worker' = [worker EXCEPT ![w] = r]

Goto(w, label) == Become(w, [worker[w] EXCEPT !.pc = label])

At(w, label) == worker[w].pc = label

\* finish(claimed, receipt, success): success decides the target area.
Area(state) == IF state = "completed" THEN "completed" ELSE "failed"

Finishing(w, j, state, next) ==
    Become(w, [worker[w] EXCEPT !.pc = "receipt", !.job = j, !.state = state,
                                !.next = next])

\* Recovery goes on with the rest of its list.
Recovered(w) ==
    [Off EXCEPT !.pc = "recover", !.todo = worker[w].todo \ {worker[w].job}]

-----------------------------------------------------------------------------
(***************************************************************************)
(* The manager.                                                            *)
(***************************************************************************)

\* The job of a run is built and enqueued by the one decision on its approval
\* request (AssessmentRun, ApprovalStore), so once.
Enqueue(j) ==
    /\ j \notin enqueued
    /\ pending' = pending \cup {j}
    /\ enqueued' = enqueued \cup {j}
    /\ UNCHANGED <<processing, completed, failed, cancellations, receipts,
                   worker, stopper, started, crashes>>

-----------------------------------------------------------------------------
(***************************************************************************)
(* request_cancellation, called by stop_agent_run.                         *)
(***************************************************************************)

NoStop == [pc |-> "idle", job |-> NoJob]

StopAt(s, label) == stopper[s].pc = label

StopGoto(s, label) == stopper' = [stopper EXCEPT ![s].pc = label]

\* cancel_pending: is the job still pending?
RequestCancellation(s) ==
    /\ StopAt(s, "idle")
    /\ \E j \in Jobs :
         stopper' = [stopper EXCEPT ![s] =
                       [pc  |-> IF j \in pending THEN "withdraw" ELSE "marker",
                        job |-> j]]
    /\ UNCHANGED <<files, worker, enqueued, started, crashes>>

\* Mutant: the job file is left where a worker can claim it.
MutWithdraw(s) ==
    /\ StopAt(s, "withdraw")
    /\ LET j == stopper[s].job IN
         IF j \in pending
           THEN /\ failed' = failed \cup {j}
                /\ StopGoto(s, "receipt")
           ELSE /\ UNCHANGED failed
                /\ stopper' = [stopper EXCEPT ![s] = NoStop]
    /\ UNCHANGED <<pending, processing, completed, cancellations, receipts,
                   worker, enqueued, started, crashes>>

\* Its rename raises FileNotFoundError if a worker claimed the job since; that
\* escapes request_cancellation and stop_agent_run, and no marker is written.
Withdraw(s) ==
    /\ StopAt(s, "withdraw")
    /\ LET j == stopper[s].job IN
         IF j \in pending
           THEN /\ pending' = pending \ {j}
                /\ failed' = failed \cup {j}
                /\ StopGoto(s, "receipt")
           ELSE /\ UNCHANGED <<pending, failed>>
                /\ StopGoto(s, "lost")
    /\ UNCHANGED <<processing, completed, cancellations, receipts, worker,
                   enqueued, started, crashes>>

\* The cancelled receipt is written after the job was withdrawn.
WithdrawReceipt(s) ==
    /\ StopAt(s, "receipt")
    /\ LET j == stopper[s].job IN
         IF ReceiptIn(j, "failed") THEN UNCHANGED receipts
                                   ELSE WriteReceipt(j, "failed", "cancelled")
    /\ stopper' = [stopper EXCEPT ![s] = NoStop]
    /\ UNCHANGED <<pending, processing, completed, failed, cancellations,
                   worker, enqueued, started, crashes>>

Marker(s) ==
    /\ StopAt(s, "marker")
    /\ cancellations' = cancellations \cup {stopper[s].job}
    /\ stopper' = [stopper EXCEPT ![s] = NoStop]
    /\ UNCHANGED <<pending, processing, completed, failed, receipts, worker,
                   enqueued, started, crashes>>

\* The web request ends with an error page.
StopError(s) ==
    /\ StopAt(s, "lost")
    /\ stopper' = [stopper EXCEPT ![s] = NoStop]
    /\ UNCHANGED <<files, worker, enqueued, started, crashes>>

-----------------------------------------------------------------------------
(***************************************************************************)
(* The worker process.                                                     *)
(***************************************************************************)

Launch(w) ==
    /\ At(w, "off")
    /\ Become(w, [Off EXCEPT !.pc = "recover", !.todo = processing])
    /\ UNCHANGED <<files, stopper, enqueued, started, crashes>>

\* recover_processing rejects what it listed in processing/ at start-up.
RecoverProcessing(w) ==
    /\ At(w, "recover")
    /\ IF worker[w].todo = {}
         THEN Become(w, Poll)
         ELSE \E j \in worker[w].todo : Finishing(w, j, "rejected", "recover")
    /\ UNCHANGED <<files, stopper, enqueued, started, crashes>>

\* Mutant: the job is copied instead of moved.
MutClaim(w) ==
    /\ At(w, "idle")
    /\ \E j \in pending :
         /\ processing' = processing \cup {j}
         /\ Become(w, [Poll EXCEPT !.pc = "load", !.job = j])
    /\ UNCHANGED <<pending, completed, failed, cancellations, receipts,
                   stopper, enqueued, started, crashes>>

\* Mutant: the path of the claimed job is not returned.
MutClaimNothing(w) ==
    /\ At(w, "idle")
    /\ \E j \in pending :
         /\ pending' = pending \ {j}
         /\ processing' = processing \cup {j}
         /\ Become(w, [Poll EXCEPT !.pc = "load"])
    /\ UNCHANGED <<completed, failed, cancellations, receipts, stopper,
                   enqueued, started, crashes>>

\* claim_next: the rename either takes the job or finds it gone.
Claim(w) ==
    /\ At(w, "idle")
    /\ \E j \in pending :
         /\ pending' = pending \ {j}
         /\ processing' = processing \cup {j}
         /\ Become(w, [Poll EXCEPT !.pc = "load", !.job = j])
    /\ UNCHANGED <<completed, failed, cancellations, receipts, stopper,
                   enqueued, started, crashes>>

\* load_claimed: a job that is not in processing/, is badly signed or has
\* expired is rejected.
LoadClaimed(w) ==
    /\ At(w, "load")
    /\ \/ worker[w].job \in processing /\ Goto(w, "check")
       \/ Finishing(w, worker[w].job, "rejected", "raise")
    /\ UNCHANGED <<files, stopper, enqueued, started, crashes>>

\* execute_pilot creates the execution record (ExecutionStore) and polls
\* cancellation_requested before it starts the scanner; the execution may also
\* be blocked by policy, fail its revalidation, or raise.
Check(w) ==
    /\ At(w, "check")
    /\ LET j == worker[w].job IN
         \/ /\ j \in cancellations
            /\ Finishing(w, j, "cancelled", "idle")
            /\ UNCHANGED started
         \/ /\ j \notin cancellations
            /\ Goto(w, "scan")
            /\ started' = [started EXCEPT ![j] = @ + 1]
         \/ /\ j \notin cancellations
            /\ Finishing(w, j, "failed", "idle")
            /\ UNCHANGED started
         \/ /\ Finishing(w, j, "rejected", "raise")
            /\ UNCHANGED started
    /\ UNCHANGED <<files, stopper, enqueued, crashes>>

\* The scanner runs; its checkpoints see a marker, or it ends some other way.
Scan(w) ==
    /\ At(w, "scan")
    /\ LET j == worker[w].job IN
         \/ j \in cancellations /\ Finishing(w, j, "cancelled", "idle")
         \/ Finishing(w, j, "completed", "idle")
         \/ Finishing(w, j, "failed", "idle")
         \/ Finishing(w, j, "rejected", "raise")
    /\ UNCHANGED <<files, stopper, enqueued, started, crashes>>

\* finish writes the receipt first; an existing one raises and the command
\* exits with the job file still in processing/.
FinishReceipt(w) ==
    /\ At(w, "receipt")
    /\ LET j == worker[w].job
           area == Area(worker[w].state)
       IN IF ReceiptIn(j, area)
            THEN Become(w, Off) /\ UNCHANGED receipts
            ELSE WriteReceipt(j, area, worker[w].state) /\ Goto(w, "rename")
    /\ UNCHANGED <<pending, processing, completed, failed, cancellations,
                   stopper, enqueued, started, crashes>>

\* Mutant: the job file stays where it is.
MutFinishRename(w) ==
    /\ At(w, "rename")
    /\ Goto(w, "unlink")
    /\ UNCHANGED <<files, stopper, enqueued, started, crashes>>

\* Then it moves the job file; if another process moved it, that raises.
FinishRename(w) ==
    /\ At(w, "rename")
    /\ LET j == worker[w].job IN
         IF j \in processing
           THEN /\ processing' = processing \ {j}
                /\ IF Area(worker[w].state) = "completed"
                     THEN completed' = completed \cup {j} /\ UNCHANGED failed
                     ELSE failed' = failed \cup {j} /\ UNCHANGED completed
                /\ Goto(w, "unlink")
           ELSE /\ Become(w, Off)
                /\ UNCHANGED <<processing, completed, failed>>
    /\ UNCHANGED <<pending, cancellations, receipts, stopper,
                   enqueued, started, crashes>>

\* Last, it drops the marker.  The command then polls again (with --watch),
\* goes on recovering, or exits: after one job, or because run_once raised.
FinishUnlink(w) ==
    /\ At(w, "unlink")
    /\ cancellations' = cancellations \ {worker[w].job}
    /\ \/ worker[w].next = "idle" /\ Become(w, Poll)
       \/ worker[w].next = "recover" /\ Become(w, Recovered(w))
       \/ worker[w].next \in {"idle", "raise"} /\ Become(w, Off)
    /\ UNCHANGED <<pending, processing, completed, failed, receipts, stopper,
                   enqueued, started, crashes>>

\* Without --watch the command ends when it finds nothing pending.
Stop(w) ==
    /\ At(w, "idle") /\ pending = {}
    /\ Become(w, Off)
    /\ UNCHANGED <<files, stopper, enqueued, started, crashes>>

-----------------------------------------------------------------------------

WorkerCrash(w) ==
    /\ crashes < MaxCrashes /\ ~At(w, "off")
    /\ crashes' = crashes + 1
    /\ Become(w, Off)
    /\ UNCHANGED <<files, stopper, enqueued, started>>

StopperCrash(s) ==
    /\ crashes < MaxCrashes /\ ~StopAt(s, "idle")
    /\ crashes' = crashes + 1
    /\ stopper' = [stopper EXCEPT ![s] = NoStop]
    /\ UNCHANGED <<files, worker, enqueued, started>>

Init ==
    /\ pending = {} /\ processing = {} /\ completed = {} /\ failed = {}
    /\ cancellations = {}
    /\ receipts = [j \in Jobs |-> {}]
    /\ worker = [w \in Workers |-> Off]
    /\ stopper = [s \in Stoppers |-> NoStop]
    /\ enqueued = {}
    /\ started = [j \in Jobs |-> 0]
    /\ crashes = 0

WorkerStep(w) ==
    \/ RecoverProcessing(w) \/ Claim(w) \/ LoadClaimed(w) \/ Check(w) \/ Scan(w)
    \/ FinishReceipt(w) \/ FinishRename(w) \/ FinishUnlink(w)

StopperStep(s) ==
    \/ RequestCancellation(s) \/ Withdraw(s) \/ WithdrawReceipt(s)
    \/ Marker(s) \/ StopError(s)

Next ==
    \/ \E j \in Jobs : Enqueue(j)
    \/ \E w \in Workers : Launch(w) \/ WorkerStep(w) \/ Stop(w) \/ WorkerCrash(w)
    \/ \E s \in Stoppers : StopperStep(s) \/ StopperCrash(s)

Spec == Init /\ [][Next]_vars

\* A running worker goes on; nothing starts one (compose.yaml: restart "no").
FairSpec == Spec /\ \A w \in Workers : WF_vars(WorkerStep(w))

\* An operator starts every worker again that has stopped.
RestartSpec == FairSpec /\ \A w \in Workers : WF_vars(Launch(w))

-----------------------------------------------------------------------------
(***************************************************************************)
(* Properties.                                                             *)
(***************************************************************************)

WorkerLabel == {"off", "recover", "idle", "load", "check", "scan",
                "receipt", "rename", "unlink"}

TypeOK ==
    /\ pending \subseteq Jobs /\ processing \subseteq Jobs
    /\ completed \subseteq Jobs /\ failed \subseteq Jobs
    /\ cancellations \subseteq Jobs
    /\ receipts \in [Jobs -> SUBSET Receipt]
    /\ worker \in [Workers ->
         [pc : WorkerLabel, job : Jobs \cup {NoJob},
          state : {"completed", "failed", "cancelled", "rejected"},
          next : {"off", "idle", "recover", "raise"}, todo : SUBSET Jobs]]
    /\ \A w \in Workers : worker[w].job = NoJob
                             <=> worker[w].pc \in {"off", "recover", "idle"}
    /\ stopper \in [Stoppers -> [pc : {"idle", "withdraw", "receipt", "marker",
                                       "lost"},
                                 job : Jobs \cup {NoJob}]]
    /\ enqueued \subseteq Jobs
    /\ started \in [Jobs -> Nat]
    /\ crashes \in 0..MaxCrashes

Areas(j) == {a \in {"pending", "processing", "completed", "failed"} :
               \/ a = "pending"    /\ j \in pending
               \/ a = "processing" /\ j \in processing
               \/ a = "completed"  /\ j \in completed
               \/ a = "failed"     /\ j \in failed}

\* An enqueued job is in exactly one area, through every race of claim,
\* withdrawal, finish and recovery and every crash between two of their steps:
\* it is never lost and never both ended and runnable.
InOneArea == \A j \in enqueued : Cardinality(Areas(j)) = 1

\* The scanner is started at most once for a job, although several workers list
\* and claim at once, a starting worker rejects what another one is working on,
\* and every one of them may die and be started again.
ScannedOnce == \A j \in Jobs : started[j] <= 1

\* A job a stop request withdrew, and is about to write the receipt for, was
\* not scanned and is out of the workers' reach.
WithdrawnNeverScanned ==
    \A j \in Jobs, s \in Stoppers :
        StopAt(s, "receipt") /\ stopper[s].job = j => started[j] = 0 /\ j \in failed

\* While a worker is running and nobody dies, an enqueued job ends, also when
\* a starting worker rejects it under the hands of the one that claimed it.
JobsEnd ==
    \A j \in Jobs : [](j \in pending \cup processing =>
        <>(\/ j \in completed \cup failed
           \/ crashes > 0 \/ \A w \in Workers : At(w, "off")))

\* docs/setup/NUCLEI_WORKER_PILOT.md: "restarting the worker fails stranded
\* processing records closed": a restarted worker gets past its recovery.
StrandedFailClosed ==
    \A j \in Jobs : [](j \in processing => <>(j \notin processing))
=============================================================================
