--------------------------- MODULE ExecutionStore ---------------------------
(***************************************************************************)
(* NucleiExecutionStore and the harness that drives it                     *)
(* (vulnhunter/security_tools/nuclei_execution.py, nuclei_worker_pilot.py):*)
(* the record of one execution, its ledger of hash-linked transitions, the *)
(* worker that moves it through its lifecycle and recovers it after a      *)
(* restart, and the stop requests that ask for its cancellation.           *)
(*                                                                         *)
(* The worker command and every stop request (web/services.py) have a      *)
(* store object of their own.  Its lock, a threading.RLock, so never holds *)
(* anybody up: a call reads the record, verifies the ledger, clears,       *)
(* creates and writes the .part file, renames it over the record and       *)
(* appends the event, and any other call may come in between.              *)
(***************************************************************************)
EXTENDS Naturals, Sequences

CONSTANTS Requests,   \* stop requests of the web server
          MaxCrashes, \* bound: how often a process dies
          None

ASSUME ExecutionAssumption ==
    MaxCrashes \in Nat /\ "worker" \notin Requests

VARIABLES record,  \* the record file
          part,    \* the .part file
          ledger,  \* the event file
          made,    \* transitions built so far: the last one's digest
          decided, \* states that a transition was decided to lead to
          frame,   \* frame[p]: the store call p is in
          worker,  \* the worker process: [pc, target]
          scan,    \* the scanner process, or how it ended
          crashes  \* processes that died so far

files == <<record, part, ledger>>
vars == <<files, made, decided, frame, worker, scan, crashes>>

Procs == {"worker"} \cup Requests

UNFINISHED == {"prepared", "validated", "starting", "running", "cancelling"}
TERMINAL   == {"blocked", "cancelled", "timed_out", "failed", "completed"}
State      == UNFINISHED \cup TERMINAL

AllowedTransitions ==
    [s \in State |->
       CASE s = "prepared"   -> {"validated", "blocked", "cancelled", "failed"}
         [] s = "validated"  -> {"blocked", "starting", "cancelled", "failed"}
         [] s = "starting"   -> {"running", "cancelling", "cancelled",
                                 "timed_out", "failed"}
         [] s = "running"    -> {"cancelling", "cancelled", "timed_out",
                                 "failed", "completed"}
         [] s = "cancelling" -> {"cancelled", "timed_out", "failed"}
         [] OTHER            -> {}]

Record == [state : State, cancel : BOOLEAN, last : Nat]

\* A file that was created and not written yet holds None.
File == [by : Procs, content : Record \cup {None}]

\* id stands for event_sha256, prev for previous_event_sha256, 0 for "0" * 64.
Event == [id : Nat, prev : Nat, from : State \cup {None}, to : State]

ASSUME NoneAssumption ==
    None \notin State /\ None \notin Record /\ None \notin File /\ None \notin Event

\* A call loaded old and is to store new.
NoFrame == [pc |-> "idle", old |-> None, new |-> None]

\* load: an unwritten record is not valid.
Readable == record # None /\ record.content # None

Stored == record.content

\* list_events: what it verifies of the ledger before it returns it.
LedgerVerifies ==
    \A i \in 1..Len(ledger) :
        /\ ledger[i].prev = (IF i = 1 THEN 0 ELSE ledger[i - 1].id)
        /\ ledger[i].from = (IF i = 1 THEN None ELSE ledger[i - 1].to)

\* The event of a transition from old to new.
EventOf(p) ==
    [id   |-> frame[p].new.last,
     prev |-> IF frame[p].old = None THEN 0 ELSE frame[p].old.last,
     from |-> IF frame[p].old = None THEN None ELSE frame[p].old.state,
     to   |-> frame[p].new.state]

FrameAt(p, label) == frame[p].pc = label

FrameGoto(p, label) == frame' = [frame EXCEPT ![p].pc = label]

\* An exception leaves the call; in the worker it ends the process (run_once
\* rejects the job and the command exits), and it ends the web request.
Raise(p) ==
    /\ frame' = [frame EXCEPT ![p] = [NoFrame EXCEPT !.pc =
                                        IF p = "worker" THEN "idle" ELSE "done"]]
    /\ worker' = IF p = "worker" THEN [worker EXCEPT !.pc = "off"] ELSE worker

-----------------------------------------------------------------------------
(***************************************************************************)
(* The store.                                                              *)
(***************************************************************************)

Allowed(to) == to \in AllowedTransitions[Stored.state]

\* transition loads the record and refuses what it does not lead to, ...
Transition(p, to) ==
    /\ IF Readable /\ Allowed(to)
         THEN /\ frame' = [frame EXCEPT ![p] =
                   [pc |-> "verify", old |-> Stored,
                    new |-> [Stored EXCEPT !.state = to]]]
              /\ UNCHANGED worker
         ELSE Raise(p)
    /\ UNCHANGED <<files, made, decided, scan, crashes>>

\* ... and reads the ledger before it makes the event.
Verify(p) ==
    /\ FrameAt(p, "verify")
    /\ IF LedgerVerifies
         THEN /\ frame' = [frame EXCEPT ![p].pc = "clear",
                                        ![p].new.last = made + 1]
              /\ made' = made + 1
              /\ decided' = decided \cup {frame[p].new.state}
              /\ UNCHANGED worker
         ELSE Raise(p) /\ UNCHANGED <<made, decided>>
    /\ UNCHANGED <<files, scan, crashes>>

\* _write_atomic: a .part file that is there is unlinked, ...
Clear(p) ==
    /\ FrameAt(p, "clear")
    /\ FrameGoto(p, IF part = None THEN "create" ELSE "unlink")
    /\ UNCHANGED <<files, made, decided, worker, scan, crashes>>

Unlink(p) ==
    /\ FrameAt(p, "unlink")
    /\ part' = None
    /\ IF part = None THEN Raise(p) ELSE FrameGoto(p, "create") /\ UNCHANGED worker
    /\ UNCHANGED <<record, ledger, made, decided, scan, crashes>>

\* ... another one is created exclusively, ...
Create(p) ==
    /\ FrameAt(p, "create")
    /\ IF part = None
         THEN /\ part' = [by |-> p, content |-> None]
              /\ FrameGoto(p, "write") /\ UNCHANGED worker
         ELSE Raise(p) /\ UNCHANGED part
    /\ UNCHANGED <<record, ledger, made, decided, scan, crashes>>

\* ... and written, wherever it is by now, ...
Written(file, p) ==
    IF file = [by |-> p, content |-> None]
      THEN [by |-> p, content |-> frame[p].new] ELSE file

Write(p) ==
    /\ FrameAt(p, "write")
    /\ part' = Written(part, p) /\ record' = Written(record, p)
    /\ FrameGoto(p, "publish")
    /\ UNCHANGED <<ledger, made, decided, worker, scan, crashes>>

\* A request's first write sets the flag and makes no event.
Flags(p) == frame[p].old # None /\ frame[p].new.cancel # frame[p].old.cancel

\* ... and the .part file, whoever made it, is renamed over the record.  A
\* request that has stored its flag goes on with a transition if the record
\* that it loaded was one of a scan.
Publish(p) ==
    /\ FrameAt(p, "publish")
    /\ IF part = None
         THEN Raise(p) /\ UNCHANGED <<record, part>>
         ELSE /\ record' = part /\ part' = None
              /\ FrameGoto(p, IF ~Flags(p) THEN "append"
                              ELSE IF frame[p].new.state \in {"starting", "running"}
                                THEN "cancel"
                              ELSE "done")
              /\ UNCHANGED worker
    /\ UNCHANGED <<ledger, made, decided, scan, crashes>>

\* _append_event; the call returns.
AppendEvent(p) ==
    /\ FrameAt(p, "append")
    /\ ledger' = Append(ledger, EventOf(p))
    /\ frame' = [frame EXCEPT ![p] = [NoFrame EXCEPT !.pc =
                                        IF p = "worker" THEN "idle" ELSE "done"]]
    /\ worker' = IF p = "worker" THEN [worker EXCEPT !.pc = frame[p].new.state]
                                 ELSE worker
    /\ UNCHANGED <<record, part, made, decided, scan, crashes>>

StoreStep(p) == Verify(p) \/ Clear(p) \/ Unlink(p) \/ Create(p) \/ Write(p)
                \/ Publish(p) \/ AppendEvent(p)

-----------------------------------------------------------------------------
(***************************************************************************)
(* A stop request: request_cancellation.  It does nothing when the flag is *)
(* set already, and does not ask whether the execution has ended.          *)
(***************************************************************************)

RequestCancellation(r) ==
    /\ FrameAt(r, "idle")
    /\ frame' = [frame EXCEPT ![r] =
         IF Readable /\ ~Stored.cancel
           THEN [pc |-> "clear", old |-> Stored,
                 new |-> [Stored EXCEPT !.cancel = TRUE]]
           ELSE [NoFrame EXCEPT !.pc = "done"]]
    /\ UNCHANGED <<files, made, decided, worker, scan, crashes>>

\* Mutant: the request closes the execution itself.
MutCancelling(r) == FrameAt(r, "cancel") /\ Transition(r, "cancelled")

\* Its nested call of transition.
Cancelling(r) == FrameAt(r, "cancel") /\ Transition(r, "cancelling")

RequestStep(r) == Cancelling(r) \/ StoreStep(r)

-----------------------------------------------------------------------------
(***************************************************************************)
(* The worker: execute_pilot.  Its pc is the state its last transition set.*)
(***************************************************************************)

At(label) == worker.pc = label /\ FrameAt("worker", "idle")

Moves(targets) == \E to \in targets : Transition("worker", to)

Prepare ==
    /\ At("new")
    /\ frame' = [frame EXCEPT !["worker"] =
         [pc |-> "clear", old |-> None,
          new |-> [state |-> "prepared", cancel |-> FALSE, last |-> 1]]]
    /\ made' = 1
    /\ decided' = {"prepared"}
    /\ UNCHANGED <<files, worker, scan, crashes>>

\* A marker in the spool, a disabled policy, a failed revalidation, or none.
Revalidate == At("prepared") /\ Moves({"cancelled", "blocked", "failed", "validated"})

\* A marker, no free slot, or the scanner is to start.
Starting == At("validated") /\ Moves({"cancelled", "failed", "starting"})

Running == At("starting") /\ Moves({"running"})

\* Mutant: the scanner is run before that is recorded.
MutScan ==
    /\ At("starting") /\ scan = "none"
    /\ scan' = "running"
    /\ worker' = [worker EXCEPT !.pc = "running"]
    /\ UNCHANGED <<files, made, decided, frame, crashes>>

\* runner.run
Scan ==
    /\ At("running") /\ scan = "none"
    /\ scan' = "running"
    /\ UNCHANGED <<files, made, decided, frame, worker, crashes>>

\* It returns.  A checkpoint sees the stored flag or the marker.
RunnerEnds ==
    /\ At("running") /\ scan = "running"
    /\ \E result \in {"completed", "failed", "timed_out", "cancelled"} :
         /\ scan' = result
         /\ worker' = [pc |-> "ended", target |-> result]
    /\ UNCHANGED <<files, made, decided, frame, crashes>>

\* current = self.store.load(...), before the transition loads once more.
RespectCancelling ==
    /\ At("ended")
    /\ IF ~Readable THEN Raise("worker")
       ELSE /\ worker' = [pc |-> "closing",
                          target |-> IF Stored.state = "cancelling"
                                       THEN "cancelled" ELSE worker.target]
            /\ UNCHANGED frame
    /\ UNCHANGED <<files, made, decided, scan, crashes>>

Close == At("closing") /\ Moves({worker.target})

\* The command ends, with the job or with its last one.
Exit ==
    /\ \E label \in TERMINAL \cup {"idle"} : At(label)
    /\ worker' = [worker EXCEPT !.pc = "off"]
    /\ UNCHANGED <<files, made, decided, frame, scan, crashes>>

\* It is started again: recover_unfinished loads the record, ...
Restart ==
    /\ At("off")
    /\ worker' = [worker EXCEPT !.pc = "recover"]
    /\ UNCHANGED <<files, made, decided, frame, scan, crashes>>

\* Mutant: only executions that never started are closed.
MutRecoveryTarget(state) ==
    IF state \in {"prepared", "validated"} THEN "blocked" ELSE None

\* Mutant: recovery asks for a cancellation instead of closing.
MutCancellingTarget(state) == IF state \in UNFINISHED THEN "cancelling" ELSE None

RecoveryTarget(state) ==
    IF state \in {"prepared", "validated"} THEN "blocked"
    ELSE IF state \in UNFINISHED THEN "failed"
    ELSE None

RecoverUnfinished ==
    /\ At("recover")
    /\ IF record # None /\ ~Readable THEN Raise("worker")
       ELSE /\ worker' = IF record = None \/ RecoveryTarget(Stored.state) = None
                           THEN [worker EXCEPT !.pc = "idle"]
                           ELSE [pc |-> "recovering",
                                 target |-> RecoveryTarget(Stored.state)]
            /\ UNCHANGED frame
    /\ UNCHANGED <<files, made, decided, scan, crashes>>

\* ... and closes it.
Recover == At("recovering") /\ Moves({worker.target})

WorkerStep ==
    \/ Prepare \/ Revalidate \/ Starting \/ Running \/ Scan \/ RunnerEnds
    \/ RespectCancelling \/ Close \/ RecoverUnfinished \/ Recover
    \/ StoreStep("worker")

-----------------------------------------------------------------------------

WorkerCrash ==
    /\ crashes < MaxCrashes /\ worker.pc # "off"
    /\ crashes' = crashes + 1
    /\ worker' = [worker EXCEPT !.pc = "off"]
    /\ frame' = [frame EXCEPT !["worker"] = NoFrame]
    /\ scan' = IF scan = "running" THEN "killed" ELSE scan
    /\ UNCHANGED <<files, made, decided>>

RequestCrash(r) ==
    /\ crashes < MaxCrashes /\ ~FrameAt(r, "idle") /\ ~FrameAt(r, "done")
    /\ crashes' = crashes + 1
    /\ frame' = [frame EXCEPT ![r] = [NoFrame EXCEPT !.pc = "done"]]
    /\ UNCHANGED <<files, made, decided, worker, scan>>

Init ==
    /\ record = None /\ part = None /\ ledger = <<>>
    /\ made = 0 /\ decided = {}
    /\ frame = [p \in Procs |-> NoFrame]
    /\ worker = [pc |-> "new", target |-> None]
    /\ scan = "none"
    /\ crashes = 0

Next ==
    \/ WorkerStep \/ Exit \/ Restart \/ WorkerCrash
    \/ \E r \in Requests : RequestCancellation(r) \/ RequestStep(r) \/ RequestCrash(r)

Spec == Init /\ [][Next]_vars

\* The worker goes on and is started again when it has stopped, and a request
\* that has begun goes on.
FairSpec == /\ Spec /\ WF_vars(WorkerStep) /\ WF_vars(Restart)
            /\ \A r \in Requests : WF_vars(RequestStep(r))

-----------------------------------------------------------------------------
(***************************************************************************)
(* Properties.                                                             *)
(***************************************************************************)

WorkerLabel == State \cup {"new", "ended", "closing", "off", "recover",
                           "recovering", "idle"}

FrameLabel == {"idle", "verify", "clear", "unlink", "create", "write", "publish",
               "append", "cancel", "done"}

Results == {"completed", "failed", "timed_out", "cancelled"}

TypeOK ==
    /\ record \in File \cup {None} /\ part \in File \cup {None}
    /\ ledger \in Seq(Event) /\ made \in Nat /\ decided \subseteq State
    /\ frame \in [Procs -> [pc : FrameLabel, old : Record \cup {None},
                            new : Record \cup {None}]]
    /\ worker \in [pc : WorkerLabel, target : TERMINAL \cup {None}]
    /\ worker.pc \in {"ended", "closing", "recovering"} => worker.target # None
    /\ scan \in {"none", "running", "killed"} \cup Results
    /\ crashes \in 0..MaxCrashes

OnLedger == {ledger[i] : i \in 1..Len(ledger)}

\* While the scanner process runs, its start is on the ledger and no end is, and
\* the record, whatever older one a stop request has written back, shows none.
ScannerRunsOnRecord ==
    scan = "running" =>
        /\ \E e \in OnLedger : e.to = "running"
        /\ \A e \in OnLedger : e.to \notin TERMINAL
        /\ Readable => Stored.state \in UNFINISHED

Standing == IF Readable THEN Stored.state ELSE None

Asked == \E r \in Requests : ~FrameAt(r, "idle")

Lifecycle == INSTANCE ExecutionLifecycle
    WITH Nothing <- None, shown <- Standing, asked <- Asked

\* Whatever is staged, torn, published over somebody else's file, written back
\* from an older record, left behind by a process that died or closed by a
\* recovery: the worker goes through the lifecycle once, nothing acts on a state
\* that was taken back, and the record shows only what was decided.
ImplementsLifecycle == Lifecycle!Spec

\* A record created by a process that died before it wrote.
Torn == record # None /\ ~Readable /\ ~FrameAt(record.by, "write")

\* An execution that a worker works on, or finds unfinished when it is started,
\* ends, also when the harness raised or a process died; except that overlapping
\* calls may have broken its ledger or torn its record for good.
ExecutionEnds ==
    record # None /\ worker.pc \notin TERMINAL \cup {"idle"}
      ~> \/ Readable /\ Stored.state \in TERMINAL
         \/ \E e \in OnLedger : e.to \in TERMINAL
         \/ ~LedgerVerifies \/ Torn
=============================================================================
