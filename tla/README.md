# VulnHunter: specifications, model checks and proofs

This directory holds TLA+ specifications of the stateful core of VulnHunter (`vulnhunter/`), the TLC
configurations that check them on small instances, and theorems proved with TLAPS. VulnHunter is a Python/Django
application that plans, gets approved and runs bounded security assessments. What makes it hard is not one
algorithm; it is that a *governed* run is spread over several stores (SQLite databases, JSON files, spool
directories) that web requests, agent runs and worker processes change concurrently, each of which may die between
any two of its steps, and that no transaction spans two stores.

`PROJECT.json` lists components, runs, mutants, hazards, findings and theorems, and maps every definition that
models code to the lines it models.

## 1. Inventory

### Modelled

| component | state it keeps | operations | who calls it |
|---|---|---|---|
| **Task graph** `taskgraph/` | one file: revision, `updated_at`, nodes with status, attempts, worker lease | `save`, `update_status`, `acquire_lease`, `renew_lease`, `release_lease`, `recover_expired_leases`, `ready_nodes` | assessment graphs (web), workers |
| **Agent runtime** `agent/` | `agent_tasks` row (status, revision, counters, memory), `agent_events` log | `run`, `approve_and_resume`, `cancel`, `pause`, `resume` | web requests, orchestration, unattended runner |
| **Worker spool** `security_tools/worker_spool.py`, `nuclei_pilot_service.py` | directories `pending`, `processing`, `completed`, `failed`, `cancellations` with job files, receipts and markers | `enqueue`, `cancel_pending`, `request_cancellation`, `claim_next`, `load_claimed`, `finish`, `reject`, `recover_processing`, `run_once` | manager (web), isolated scanner workers |
| **Execution store and harness** `security_tools/nuclei_execution.py`, `nuclei_worker_pilot.py` | one record file, its `.part` staging file, one ledger of hash-linked transitions per execution | `prepare`, `transition`, `request_cancellation`, `recover_unfinished`, `list_events`, `execute_pilot` | worker, web (stop) |
| **Approval store** `approvals/` | requests and a hash-linked event log in SQLite | `create`, `decide`, `consume` | requester, approvers, agent runtime, executors |
| **Publication** `publication/`, `web/remediation_publication_views.py` | signed requests, approvals, publications, corrections and revocations as immutable files; artifact directories and notices in a destination | `request_release` (also of a correction), `approve_release`, `publish`, `revoke`, the recovery command | web requests, operator's recovery command |
| **Findings lifecycle** `findings/`, `assessment_graph/remediation.py` | the finding's row, one receipt file per fix verification, retest, review and report, the remediation's task graph | `start_remediation`, `record_fix_verification`, `start_governed_retest`, `record_governed_retest`, `record_remediation_review`, `record_final_report`, `cancel_remediation`, projection | web requests of developers, operators, reviewers and writers |
| **Campaigns** `governance/` | campaign, applications, linked scans, assignments, attestations and release in one database; review cases in another | `register_application`, `approve_campaign`, `activate_campaign`, `link_scan`, `assign_reviewers`, `submit_governed_review`, `adjudicate_governed_review`, `complete_campaign`, `release_dataset`, status of identities | operators' processes |
| **Engineering loop** `orchestration/` | `manifest.json`, `manifest.sha256`, one evidence file per gate and iteration, the working tree | `evaluate_loop`, `verify_security_policy`, `submit_independent_review`, `record_human_approval`, `record_learning`, escalation, rollback | builder, verifiers, reviewers, a human, each with a process of their own |
| **Governed assessment run** `web/assessment_workflow.py`, `web/operations_views.py`, `web/services.py`, `assessment_graph/service.py` | none of its own: approval, graph, task and spool together | decision projection, execution-stage projection, stop, worker projection | web requests, worker command |

### How they interact

1. Creating a website assessment makes a task that waits for its approval, a task graph whose approval stage
   waits, and an approval request.
2. An approver decides (`approval_decision_view`). `ApprovalStore.decide` commits first. Then
   `record_approval_decision` loads the task, moves the graph's approval and execution stages one write at a time,
   builds and enqueues the signed job, and finally saves the task it loaded at the start (compare-and-swap on its
   revision).
3. The worker claims the job by renaming it, prepares an execution record, polls the cancellation marker, runs the
   scanner, moves the execution through its lifecycle, projects the result onto the task, and finishes the job with
   a receipt. At start-up it closes what an earlier process left behind.
4. A stop withdraws a pending job or leaves a marker, asks the execution store for a cancellation, cancels the task
   and, from the chat, cancels the open stages of the graph.
5. A confirmed finding is remediated in governed steps: each writes a signed receipt, saves the finding's row by
   compare-and-swap and projects the row onto a task graph. Its final report can be released, corrected and revoked
   by the publication service.
6. Scans also feed campaigns: two assigned reviewers, and an adjudicator when they disagree, label an observation;
   what is decided in the scan database is attested in the governance database, and a completed campaign releases
   the labels.
7. Changes to the program itself go through an engineering loop of evaluation, security verification, review and
   human approval, each by another person and over the same diff.
8. Independently of this path the agent runtime executes planned tool calls on a task, consuming a bound approval
   for calls that require one.

### The hard behaviours, and what correct means for each component

| component | hard behaviour | what must hold |
|---|---|---|
| task graph | instants and expected revisions read before the lock; leases of dead workers; recovery racing with the holder | one holder per node; a holder's belief is what the file says; a node that ended stays so; attempts stay within budget |
| agent runtime | a command works on a snapshot across many store calls; another command, a deadline or a crash lands in between | nothing stored is overwritten by an older snapshot; budgets hold; no approval-bound call before its approval, and the approved one once; an end stops the others |
| spool | no lock at all: renames, exclusive creates and existence tests race; a crash between any two | a job is in one place; it is scanned at most once; a withdrawn job is never scanned; a queued job ends |
| execution store | record, `.part` file and ledger are separate writes, and the lock is one per store object: none between worker and stop request | what is written back from an older record leads nowhere: the worker goes through the lifecycle once, the scanner runs on record, an end is decided only when its scan has ended; every execution ends or is beyond repair |
| approvals | decisions and uses race, with instants read before the lock | one use per approval; the maker takes no part; a decision stays; conditions hold |
| assessment run | a decision, a stop and a worker interleave over four stores | a stopped run reaches no scanner; a completed run was scanned; an end stays; a queued run ends |
| publication | seven files and directories per release, a rollback, and a recovery command beside a live server | a record has its artifacts; a correction is bound to what it corrects; a reported revocation stays |
| findings | receipt, row and graph are separate stores; a loser of the row takes its receipt back; views project older rows | a report rests on one chain of receipts by distinct people; row and receipts agree; the graph is never ahead and recovers |
| campaigns | every command reads first and replaces rows later without a revision; a direct label or decision tests the case long before it writes; a decision and its attestation are in two databases | nobody fills two roles; a released label rests on what the assigned people decided and attested |
| engineering loop | the tree changes under the gates; commands save stale manifests; evidence is never replaced | roles stay separate; all gates name one diff, and what a gate checks holds of it unless it was edited under that gate; a reached limit stops the loop |

### Not modelled

Every other component is listed in `PROJECT.json` with its reason. They are of four kinds.

* *The patterns that are modelled, once more*: the mobile worker spools and the source hunt jobs (`WorkerSpool`), the
  other assessment graphs (`Remediation`, `AssessmentRun`), the verification ledger and the oracle's sessions
  (`ApprovalStore`), the creation of an assessment and its inline confirmation (before `AssessmentRun` starts). Each
  would be a variant of an existing module; the source hunt jobs, whose recovery queues a job again instead of
  rejecting it, differ most.
* *Single-transaction or append-only records*: authorization, evidence, activity streams, knowledge. The unattended
  runner keeps job files without any comparison of revisions, so that every overlap loses an update and no property
  deeper than a guard holds.
* *One process, no shared state*: backup and restore (a crash between two of its replacements leaves databases of two
  generations, which no code repairs), provider failover, the HTTP scanner's budget.
* *Pure functions, numerical code and I/O*: parsers, adapters, static analysis, machine learning, providers,
  rendering and command lines, which are most of the program's lines.

Inside the modelled components, what is left out is named at the head of each module and in the `note` of each
component.

## 2. Modules

| module | models | extended by |
|---|---|---|
| `TaskGraph` | the task graph store | `MCTaskGraph`, `GraphProofs` |
| `ExclusiveLease` | abstract: what the leases promise to workers, without files, clocks or stale calls | `TaskGraph` instantiates it under a refinement mapping |
| `GraphProofs` | theorems about the task graph (first part; also that it implements `ExclusiveLease`) and about `Remediation`, which projects onto one (second part) | |
| `AgentController` | the agent runtime with its store | `MCAgentController`, `AgentControllerProofs` |
| `WorkerSpool` | spool, worker loop and stop request at file-system granularity | `MCWorkerSpool`, `WorkerSpoolProofs` |
| `ExecutionStore` | execution record and ledger, the pilot harness that drives them | `MCExecutionStore`, `ExecutionStoreProofs` |
| `ExecutionLifecycle` | abstract: which states of an execution are decided on, when its scanner runs, and what may be shown of it, without files, ledger, loaded records or recoveries | `ExecutionStore` instantiates it under a refinement mapping |
| `ApprovalStore` | approval decisions and uses | `MCApprovalStore`, `ApprovalStoreProofs` |
| `AssessmentRun` | the composition: decision, stop and worker over approval, graph, task and spool | `MCAssessmentRun`, `AssessmentRunProofs` |
| `Publication` | publication service, its file store and destination, the recovery command | `MCPublication`, `GovernanceProofs` |
| `Remediation` | the composition: the finding's row, its receipts and the remediation's graph under web requests and page views | `MCRemediation`, `GraphProofs` |
| `Campaign` | a campaign over the governance and the scan database, with accounts and authorizations | `MCCampaign`, `GovernanceProofs` |
| `EngineeringLoop` | the engineering loop's commands over its files and the working tree | `MCEngineeringLoop`, `EngineeringLoopProofs` |
| `GovernanceProofs` | theorems about `Publication` (first part) and `Campaign` (second part) | |
| `AgentControllerProofs`, `WorkerSpoolProofs`, `ExecutionStoreProofs`, `ApprovalStoreProofs`, `AssessmentRunProofs`, `EngineeringLoopProofs` | theorems about the module each is named after | |

Names follow the code: an action is named after the method it models (`AcquireLease`, `RecoverExpiredLeases`,
`Withdraw` for `cancel_pending`'s rename, `Prepare`, `Consume`), and a helper after the validator it translates
(`ValidNodeUpdate`, `ConditionsMet`, `CanSave`). Operators called `Mut...` are mutated copies of the definition that
follows them; the mutants in `PROJECT.json` substitute them to show that each property can fail. They are used
nowhere else.

### The step size of each module, and why

* **TaskGraph.** A locked section (`_locked`, an exclusive `flock`) is one step. A *call* is two: `Begin...` fixes
  what the caller chose before it waited for the lock (the instant `now`, the expected revision, the lease it
  holds), and the section applies or refuses it. `held[w]` is what a worker believes it was granted; `Crash` forgets
  it. The clock is one variable, because every process reads the same host's wall clock.
* **AgentController.** The store commits single statements, so each load, each compare-and-swap save, each audit
  event and each tool handler is a step; `run[p]` holds the command's next step and the snapshot it works on. The
  planner is a choice among the outcomes that differ for the controller (complete, pause, forbidden, allowed,
  needs approval, needs approval and carries the reference of the consumed one, error); a tool's outcome is a choice
  as well.
* **WorkerSpool.** Every rename, exclusive creation, existence test and unlink is a step. A signature or expiry
  check is the choice to refuse. The manager enqueues a job once: it is built and enqueued in the one decision on
  its approval request.
* **ExecutionStore.** The worker command and each stop request make a store object of their own, so that the
  `threading.RLock` in it holds nobody up: there is no lock in the module. Loading the record, verifying the ledger,
  the existence test of the `.part` file, its unlink, its exclusive creation, its write, the rename and the append to
  the ledger are a step each. A file remembers who created it, because a call writes through its descriptor wherever
  that file is by then, and renames whatever has the name `.part`. A digest is the number of the transition that
  produced it, so that two different transitions never share one.
* **ApprovalStore.** `decide` and `consume` read the clock, wait for `BEGIN IMMEDIATE`, load, and then commit or
  roll back request and event together. Conditions are reduced to the numeric limit that is compared with the plan.
* **AssessmentRun.** A step is one call of one of the four stores, which the modules above justify; it keeps from
  each what the others can see.
* **Publication.** One file or directory operation is a step, the removal of a directory tree included (a process that
  dies inside it leaves part of a directory that no record names): nothing locks the store or the destination. A server
  is one web request at a time. Who acts is left out: those checks compare fields of signed, immutable files.
* **Remediation.** One operation of one store is a step: load, write a receipt, compare-and-swap the row, take the
  receipt back, bind the graph, and one compare-and-swap per stage the projection writes. A receipt is named by the
  call that wrote it.
* **Campaign.** A call begins with what it reads and requires; the values are kept in the call, and each later write
  of a row is a step, since every read and every write is a transaction of its own. A decision is a write to the scan
  database followed by one to the governance database. The session of a decision, an adjudication or a label, governed
  or direct, opens no transaction before its first write, so what it has read of the case may be old by then; what it
  writes is the insertion, what it computes of the rows it then finds, and the label if that is another than the one
  it loaded (the mapper writes changed attributes only).
* **EngineeringLoop.** A command loads (and collects the digest of the tree), looks at the tree again, writes its
  evidence file, then `manifest.json`, then `manifest.sha256`: each is a step, and the builder may edit the tree
  between any two. A digest is the tree, or the manifest, that it is taken of. A look at the tree is many reads: the
  listing of changed paths, the diff, the untracked files, and in `run_security_verification` the diff and the files
  again for the policy scan. If the builder edits during it (`torn`), what it finds may be true of no tree: the
  paths, the digest and the outcome of the scan are then chosen freely and independently, which covers every way the
  reads can fall between edits. The diff digest and the change fingerprint of an evaluation are one value in the model.

## 3. Runs

| run | what it asks | instance |
|---|---|---|
| `taskgraph` | leases, attempts and outcomes under stale calls and crashes; the task graph implements `ExclusiveLease` | 1 node with 2 attempts, 2 workers, 3 ticks, revisions to 4 |
| `agent` | budgets, one-shot approvals, no lost update, ends stop runs | 2 processes, 3 commands, 2 steps, 2 tool calls, 2 iterations, 2 failures, crashes |
| `spool` | one place per job, one scan per job, withdrawn means unscanned, a queued job ends | 1 job, 3 workers, 1 stop, 2 crashes; a running worker goes on, nobody starts one again |
| `spool_stranded` | (violated) a restarted worker gets past what a crash left | 1 job, 1 worker, 1 crash, a stopped worker is started again |
| `execution` | the scanner runs on record, the store implements `ExecutionLifecycle`, an execution ends | the worker command and a stop request without a common lock, two processes that die; fair |
| `approvals` | use as granted, separation of duties, a log that explains, a decision stays | 1 request, its maker and 2 checkers, expiry after 1 tick, 3 events |
| `run` | a stop reaches the scanner, a report is true, an end stays | 1 decision maker, 1 stopper, 1 worker, 2 crashes |
| `publication` | artifacts, corrections and revocations under failures, crashes and recovery | 1 server, 2 reports, 3 requests, 3 publish calls, 1 recovery, 1 crash |
| `remediation` | the chain behind a report, receipts, the graph beside the row | 2 threads, 7 calls, 1 view, 1 race or crash, 3 attempts, 4 people |
| `remediation_rework` | (violated) a finding that is sent back for rework has a way on | 1 thread, 6 calls |
| `campaign` | separation of duties, what a released label rests on | 4 people, 2 applications, 1 scan, 3 processes, 2 disturbances |
| `loop` | separate roles, one diff through all gates, hard stops | builder and 4 people, 2 processes, 4 trees, 3 iterations, 1 mishap |

### What the properties say

* `BeliefStored`, `ImplementsLeases`: as long as a worker's lease has not run out by the clock, the file still holds
  that lease and the node stays running, although recovery, other acquisitions and plain status updates run with
  older instants. The second says it as a refinement: whoever believes to own a node owns it in `ExclusiveLease`,
  where one worker owns a node at a time, only the owner moves it, and a node that ended stays. `AttemptBudget`
  holds for every mixture of operations that count attempts.
* `ApprovedOnce`: no call of an action that requires approval enters its tool before the human approval was consumed,
  whatever reference the planner writes into it, and the pending call that was approved enters it at most once, through
  racing `approve_and_resume` calls, replays and crashes. `CallBudget` and `StoredTaskAdvances` are what the compare-and-swap buys: no snapshot
  undoes what another command stored. `EndStopsTools` bounds what runs after an end by the calls already at the
  handler.
* `InOneArea`, `ScannedOnce`, `WithdrawnNeverScanned`, `JobsEnd`: the spool as a queue that loses nothing and scans
  at most once. A starting worker rejects what another one has claimed and may be scanning; that ends the job and
  never scans it again, because only the rename of `claim_next` leads to the scanner. `JobsEnd` needs no restart: it
  excuses a job when every worker has stopped or a process died.
* `ScannerRunsOnRecord`, `ImplementsLifecycle`, `ExecutionEnds`: a stop request may write back a record that is older
  than what the worker has stored since, publish the worker's file or break the ledger; the properties say what that
  cannot do. The second says it as a refinement: the states that are decided on go one stage at a time, cancelling only
  after a request, nothing ends under a running scanner, `completed` or `timed_out` is claimed only for a scanner that
  ended so, the scanner starts once and not after an end, and what the record shows was decided (but need not be
  the latest, also after the end). The third excuses the executions whose ledger or record overlapping calls have
  broken for good (`LedgerVerifies`, `Torn`; section 4).
* `UsedAsGranted`, `MakerIsNotChecker`, `LogExplainsStatus`, `DecisionStays`: see section 5.
* `StoppedIsMarked`: once a stop has reported success, the job has ended or a marker waits for the worker; in
  particular a decision that enqueues *after* the stop looked for the job is covered by the marker. `ReportIsTrue` and `EndOfRunStays` relate the four stores at every step.
* `RecordHasArtifacts`, `CorrectionBound`: a publication on record has its artifacts at every step of publishing, of
  the rollback in reverse order and of recovery; a correction names publications on record, the one that it was
  requested for. `RevocationStays`: what was reported as revoked keeps the record and the notice that says so,
  although recovery repairs notices from what it read earlier.
* `ReportIsEarned`: each call checks the step before its own; the property is about the whole chain: one fixed
  revision, a fix verified as fixed, a passed retest of it, an approval of that retest, by people who took one part
  each. `ReceiptsMatch`: the clean-up of a call that lost the race takes its own receipt and no other.
  `GraphNeverAhead`, `RacesSettle`: projections of older rows never show more than the row has, and whatever order
  they run in, the next projection succeeds (unless a process died, the attempts are spent or the plan was
  cancelled).
* `DutiesAreSeparate`, `ReleaseIsReviewed`: what is attested was decided by the person assigned for it, creator and
  owner take no part in reviews, and a released label rests on two decisions of the assigned people that agree, or on
  their adjudication, all attested; they stay the first two of the case although direct decisions that looked before
  them land later. Two things that the code does are excepted by history variables: a scan that is assigned between
  the gate of the release and its listing (`unassessed`; it takes a completed campaign that a delayed activation has
  reopened) is released with the label it happens to have, and a direct label that had looked at the case before its
  first decision and lands after it (`mislabelled`) is released in place of the outcome. The run reaches the second;
  for the first it has too few scans, and the theorem covers it.
* `RolesAreSeparate`: whichever stale manifest is saved last, it names nobody for two roles. `GatesAgree`: without
  overlapping commands, all gates behind a loop name one diff, although the builder may edit the tree at any moment;
  it is changed and inside its boundary unless the tree was edited while the evaluation read it, and clean for the
  policy unless it was edited while the security verification read it. Edits between the gates, or under the review,
  the approval or the evaluation, get no forbidden tree past the policy. `StopsInTime` reads the limits off the evidence files, not
  off the manifest's counters: a limit that the files show as reached has stopped the loop.

### Bounds, and why they are enough

* One node: the store treats nodes alike, and what they share (revision and `updated`) is there with one. Two
  workers are an owner and a rival; three ticks let a lease of one tick run out and a new one be granted, renewed
  and run out; four revisions cover acquire, renew or recover, acquire, end. `MaxTime` and `MaxRevision` only
  disable the clock and new calls; calls under way still finish.
* Three commands on two processes: a run that waits for approval, the approval that resumes it, and a third command
  that races with either. `MaxIterations`, `MaxSteps` and `MaxToolCalls` of two let the limit be hit in the middle
  of a run.
* Three workers on one job: one that claimed it, one that starts and rejects it under its hands, one that does the
  same to the second. Two crashes let a recovery itself be interrupted. `JobsEnd` excuses runs in which a process
  died: `spool_stranded` shows why.
* One stop request beside the worker in `execution`, overlapping any of its steps: a request's two writes (the flag, and
  the transition to cancelling) already overtake each other with the worker's. Two crashes: one in the worker or the
  request, and one in the recovery of that. Two requests are out of TLC's reach; the theorems hold for any number.
* One decision at a time in `AssessmentRun`: `decide` admits only open requests, and the projections of two decisions
  of the same request (more information, then an approval) are covered one after the other. One stop and one worker
  are what the deployment runs.
* `MaxEvents` bounds how often an approver may ask for more information.
* Three publish calls of three requests over two reports: a first publication, its correction, and a correction of
  that or a rival. One crash, at any step, and one recovery, which may run beside the server or after the crash. One
  server: two servers break the properties (section 4).
* Seven calls take a finding from its plan to a report with one call to spare for a repeated one (a retest that is
  cancelled and asked for again would need eight, and one revision and few rounds leave the mixing of rounds and
  revisions to the theorem `ReportsAreEarned`, which bounds no number of calls);
  `MaxFaults` lets one call or view overlap another, or one process die. The graph allows ten attempts per stage (one
  for the report); three let a stage be reworked twice and its limit be hit.
* A campaign of two applications with one scan reaches release in one run, with two decisions that agree or are
  adjudicated. Cases do not interact, and the limit of scans per application is no part of a property. Three processes
  allow two calls that looked early beside the governed one. `MaxDisturbances` allows two of: a governed call begun
  during another, a lost call, a label, decision or adjudication given directly, an account or authorization that ends.
* Three iterations and limits of three failures, two repeated and one stalled let a repeated failure and a repeated
  tree each stop the loop alone; three failures coincide with the last iteration. One mishap is a crash, an overlap or
  a torn reading; after it the loop is followed to the end of its second evaluation (`Followed`), which keeps the run
  at some 540,000 states and cuts off most of what an overlap can lead to. `RolesAreSeparate`, `GatesAgree` and `StopsInTime` are proved without any of these bounds,
  so what the run leaves out rests on the theorems; the last two are not about loops with an overlap.

Symmetry is used for workers, processes, people of equal standing and checkers in safety runs only, never with a
liveness property. `CHECK_DEADLOCK FALSE` is set where a bounded clock, a bounded number of calls or a finished
execution lets the system stop; the other runs are checked for deadlock.

### Fairness

* `WorkerSpool`: weak fairness of each worker's steps: a running process keeps running. Nothing starts a worker
  (`deploy/scanner-worker/compose.yaml` says `restart: "no"`), and stop requests and crashes need not happen. Only
  `spool_stranded` adds that stopped workers are started again (`RestartSpec`), because the claim it refutes is about
  a restart.
* `ExecutionStore`: weak fairness of the worker's steps, of its restart and of a stop request that has begun. The restart
  is what recovery is for (`docs/product/SCANNER_ARCHITECTURE.md` speaks of executions found after a restart); no
  restart policy does it, so `ExecutionEnds` says what an operator gets who starts the worker again.

No strong fairness is used. `spool_stranded` is not violated by starving anyone: in its counterexample the worker is
restarted over and over, and its recovery raises each time. The other modules have safety properties only: people
decide there whether anything goes on.

## 4. Where the code departs from what is written about it

Two runs end in a counterexample that a document contradicts; `PROJECT.json` quotes the documents.

* `spool_stranded`. `finish` writes the receipt before it moves the job file. A worker that dies between the two
  cannot be restarted past that job: recovery's own receipt collides with the first one and the command exits, each
  time.
* `remediation_rework`. A retest that did not pass, or a review that asks for changes, sends the finding back for
  rework into a state that neither the fix verification nor the cancellation accepts, and a plan is never replaced:
  no further call is accepted, although the pages say that rework is required.

<a id="known-departures"></a>
**Known departures that no run keeps.** They were met while modelling and can be read off the definitions.

Task graph, agent, approvals:

* `RecoverExpiredLeases` sends a node whose worker died on its last attempt back to `ready`; it can never run again
  and has no other way on.
* `UpdateStatus` and `CanAcquire` do not look at a node's dependencies; only the query `ready_nodes` does.
* The loop of `AgentController` reloads the task at the top of each iteration, where it looks for an end and the
  deadline and not for a pause: a pause stored between two iterations is overrun.
* `Execute` enters a tool without a further look at the store after `Advance` has saved the step: an end stored in
  that window comes too late for that one call (`EndStopsTools` is the bound that does hold).
* The planner reads `consumed_approval_sha256` in the task's memory, where it stays, and may write it into
  `ToolCall.approval_reference`: `Policy` then allows a further call of the approved action, tool and operation
  (`"echoed"`), as often as the budgets permit. `ApprovedOnce` bounds the replay of the pending call only; the test
  `test_planner_supplied_approval_reference_cannot_authorize_execution` tries a forged reference, not this one.
* Conditions given together with `approve_once` are stored and not evaluated when the approval is consumed.

Spool, execution, run:

* `Withdraw` finds the job gone and raises before a marker is written (`StopError`): that stop has no effect.
* `FinishReceipt` followed by a crash leaves a completed receipt, to which recovery adds a rejected one.
* A job that raises (a bad signature, an expired deadline, a receipt that is there) ends the worker command also with
  `--watch`; what is pending behind it waits until somebody starts a worker.
* The start-up recovery of a second worker drops the cancellation marker of a job that another worker is scanning
  (`FinishUnlink` with `next = "recover"`): its checkpoints then see no request.
* `enqueue` looks for the same file in `pending/` only, and `prepare` refuses the same execution identifier only,
  which every build draws anew: a job that were enqueued a second time would be scanned again. The one decision on
  its approval request is what prevents it.
* A stop request that loaded the record before the worker's last transition writes the older record over a terminal one
  (`RequestCancellation`, `Publish`), although `docs/intelligence/MILESTONE_31_CONTROLLED_NUCLEI_EXECUTION_HARNESS.md` says that
  invalid transitions are rejected: the record then shows an execution as unfinished that has ended, and the next start of
  the worker decides on another end. In the same way a transition of the worker takes the cancellation flag back.
* Two calls share the name of the `.part` file. One publishes the file that the other has just created or written, and
  the other then fails at its own rename: its state is in the record and its event is never appended.
* Two transitions that were decided on the same record break the hash chain; so does a crash between `Publish` and
  `AppendEvent`. From then on `list_events` refuses the ledger and every transition raises, the recovery's too: if that
  record is unfinished, the worker command can never be started again. The same holds for a record that a process
  published while the process that created the file had not written it yet, and then died (`Torn`).
* A job that `load_claimed` refuses, that recovery rejects, or that is finished before the decision's last save leaves
  its task queued and running for ever.
* `Enqueue` may fail after `Build` has set the queued job: `DecidedStatus` then reports the run as queued.
* `Approves` is a prefix test: a request for more information is projected as a denial (`ApprovalCancelled`), and an
  approval with conditions is queued at once without `consume` or any evaluation of the conditions.
* Nothing moves the execution stage of the website graph on when the scan has ended.

Publication:

* `publish` looks at its approval only. When the publication that it corrects is revoked or corrected between approval
  and publishing, the result is superseded and revoked at once; two first requests that are both approved give two
  current publications. The recovery command's own audit then fails: `AuditHolds` in `Publication`, which no run
  checks.
* A crash between moving the artifacts and signing the record leaves a directory without a record; one between the
  record of a correction and its link leaves two current publications.
* When recovery writes the notice between `revoke`'s record and its notice, `revoke` rolls its record back and the
  notice stays.
* Two servers may both pass the existence test of one file, and a publish that finds its destination taken deletes
  it. The run therefore has one server.
* Within the findings lifecycle a second report, and so a correction, is not reachable.

Findings:

* `web/remediation_views.py` offers verification and cancellation in `review_needs_rework`, where neither is accepted.
* A cancelled plan with a verification in its history is refused by every further projection, and the page that shows
  it fails; a finding whose plan was cancelled is never planned again.
* A process that dies while the review or the report stage is running, or between the plan's save and the creation of
  its graph, leaves a finding whose graph cannot follow.
* Each page view in `review_needs_rework` uses up an attempt of the review stage.
* `update_verification` and `append_retest` compare nothing; a plan's expiry is not enforced; two equal calls within a
  microsecond share a receipt; the report's handler does not catch `ValueError` and `OSError`.

Campaigns:

* `replace_campaign` and `replace_identity` compare no revision: a stale `activate_campaign` turns a completed
  campaign back to active, a stale approval replaces the approved applications, and a revocation is overwritten by a
  stale disabling or reactivation. When the stale activation falls between the gate of a release and its listing, an
  observation that is linked, assigned and labelled directly in between is released without any review.
* `label_observation` tests for decisions and writes its label without a transaction over both. A label that tested
  before the first decision lands after two attested decisions that agree, and is released instead of their outcome.
* `submit_review_decision` tests its case in the same way: a decision that tested early becomes a third one, unattested
  and after the consensus, the adjudication or the release. The first two stay what they are, but the state of a case
  without adjudication (which counts exactly two) is then not final, and an adjudicated label is put back to
  `needs_review`, which fails a later release.
* Two overlapping `link_scan` calls exceed `maximum_scans_per_application`; a scan linked during a release is listed
  although it was never assessed; an application registered from a draft that has been activated meanwhile is written
  and released without an approval.
* A crash between a decision and its attestation leaves a case that can never be attested, and a campaign that can
  never be completed. Three racing decisions make a case that is never final.

Engineering loop:

* An evaluation that overlaps a review or an approval lets the loop complete on a diff whose evaluation failed or
  that the security policy never saw: review, approval and learning use the latest evaluation and look neither at its
  iteration nor at its outcome.
* A stale save overwrites an escalation or a completion.
* The digest is taken after the suite has run: a tree that is edited between the two is accepted untested.
* `run_security_verification` takes the digest first and reads the diff and the files again for the policy
  (`evaluator.py:296` and 314-337). A tree that is edited in between and edited back passes under a digest whose tree
  the policy never saw; so may a tree whose paths were listed at another moment than its diff was taken. `GatesAgree`
  marks these records as torn and claims of them only that their digests agree.
* A crash after an evidence file leaves the loop with "Evidence already exists" for this iteration, and escalation as
  the only way on; a crash, or interleaved saves, between `manifest.json` and `manifest.sha256` leaves a loop that no
  command can load.

## 5. Proofs

All proofs follow the same argument: an invariant stronger than the properties is shown to hold initially and to be
kept by every step (one lemma per action), and each theorem follows from it. The instances above only show the
properties for their sizes; the theorems hold for every value of the constants that satisfies the module's
assumptions, the bounds included.

**GraphProofs, task graph** (assumption `TaskGraphAssumption`: budgets and lease lifetimes are positive, no node starts out
running, `None` is not a value of the data types).
`IInv == TypeOK /\ AttemptBudget /\ BeliefStored /\ CallAboutHeld`.

* That no two workers hold a node is not inductive: nothing in it prevents a recovery with an old instant from taking
  a lease away. `BeliefStored` does, because an instant in a call is never ahead of the clock (part of `TypeOK`) and
  a lease that has not expired by the clock has not expired by an older instant either.
* `CallAboutHeld` says that a renewal or release under way is about the lease its caller was granted; without it a
  release could end another worker's lease.
* Theorems: `TypeCorrect`, `BeliefsAreStored`, `LeaseExclusive`, `HolderKeeps`, `BudgetKept`, `TerminalKept`.

The second part shows that the task graph implements `ExclusiveLease`. The mapping takes as owners of a node those who believe to hold it (`Owners`) and forgets which of its statuses an open or ended node has
(`NodePhase`).

* `OwnerStored` and `OneOwner` turn `BeliefStored` into a fact about owners: an owner's lease is in the file and the
  node runs.
* `ChangeStep` and `QuietStep` say once what a step needs to map to `Change` or to a stutter; `LapseStep` covers
  everything that only ends beliefs (the clock, crashes). `AcquireStep`, `RenewStep` and `ReleaseStep` treat the three
  calls whose answer reaches the worker; each may be admitted with an old instant or refused.
* Theorem: `LeasesImplemented`, the property `ImplementsLeases` of the run `taskgraph`.

**ApprovalStoreProofs** (assumption `ApprovalAssumption`: limits and budgets are naturals, `None` is none of the
values it is compared with).
`IInv` is the conjunction of the invariants of the `approvals` run with `Logged` (no log is empty) and
`LoadedIsStored`: a call that has loaded its request holds the write lock, and what it loaded is what is stored.

* `LoadedIsStored` is what `BEGIN IMMEDIATE` buys, and everything else rests on it: a decision taken on the loaded
  request is a decision on the stored one, so a consumed request is never consumed again and a decided one is never
  decided again. With a deferred transaction it fails, and so does `UsedAsGranted` (the mutant `MutMayLock`).
* `AdmittedOK` states the effect of any admitted transaction once; `ExpireOK`, `DecideOK` and `ConsumeOK` show that
  what each operation writes meets its assumptions.
* Theorems: `TypeCorrect`, `AsGranted` (`UsedAsGranted`), `SeparationOfDuties` (`MakerIsNotChecker`), `LogExplains`
  (`LogExplainsStatus`), `DecisionIsFinal` (`DecisionStays`).

**EngineeringLoopProofs** (assumptions `PeopleAssumption`, `TreeAssumption`, `ControlsAssumption`: the builder is a
person, the baseline is neither stray nor unsafe, the limits are positive; `NoneAssumption` keeps `None` apart from the
records it is compared with).

* `IInv == RolesAreSeparate /\ Fresh(manifest) /\ CopyOK` of every command's copy. A command checks its own actor
  against the earlier roles of its copy and never against the later ones; that is enough because the later roles are
  empty in every state that admits the command (`Fresh`), also in copies that no file holds yet (`CopyOK`): a stale
  save replaces the manifest as a whole. Theorem: `RolesStaySeparate`, whatever commands overlap.
* `GInv` says, for loops without overlapping commands, what stands behind a manifest (`Standing`), which records are
  sound, and how far the one command under way has got (`GoingThrough`): the digest it compares with is that of
  the evaluation on file, what its gate checks holds of that tree or its reading is torn, and its new record is not yet, or already, in its place, also after a crash between the two.
  Theorem: `OneDiffThroughTheGates` (`GatesAgree`).
* `SInv` ties the manifest's counters to the evidence files: `Counts` says that each counter is at least the length of
  the run of files that it stands for, `Halts` that a counter at its limit has stopped the loop, and `Following` says
  both of the copy of the command under way. The lemma `OneMore` carries the counting over one more evaluation, so
  that no induction over the files is needed. Theorem: `StopsAtItsLimits` (`StopsInTime`).

**AgentControllerProofs** (assumption `AgentAssumption`: a finite, non-empty set of processes, positive limits on
failures and iterations).

* `StoredTaskAdvances` rests on `CommandOK`: a snapshot that has the stored revision *is* the stored task, so that a
  save that the compare-and-swap admits changes what is stored and nothing older.
* `ApprovedOnce` is not inductive: nothing in it says where the approval is before its call is made. `OneToken` does:
  unused, or with the one command that consumed it, or in the stored task, or replayed by one command, or spent.
  `Backed` says that no stored memory and no snapshot knows of a consumed approval before there is one, which is what
  the policy compares the planner's reference with.
* `EndStopsTools` counts: `LateBound` adds the processes that are about to enter a tool to those that entered it late;
  ending the task takes one process out of them for good. This uses the library's facts about finite sets.
* Theorems: `TypeCorrect`, `ApprovalBuysOneReplay` (`ApprovedOnce`), `CallsWithinBudget` (`CallBudget`), `EndStops`
  (`EndStopsTools`), `StoredTaskKept` (`StoredTaskAdvances`).

**WorkerSpoolProofs** (assumption `SpoolAssumption`: the bounds are naturals, `NoJob` is no job). `IInv` says per job
where it may be (`Delivered`) and who may start its scanner (`Owned`).

* `Owned` is what the rename of `claim_next` buys: the worker between its claim and its last check is the only one
  (`MayScan`), and the scanner has not been started before. A recovering worker holds the job too, and may only end
  it.
* `Delivered` says of an enqueued job that it is in one area, that no worker has come across it while it is
  pending, and that none ever will after a withdrawal: without the last, a withdrawn job in a worker's list of jobs
  to recover could still be scanned.
* Theorems: `TypeCorrect`, `ScansOnce`, `WithdrawnStaysUnscanned`, `JobsInOneArea`.

**ExecutionStoreProofs** (assumptions `ExecutionAssumption`: the worker is no request; `NoneAssumption`: `None` is none of
the values it is compared with). The theorems hold for any number of stop requests and of processes that die, with no
lock between them.

* Nothing is known of the record that a call has loaded once it goes on, so nothing rests on it. `Holds` and `FrameOK`
  say that no file and no call holds a state that was not decided on; `RequestOK`, that a stop request decides on
  nothing but the cancellation.
* `WorkerOK` and `WorkerCall` say that the worker's place alone tells how far the execution has got: it never goes
  back, what it decides depends on where it is, and the record can only refuse it. So an end is decided on only by a
  call that the worker leaves with that end (or without going on), and the scanner runs only where the worker waits for it.
* The mapping to `ExecutionLifecycle` takes the state from the record (`Standing`) and the request from the calls
  (`Asked`). `VerifyMaps` shows that a transition is one that the lifecycle admits at the moment it is decided on, and
  `ShowMaps` that every later write only shows something that was decided.
* Theorems: `TypeCorrect`, `ScanIsOnRecord` (`ScannerRunsOnRecord`), `LifecycleImplemented` (`ImplementsLifecycle`).

**AssessmentRunProofs** (assumption `RunAssumption`). `IInv` has one part per actor and one for the stores.

* A decision or a stop works on a task and a graph that it loaded: `TaskSnapshot` and `GraphSnapshot` say that these
  were current once and are the stored ones if the revision still is. So what was decided on them stays decided.
* `Sealed` (a marker, or an ended job) is claimed of a stop as soon as it has marked or withdrawn, long before it
  reports success; that is why a decision that enqueues in between does not matter.
* Theorems: `TypeCorrect`, `StopIsMarked` (`StoppedIsMarked`), `ReportsAreTrue` (`ReportIsTrue`), `EndStays`
  (`EndOfRunStays`).

**GovernanceProofs, publication** (assumption `PublicationAssumption`). The types hold for any number of servers; the other theorems
have the hypothesis `OneServer`, because they are false with two (section 4). The recovery command runs beside that
server, and processes die, without any bound.

* `Fresh`: nobody revokes or corrects a publication before its publish call has ended, since nobody knows it. So a
  rollback takes nothing away that another record names. `Known` and `ServerOK` say what the store looks like at each
  step of a web request.
* Theorems: `TypeCorrect`, `ArtifactsStay` (`RecordHasArtifacts`), `CorrectionsBound` (`CorrectionBound`),
  `RevocationsStay` (`RevocationStays`).

**GovernanceProofs, campaigns** (assumptions `CampaignAssumption`: who acts is a person, the creator is an
administrator, every scan has its application, and the minima and bounds are naturals; `NullAssumption`: `Null` is
none of the values it is compared with; no outcome is called
`needs_review`). `CampaignInv` has one part for what the two databases
hold and one, `CallOK`, for what every command under way has read and still holds when it writes.

* Rows of a campaign are replaced without any comparison, so a command that has read one may be arbitrarily late.
  What carries the proof is that the rest only grows (`Growth`, with `Later` for cases): an assignment, once made,
  stays, a decision stays where it is in its case, an attestation stays. So what `CallOK` says of a late command is
  still true when it writes. Governed and direct calls are proved together; `attests` tells them apart.
* A case has no state that direct calls cannot disturb. What they cannot disturb are its first two decisions and its
  adjudication, so `Vouched` (these are attested) is kept by every step (`VouchedStays`).
* The label follows the decisions (`LabelOK`, `Deserved`) unless a late direct label came in: a decision writes what it
  computes because the label its session loaded is no outcome (`LoadedOK`).
* `Earned` ties an attestation to the decision it is of; a decision that was given directly may be attested by nobody
  else than its maker.
* `ReleaseIsReviewed` is not inductive: it says nothing before the release is there. `Settled` says what the gate of
  `release_dataset` leaves (every assigned observation is `Vouched`, or `unassessed`) and that it stays so until
  the listing, although reviews, direct labels and assignments go on; `Reviewed` says it of the listing in hand and of
  the release.
* Theorems: `DutiesStaySeparate` (`DutiesAreSeparate`), `ReleasedIsReviewed` (`ReleaseIsReviewed`).

**GraphProofs, remediation** (assumptions `RemediationAssumption`: the bounds are naturals, a stage has at least one
attempt; `NullAssumption`: `Null` is no number, no state and no graph). `RemediationInv` says of the row that it is
one the validators accept and that its report is earned (`RowOK`), of every call what it carries, and of the graph that
it shows nothing the row does not have (`Shows`).

* A call loads the row and saves one made of it much later. `SaveOK` says what its guard allowed *if the row is still
  the one it loaded* (`Proposed`): exactly what the compare-and-swap gives back at the save. One lemma per call shows
  that a proposal of a sound row is a sound row.
* `ReportIsEarned` rests on the state of the row: `RowOK` says that a row awaiting review has a passed retest of its
  last, fixed fix (`Chained`, `Passed`), and that an approved one has a reviewer of their own (`Independent`).
* `ReceiptsMatch`: no two calls carry the same receipt and no row refers to it before it is saved (`ReceiptOK`), so
  that taking it back takes nothing else. Counting the strays uses the library's facts about finite sets.
* `GraphNeverAhead`: the rows that a projection works with only grow (`Grows`), so that every write that its own,
  older row supports (`GoodWrites`) is still supported when it reaches the graph.
* Theorems: `ReportsAreEarned` (`ReportIsEarned`), `ReceiptsAreKept` (`ReceiptsMatch`), `ProjectionsFollow`
  (`GraphNeverAhead`).

Only model-checked: `RacesSettle`, which runs a whole projection, a fold over the row's histories with an operator as
its parameter, and so would need induction over data; and every liveness property (`JobsEnd`, `ExecutionEnds`, and the
violated `StrandedFailClosed`), because fairness and ENABLED are out of the proof system's reach.

To check a module: `tlc -config <run>.cfg <MC module>`; to check a proof: `tlapm <module>`.

## 6. Plan

Done, in the order of importance to a governed run: task graph with its proofs and the refinement, agent runtime,
worker spool, execution store, approval store with its proofs, the run over all of them; then the governed lifecycles:
publication, findings, campaigns, the engineering loop with its proofs.

Every invariant and action property that a run checks is proved, except `RacesSettle`.

Next, proofs: what `WorkerSpool` promises as an abstract specification, and that it implements it.

Next, modules: source hunt jobs and mobile spools as variants of `WorkerSpool`; overlapping decisions and the creation
of a run in `AssessmentRun`; grant, expiry and revocation of authorizations against the checks at planning and at
execution; backup and restore.
