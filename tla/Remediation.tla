---------------------------- MODULE Remediation ----------------------------
(***************************************************************************)
(* The governed remediation of one finding (vulnhunter/findings/,          *)
(* reports/final_remediation.py, assessment_graph/remediation.py and the   *)
(* web views that drive them): plan, fix verification, retest, independent *)
(* review and final report.                                                *)
(*                                                                         *)
(* Three stores take part and no transaction spans two of them: the        *)
(* finding's row, saved by compare-and-swap on its revision; one file (for *)
(* the report a directory) per receipt; and the remediation's task graph,  *)
(* whose updates are compare-and-swap on the graph's own revision.  A step *)
(* is one operation of one store.  A call loads the row, writes its        *)
(* receipt, saves the row, takes the receipt back if that fails, and       *)
(* projects the row it saved onto the graph.                               *)
(*                                                                         *)
(* Left out: instants (two calls never make the same receipt), expiry,     *)
(* evidence other than receipts, the retest's own graph, and the chat      *)
(* workspace, which only matters when binding it fails.                    *)
(***************************************************************************)
EXTENDS Naturals, Sequences, FiniteSets, SequencesExt

CONSTANTS Procs,       \* web server threads
          Developers, Operators, Reviewers, Writers, \* who may take which part
          Revisions,   \* source revisions that a fix may be verified at
          MaxCalls,    \* bound: calls that change the finding
          MaxViews,    \* bound: page views, each of which projects
          MaxFaults,   \* bound: calls and views that begin while others run,
                       \* and processes that die
          MaxAttempts, \* maximum_attempts of the graph's stages
          Null

ASSUME RemediationAssumption ==
    /\ {MaxCalls, MaxViews, MaxFaults} \subseteq Nat
    /\ MaxAttempts \in Nat \ {0}

VARIABLES finding,  \* the row
          receipts, \* receipt files, named by the call that wrote them
          stageGraph, \* the remediation's task graph, Null before it is bound
          run,      \* run[p]: the call that p executes
          calls, views, races, crashes

bounds == <<calls, views, races, crashes>>
remediationVars == <<finding, receipts, stageGraph, run, bounds>>

Stages == <<"execution", "evidence", "verification", "review", "report">>
Terminal == {"completed", "cancelled"}

Idle == [pc |-> "idle", old |-> Null, new |-> Null, receipt |-> Null,
         after |-> "end", todo |-> <<>>, writes |-> <<>>, rev |-> 0]

At(p, pc) == run[p].pc = pc
Become(p, r) == run' = [run EXCEPT ![p] = r]
Finish(p) == Become(p, Idle)

-----------------------------------------------------------------------------
(***************************************************************************)
(* The row and its validators.  plan is the identifier of the governed     *)
(* plan; the k-th retest result belongs to the k-th retest plan.  A        *)
(* reference is kept with what its receipt says.                           *)
(***************************************************************************)
NewFinding == [revision |-> 0, verified |-> TRUE, status |-> "open",
               plan |-> Null, state |-> Null, owner |-> Null,
               fixes |-> <<>>, plans |-> <<>>, results |-> <<>>,
               reviews |-> <<>>, reports |-> <<>>]

Active(f) == Len(f.plans) > Len(f.results)
LastFixed(f) == f.fixes # <<>> /\ Last(f.fixes).verdict = "fixed"
LastRetest(f, outcomes) ==
    /\ f.fixes # <<>> /\ f.results # <<>>
    /\ Last(f.results).outcome \in outcomes
    /\ Last(f.results).fixed = Last(f.fixes).fixed
LastReview(f, outcome) ==
    /\ LastRetest(f, {"passed"}) /\ f.reviews # <<>>
    /\ Last(f.reviews).outcome = outcome
    /\ Last(f.reviews).fixed = Last(f.fixes).fixed
    /\ Last(f.reviews).retest = Last(f.results).id

\* validate_governed_record: the histories that a plan's state calls for.
ValidState(f) ==
    CASE f.state = "ready_for_implementation" -> f.fixes = <<>> /\ f.results = <<>>
      [] f.state = "needs_rework" -> f.fixes # <<>> /\ ~ LastFixed(f)
      [] f.state = "ready_for_retest" -> LastFixed(f) /\ ~ LastRetest(f, {"passed", "failed"})
      [] f.state = "retest_needs_rework" -> LastRetest(f, {"failed"})
      [] f.state = "awaiting_review" ->
            /\ LastFixed(f) /\ LastRetest(f, {"passed"})
            /\ f.reviews # <<>> => Last(f.reviews).retest # Last(f.results).id
      [] f.state = "review_needs_rework" -> LastReview(f, "changes_requested")
      [] f.state = "review_approved" -> LastReview(f, "approved") /\ f.reports = <<>>
      [] f.state = "report_generated" ->
            /\ LastReview(f, "approved") /\ f.reports # <<>>
            /\ Last(f.reports).fixed = Last(f.fixes).fixed
            /\ Last(f.reports).review = Last(f.reviews).id
      [] OTHER -> TRUE

\* validate_lifecycle: the plan's state that a finding's status calls for.
ValidStatus(f) ==
    CASE f.status = "in_remediation" ->
            f.state \in {"ready_for_implementation", "needs_rework",
                         "retest_needs_rework", "review_needs_rework"}
      [] f.status = "ready_for_retest" -> f.state = "ready_for_retest" /\ ~ Active(f)
      [] f.status = "retesting" -> f.state = "ready_for_retest" /\ Active(f)
      [] f.status = "awaiting_review" -> f.state = "awaiting_review" /\ ~ Active(f)
      [] f.status = "ready_for_report" -> f.state = "review_approved"
      [] f.status = "report_generated" -> f.state = "report_generated"
      [] OTHER -> TRUE

Valid(f) == ValidState(f) /\ ValidStatus(f)
            /\ Len(f.plans) <= Len(f.results) + 1

\* validate_update_from: histories only grow, a plan is neither replaced nor
\* changed once it was cancelled.
ValidSuccessor(new, old) ==
    /\ new.revision = old.revision + 1
    /\ IsPrefix(old.plans, new.plans) /\ IsPrefix(old.results, new.results)
    /\ old.plan # Null =>
          /\ new.plan = old.plan
          /\ IsPrefix(old.fixes, new.fixes) /\ IsPrefix(old.reviews, new.reviews)
          /\ IsPrefix(old.reports, new.reports)
    /\ old.state = "cancelled" => new.state = "cancelled"

-----------------------------------------------------------------------------
(***************************************************************************)
(* The calls: what each requires of the row it loads and what it makes of  *)
(* it.  id names the call's receipt.                                       *)
(***************************************************************************)
Next1(f) == [f EXCEPT !.revision = @ + 1]

MayStart(f) ==
    f.verified /\ f.status \in {"open", "triaged"} /\ f.state # "ready_for_implementation"
Started(f, owner) ==
    [Next1(f) EXCEPT !.status = "in_remediation", !.plan = f.revision, !.owner = owner,
                     !.state = "ready_for_implementation",
                     !.fixes = <<>>, !.reviews = <<>>, !.reports = <<>>]

\* RemediationFixVerificationService.record, which accepts fewer states than
\* FindingService.record_fix_verification.
MayVerifyFix(f) ==
    /\ f.verified /\ f.status = "in_remediation"
    /\ f.state \in {"ready_for_implementation", "needs_rework"}
FixVerified(f, id, builder, verdict, fixed) ==
    [Next1(f) EXCEPT
        !.status = IF verdict = "fixed" THEN "ready_for_retest" ELSE "in_remediation",
        !.state = IF verdict = "fixed" THEN "ready_for_retest" ELSE "needs_rework",
        !.fixes = Append(@, [id |-> id, builder |-> builder, verdict |-> verdict,
                             fixed |-> fixed])]

MayStartRetest(f) ==
    /\ f.verified /\ f.status = "ready_for_retest" /\ f.state = "ready_for_retest"
    /\ LastFixed(f) /\ ~ Active(f)
RetestStarted(f, operator) ==
    [Next1(f) EXCEPT
        !.status = "retesting",
        !.plans = Append(@, [fix |-> Last(f.fixes).id, fixed |-> Last(f.fixes).fixed,
                             operator |-> operator])]

MayRecordRetest(f) ==
    f.status = "retesting" /\ f.state = "ready_for_retest" /\ Active(f)
AfterRetest == [passed    |-> <<"awaiting_review", "awaiting_review">>,
                cancelled |-> <<"ready_for_retest", "ready_for_retest">>,
                failed    |-> <<"in_remediation", "retest_needs_rework">>]
RetestRecorded(f, id, outcome) ==
    [Next1(f) EXCEPT
        !.status = AfterRetest[outcome][1], !.state = AfterRetest[outcome][2],
        !.results = Append(@, [id |-> id, outcome |-> outcome,
                               fixed |-> Last(f.plans).fixed])]

\* Mutant: the operator of the retest may review it.
MutMayReview(f, reviewer) ==
    /\ f.verified /\ f.status = "awaiting_review" /\ f.state = "awaiting_review"
    /\ {Last(f.fixes).id, Last(f.results).id} \subseteq receipts
    /\ reviewer \notin {f.owner, Last(f.fixes).builder}

\* The reviewer took no other part; both receipts are loaded to see who did.
MayReview(f, reviewer) ==
    /\ f.verified /\ f.status = "awaiting_review" /\ f.state = "awaiting_review"
    /\ LastFixed(f) /\ f.results # <<>> /\ Last(f.results).outcome = "passed"
    /\ {Last(f.fixes).id, Last(f.results).id} \subseteq receipts
    /\ reviewer \notin {f.owner, Last(f.fixes).builder, Last(f.plans).operator}
Reviewed(f, id, reviewer, outcome) ==
    [Next1(f) EXCEPT
        !.status = IF outcome = "approved" THEN "ready_for_report" ELSE "in_remediation",
        !.state = IF outcome = "approved" THEN "review_approved" ELSE "review_needs_rework",
        !.reviews = Append(@, [id |-> id, reviewer |-> reviewer, outcome |-> outcome,
                               fixed |-> Last(f.fixes).fixed,
                               retest |-> Last(f.results).id])]

MayReport(f, writer) ==
    /\ f.verified /\ f.status = "ready_for_report" /\ f.state = "review_approved"
    /\ LastFixed(f) /\ LastReview(f, "approved")
    /\ {Last(f.fixes).id, Last(f.results).id, Last(f.reviews).id} \subseteq receipts
    /\ writer \notin {f.owner, Last(f.fixes).builder, Last(f.plans).operator,
                      Last(f.reviews).reviewer}
Reported(f, id, writer) ==
    [Next1(f) EXCEPT
        !.status = "report_generated", !.state = "report_generated",
        !.reports = Append(@, [id |-> id, writer |-> writer,
                               fixed |-> Last(f.fixes).fixed,
                               review |-> Last(f.reviews).id])]

\* cancel_remediation also admits review_needs_rework, which the record's own
\* cancel refuses.
MayCancel(f) ==
    /\ f.status = "in_remediation"
    /\ f.state \in {"ready_for_implementation", "needs_rework"}
Cancelled(f) == [Next1(f) EXCEPT !.status = "triaged", !.state = "cancelled"]

-----------------------------------------------------------------------------
(***************************************************************************)
(* The graph and its projection.  A projection is a series of calls, each  *)
(* of which loads the graph and then writes one stage after the other with *)
(* the revision it loaded or wrote last: what it will write is settled     *)
(* when it loads.  Refuse stands for an exception.                         *)
(***************************************************************************)
NoMark == [kind |-> "none", id |-> 0]
Mark(kind, id) == [kind |-> kind, id |-> id]
Write(stage, status, mark) == [stage |-> stage, status |-> status, mark |-> mark]
Refuse == <<Write("none", "refuse", NoMark)>>

NewGraph == [rev |-> 0,
             stage |-> [s \in Range(Stages) |->
                [status |-> IF s = "execution" THEN "ready" ELSE "pending",
                 attempts |-> 0, mark |-> NoMark]]]

\* Runs a stage once more and leaves it with the given status and mark.
Attempt(g, s, status, mark) ==
    CASE g.stage[s].status \in {"pending", "ready"} ->
            <<Write(s, "running", NoMark), Write(s, status, mark)>>
      [] g.stage[s].status = "running" -> <<Write(s, status, mark)>>
      [] OTHER -> Refuse

\* The first three stages, up to the first that refuses.
Attempts(g, W(_)) ==
    LET w == [i \in 1..3 |-> W(Stages[i])]
    IN IF w[1] = Refuse THEN Refuse
       ELSE IF w[2] = Refuse THEN w[1] \o Refuse ELSE w[1] \o w[2] \o w[3]

When(condition, s) == IF condition THEN s ELSE <<>>

\* Every stage that is still open, from the first or the fourth one on.
CancelWrites(g, from, mark) ==
    LET Cancel1(s) == When(g.stage[s].status \notin Terminal, <<Write(s, "cancelled", mark)>>)
    IN When(from = 1, Cancel1("execution") \o Cancel1("evidence") \o Cancel1("verification"))
          \o Cancel1("review") \o Cancel1("report")

\* project_state, for the states that it is called for.
StateWrites(g, state) ==
    IF state = "cancelled" THEN CancelWrites(g, 1, Mark("cancelled", 0))
    ELSE IF g.stage["execution"].status = "pending"
         THEN <<Write("execution", "ready", NoMark)>> ELSE <<>>

FixWrites(g, fix) ==
    LET mark == Mark("rework", fix.id)
        Complete(s) == IF g.stage[s].status = "completed" THEN <<>>
                       ELSE Attempt(g, s, "completed", NoMark)
        Again(s) == Attempt(g, s, "ready", mark)
    IN IF fix.verdict = "fixed"
       THEN IF g.stage["verification"].status = "completed" THEN <<>>
            ELSE Attempts(g, Complete)
       ELSE IF /\ g.stage["verification"].status = "ready"
               /\ g.stage["verification"].mark = mark
            THEN <<>> ELSE Attempts(g, Again)

\* A passed retest makes the review ready, also one that was sent back.
RetestWrites(g, result) ==
    LET review == g.stage["review"]
        mark == Mark("retest", result.id)
    IN CASE result.outcome = "cancelled" -> <<>>
         [] result.outcome = "passed" ->
              (CASE review.status = "completed" -> <<>>
                 [] review.status = "ready" ->
                      IF review.mark.kind = "review"
                      THEN Attempt(g, "review", "ready", NoMark) ELSE <<>>
                 [] review.status = "pending" -> <<Write("review", "ready", NoMark)>>
                 [] OTHER -> Refuse)
         [] result.outcome = "failed" ->
              (CASE review.status = "cancelled" /\ review.mark = mark -> <<>>
                 [] review.status = "pending" -> CancelWrites(g, 4, mark)
                 [] OTHER -> Refuse)

ReviewWrites(g, decision) ==
    LET review == g.stage["review"]
        mark == Mark("review", decision.id)
    IN IF decision.outcome = "approved"
       THEN IF review.status = "completed" /\ review.mark = mark THEN <<>>
            ELSE IF review.status # "ready" THEN Refuse
            ELSE Attempt(g, "review", "completed", mark) \o
                    (IF g.stage["report"].status = "pending"
                     THEN <<Write("report", "ready", NoMark)>> ELSE <<>>)
       ELSE IF review.status # "ready" THEN Refuse
            ELSE IF review.mark = mark THEN <<>>
            ELSE Attempt(g, "review", "ready", mark) \o
                    (IF g.stage["report"].status = "pending" THEN <<>> ELSE Refuse)

ReportWrites(g, report) ==
    LET mark == Mark("report", report.id)
    IN CASE g.stage["report"].status = "completed" ->
              IF g.stage["report"].mark = mark THEN <<>> ELSE Refuse
         [] g.stage["report"].status = "ready" -> Attempt(g, "report", "completed", mark)
         [] OTHER -> Refuse

\* project_remediation_finding: the calls for a row, and what each writes.
Projection(f) ==
    When(f.state \in {"ready_for_implementation", "cancelled"}, <<"state">>)
    \o When(f.fixes # <<>>, <<"fix">>) \o When(f.results # <<>>, <<"retest">>)
    \o When(f.reviews # <<>>, <<"review">>) \o When(f.reports # <<>>, <<"report">>)

Writes(g, f, call) ==
    CASE call = "state" -> StateWrites(g, f.state)
      [] call = "fix" -> FixWrites(g, Last(f.fixes))
      [] call = "retest" -> RetestWrites(g, Last(f.results))
      [] call = "review" -> ReviewWrites(g, Last(f.reviews))
      [] call = "report" -> ReportWrites(g, Last(f.reports))

\* update_status: entering running counts an attempt, and the budget of the
\* report stage is one.
Budget(stage) == IF stage = "report" THEN 1 ELSE MaxAttempts
AttemptsAfter(g, w) ==
    g.stage[w.stage].attempts
        + (IF w.status = "running" /\ g.stage[w.stage].status # "running" THEN 1 ELSE 0)
CanWrite(g, w) == w.status # "refuse" /\ AttemptsAfter(g, w) <= Budget(w.stage)
Written(g, w) ==
    [rev |-> g.rev + 1,
     stage |-> [g.stage EXCEPT ![w.stage] =
        [status |-> w.status, attempts |-> AttemptsAfter(g, w), mark |-> w.mark]]]

-----------------------------------------------------------------------------
(***************************************************************************)
(* A call, step by step.                                                   *)
(***************************************************************************)

Enter(p) ==
    /\ At(p, "idle")
    /\ races' = IF \A q \in Procs : At(q, "idle") THEN races ELSE races + 1
    /\ races' + crashes <= MaxFaults

\* The row is loaded, and the caller's revision is the row's.  From here on the
\* call works with what it loaded; the save will compare the revision again.
BeginCall(p, new, pc, after) ==
    /\ calls < MaxCalls /\ Enter(p)
    /\ calls' = calls + 1
    /\ Become(p, [Idle EXCEPT !.pc = pc, !.new = new, !.old = finding.revision,
                              !.after = after,
                              !.receipt = IF pc = "receipt" THEN calls + 1 ELSE Null])
    /\ UNCHANGED <<finding, receipts, stageGraph, views, crashes>>

Start(p) == \E owner \in Developers :
    MayStart(finding) /\ BeginCall(p, Started(finding, owner), "save", "bind")

VerifyFix(p) == \E builder \in Developers, verdict \in {"fixed", "not_fixed"}, r \in Revisions :
    /\ MayVerifyFix(finding)
    /\ BeginCall(p, FixVerified(finding, calls + 1, builder, verdict, r), "receipt", "project")

StartRetest(p) == \E operator \in Operators :
    MayStartRetest(finding) /\ BeginCall(p, RetestStarted(finding, operator), "save", "project")

RecordRetest(p) == \E outcome \in {"passed", "failed", "cancelled"} :
    /\ MayRecordRetest(finding)
    /\ BeginCall(p, RetestRecorded(finding, calls + 1, outcome), "receipt", "project")

Review(p) == \E reviewer \in Reviewers, outcome \in {"approved", "changes_requested"} :
    /\ MayReview(finding, reviewer)
    /\ BeginCall(p, Reviewed(finding, calls + 1, reviewer, outcome), "receipt", "project")

Report(p) == \E writer \in Writers :
    /\ MayReport(finding, writer)
    /\ BeginCall(p, Reported(finding, calls + 1, writer), "receipt", "project")

Cancel(p) == MayCancel(finding) /\ BeginCall(p, Cancelled(finding), "save", "project")

\* Two older calls that look at nothing and project nothing.
UpdateVerification(p) == \E v \in BOOLEAN :
    BeginCall(p, [Next1(finding) EXCEPT !.verified = v], "save", "end")

AppendRetest(p) == \E status \in {"remediated", "open"} :
    BeginCall(p, [Next1(finding) EXCEPT !.status = status], "save", "end")

WriteReceipt(p) ==
    /\ At(p, "receipt")
    /\ receipts' = receipts \cup {run[p].receipt}
    /\ Become(p, [run[p] EXCEPT !.pc = "save"])
    /\ UNCHANGED <<finding, stageGraph, bounds>>

\* What a call does when the row is saved.
Saved(p, f) ==
    CASE run[p].after = "end" -> Idle
      [] run[p].after = "bind" -> [run[p] EXCEPT !.pc = "bind"]
      [] run[p].after = "project" ->
            [run[p] EXCEPT !.pc = "project", !.todo = Projection(f), !.receipt = Null]

\* Mutant: a call projects what it meant to save, also when it lost the race.
MutSave(p) ==
    LET new == run[p].new
    IN /\ At(p, "save")
       /\ finding' = IF finding.revision = run[p].old /\ Valid(new) THEN new ELSE finding
       /\ Become(p, Saved(p, new))
       /\ UNCHANGED <<receipts, stageGraph, bounds>>

\* FindingService's transition and FindingStore.save.
Save(p) ==
    LET new == run[p].new
    IN /\ At(p, "save")
       /\ IF finding.revision = run[p].old /\ Valid(new) /\ ValidSuccessor(new, finding)
          THEN finding' = new /\ Become(p, Saved(p, new))
          ELSE /\ Become(p, IF run[p].receipt = Null THEN Idle
                            ELSE [run[p] EXCEPT !.pc = "withdraw"])
               /\ UNCHANGED finding
       /\ UNCHANGED <<receipts, stageGraph, bounds>>

\* Mutant: the receipt of a call that lost the race stays.
MutWithdraw(p) ==
    At(p, "withdraw") /\ Finish(p) /\ UNCHANGED <<finding, receipts, stageGraph, bounds>>

Withdraw(p) ==
    /\ At(p, "withdraw")
    /\ receipts' = receipts \ {run[p].receipt}
    /\ Finish(p)
    /\ UNCHANGED <<finding, stageGraph, bounds>>

\* The view of a new plan creates the graph and binds the chat workspace.  If
\* either fails it cancels the plan.
Bind(p) ==
    /\ At(p, "bind")
    /\ \/ stageGraph' = NewGraph /\ Finish(p)
       \/ stageGraph' \in {stageGraph, NewGraph} /\ Become(p, [run[p] EXCEPT !.pc = "unbind"])
    /\ UNCHANGED <<finding, receipts, bounds>>

Unbind(p) ==
    /\ At(p, "unbind")
    /\ IF finding.revision = run[p].new.revision
       THEN /\ finding' = Cancelled(finding)
            /\ Become(p, [run[p] EXCEPT !.pc = "project", !.new = Cancelled(finding),
                                        !.todo = <<"state">>])
       ELSE UNCHANGED finding /\ Finish(p)
    /\ UNCHANGED <<receipts, stageGraph, bounds>>

\* A detail page projects the row that it shows.
View(p) ==
    /\ views < MaxViews /\ finding.plan # Null /\ Enter(p)
    /\ views' = views + 1
    /\ Become(p, [Idle EXCEPT !.pc = "project", !.new = finding,
                              !.todo = Projection(finding)])
    /\ UNCHANGED <<finding, receipts, stageGraph, calls, crashes>>

Continue(p, r) ==
    Become(p, IF r.todo = <<>> /\ r.writes = <<>> THEN Idle ELSE r)

Load(p) ==
    /\ At(p, "project") /\ run[p].writes = <<>>
    /\ IF stageGraph = Null \/ run[p].todo = <<>> THEN Finish(p)
       ELSE Continue(p, [run[p] EXCEPT
                !.todo = Tail(@), !.rev = stageGraph.rev,
                !.writes = Writes(stageGraph, run[p].new, Head(run[p].todo))])
    /\ UNCHANGED <<finding, receipts, stageGraph, bounds>>

\* Mutant: the graph's revision is not compared.
MutPut(p) ==
    LET w == Head(run[p].writes)
    IN /\ At(p, "project") /\ run[p].writes # <<>>
       /\ IF CanWrite(stageGraph, w)
          THEN /\ stageGraph' = Written(stageGraph, w)
               /\ Continue(p, [run[p] EXCEPT !.writes = Tail(@)])
          ELSE UNCHANGED stageGraph /\ Finish(p)
       /\ UNCHANGED <<finding, receipts, bounds>>

Put(p) ==
    LET w == Head(run[p].writes)
    IN /\ At(p, "project") /\ run[p].writes # <<>>
       /\ IF stageGraph.rev = run[p].rev /\ CanWrite(stageGraph, w)
          THEN /\ stageGraph' = Written(stageGraph, w)
               /\ Continue(p, [run[p] EXCEPT !.writes = Tail(@), !.rev = @ + 1])
          ELSE UNCHANGED stageGraph /\ Finish(p)
       /\ UNCHANGED <<finding, receipts, bounds>>

Die(p) ==
    /\ ~ At(p, "idle") /\ races + crashes < MaxFaults
    /\ crashes' = crashes + 1
    /\ Finish(p)
    /\ UNCHANGED <<finding, receipts, stageGraph, calls, views, races>>

RemediationInit ==
    /\ finding = NewFinding /\ receipts = {} /\ stageGraph = Null
    /\ run = [p \in Procs |-> Idle]
    /\ calls = 0 /\ views = 0 /\ races = 0 /\ crashes = 0

Operation(p) ==
    \/ Start(p) \/ VerifyFix(p) \/ StartRetest(p) \/ RecordRetest(p)
    \/ Review(p) \/ Report(p) \/ Cancel(p)
    \/ UpdateVerification(p) \/ AppendRetest(p)

Step(p) ==
    \/ WriteReceipt(p) \/ Save(p) \/ Withdraw(p) \/ Bind(p) \/ Unbind(p)
    \/ Load(p) \/ Put(p)

RemediationNext == \E p \in Procs : Operation(p) \/ View(p) \/ Step(p) \/ Die(p)

RemediationSpec == RemediationInit /\ [][RemediationNext]_remediationVars

-----------------------------------------------------------------------------
Verdicts == {"fixed", "not_fixed"}
Fixes == [id : Nat, builder : Developers, verdict : Verdicts, fixed : Revisions]
Plans == [fix : Nat, fixed : Revisions, operator : Operators]
Results == [id : Nat, outcome : DOMAIN AfterRetest, fixed : Revisions]
Reviews == [id : Nat, reviewer : Reviewers, outcome : {"approved", "changes_requested"},
            fixed : Revisions, retest : Nat]
Reports == [id : Nat, writer : Writers, fixed : Revisions, review : Nat]
Statuses == {"open", "triaged", "in_remediation", "ready_for_retest", "retesting",
             "awaiting_review", "ready_for_report", "report_generated", "remediated"}
PlanStates == {"ready_for_implementation", "needs_rework", "ready_for_retest",
               "retest_needs_rework", "awaiting_review", "review_needs_rework",
               "review_approved", "report_generated", "cancelled"}

StageStatuses == {"pending", "ready", "running"} \cup Terminal
Marks == [kind : {"none", "cancelled", "rework", "retest", "review", "report"}, id : Nat]
Graphs == [rev : Nat, stage : [Range(Stages) -> [status : StageStatuses, attempts : Nat,
                                                 mark : Marks]]]

ASSUME NullAssumption == Null \notin Nat \cup PlanStates \cup Graphs

\* Every variable holds a value of its type, and the row is one that its own
\* validators accept.
RemediationTypeOK ==
    /\ finding.revision \in Nat /\ finding.verified \in BOOLEAN
    /\ finding.status \in Statuses
    /\ finding.fixes \in Seq(Fixes) /\ finding.plans \in Seq(Plans)
    /\ finding.results \in Seq(Results) /\ finding.reviews \in Seq(Reviews)
    /\ finding.reports \in Seq(Reports)
    /\ Valid(finding)
    /\ receipts \subseteq 1..MaxCalls
    /\ stageGraph \in Graphs \cup {Null}
    /\ stageGraph # Null =>
          \A s \in Range(Stages) : stageGraph.stage[s].attempts <= Budget(s)
    /\ calls \in 0..MaxCalls /\ views \in 0..MaxViews
    /\ {races, crashes, races + crashes} \subseteq 0..MaxFaults

Ids(references) == {references[i].id : i \in DOMAIN references}
References(f) == Ids(f.fixes) \cup Ids(f.results) \cup Ids(f.reviews) \cup Ids(f.reports)

\* Receipts that neither the row nor a call under way refers to.
Stray == receipts \ (References(finding) \cup {run[p].receipt : p \in Procs})

\* A report of a row and the chain of its references that it rests on.
EarnedReport(r, f) ==
    \E fix \in Range(f.fixes), k \in DOMAIN f.results, v \in Range(f.reviews) :
        LET plan == f.plans[k]  result == f.results[k]
        IN /\ fix.verdict = "fixed" /\ plan.fix = fix.id /\ result.outcome = "passed"
           /\ v.outcome = "approved" /\ v.retest = result.id /\ r.review = v.id
           /\ \A revision \in {fix.fixed, plan.fixed, result.fixed, v.fixed} :
                 revision = r.fixed
           /\ v.reviewer \notin {f.owner, fix.builder, plan.operator}
           /\ r.writer \notin {f.owner, fix.builder, plan.operator, v.reviewer}

\* A final report rests on a chain of receipts about one fixed revision: a fix
\* that was verified as fixed, a passed retest of that fix, and an approval of
\* that retest; the reviewer and the writer are two people who took no other
\* part.  Only the steps one by one are checked by the code.
ReportIsEarned == \A r \in Range(finding.reports) : EarnedReport(r, finding)

\* The receipts on file are those that the row refers to, those of calls under
\* way, and those of calls that died: the clean-up of a call that lost the race
\* for the row takes away its own receipt and no other.
ReceiptsMatch ==
    /\ RemediationTypeOK
    /\ References(finding) \subseteq receipts
    /\ Cardinality(Stray) <= crashes

\* The graph never shows more than the row has: whatever a projection works
\* with was saved before, and what is saved stays.
GraphNeverAhead ==
    stageGraph # Null =>
        LET stage == stageGraph.stage
        IN /\ stage["verification"].status = "completed" =>
                 \E fix \in Range(finding.fixes) : fix.verdict = "fixed"
           /\ stage["review"].status = "completed" =>
                 \E v \in Range(finding.reviews) :
                    v.outcome = "approved" /\ stage["review"].mark = Mark("review", v.id)
           /\ stage["report"].status = "completed" =>
                 \E r \in Range(finding.reports) :
                    stage["report"].mark = Mark("report", r.id)
           /\ \A s \in Range(Stages) : stage[s].status = "cancelled" =>
                 finding.state \in {"cancelled", "retest_needs_rework"}

\* The outcome of a projection that nothing interferes with.
Projected(f, g) ==
    LET Apply(h, w) == IF h = Null \/ ~ CanWrite(h, w) THEN Null ELSE Written(h, w)
    IN FoldLeft(LAMBDA h, call : IF h = Null THEN Null
                                 ELSE FoldLeft(Apply, h, Writes(h, f, call)),
                g, Projection(f))

Quiet == stageGraph # Null /\ \A p \in Procs : At(p, "idle")
Spare == \A s \in Range(Stages) \ {"report"} : stageGraph.stage[s].attempts + 2 <= MaxAttempts

\* Projections that race with each other, with saves and with projections of
\* older rows leave the graph in a state from which the next one succeeds,
\* unless a process died, the attempts are spent or the plan was cancelled.
RacesSettle ==
    Quiet /\ crashes = 0 /\ finding.state # "cancelled" /\ Spare
        => Projected(finding, stageGraph) # Null

\* What the views tell their users: the projection can be retried.
ProjectionCanBeRetried == Quiet => Projected(finding, stageGraph) # Null

\* A finding that is in remediation has a way on.
ReworkCanProceed ==
    finding.status = "in_remediation" /\ finding.verified =>
        MayVerifyFix(finding) \/ MayCancel(finding)
=============================================================================
