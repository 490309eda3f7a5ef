-------------------------- MODULE EngineeringLoop --------------------------
(***************************************************************************)
(* One bounded engineering loop (vulnhunter/orchestration): a builder      *)
(* edits the working tree, and the commands evaluate, verify, review,      *)
(* approve, learn, escalate and rollback of `vulnhunter-loop` each load    *)
(* the loop's manifest, look at the working tree, write one evidence file  *)
(* and save the manifest.  Every command is a process of its own: nothing  *)
(* locks the loop between its load and its save, the builder may edit the  *)
(* tree at any moment, and a process may die between any two writes.       *)
(*                                                                         *)
(* The working tree is one of Contents: Base is the baseline commit, Stray *)
(* the trees with a path outside the loop's boundary and Unsafe those in   *)
(* which the security policy finds something; a tree over one of the       *)
(* ceilings fails like a verifier does.  A SHA-256 of a tree, or of a      *)
(* manifest, is that tree or manifest.                                     *)
(*                                                                         *)
(* A command looks at the tree file by file, and run_security_verification *)
(* even twice (the diff for its hash, the diff and the files again for the *)
(* policy).  Whatever is edited while it does so may be seen half before   *)
(* and half after, and what the command finds need then be true of no tree *)
(* at all: the reading is torn.                                            *)
(*                                                                         *)
(* Left out: the event log (no command reads it before it acts; it is      *)
(* appended to under a file lock), LEARNING.md (nothing reads it), token   *)
(* and cost budgets and the time left (they only refuse an evaluation; that *)
(* the time is up at its end is a free choice), a moved HEAD, and the      *)
(* temporary file behind each write.                                       *)
(***************************************************************************)
EXTENDS Integers, FiniteSets

CONSTANTS
  People, Builder,            \* actor IDs; the loop's builder is one of them
  Procs,                      \* processes that may run a command
  Contents, Base, Stray, Unsafe,
  Signatures,                 \* failure signatures of the verifier suite
  MaxIterations, MaxFailures, MaxRepeated, MaxStalled,  \* the stop controls
  MaxMishaps,   \* bound: commands begun while another one runs, and crashes
  None

ASSUME PeopleAssumption ==
  /\ Builder \in People /\ None \notin People
ASSUME TreeAssumption ==
  /\ Base \in Contents /\ Stray \subseteq Contents \ {Base}
  /\ Unsafe \subseteq Contents \ {Base} /\ None \notin Contents \cup Signatures
ASSUME ControlsAssumption ==
  {MaxIterations, MaxFailures, MaxRepeated, MaxStalled} \subseteq Nat \ {0}

VARIABLES
  manifest,   \* manifest.json
  digest,     \* the manifest whose hash manifest.sha256 holds
  evidence,   \* evidence[kind][i]: the file iteration-<i>-<kind>.json, or None
  repo,       \* the working tree
  call,       \* call[p]: the command that process p is executing, or None
  torn,       \* the processes whose look at the tree ran into an edit
  overlaps, crashes

vars == <<manifest, digest, evidence, repo, call, torn, overlaps, crashes>>

States == {"active", "awaiting_security", "awaiting_review", "awaiting_human",
           "awaiting_documentation", "completed", "rejected", "escalated",
           "rolled_back"}
Terminal == {"completed", "rejected", "escalated", "rolled_back"}
Kinds == {"evaluation", "security", "review", "approval"}
Iterations == 1..MaxIterations

\* What failed: the structure of the change and the verifier suite.
Failure == {None} \cup
  [tree : {None, "unchanged", "stray"}, suite : {None} \cup Signatures]

\* The four actors recorded for the current iteration.
Roles == [runner : People \cup {None}, verifier : People \cup {None},
          reviewer : People \cup {None}, human : People \cup {None}]

\* What the stop controls count, with the failure and tree they compare with.
Tallies == [failures : Nat, repeated : Nat, stalled : Nat,
            signature : Failure, content : Contents \cup {None}]

Manifests == [state : States, iteration : 0..MaxIterations,
              tally : Tallies, roles : Roles]

\* The tree that an evidence file names; `torn` is history: no file says so.
Records == [passed : BOOLEAN, content : Contents, signature : Failure, torn : BOOLEAN]

TreeFailures == {None, "unchanged", "stray"}

ASSUME NoneAssumption ==
  /\ None \notin {"unchanged", "stray"} \cup Records
  /\ None \notin [tree : {None, "unchanged", "stray"}, suite : {None} \cup Signatures]

Commands == {"evaluate", "verify", "review", "approve", "learn", "escalate",
             "rollback"}

\* A command in progress: `m` is its copy of the manifest, `seen` the tree it
\* compares the working tree with, `record` the evidence it is about to write.
Calls == [op : Commands, at : {"look", "restore", "record", "manifest", "digest"},
          m : Manifests, seen : Contents \cup {None}, record : Records \cup {None}]

NoRoles == [runner |-> None, verifier |-> None, reviewer |-> None, human |-> None]

FirstManifest ==
  [state |-> "active", iteration |-> 0, roles |-> NoRoles,
   tally |-> [failures |-> 0, repeated |-> 0, stalled |-> 0,
              signature |-> None, content |-> None]]

\* create_loop starts from a clean working tree.
Init ==
  /\ manifest = FirstManifest /\ digest = FirstManifest
  /\ evidence = [k \in Kinds |-> [i \in Iterations |-> None]]
  /\ repo = Base
  /\ call = [p \in Procs |-> None] /\ torn = {}
  /\ overlaps = 0 /\ crashes = 0

-----------------------------------------------------------------------------
\* The latest evidence of a kind: the highest iteration that has a file.
Has(kind, i) == evidence[kind][i] # None
IsLatest(kind, i) ==
  Has(kind, i) /\ \A j \in Iterations : Has(kind, j) => j <= i

Moved(m, s) == [m EXCEPT !.state = s]
With(roles) == [manifest EXCEPT !.roles = roles]

\* Mutant: the human approver may be the builder or the test runner.
MutPrior(r) == {r.verifier, r.reviewer}

\* The actors that the human approver must differ from.
Prior(r) == {Builder, r.runner, r.verifier, r.reviewer}

\* A command begins by loading the manifest, which must match its digest.
Begins(p, op, allowed, at, m, seen) ==
  /\ call[p] = None
  /\ manifest = digest /\ manifest.state \in allowed
  /\ LET other == \E q \in Procs \ {p} : call[q] # None IN
       /\ other => overlaps + crashes < MaxMishaps
       /\ overlaps' = IF other THEN overlaps + 1 ELSE overlaps
  /\ call' = [call EXCEPT ![p] =
       [op |-> op, at |-> at, m |-> m, seen |-> seen, record |-> None]]
  /\ UNCHANGED <<manifest, digest, evidence, repo, torn, crashes>>

Continues(p, at, m, seen, record) ==
  /\ call' = [call EXCEPT ![p] =
       [op |-> call[p].op, at |-> at, m |-> m, seen |-> seen, record |-> record]]
  /\ torn' = torn \ {p}

Ends(p) == call' = [call EXCEPT ![p] = None] /\ torn' = torn \ {p}

At(p, ops, at) == call[p] # None /\ call[p].op \in ops /\ call[p].at = at

\* What p's look at the tree may find: what is there, or anything if it is torn.
Finds(p, fact) == p \in torn \/ fact

-----------------------------------------------------------------------------
\* evaluate_loop: a new runner clears the other three roles.
BeginEvaluate(p, x) ==
  /\ x # Builder
  /\ manifest.iteration < MaxIterations
  /\ Begins(p, "evaluate", {"active", "awaiting_security"}, "look",
       With([runner |-> x, verifier |-> None, reviewer |-> None, human |-> None]),
       None)

\* What run_evaluation concludes from the listed paths and the suite's outcome.
TreeFailure(c) == IF c = Base THEN "unchanged" ELSE IF c \in Stray THEN "stray" ELSE None
Verdict(tree, suite) ==
  IF tree = None /\ suite = None THEN None ELSE [tree |-> tree, suite |-> suite]

\* The counters after an evaluation of the tree c that ended with f.
Counted(t, c, f) ==
  [failures |-> IF f = None THEN 0 ELSE t.failures + 1,
   repeated |-> IF f = None THEN 0 ELSE IF f = t.signature THEN t.repeated + 1 ELSE 1,
   stalled |-> IF c = t.content THEN t.stalled + 1 ELSE 0,
   signature |-> f, content |-> c]

\* Mutant: a limit is passed before it is noticed.
MutMustStop(t, i, late) ==
  \/ t.failures > MaxFailures \/ t.repeated > MaxRepeated
  \/ t.stalled > MaxStalled \/ i > MaxIterations \/ late

\* `late`: maximum_elapsed_seconds have passed since the loop was created.
MustStop(t, i, late) ==
  \/ t.failures >= MaxFailures
  \/ t.repeated >= MaxRepeated
  \/ t.stalled >= MaxStalled
  \/ i >= MaxIterations /\ t.signature # None
  \/ late

\* The suite has run, with any outcome; then the paths are listed (they fail as
\* `tree`) and the diff is hashed (to that of c).
Evaluate(p, suite, late, tree, c) ==
  /\ At(p, {"evaluate"}, "look")
  /\ Finds(p, tree = TreeFailure(repo) /\ c = repo)
  /\ LET m == call[p].m
         f == Verdict(tree, suite)
         t == Counted(m.tally, c, f)
         s == IF MustStop(t, m.iteration + 1, late) THEN "escalated"
              ELSE IF f = None THEN "awaiting_security" ELSE "active"
     IN Continues(p, "record",
          [state |-> s, iteration |-> m.iteration + 1, tally |-> t, roles |-> m.roles],
          None, [passed |-> f = None, content |-> c, signature |-> f, torn |-> p \in torn])
  /\ UNCHANGED <<manifest, digest, evidence, repo, overlaps, crashes>>

\* verify_security_policy.
BeginVerify(p, x) ==
  /\ x \notin {Builder, manifest.roles.runner}
  /\ \E i \in Iterations :
       /\ IsLatest("evaluation", i)
       /\ evidence["evaluation"][i].passed /\ i = manifest.iteration
       /\ Begins(p, "verify", {"awaiting_security"}, "look",
            With([runner |-> manifest.roles.runner, verifier |-> x,
                  reviewer |-> manifest.roles.reviewer, human |-> manifest.roles.human]),
            evidence["evaluation"][i].content)

\* What run_security_verification scans for is not in the tree.
PolicyHolds(tree) == tree \notin Stray \cup Unsafe

\* Mutant: the tree is not compared with the one that was evaluated.
MutSecure(clean, c, seen) == clean

\* The scan found nothing, and the hash is that of the tree that was evaluated.
Secure(clean, c, seen) == clean /\ c = seen

\* The diff is hashed (to that of c), and then all of it is read again to be
\* scanned for what the policy forbids.
Verify(p, clean, c) ==
  /\ At(p, {"verify"}, "look")
  /\ Finds(p, (clean <=> PolicyHolds(repo)) /\ c = repo)
  /\ LET ok == Secure(clean, c, call[p].seen) IN
       Continues(p, "record",
         Moved(call[p].m, IF ok THEN "awaiting_review" ELSE "active"), None,
         [passed |-> ok, content |-> c, signature |-> None, torn |-> p \in torn])
  /\ UNCHANGED <<manifest, digest, evidence, repo, overlaps, crashes>>

\* submit_independent_review.  The iteration and the outcome of the latest
\* evaluation are not looked at here: only those of the security evidence.
BeginReview(p, x) ==
  /\ x \notin {Builder, manifest.roles.runner, manifest.roles.verifier}
  /\ \E i \in Iterations : /\ IsLatest("security", i)
                           /\ evidence["security"][i].passed /\ i = manifest.iteration
  /\ \E i \in Iterations :
       /\ IsLatest("evaluation", i)
       /\ Begins(p, "review", {"awaiting_review"}, "look",
            With([runner |-> manifest.roles.runner, verifier |-> manifest.roles.verifier,
                  reviewer |-> x, human |-> manifest.roles.human]),
            evidence["evaluation"][i].content)

\* record_human_approval.
BeginApprove(p, x) ==
  /\ x \notin Prior(manifest.roles)
  /\ \E i \in Iterations : IsLatest("review", i) /\ evidence["review"][i].passed
  /\ \E i \in Iterations :
       /\ IsLatest("evaluation", i)
       /\ Begins(p, "approve", {"awaiting_human"}, "look",
            With([runner |-> manifest.roles.runner, verifier |-> manifest.roles.verifier,
                  reviewer |-> manifest.roles.reviewer, human |-> x]),
            evidence["evaluation"][i].content)

\* record_learning: the human approver attests to it.
BeginLearn(p, x) ==
  /\ x = manifest.roles.human
  /\ \E i \in Iterations :
       /\ IsLatest("evaluation", i)
       /\ Begins(p, "learn", {"awaiting_documentation"}, "look", manifest,
            evidence["evaluation"][i].content)

\* _ensure_diff_unchanged: the tree must still be the one evaluated.
Unchanged(p) == repo = call[p].seen

\* The state after a decision of a review or an approval.
Decided(op, yes) ==
  IF op = "review" THEN IF yes THEN "awaiting_human" ELSE "active"
  ELSE IF yes THEN "awaiting_documentation" ELSE "rejected"

Decide(p, yes) ==
  /\ At(p, {"review", "approve"}, "look")
  /\ Finds(p, Unchanged(p))
  /\ Continues(p, "record", Moved(call[p].m, Decided(call[p].op, yes)), None,
       [passed |-> yes, content |-> call[p].seen, signature |-> None, torn |-> p \in torn])
  /\ UNCHANGED <<manifest, digest, evidence, repo, overlaps, crashes>>

Learn(p) ==
  /\ At(p, {"learn"}, "look")
  /\ Finds(p, Unchanged(p))
  /\ Continues(p, "manifest", Moved(call[p].m, "completed"), None, None)
  /\ UNCHANGED <<manifest, digest, evidence, repo, overlaps, crashes>>

Refuse(p) ==
  /\ At(p, {"review", "approve", "learn"}, "look")
  /\ Finds(p, ~Unchanged(p))
  /\ Ends(p)
  /\ UNCHANGED <<manifest, digest, evidence, repo, overlaps, crashes>>

-----------------------------------------------------------------------------
\* escalate_loop.
BeginEscalate(p) ==
  Begins(p, "escalate", States \ Terminal, "manifest", Moved(manifest, "escalated"), None)

\* rollback_loop refuses a tree with a path outside the boundary, restores the
\* paths it listed and then wants nothing changed to be left.
BeginRollback(p) ==
  /\ repo \notin Stray
  /\ Begins(p, "rollback", {"active", "escalated", "rejected"}, "restore", manifest, repo)

\* A path that was edited after the listing may be left over.
Restore(p) ==
  /\ At(p, {"rollback"}, "restore")
  /\ repo' \in (IF Unchanged(p) THEN {Base} ELSE {Base, repo})
  /\ Continues(p, "look", call[p].m, None, None)
  /\ UNCHANGED <<manifest, digest, evidence, overlaps, crashes>>

ConfirmRestored(p) ==
  /\ At(p, {"rollback"}, "look")
  /\ \/ /\ Finds(p, repo = Base)
        /\ Continues(p, "manifest", Moved(call[p].m, "rolled_back"), None, None)
     \/ Finds(p, repo # Base) /\ Ends(p)
  /\ UNCHANGED <<manifest, digest, evidence, repo, overlaps, crashes>>

-----------------------------------------------------------------------------
KindOf(op) == CASE op = "evaluate" -> "evaluation" [] op = "verify" -> "security"
                [] op = "review" -> "review" [] OTHER -> "approval"

\* _save_evidence: a file that exists is never replaced, the command fails.
SaveEvidence(p) ==
  /\ At(p, {"evaluate", "verify", "review", "approve"}, "record")
  /\ LET k == KindOf(call[p].op)
         i == call[p].m.iteration
     IN IF Has(k, i)
          THEN Ends(p) /\ UNCHANGED evidence
          ELSE /\ evidence' = [evidence EXCEPT ![k] = [@ EXCEPT ![i] = call[p].record]]
               /\ Continues(p, "manifest", call[p].m, None, None)
  /\ UNCHANGED <<manifest, digest, repo, overlaps, crashes>>

\* _write_manifest: two files, one after the other.
WriteManifest(p) ==
  /\ At(p, Commands, "manifest")
  /\ manifest' = call[p].m
  /\ Continues(p, "digest", call[p].m, None, None)
  /\ UNCHANGED <<digest, evidence, repo, overlaps, crashes>>

WriteDigest(p) ==
  /\ At(p, Commands, "digest")
  /\ digest' = call[p].m
  /\ Ends(p)
  /\ UNCHANGED <<manifest, evidence, repo, overlaps, crashes>>

\* The process dies; what it wrote stays.  (Dying before the first of its
\* writes is like not having run, dying inside a restore like an edit.)
Crash(p) ==
  /\ call[p] # None /\ call[p].at \in {"manifest", "digest"}
  /\ overlaps + crashes < MaxMishaps /\ crashes' = crashes + 1
  /\ Ends(p)
  /\ UNCHANGED <<manifest, digest, evidence, repo, overlaps>>

\* The builder edits the working tree, while some of those that are about to
\* look at it (`under`) have begun to read.
Edit(c, under) ==
  /\ \A p \in under : At(p, Commands, "look")
  /\ repo' = c /\ c # repo
  /\ torn' = torn \cup under
  /\ UNCHANGED <<manifest, digest, evidence, call, overlaps, crashes>>

Step(p) ==
  \/ \E suite \in {None} \cup Signatures, late \in BOOLEAN, tree \in TreeFailures,
        c \in Contents : Evaluate(p, suite, late, tree, c)
  \/ \E clean \in BOOLEAN, c \in Contents : Verify(p, clean, c)
  \/ \E yes \in BOOLEAN : Decide(p, yes)
  \/ Learn(p) \/ Refuse(p)
  \/ Restore(p) \/ ConfirmRestored(p)
  \/ SaveEvidence(p) \/ WriteManifest(p) \/ WriteDigest(p)
  \/ Crash(p)

Start(p) ==
  \/ \E x \in People : \/ BeginEvaluate(p, x) \/ BeginVerify(p, x)
                       \/ BeginReview(p, x) \/ BeginApprove(p, x) \/ BeginLearn(p, x)
  \/ BeginEscalate(p) \/ BeginRollback(p)

Next ==
  \/ \E p \in Procs : Start(p) \/ Step(p)
  \/ \E c \in Contents, under \in SUBSET Procs : Edit(c, under)

Spec == Init /\ [][Next]_vars

-----------------------------------------------------------------------------
TypeOK ==
  /\ manifest \in Manifests /\ digest \in Manifests
  /\ evidence \in [Kinds -> [Iterations -> Records \cup {None}]]
  /\ repo \in Contents
  /\ call \in [Procs -> Calls \cup {None}] /\ torn \subseteq Procs
  /\ overlaps \in Nat /\ crashes \in Nat

\* No two of builder, runner, verifier, reviewer and human are one person.
Separate(r) ==
  /\ Builder \notin {r.runner, r.verifier, r.reviewer, r.human}
  /\ r.runner # None => r.runner \notin {r.verifier, r.reviewer, r.human}
  /\ r.verifier # None => r.verifier \notin {r.reviewer, r.human}
  /\ r.reviewer # None => r.reviewer # r.human

(* Role separation: whichever commands overlap or die, and however stale   *)
(* the manifest is that one of them saves, the manifest never names one    *)
(* person for two roles of an iteration.  Each command checks its own      *)
(* actor against its own copy; evaluate_loop clears the later roles so     *)
(* that a runner who reviewed an earlier iteration is no conflict.         *)
RolesAreSeparate ==
  /\ TypeOK
  /\ Separate(manifest.roles)
  /\ \A p \in Procs : call[p] # None => Separate(call[p].m.roles)

\* The gates a loop in a state has passed, in their order.
Passed(s) ==
  CASE s = "awaiting_review" -> {"evaluation", "security"}
    [] s = "awaiting_human" -> {"evaluation", "security", "review"}
    [] s \in {"awaiting_documentation", "completed"} -> Kinds
    [] OTHER -> {}

\* The trees that a gate passes when it reads them as they are.
Acceptable(kind) ==
  CASE kind = "evaluation" -> Contents \ ({Base} \cup Stray)
    [] kind = "security" -> Contents \ (Stray \cup Unsafe)
    [] OTHER -> Contents

(* One diff through every gate: as long as no two commands overlapped, a   *)
(* loop that waits for its review or is further holds, for its current     *)
(* iteration, a passing record of each gate behind it, and all of them     *)
(* name the same diff: however the builder edits the tree between and      *)
(* during the commands, and wherever one of them died.  That diff is       *)
(* changed and inside its boundary, and clean for the policy, unless the   *)
(* tree was edited while the very gate that looks for this was reading it; *)
(* an edit between two gates, or under another gate, is not enough.        *)
GatesAgree ==
  overlaps = 0 =>
    \A k \in Passed(manifest.state) :
      LET first == evidence["evaluation"][manifest.iteration]
          gate == evidence[k][manifest.iteration]
      IN /\ gate # None /\ gate.passed /\ gate.content = first.content
         /\ gate.torn \/ first.content \in Acceptable(k)

\* Each of the last n of i evaluations is one of S.
LastOnes(i, n, S) == n <= i /\ (i - n + 1)..i \subseteq S

(* Hard stop: as long as no two commands overlapped, a loop whose files    *)
(* show that one of its limits is reached (that many failures in a row,    *)
(* the same failure that often, the same tree evaluated again that often,  *)
(* the last iteration failed) is escalated or rolled back and goes no      *)
(* further.                                                                *)
StopsInTime ==
  (overlaps = 0 /\ manifest.iteration > 0) =>
    LET i == manifest.iteration
        e == evidence["evaluation"]
        Failed == {j \in 1..i : ~e[j].passed}
        SameFailure == {j \in Failed : e[j].signature = e[i].signature}
        SameTree == {j \in 1..i : e[j].content = e[i].content}
    IN (\/ LastOnes(i, MaxFailures, Failed)
        \/ LastOnes(i, MaxRepeated, SameFailure)
        \/ LastOnes(i, MaxStalled + 1, SameTree)
        \/ i = MaxIterations /\ ~e[i].passed)
       => manifest.state \in {"escalated", "rolled_back"}
=============================================================================
