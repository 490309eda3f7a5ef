----------------------- MODULE EngineeringLoopProofs -----------------------
(***************************************************************************)
(* Role separation, the gates and the hard stops of the engineering loop,  *)
(* for every number of people, processes, iterations and crashes.          *)
(*                                                                         *)
(* A command checks its own actor against the roles of its own copy of the *)
(* manifest that are decided before its gate, and never looks at the later *)
(* ones.  That is enough because the later roles of a copy whose state     *)
(* admits the command are empty (Fresh); and since a stale save writes one *)
(* command's copy as a whole, it is enough that every copy satisfies it    *)
(* (CopyOK), the copies that no file holds yet included.                   *)
(*                                                                         *)
(* Without overlapping commands more holds: all gates passed on one diff   *)
(* (GInv), and the counters of the manifest are as high as the evidence    *)
(* files call for, so that a limit they show as reached stops the loop     *)
(* (SInv).                                                                 *)
(***************************************************************************)
EXTENDS EngineeringLoop, TLAPS

\* The roles that come after the gate a manifest waits for are empty.
Fresh(m) ==
  /\ m.state = "awaiting_security" =>
       m.roles.verifier = None /\ m.roles.reviewer = None /\ m.roles.human = None
  /\ m.state = "awaiting_review" => m.roles.reviewer = None /\ m.roles.human = None
  /\ m.state = "awaiting_human" => m.roles.human = None

\* A command in progress: its copy already names its actor; the state is that
\* of the load until the command has concluded.
CopyOK(c) ==
  /\ Separate(c.m.roles)
  /\ c.at \in {"record", "manifest", "digest"} => Fresh(c.m)
  /\ c.at = "look" /\ c.op = "evaluate" =>
       /\ c.m.iteration < MaxIterations
       /\ c.m.roles.verifier = None /\ c.m.roles.reviewer = None /\ c.m.roles.human = None
  /\ c.at = "look" /\ c.op = "verify" =>
       c.m.roles.reviewer = None /\ c.m.roles.human = None
  /\ c.at = "look" /\ c.op = "review" => c.m.roles.human = None
  /\ c.at = "look" /\ c.op \in {"review", "approve"} => c.seen \in Contents

IInv ==
  /\ RolesAreSeparate
  /\ Fresh(manifest)
  /\ \A p \in Procs : call[p] # None => CopyOK(call[p])

LEMMA InitIInv == Init => IInv
<1> SUFFICES ASSUME Init PROVE IInv
  OBVIOUS
<1>1. FirstManifest \in Manifests
  BY ControlsAssumption DEF FirstManifest, Manifests, States, Tallies, Roles, NoRoles, Failure
<1>2. TypeOK
  BY <1>1, TreeAssumption DEF Init, TypeOK
<1>3. Separate(manifest.roles) /\ Fresh(manifest)
  BY PeopleAssumption DEF Init, FirstManifest, NoRoles, Separate, Fresh
<1> QED
  BY <1>2, <1>3 DEF Init, IInv, RolesAreSeparate

\* What every step does: one call changes, and what it writes is in order.
LEMMA OneCall ==
  ASSUME IInv, NEW p \in Procs, NEW c \in Calls \cup {None},
         c # None => CopyOK(c),
         call' = [call EXCEPT ![p] = c], torn' \subseteq torn,
         manifest' \in Manifests, Separate(manifest'.roles), Fresh(manifest'),
         digest' \in Manifests,
         evidence' \in [Kinds -> [Iterations -> Records \cup {None}]],
         repo' \in Contents, overlaps' \in Nat, crashes' \in Nat
  PROVE  IInv'
<1>1. TypeOK'
  BY DEF IInv, RolesAreSeparate, TypeOK
<1>2. \A q \in Procs : call'[q] # None => CopyOK(call'[q])
  BY DEF IInv, RolesAreSeparate, TypeOK
<1>3. \A q \in Procs : call'[q] # None => Separate(call'[q].m.roles)
  BY <1>2 DEF CopyOK
<1>4. (\A q \in Procs : call[q] # None => CopyOK(call[q]))'
  BY <1>2 DEF CopyOK, Separate, Fresh
<1>5. (\A q \in Procs : call[q] # None => Separate(call[q].m.roles))'
  BY <1>3 DEF Separate
<1>6. Separate(manifest.roles)' /\ Fresh(manifest)'
  BY DEF Separate, Fresh
<1> QED
  BY <1>1, <1>4, <1>5, <1>6 DEF IInv, RolesAreSeparate

\* A command begins with a copy that is in order.
LEMMA Beginning ==
  ASSUME IInv, NEW p \in Procs, NEW op \in Commands, NEW allowed,
         NEW at \in {"look", "restore", "manifest"},
         NEW m \in Manifests, NEW seen \in Contents \cup {None},
         Begins(p, op, allowed, at, m, seen),
         CopyOK([op |-> op, at |-> at, m |-> m, seen |-> seen, record |-> None])
  PROVE  IInv'
<1> DEFINE c == [op |-> op, at |-> at, m |-> m, seen |-> seen, record |-> None]
<1>1. c \in Calls
  BY DEF Calls
<1>2. CopyOK(c)
  OBVIOUS
<1>3. /\ call' = [call EXCEPT ![p] = c] /\ torn' = torn
      /\ overlaps' \in Nat
      /\ UNCHANGED <<manifest, digest, evidence, repo, crashes>>
  BY DEF Begins, IInv, RolesAreSeparate, TypeOK
<1> HIDE DEF c
<1> QED
  BY <1>1, <1>2, <1>3, OneCall DEF IInv, RolesAreSeparate, TypeOK

\* The copies of a command that begins, whatever its actor is.
LEMMA Copies ==
  ASSUME IInv, NEW roles \in Roles
  PROVE  /\ With(roles) \in Manifests
         /\ With(roles).roles = roles
         /\ With(roles).state = manifest.state
         /\ With(roles).iteration = manifest.iteration
  BY DEF With, Manifests, IInv, RolesAreSeparate, TypeOK

LEMMA Moves ==
  ASSUME NEW m \in Manifests, NEW s \in States
  PROVE  /\ Moved(m, s) \in Manifests
         /\ Moved(m, s).roles = m.roles
         /\ Moved(m, s).state = s
  BY DEF Moved, Manifests

-----------------------------------------------------------------------------
\* The gates: each begins with a copy that names its actor.
LEMMA EvaluateBegins ==
  ASSUME IInv, NEW p \in Procs, NEW x \in People, BeginEvaluate(p, x)
  PROVE  IInv'
<1> DEFINE r == [runner |-> x, verifier |-> None, reviewer |-> None, human |-> None]
           m == With(r)
           c == [op |-> "evaluate", at |-> "look", m |-> m, seen |-> None, record |-> None]
<1>1. r \in Roles /\ Separate(r)
  BY PeopleAssumption DEF BeginEvaluate, Roles, Separate
<1>2. m \in Manifests /\ m.roles = r /\ m.iteration < MaxIterations
  BY <1>1, Copies DEF BeginEvaluate
<1>3. CopyOK(c)
  BY <1>1, <1>2 DEF CopyOK
<1>4. Begins(p, "evaluate", {"active", "awaiting_security"}, "look", m, None)
  BY DEF BeginEvaluate
<1> QED
  BY <1>2, <1>3, <1>4, Beginning DEF Commands

LEMMA VerifyBegins ==
  ASSUME IInv, NEW p \in Procs, NEW x \in People, BeginVerify(p, x)
  PROVE  IInv'
<1> DEFINE r == [runner |-> manifest.roles.runner, verifier |-> x,
                 reviewer |-> manifest.roles.reviewer, human |-> manifest.roles.human]
           m == With(r)
<1>1. PICK i \in Iterations :
        /\ IsLatest("evaluation", i)
        /\ Begins(p, "verify", {"awaiting_security"}, "look", m, evidence["evaluation"][i].content)
  BY DEF BeginVerify
<1>2. manifest.roles.reviewer = None /\ manifest.roles.human = None
  BY <1>1 DEF Begins, IInv, Fresh
<1>3. r \in Roles /\ Separate(r)
  BY <1>2, PeopleAssumption DEF BeginVerify, Roles, Separate, IInv, RolesAreSeparate, TypeOK, Manifests
<1>4. m \in Manifests /\ m.roles = r
  BY <1>3, Copies
<1> DEFINE seen == evidence["evaluation"][i].content
           c == [op |-> "verify", at |-> "look", m |-> m, seen |-> seen, record |-> None]
<1>5. seen \in Contents
  BY <1>1 DEF IsLatest, Has, IInv, RolesAreSeparate, TypeOK, Records, Kinds
<1>6. CopyOK(c)
  BY <1>2, <1>3, <1>4 DEF CopyOK
<1> QED
  BY <1>1, <1>4, <1>5, <1>6, Beginning DEF Commands

LEMMA ReviewBegins ==
  ASSUME IInv, NEW p \in Procs, NEW x \in People, BeginReview(p, x)
  PROVE  IInv'
<1> DEFINE r == [runner |-> manifest.roles.runner, verifier |-> manifest.roles.verifier,
                 reviewer |-> x, human |-> manifest.roles.human]
           m == With(r)
<1>1. PICK i \in Iterations :
        /\ IsLatest("evaluation", i)
        /\ Begins(p, "review", {"awaiting_review"}, "look", m, evidence["evaluation"][i].content)
  BY DEF BeginReview
<1>2. manifest.roles.human = None
  BY <1>1 DEF Begins, IInv, Fresh
<1>3. r \in Roles /\ Separate(r)
  BY <1>2, PeopleAssumption DEF BeginReview, Roles, Separate, IInv, RolesAreSeparate, TypeOK, Manifests
<1>4. m \in Manifests /\ m.roles = r
  BY <1>3, Copies
<1> DEFINE seen == evidence["evaluation"][i].content
           c == [op |-> "review", at |-> "look", m |-> m, seen |-> seen, record |-> None]
<1>5. seen \in Contents
  BY <1>1 DEF IsLatest, Has, IInv, RolesAreSeparate, TypeOK, Records, Kinds
<1>6. CopyOK(c)
  BY <1>2, <1>3, <1>4, <1>5 DEF CopyOK
<1> QED
  BY <1>1, <1>4, <1>5, <1>6, Beginning DEF Commands

LEMMA ApproveBegins ==
  ASSUME IInv, NEW p \in Procs, NEW x \in People, BeginApprove(p, x)
  PROVE  IInv'
<1> DEFINE r == [runner |-> manifest.roles.runner, verifier |-> manifest.roles.verifier,
                 reviewer |-> manifest.roles.reviewer, human |-> x]
           m == With(r)
<1>1. PICK i \in Iterations :
        /\ IsLatest("evaluation", i)
        /\ Begins(p, "approve", {"awaiting_human"}, "look", m, evidence["evaluation"][i].content)
  BY DEF BeginApprove
<1>2. r \in Roles /\ Separate(r)
  BY PeopleAssumption
  DEF BeginApprove, Prior, Roles, Separate, IInv, RolesAreSeparate, TypeOK, Manifests
<1>3. m \in Manifests /\ m.roles = r
  BY <1>2, Copies
<1> DEFINE seen == evidence["evaluation"][i].content
           c == [op |-> "approve", at |-> "look", m |-> m, seen |-> seen, record |-> None]
<1>4. seen \in Contents
  BY <1>1 DEF IsLatest, Has, IInv, RolesAreSeparate, TypeOK, Records, Kinds
<1>5. CopyOK(c)
  BY <1>2, <1>3, <1>4 DEF CopyOK
<1> QED
  BY <1>1, <1>3, <1>4, <1>5, Beginning DEF Commands

\* The commands that name nobody.
LEMMA OthersBegin ==
  ASSUME IInv, NEW p \in Procs,
         \/ \E x \in People : BeginLearn(p, x)
         \/ BeginEscalate(p) \/ BeginRollback(p)
  PROVE  IInv'
<1>1. manifest \in Manifests /\ Separate(manifest.roles)
  BY DEF IInv, RolesAreSeparate, TypeOK
<1>2. CASE \E x \in People : BeginLearn(p, x)
  <2>1. PICK i \in Iterations :
          /\ IsLatest("evaluation", i)
          /\ Begins(p, "learn", {"awaiting_documentation"}, "look", manifest,
                    evidence["evaluation"][i].content)
    BY <1>2 DEF BeginLearn
  <2> DEFINE seen == evidence["evaluation"][i].content
             c == [op |-> "learn", at |-> "look", m |-> manifest, seen |-> seen, record |-> None]
  <2>2. seen \in Contents
    BY <2>1 DEF IsLatest, Has, IInv, RolesAreSeparate, TypeOK, Records, Kinds
  <2>3. CopyOK(c)
    BY <1>1 DEF CopyOK
  <2> QED
    BY <1>1, <2>1, <2>2, <2>3, Beginning DEF Commands
<1>3. CASE BeginEscalate(p)
  <2> DEFINE m == Moved(manifest, "escalated")
             c == [op |-> "escalate", at |-> "manifest", m |-> m, seen |-> None, record |-> None]
  <2>1. m \in Manifests /\ m.roles = manifest.roles /\ m.state = "escalated"
    BY <1>1, Moves DEF States
  <2>2. CopyOK(c)
    BY <1>1, <2>1 DEF CopyOK, Fresh
  <2> QED
    BY <1>3, <2>1, <2>2, Beginning DEF Commands, BeginEscalate
<1>4. CASE BeginRollback(p)
  <2> DEFINE c == [op |-> "rollback", at |-> "restore", m |-> manifest, seen |-> repo,
                   record |-> None]
  <2>1. CopyOK(c)
    BY <1>1 DEF CopyOK
  <2>2. repo \in Contents
    BY DEF IInv, RolesAreSeparate, TypeOK
  <2> QED
    BY <1>1, <1>4, <2>1, <2>2, Beginning DEF Commands, BeginRollback
<1> QED
  BY <1>2, <1>3, <1>4

-----------------------------------------------------------------------------
\* A command goes on without touching a file.
LEMMA Going ==
  ASSUME IInv, NEW p \in Procs, call[p] # None,
         NEW at \in {"look", "record", "manifest", "digest"}, NEW m \in Manifests,
         NEW record \in Records \cup {None},
         Continues(p, at, m, None, record),
         CopyOK([op |-> call[p].op, at |-> at, m |-> m, seen |-> None, record |-> record]),
         manifest' \in Manifests, Separate(manifest'.roles), Fresh(manifest'),
         evidence' \in [Kinds -> [Iterations -> Records \cup {None}]],
         repo' \in Contents, UNCHANGED <<digest, overlaps, crashes>>
  PROVE  IInv'
<1> DEFINE c == [op |-> call[p].op, at |-> at, m |-> m, seen |-> None, record |-> record]
<1>1. c \in Calls
  BY DEF Calls, IInv, RolesAreSeparate, TypeOK
<1>2. CopyOK(c)
  OBVIOUS
<1>3. call' = [call EXCEPT ![p] = c] /\ torn' = torn \ {p}
  BY DEF Continues
<1>4. digest' \in Manifests /\ overlaps' \in Nat /\ crashes' \in Nat
  BY DEF IInv, RolesAreSeparate, TypeOK
<1> HIDE DEF c
<1> QED
  BY <1>1, <1>2, <1>3, <1>4, OneCall

\* A command ends.
LEMMA Ending ==
  ASSUME IInv, NEW p \in Procs, Ends(p), UNCHANGED <<manifest, evidence, repo, overlaps>>,
         digest' \in Manifests, crashes' \in Nat
  PROVE  IInv'
<1>1. /\ manifest' \in Manifests /\ Separate(manifest'.roles) /\ Fresh(manifest')
      /\ evidence' \in [Kinds -> [Iterations -> Records \cup {None}]]
      /\ repo' \in Contents /\ overlaps' \in Nat
  BY DEF IInv, RolesAreSeparate, TypeOK
<1> QED
  BY <1>1, OneCall DEF Ends

\* The files are in order before the step.
LEMMA FilesOK ==
  ASSUME IInv
  PROVE  /\ manifest \in Manifests /\ digest \in Manifests
         /\ Separate(manifest.roles) /\ Fresh(manifest)
         /\ evidence \in [Kinds -> [Iterations -> Records \cup {None}]]
         /\ repo \in Contents /\ overlaps \in Nat /\ crashes \in Nat
  BY DEF IInv, RolesAreSeparate, TypeOK

LEMMA CallTyped ==
  ASSUME IInv, NEW p \in Procs, call[p] # None
  PROVE  /\ call[p] \in Calls /\ CopyOK(call[p])
         /\ call[p].m \in Manifests /\ Separate(call[p].m.roles)
  BY DEF IInv, RolesAreSeparate, TypeOK, Calls

LEMMA EvaluateConcludes ==
  ASSUME IInv, NEW p \in Procs, NEW suite \in {None} \cup Signatures, NEW late \in BOOLEAN,
         NEW tree \in TreeFailures, NEW d \in Contents, Evaluate(p, suite, late, tree, d)
  PROVE  IInv'
<1> DEFINE old == call[p].m
           f == Verdict(tree, suite)
           t == Counted(old.tally, d, f)
           s == IF MustStop(t, old.iteration + 1, late) THEN "escalated"
                ELSE IF f = None THEN "awaiting_security" ELSE "active"
           m == [state |-> s, iteration |-> old.iteration + 1, tally |-> t,
                 roles |-> old.roles]
           record == [passed |-> f = None, content |-> d, signature |-> f, torn |-> p \in torn]
           c == [op |-> call[p].op, at |-> "record", m |-> m, seen |-> None, record |-> record]
<1>1. call[p] # None /\ call[p].op = "evaluate" /\ call[p].at = "look"
  BY DEF Evaluate, At
<1>2. /\ old \in Manifests /\ Separate(old.roles) /\ old.iteration < MaxIterations
      /\ old.roles.verifier = None /\ old.roles.reviewer = None /\ old.roles.human = None
  BY <1>1, CallTyped DEF CopyOK
<1>3. f \in Failure
  BY DEF Verdict, TreeFailures, Failure
<1>4. (p \in torn) \in BOOLEAN
  OBVIOUS
<1>5. t \in Tallies
  BY <1>2, <1>3 DEF Counted, Tallies, Manifests
<1>6. m \in Manifests
  <2>1. old.iteration + 1 \in 0..MaxIterations
    BY <1>2, ControlsAssumption DEF Manifests
  <2>2. s \in States
    BY DEF States
  <2>3. old.roles \in Roles
    BY <1>2 DEF Manifests
  <2> HIDE DEF t, s, old
  <2> QED
    BY <1>5, <2>1, <2>2, <2>3 DEF Manifests
<1>7. record \in Records
  BY <1>3, <1>4 DEF Records
<1>8. Fresh(m) /\ Separate(m.roles)
  BY <1>2 DEF Fresh
<1>9. CopyOK(c)
  <2> HIDE DEF m, record
  <2> QED
    BY <1>8 DEF CopyOK
<1>10. Continues(p, "record", m, None, record) /\ UNCHANGED <<manifest, digest, evidence, repo, overlaps, crashes>>
  BY DEF Evaluate
<1> HIDE DEF m, record
<1> QED
  BY <1>1, <1>6, <1>7, <1>9, <1>10, FilesOK, Going

\* A later gate concludes: only the state of its copy changes.
LEMMA GateConcludes ==
  ASSUME IInv, NEW p \in Procs, call[p] # None, NEW s \in States,
         NEW at \in {"record", "manifest"}, NEW record \in Records \cup {None},
         Continues(p, at, Moved(call[p].m, s), None, record),
         \/ s \in {"active", "rejected", "awaiting_documentation", "completed", "rolled_back"}
         \/ s = "awaiting_review" /\ call[p].op = "verify" /\ call[p].at = "look"
         \/ s = "awaiting_human" /\ call[p].op = "review" /\ call[p].at = "look",
         UNCHANGED <<manifest, digest, evidence, repo, overlaps, crashes>>
  PROVE  IInv'
<1> DEFINE m == Moved(call[p].m, s)
           c == [op |-> call[p].op, at |-> at, m |-> m, seen |-> None, record |-> record]
<1>1. call[p].m \in Manifests /\ Separate(call[p].m.roles) /\ CopyOK(call[p])
  BY CallTyped
<1>2. m \in Manifests /\ m.roles = call[p].m.roles /\ m.state = s
  BY <1>1, Moves
<1>3. Fresh(m)
  BY <1>1, <1>2 DEF CopyOK, Fresh
<1> HIDE DEF m
<1>4. CopyOK(c)
  BY <1>1, <1>2, <1>3 DEF CopyOK
<1> QED
  BY <1>2, <1>4, FilesOK, Going DEF m

LEMMA Concludes ==
  ASSUME IInv, NEW p \in Procs,
         \/ \E clean \in BOOLEAN, d \in Contents : Verify(p, clean, d)
         \/ Learn(p) \/ Refuse(p) \/ ConfirmRestored(p)
         \/ \E yes \in BOOLEAN : Decide(p, yes)
  PROVE  IInv'
<1>1. ASSUME NEW clean \in BOOLEAN, NEW d \in Contents, Verify(p, clean, d) PROVE IInv'
  <2> DEFINE s == IF Secure(clean, d, call[p].seen) THEN "awaiting_review" ELSE "active"
             record == [passed |-> Secure(clean, d, call[p].seen), content |-> d,
                        signature |-> None, torn |-> p \in torn]
  <2>1. record \in Records
    BY DEF Records, Secure, Failure
  <2> QED
    BY <1>1, <2>1, GateConcludes DEF Verify, At, States
<1>2. ASSUME NEW yes \in BOOLEAN, Decide(p, yes) PROVE IInv'
  <2> DEFINE record == [passed |-> yes, content |-> call[p].seen, signature |-> None,
                        torn |-> p \in torn]
  <2>1. call[p].seen \in Contents
    BY <1>2, CallTyped DEF Decide, At, CopyOK
  <2>2. record \in Records
    BY <2>1 DEF Records, Failure
  <2> QED
    BY <1>2, <2>2, GateConcludes DEF Decide, Decided, At, States
<1>3. CASE Learn(p)
  BY <1>3, GateConcludes DEF Learn, At, States
<1>4. CASE Refuse(p)
  BY <1>4, FilesOK, Ending DEF Refuse
<1>5. CASE ConfirmRestored(p)
  <2>1. CASE Continues(p, "manifest", Moved(call[p].m, "rolled_back"), None, None)
    BY <1>5, <2>1, GateConcludes DEF ConfirmRestored, At, States
  <2>2. CASE Ends(p)
    BY <1>5, <2>2, FilesOK, Ending DEF ConfirmRestored
  <2> QED
    BY <1>5, <2>1, <2>2 DEF ConfirmRestored
<1> QED
  BY <1>1, <1>2, <1>3, <1>4, <1>5

-----------------------------------------------------------------------------
LEMMA Writes ==
  ASSUME IInv, NEW p \in Procs,
         \/ Restore(p) \/ SaveEvidence(p) \/ WriteManifest(p) \/ WriteDigest(p) \/ Crash(p)
  PROVE  IInv'
<1>1. CASE Restore(p)
  <2>1. call[p] # None /\ call[p].op = "rollback" /\ repo' \in Contents
    BY <1>1, FilesOK, TreeAssumption DEF Restore, At
  <2> DEFINE m == call[p].m
             c == [op |-> call[p].op, at |-> "look", m |-> m, seen |-> None, record |-> None]
  <2>2. CopyOK(c)
    BY <2>1, CallTyped DEF CopyOK
  <2> QED
    BY <1>1, <2>1, <2>2, CallTyped, FilesOK, Going DEF Restore
<1>2. CASE SaveEvidence(p)
  <2> DEFINE k == KindOf(call[p].op)
             i == call[p].m.iteration
             m == call[p].m
             c == [op |-> call[p].op, at |-> "manifest", m |-> m, seen |-> None,
                   record |-> None]
  <2>1. call[p] # None /\ call[p].at = "record"
    BY <1>2 DEF SaveEvidence, At
  <2>2. CASE Has(k, i)
    BY <1>2, <2>2, FilesOK, Ending DEF SaveEvidence
  <2>3. CASE ~Has(k, i)
    <3>1. /\ Continues(p, "manifest", m, None, None)
          /\ evidence' = [evidence EXCEPT ![k] = [@ EXCEPT ![i] = call[p].record]]
      BY <1>2, <2>3 DEF SaveEvidence
    <3>2. evidence' \in [Kinds -> [Iterations -> Records \cup {None}]]
      BY <2>1, <3>1, CallTyped, FilesOK DEF Calls
    <3>3. CopyOK(c)
      BY <2>1, CallTyped DEF CopyOK
    <3> QED
      BY <1>2, <2>1, <3>1, <3>2, <3>3, CallTyped, FilesOK, Going DEF SaveEvidence
  <2> QED
    BY <2>2, <2>3
<1>3. CASE WriteManifest(p)
  <2> DEFINE m == call[p].m
             c == [op |-> call[p].op, at |-> "digest", m |-> m, seen |-> None, record |-> None]
  <2>1. call[p] # None /\ call[p].at = "manifest"
    BY <1>3 DEF WriteManifest, At
  <2>2. m \in Manifests /\ Separate(m.roles) /\ Fresh(m)
    BY <2>1, CallTyped DEF CopyOK
  <2>3. CopyOK(c)
    BY <2>2 DEF CopyOK
  <2> QED
    BY <1>3, <2>1, <2>2, <2>3, FilesOK, Going DEF WriteManifest
<1>4. CASE WriteDigest(p)
  <2>1. call[p] # None
    BY <1>4 DEF WriteDigest, At
  <2> QED
    BY <1>4, <2>1, CallTyped, FilesOK, Ending DEF WriteDigest
<1>5. CASE Crash(p)
  BY <1>5, FilesOK, Ending DEF Crash
<1> QED
  BY <1>1, <1>2, <1>3, <1>4, <1>5

LEMMA NextIInv == IInv /\ [Next]_vars => IInv'
<1> SUFFICES ASSUME IInv, [Next]_vars PROVE IInv'
  OBVIOUS
<1>1. ASSUME NEW p \in Procs, Start(p) PROVE IInv'
  BY <1>1, EvaluateBegins, VerifyBegins, ReviewBegins, ApproveBegins, OthersBegin DEF Start
<1>2. ASSUME NEW p \in Procs, Step(p) PROVE IInv'
  BY <1>2, EvaluateConcludes, Concludes, Writes DEF Step
<1>3. ASSUME NEW c \in Contents, NEW under \in SUBSET Procs, Edit(c, under) PROVE IInv'
  BY <1>3 DEF Edit, IInv, RolesAreSeparate, TypeOK, CopyOK, Separate, Fresh
<1>4. CASE UNCHANGED vars
  BY <1>4 DEF vars, IInv, RolesAreSeparate, TypeOK, CopyOK, Separate, Fresh
<1> QED
  BY <1>1, <1>2, <1>3, <1>4 DEF Next

(* No two roles of an iteration are ever one person, whatever overlaps.    *)
THEOREM RolesStaySeparate == Spec => []RolesAreSeparate
<1>1. IInv => RolesAreSeparate
  BY DEF IInv
<1> QED
  BY <1>1, InitIInv, NextIInv, PTL DEF Spec

-----------------------------------------------------------------------------
(***************************************************************************)
(* One diff through every gate, as long as no two commands overlapped.     *)
(*                                                                         *)
(* GatesAgree says nothing of the moments between the look at the tree and *)
(* the save.  The invariant follows a command through them: what its copy  *)
(* and its record will have shown once both are written (GoingThrough).    *)
(* A review, an approval and the learning record compare the tree with the *)
(* latest evaluation, whatever its iteration; that it is the one of the    *)
(* manifest's iteration follows from verify_security_policy having looked, *)
(* and from no evaluation being possible after it (Standing).              *)
(***************************************************************************)
Holds(ev, k, i) ==
  /\ ev[k][i] # None /\ ev[k][i].passed
  /\ ev[k][i].content = ev["evaluation"][i].content
  /\ ev[k][i].torn \/ ev["evaluation"][i].content \in Acceptable(k)

\* The evidence ev behind a manifest in state s and iteration i.
Standing(ev, s, i) ==
  Passed(s) # {} =>
    /\ i \in Iterations
    /\ \A k \in Passed(s) : Holds(ev, k, i)
    /\ \A j \in Iterations : j > i => ev["evaluation"][j] = None

\* A passing evaluation is of a change inside the boundary, or its reading torn.
Sound(ev) ==
  \A i \in Iterations :
    ev["evaluation"][i] # None /\ ev["evaluation"][i].passed =>
      \/ ev["evaluation"][i].torn
      \/ ev["evaluation"][i].content \in Acceptable("evaluation")

\* The state in which each later gate loads its copy.
Awaited(op) == CASE op = "review" -> "awaiting_review" [] op = "approve" -> "awaiting_human"
                 [] OTHER -> "awaiting_documentation"

\* A command c while the files hold the evidence ev and a manifest in state s.
GoingThrough(c, ev, s) ==
  /\ c.op = "evaluate" /\ c.at \in {"look", "record"} => Passed(s) = {}
  /\ c.op = "evaluate" /\ c.at = "record" =>
       /\ Passed(c.m.state) = {} /\ c.m.iteration \in Iterations
       /\ c.record \in Records
       /\ c.record.passed =>
            c.record.torn \/ c.record.content \in Acceptable("evaluation")
  /\ c.op = "verify" /\ c.at = "look" =>
       /\ c.m.iteration \in Iterations
       /\ ev["evaluation"][c.m.iteration] # None
       /\ ev["evaluation"][c.m.iteration].passed
       /\ c.seen = ev["evaluation"][c.m.iteration].content
       /\ \A j \in Iterations : j > c.m.iteration => ev["evaluation"][j] = None
  /\ c.op \in {"review", "approve", "learn"} /\ c.at = "look" =>
       /\ c.m.state = Awaited(c.op)
       /\ Standing(ev, c.m.state, c.m.iteration)
       /\ c.seen = ev["evaluation"][c.m.iteration].content
  /\ c.op # "evaluate" /\ c.at = "record" =>
       /\ c.record \in Records /\ c.m.iteration \in Iterations
       /\ Passed(c.m.state) # {} =>
            /\ c.record.passed
            /\ \/ c.record.torn
               \/ ev["evaluation"][c.m.iteration].content \in Acceptable(KindOf(c.op))
            /\ c.record.content = ev["evaluation"][c.m.iteration].content
            /\ \A k \in Passed(c.m.state) \ {KindOf(c.op)} : Holds(ev, k, c.m.iteration)
            /\ \A j \in Iterations : j > c.m.iteration => ev["evaluation"][j] = None
  /\ c.at = "manifest" => Standing(ev, c.m.state, c.m.iteration)

GInv ==
  overlaps = 0 =>
    /\ \A p, q \in Procs : call[p] # None /\ call[q] # None => p = q
    /\ Sound(evidence)
    /\ Standing(evidence, manifest.state, manifest.iteration)
    /\ \A p \in Procs : call[p] # None => GoingThrough(call[p], evidence, manifest.state)

LEMMA GatesPassed ==
  /\ Passed("active") = {} /\ Passed("awaiting_security") = {} /\ Passed("escalated") = {}
  /\ Passed("rejected") = {} /\ Passed("rolled_back") = {}
  /\ Passed("awaiting_review") = {"evaluation", "security"}
  /\ Passed("awaiting_human") = {"evaluation", "security", "review"}
  /\ Passed("awaiting_documentation") = Kinds /\ Passed("completed") = Kinds
  BY DEF Passed

LEMMA InitGInv == Init => GInv
<1> SUFFICES ASSUME Init PROVE GInv
  OBVIOUS
<1>1. Passed(manifest.state) = {}
  BY GatesPassed DEF Init, FirstManifest
<1>2. Sound(evidence)
  BY DEF Init, Sound, Kinds
<1> QED
  BY <1>1, <1>2 DEF Init, GInv, Standing

\* One call changes; if it begins, it is alone.
LEMMA OneGate ==
  ASSUME IInv, GInv, NEW p \in Procs, NEW c,
         call' = [call EXCEPT ![p] = c],
         overlaps' \in Nat, overlaps' = 0 => overlaps = 0,
         (call[p] = None /\ c # None /\ overlaps' = 0) =>
            \A q \in Procs \ {p} : call[q] = None,
         overlaps' = 0 =>
           /\ Sound(evidence') /\ Standing(evidence', manifest'.state, manifest'.iteration)
           /\ c # None => GoingThrough(c, evidence', manifest'.state)
           /\ call[p] = None /\ c = None => UNCHANGED <<evidence, manifest>>
  PROVE  GInv'
<1> SUFFICES ASSUME overlaps' = 0
             PROVE  /\ \A q, r \in Procs : call'[q] # None /\ call'[r] # None => q = r
                    /\ \A q \in Procs :
                         call'[q] # None => GoingThrough(call'[q], evidence', manifest'.state)
  BY DEF GInv, Sound, Standing, GoingThrough
<1>1. call \in [Procs -> Calls \cup {None}]
  BY DEF IInv, RolesAreSeparate, TypeOK
<1>2. \A q, r \in Procs : call[q] # None /\ call[r] # None => q = r
  BY DEF GInv
<1>3. \A q \in Procs : call[q] # None => GoingThrough(call[q], evidence, manifest.state)
  BY DEF GInv
<1>4. \A q \in Procs : call'[q] = IF q = p THEN c ELSE call[q]
  BY <1>1
<1>5. c # None => \A q \in Procs \ {p} : call[q] = None
  BY <1>2
<1>6. call[p] # None => \A q \in Procs \ {p} : call[q] = None
  BY <1>2
<1>7. CASE call[p] = None /\ c = None
  BY <1>2, <1>3, <1>4, <1>7
<1>8. CASE call[p] # None \/ c # None
  BY <1>4, <1>5, <1>6, <1>8
<1> QED
  BY <1>7, <1>8

LEMMA GateBegins ==
  ASSUME IInv, GInv, NEW p \in Procs, NEW op, NEW allowed, NEW at, NEW m, NEW seen,
         Begins(p, op, allowed, at, m, seen),
         overlaps = 0 =>
           GoingThrough([op |-> op, at |-> at, m |-> m, seen |-> seen, record |-> None],
                        evidence, manifest.state)
  PROVE  GInv'
<1> DEFINE c == [op |-> op, at |-> at, m |-> m, seen |-> seen, record |-> None]
<1>1. /\ call[p] = None /\ call' = [call EXCEPT ![p] = c]
      /\ UNCHANGED <<manifest, evidence>>
  BY DEF Begins
<1>2. overlaps' \in Nat /\ (overlaps' = 0 => overlaps = 0)
  BY DEF Begins, IInv, RolesAreSeparate, TypeOK
<1>3. overlaps' = 0 => \A q \in Procs \ {p} : call[q] = None
  BY DEF Begins, IInv, RolesAreSeparate, TypeOK
<1>4. overlaps' = 0 => GoingThrough(c, evidence', manifest'.state)
  BY <1>1, <1>2
<1>5. overlaps' = 0 =>
        Sound(evidence') /\ Standing(evidence', manifest'.state, manifest'.iteration)
  BY <1>1, <1>2 DEF GInv
<1> HIDE DEF c
<1> QED
  BY <1>1, <1>2, <1>3, <1>4, <1>5, OneGate

LEMMA StartGates ==
  ASSUME IInv, GInv, NEW p \in Procs, Start(p)
  PROVE  GInv'
<1>1. ASSUME NEW x \in People, BeginEvaluate(p, x) PROVE GInv'
  <2> DEFINE m == With([runner |-> x, verifier |-> None, reviewer |-> None, human |-> None])
             c == [op |-> "evaluate", at |-> "look", m |-> m, seen |-> None, record |-> None]
  <2>1. Begins(p, "evaluate", {"active", "awaiting_security"}, "look", m, None)
    BY <1>1 DEF BeginEvaluate
  <2>2. Passed(manifest.state) = {}
    BY <2>1, GatesPassed DEF Begins
  <2>3. GoingThrough(c, evidence, manifest.state)
    BY <2>2 DEF GoingThrough
  <2> QED
    BY <2>1, <2>3, GateBegins
<1>2. ASSUME NEW x \in People, BeginVerify(p, x) PROVE GInv'
  <2> DEFINE r == [runner |-> manifest.roles.runner, verifier |-> x,
                   reviewer |-> manifest.roles.reviewer, human |-> manifest.roles.human]
             m == With(r)
  <2>1. PICK i \in Iterations :
          /\ IsLatest("evaluation", i)
          /\ evidence["evaluation"][i].passed /\ i = manifest.iteration
          /\ Begins(p, "verify", {"awaiting_security"}, "look", m,
                    evidence["evaluation"][i].content)
    BY <1>2 DEF BeginVerify
  <2> DEFINE seen == evidence["evaluation"][i].content
             c == [op |-> "verify", at |-> "look", m |-> m, seen |-> seen, record |-> None]
  <2>2. m.iteration = manifest.iteration
    BY FilesOK DEF With, Manifests
  <2>3. \A j \in Iterations : j > i => evidence["evaluation"][j] = None
    BY <2>1, ControlsAssumption DEF IsLatest, Has, Iterations
  <2>4. evidence["evaluation"][i] # None
    BY <2>1 DEF IsLatest, Has
  <2> HIDE DEF m
  <2>5. GoingThrough(c, evidence, manifest.state)
    BY <2>1, <2>2, <2>3, <2>4 DEF GoingThrough
  <2> QED
    BY <2>1, <2>5, GateBegins
<1>3. ASSUME NEW op \in {"review", "approve", "learn"}, NEW m \in Manifests,
             m.state = manifest.state, m.iteration = manifest.iteration,
             NEW i \in Iterations, IsLatest("evaluation", i),
             Begins(p, op, {Awaited(op)}, "look", m, evidence["evaluation"][i].content)
      PROVE  GInv'
  <2> DEFINE seen == evidence["evaluation"][i].content
             c == [op |-> op, at |-> "look", m |-> m, seen |-> seen, record |-> None]
  <2>1. m.state = Awaited(op)
    BY <1>3 DEF Begins
  <2>2. ASSUME overlaps = 0 PROVE GoingThrough(c, evidence, manifest.state)
    <3>1. Standing(evidence, m.state, m.iteration)
      BY <1>3, <2>2 DEF GInv
    <3>2. "evaluation" \in Passed(m.state)
      BY <2>1, GatesPassed DEF Awaited, Kinds
    <3>3. /\ m.iteration \in Iterations /\ evidence["evaluation"][m.iteration] # None
          /\ \A j \in Iterations : j > m.iteration => evidence["evaluation"][j] = None
      BY <3>1, <3>2 DEF Standing, Holds
    <3>4. i = m.iteration
      BY <1>3, <3>3, ControlsAssumption DEF IsLatest, Has, Iterations
    <3> QED
      BY <2>1, <3>1, <3>4 DEF GoingThrough
  <2> QED
    BY <1>3, <2>2, GateBegins
<1>4. ASSUME NEW x \in People, BeginReview(p, x) PROVE GInv'
  <2> DEFINE r == [runner |-> manifest.roles.runner, verifier |-> manifest.roles.verifier,
                   reviewer |-> x, human |-> manifest.roles.human]
             m == With(r)
  <2>1. r \in Roles
    BY FilesOK DEF Manifests, Roles
  <2>2. m \in Manifests /\ m.state = manifest.state /\ m.iteration = manifest.iteration
    BY <2>1, Copies
  <2>3. Awaited("review") = "awaiting_review"
    BY DEF Awaited
  <2> QED
    BY <1>3, <1>4, <2>2, <2>3 DEF BeginReview
<1>5. ASSUME NEW x \in People, BeginApprove(p, x) PROVE GInv'
  <2> DEFINE r == [runner |-> manifest.roles.runner, verifier |-> manifest.roles.verifier,
                   reviewer |-> manifest.roles.reviewer, human |-> x]
             m == With(r)
  <2>1. r \in Roles
    BY FilesOK DEF Manifests, Roles
  <2>2. m \in Manifests /\ m.state = manifest.state /\ m.iteration = manifest.iteration
    BY <2>1, Copies
  <2>3. Awaited("approve") = "awaiting_human"
    BY DEF Awaited
  <2> QED
    BY <1>3, <1>5, <2>2, <2>3 DEF BeginApprove
<1>6. ASSUME NEW x \in People, BeginLearn(p, x) PROVE GInv'
  <2>1. Awaited("learn") = "awaiting_documentation"
    BY DEF Awaited
  <2> QED
    BY <1>3, <1>6, <2>1, FilesOK DEF BeginLearn
<1>7. ASSUME BeginEscalate(p) PROVE GInv'
  <2> DEFINE m == Moved(manifest, "escalated")
             c == [op |-> "escalate", at |-> "manifest", m |-> m, seen |-> None, record |-> None]
  <2>1. m.state = "escalated"
    BY FilesOK, Moves DEF States
  <2>2. GoingThrough(c, evidence, manifest.state)
    BY <2>1, GatesPassed DEF GoingThrough, Standing
  <2> QED
    BY <1>7, <2>2, GateBegins DEF BeginEscalate
<1>8. ASSUME BeginRollback(p) PROVE GInv'
  <2> DEFINE c == [op |-> "rollback", at |-> "restore", m |-> manifest, seen |-> repo,
                   record |-> None]
  <2>1. GoingThrough(c, evidence, manifest.state)
    BY DEF GoingThrough
  <2> QED
    BY <1>8, <2>1, GateBegins DEF BeginRollback
<1> QED
  BY <1>1, <1>2, <1>4, <1>5, <1>6, <1>7, <1>8 DEF Start

-----------------------------------------------------------------------------
\* A command concludes: the files stay as they are.
LEMMA GateGoes ==
  ASSUME IInv, GInv, NEW p \in Procs, call[p] # None, NEW at, NEW m, NEW record,
         Continues(p, at, m, None, record),
         UNCHANGED <<manifest, evidence, overlaps>>,
         overlaps = 0 =>
           GoingThrough([op |-> call[p].op, at |-> at, m |-> m, seen |-> None,
                         record |-> record], evidence, manifest.state)
  PROVE  GInv'
<1> DEFINE c == [op |-> call[p].op, at |-> at, m |-> m, seen |-> None, record |-> record]
<1>1. call' = [call EXCEPT ![p] = c]
  BY DEF Continues
<1>2. overlaps' \in Nat /\ overlaps' = overlaps
  BY FilesOK
<1>3. overlaps' = 0 =>
        /\ Sound(evidence') /\ Standing(evidence', manifest'.state, manifest'.iteration)
        /\ GoingThrough(c, evidence', manifest'.state)
  BY <1>2 DEF GInv
<1> HIDE DEF c
<1> QED
  BY <1>1, <1>2, <1>3, OneGate

\* A command ends; the manifest and the evidence stay as they are.
LEMMA GateEnds ==
  ASSUME IInv, GInv, NEW p \in Procs, call[p] # None, Ends(p),
         UNCHANGED <<manifest, evidence, overlaps>>
  PROVE  GInv'
<1>1. overlaps' \in Nat /\ overlaps' = overlaps
  BY FilesOK
<1>2. overlaps' = 0 =>
        Sound(evidence') /\ Standing(evidence', manifest'.state, manifest'.iteration)
  BY <1>1 DEF GInv
<1> QED
  BY <1>1, <1>2, OneGate DEF Ends

LEMMA EvaluateGates ==
  ASSUME IInv, GInv, NEW p \in Procs, NEW suite \in {None} \cup Signatures,
         NEW late \in BOOLEAN, NEW tree \in TreeFailures, NEW d \in Contents,
         Evaluate(p, suite, late, tree, d)
  PROVE  GInv'
<1> DEFINE old == call[p].m
           f == Verdict(tree, suite)
           t == Counted(old.tally, d, f)
           s == IF MustStop(t, old.iteration + 1, late) THEN "escalated"
                ELSE IF f = None THEN "awaiting_security" ELSE "active"
           m == [state |-> s, iteration |-> old.iteration + 1, tally |-> t,
                 roles |-> old.roles]
           record == [passed |-> f = None, content |-> d, signature |-> f, torn |-> p \in torn]
           c == [op |-> call[p].op, at |-> "record", m |-> m, seen |-> None, record |-> record]
<1>1. call[p] # None /\ call[p].op = "evaluate" /\ call[p].at = "look"
  BY DEF Evaluate, At
<1>2. old.iteration \in 0..MaxIterations /\ old.iteration < MaxIterations
  BY <1>1, CallTyped DEF CopyOK, Manifests
<1>3. m.iteration \in Iterations
  BY <1>2, ControlsAssumption DEF Iterations
<1>4. Passed(m.state) = {}
  BY GatesPassed
<1>5. f \in Failure /\ (f = None => p \in torn \/ d \in Acceptable("evaluation"))
  <2>1. f \in Failure /\ (f = None => tree = None)
    BY NoneAssumption DEF Verdict, TreeFailures, Failure
  <2>2. p \in torn \/ (tree = TreeFailure(repo) /\ d = repo)
    BY DEF Evaluate, Finds
  <2>3. TreeFailure(repo) = None => repo \notin {Base} \cup Stray
    BY NoneAssumption DEF TreeFailure
  <2> QED
    BY <2>1, <2>2, <2>3 DEF Acceptable
<1>6. /\ record \in Records
      /\ record.passed => record.torn \/ record.content \in Acceptable("evaluation")
  BY <1>5 DEF Records
<1>7. overlaps = 0 => Passed(manifest.state) = {}
  BY <1>1 DEF GInv, GoingThrough
<1>8. /\ Continues(p, "record", m, None, record)
      /\ UNCHANGED <<manifest, evidence, overlaps>>
  BY DEF Evaluate
<1> HIDE DEF m, record
<1>9. overlaps = 0 => GoingThrough(c, evidence, manifest.state)
  BY <1>1, <1>3, <1>4, <1>6, <1>7 DEF GoingThrough
<1> QED
  BY <1>1, <1>8, <1>9, GateGoes

LEMMA VerifyGates ==
  ASSUME IInv, GInv, NEW p \in Procs, NEW clean \in BOOLEAN, NEW d \in Contents,
         Verify(p, clean, d)
  PROVE  GInv'
<1> DEFINE ok == Secure(clean, d, call[p].seen)
           m == Moved(call[p].m, IF ok THEN "awaiting_review" ELSE "active")
           record == [passed |-> ok, content |-> d, signature |-> None, torn |-> p \in torn]
           i == call[p].m.iteration
           c == [op |-> call[p].op, at |-> "record", m |-> m, seen |-> None, record |-> record]
<1>1. call[p] # None /\ call[p].op = "verify" /\ call[p].at = "look"
  BY DEF Verify, At
<1>2. /\ m.state = IF ok THEN "awaiting_review" ELSE "active"
      /\ m.iteration = i
  BY <1>1, CallTyped DEF Moved, Manifests
<1>3. record \in Records /\ (p \in torn \/ ((clean <=> repo \notin Stray \cup Unsafe) /\ d = repo))
  BY DEF Records, Secure, Failure, Verify, Finds, PolicyHolds
<1>4. ASSUME overlaps = 0 PROVE GoingThrough(c, evidence, manifest.state)
  <2>1. /\ i \in Iterations /\ evidence["evaluation"][i] # None
        /\ evidence["evaluation"][i].passed
        /\ call[p].seen = evidence["evaluation"][i].content
        /\ \A j \in Iterations : j > i => evidence["evaluation"][j] = None
    BY <1>1, <1>4 DEF GInv, GoingThrough
  <2>2. \/ evidence["evaluation"][i].torn
        \/ evidence["evaluation"][i].content \in Acceptable("evaluation")
    BY <1>4, <2>1 DEF GInv, Sound
  <2>3. CASE ok
    <3>1. /\ record.passed /\ record.content = evidence["evaluation"][i].content
          /\ record.torn \/ evidence["evaluation"][i].content \in Acceptable(KindOf("verify"))
      BY <1>3, <2>1, <2>3 DEF Secure, Acceptable, KindOf
    <3>2. Passed(m.state) \ {KindOf("verify")} = {"evaluation"}
      BY <1>2, <2>3, GatesPassed DEF KindOf
    <3>3. Holds(evidence, "evaluation", i)
      BY <2>1, <2>2 DEF Holds
    <3> HIDE DEF m, record, i
    <3> QED
      BY <1>1, <1>2, <1>3, <2>1, <3>1, <3>2, <3>3 DEF GoingThrough
  <2>4. CASE ~ok
    <3>1. Passed(m.state) = {}
      BY <1>2, <2>4, GatesPassed
    <3> HIDE DEF m, record, i
    <3> QED
      BY <1>1, <1>2, <1>3, <2>1, <3>1 DEF GoingThrough
  <2> QED
    BY <2>3, <2>4
<1>5. Continues(p, "record", m, None, record) /\ UNCHANGED <<manifest, evidence, overlaps>>
  BY DEF Verify
<1> HIDE DEF m, record
<1> QED
  BY <1>1, <1>4, <1>5, GateGoes

LEMMA DecideGates ==
  ASSUME IInv, GInv, NEW p \in Procs, NEW yes \in BOOLEAN, Decide(p, yes)
  PROVE  GInv'
<1> DEFINE op == call[p].op
           old == call[p].m
           i == call[p].m.iteration
           m == Moved(old, Decided(op, yes))
           record == [passed |-> yes, content |-> call[p].seen, signature |-> None,
                      torn |-> p \in torn]
           c == [op |-> call[p].op, at |-> "record", m |-> m, seen |-> None, record |-> record]
<1>1. call[p] # None /\ op \in {"review", "approve"} /\ call[p].at = "look"
  BY DEF Decide, At
<1>2. m.state = Decided(op, yes) /\ m.iteration = i
  BY <1>1, CallTyped DEF Moved, Manifests
<1>3. call[p].seen \in Contents /\ record \in Records
  BY <1>1, CallTyped DEF CopyOK, Records, Failure
<1>4. ASSUME overlaps = 0 PROVE GoingThrough(c, evidence, manifest.state)
  <2>1. /\ old.state = Awaited(op) /\ Standing(evidence, old.state, i)
        /\ call[p].seen = evidence["evaluation"][i].content
    BY <1>1, <1>4 DEF GInv, GoingThrough
  <2>2. "evaluation" \in Passed(old.state)
    BY <1>1, <2>1, GatesPassed DEF Awaited
  <2>3. /\ i \in Iterations
        /\ \A k \in Passed(old.state) : Holds(evidence, k, i)
        /\ \A j \in Iterations : j > i => evidence["evaluation"][j] = None
    BY <2>1, <2>2 DEF Standing
  <2>4. /\ record.content = evidence["evaluation"][i].content /\ (yes => record.passed)
        /\ evidence["evaluation"][i].content \in Acceptable(KindOf(op))
    BY <1>1, <1>3, <2>1 DEF Acceptable, KindOf
  <2>5. IF yes THEN Passed(m.state) \ {KindOf(op)} = Passed(old.state)
        ELSE Passed(m.state) = {}
    BY <1>1, <1>2, <2>1, GatesPassed DEF Decided, Awaited, KindOf, Kinds
  <2>6. op # "evaluate" /\ op # "verify"
    BY <1>1
  <2> HIDE DEF m, record, i, old
  <2> QED
    BY <1>2, <1>3, <2>3, <2>4, <2>5, <2>6 DEF GoingThrough
<1>5. Continues(p, "record", m, None, record) /\ UNCHANGED <<manifest, evidence, overlaps>>
  BY DEF Decide
<1> HIDE DEF m, record
<1> QED
  BY <1>1, <1>4, <1>5, GateGoes

LEMMA OtherGates ==
  ASSUME IInv, GInv, NEW p \in Procs,
         \/ Learn(p) \/ Refuse(p) \/ Restore(p) \/ ConfirmRestored(p) \/ WriteDigest(p)
         \/ Crash(p)
  PROVE  GInv'
<1>1. CASE Learn(p)
  <2> DEFINE m == Moved(call[p].m, "completed")
             i == call[p].m.iteration
             c == [op |-> call[p].op, at |-> "manifest", m |-> m, seen |-> None,
                   record |-> None]
  <2>1. call[p] # None /\ call[p].op = "learn" /\ call[p].at = "look"
    BY <1>1 DEF Learn, At
  <2>2. m.state = "completed" /\ m.iteration = i
    BY <2>1, CallTyped DEF Moved, Manifests
  <2>3. ASSUME overlaps = 0 PROVE GoingThrough(c, evidence, manifest.state)
    <3>1. call[p].m.state = "awaiting_documentation" /\ Standing(evidence, call[p].m.state, i)
      BY <2>1, <2>3 DEF GInv, GoingThrough, Awaited
    <3>2. Standing(evidence, m.state, m.iteration)
      BY <2>2, <3>1, GatesPassed DEF Standing
    <3> HIDE DEF m
    <3> QED
      BY <2>1, <3>2 DEF GoingThrough
  <2> HIDE DEF m
  <2> QED
    BY <1>1, <2>1, <2>3, GateGoes DEF Learn, m
<1>2. CASE Refuse(p)
  BY <1>2, GateEnds DEF Refuse, At
<1>3. CASE Restore(p)
  <2>1. call[p] # None /\ call[p].op = "rollback"
    BY <1>3 DEF Restore, At
  <2> DEFINE c == [op |-> call[p].op, at |-> "look", m |-> call[p].m, seen |-> None,
                   record |-> None]
  <2>2. GoingThrough(c, evidence, manifest.state)
    BY <2>1 DEF GoingThrough
  <2> QED
    BY <1>3, <2>1, <2>2, GateGoes DEF Restore
<1>4. CASE ConfirmRestored(p)
  <2>1. call[p] # None /\ call[p].op = "rollback"
    BY <1>4 DEF ConfirmRestored, At
  <2>2. CASE Continues(p, "manifest", Moved(call[p].m, "rolled_back"), None, None)
    <3> DEFINE m == Moved(call[p].m, "rolled_back")
               c == [op |-> call[p].op, at |-> "manifest", m |-> m, seen |-> None,
                     record |-> None]
    <3>1. Passed(m.state) = {}
      BY <2>1, CallTyped, Moves, GatesPassed DEF States
    <3>2. GoingThrough(c, evidence, manifest.state)
      BY <2>1, <3>1 DEF GoingThrough, Standing
    <3> HIDE DEF m
    <3> QED
      BY <1>4, <2>1, <2>2, <3>2, GateGoes DEF ConfirmRestored, m
  <2>3. CASE Ends(p)
    BY <1>4, <2>1, <2>3, GateEnds DEF ConfirmRestored
  <2> QED
    BY <1>4, <2>2, <2>3 DEF ConfirmRestored
<1>5. CASE WriteDigest(p)
  BY <1>5, GateEnds DEF WriteDigest, At
<1>6. CASE Crash(p)
  BY <1>6, GateEnds DEF Crash
<1> QED
  BY <1>1, <1>2, <1>3, <1>4, <1>5, <1>6

\* The copy becomes the manifest.
LEMMA ManifestGates ==
  ASSUME IInv, GInv, NEW p \in Procs, WriteManifest(p)
  PROVE  GInv'
<1> DEFINE m == call[p].m
           c == [op |-> call[p].op, at |-> "digest", m |-> m, seen |-> None, record |-> None]
<1>1. /\ call[p] # None /\ call[p].at = "manifest"
      /\ manifest' = m /\ call' = [call EXCEPT ![p] = c]
      /\ UNCHANGED <<evidence, overlaps>>
  BY DEF WriteManifest, At, Continues
<1>2. overlaps' \in Nat /\ overlaps' = overlaps
  BY <1>1, FilesOK
<1>3. overlaps = 0 => Sound(evidence) /\ Standing(evidence, m.state, m.iteration)
  BY <1>1 DEF GInv, GoingThrough
<1>4. GoingThrough(c, evidence', manifest'.state)
  BY DEF GoingThrough
<1> HIDE DEF c
<1> QED
  BY <1>1, <1>2, <1>3, <1>4, OneGate

\* The record becomes a file: no other record of its kind and iteration is.
LEMMA RecordGates ==
  ASSUME IInv, GInv, NEW p \in Procs, SaveEvidence(p)
  PROVE  GInv'
<1> DEFINE k == KindOf(call[p].op)
           m == call[p].m
           i == call[p].m.iteration
           e == call[p].record
           c == [op |-> call[p].op, at |-> "manifest", m |-> m, seen |-> None, record |-> None]
<1>1. /\ call[p] # None /\ call[p].at = "record"
      /\ call[p].op \in {"evaluate", "verify", "review", "approve"}
      /\ UNCHANGED <<manifest, overlaps>>
  BY DEF SaveEvidence, At
<1>2. CASE Has(k, i)
  BY <1>1, <1>2, GateEnds DEF SaveEvidence
<1>3. CASE ~Has(k, i)
  <2>1. /\ evidence' = [evidence EXCEPT ![k] = [@ EXCEPT ![i] = e]]
        /\ call' = [call EXCEPT ![p] = c]
    BY <1>3 DEF SaveEvidence, Continues
  <2>2. overlaps' \in Nat /\ overlaps' = overlaps
    BY <1>1, FilesOK
  <2>3. ASSUME overlaps = 0
        PROVE  /\ Sound(evidence') /\ Standing(evidence', manifest'.state, manifest'.iteration)
               /\ GoingThrough(c, evidence', manifest'.state)
    <3>1. GoingThrough(call[p], evidence, manifest.state)
      BY <1>1, <2>3 DEF GInv
    <3>2. i \in Iterations /\ e \in Records /\ e # None /\ k \in Kinds
      BY <1>1, <3>1, NoneAssumption DEF GoingThrough, KindOf, Kinds
    <3>3. /\ evidence[k][i] = None
          /\ \A l \in Kinds, j \in Iterations :
               evidence'[l][j] = IF l = k /\ j = i THEN e ELSE evidence[l][j]
      BY <1>3, <2>1, <3>2, FilesOK DEF Has
    <3>4. Sound(evidence) /\ Standing(evidence, manifest.state, manifest.iteration)
      BY <2>3 DEF GInv
    <3>5. "evaluation" \in Kinds /\ \A s \in States : Passed(s) \subseteq Kinds
      BY DEF Passed, Kinds
    <3>6. manifest.state \in States /\ m.state \in States
      BY <1>1, FilesOK, CallTyped DEF Manifests
    <3>7. CASE call[p].op = "evaluate"
      <4>1. /\ Passed(manifest.state) = {} /\ Passed(m.state) = {}
            /\ e.passed => e.torn \/ e.content \in Acceptable("evaluation")
        BY <1>1, <3>1, <3>7 DEF GoingThrough
      <4>2. Sound(evidence')
        BY <3>3, <3>4, <3>5, <4>1 DEF Sound
      <4>3. GoingThrough(c, evidence', manifest'.state)
        BY <3>7, <4>1 DEF GoingThrough, Standing
      <4> QED
        BY <1>1, <4>1, <4>2, <4>3 DEF Standing
    <3>8. CASE call[p].op # "evaluate"
      <4>1. k # "evaluation"
        BY <1>1, <3>8 DEF KindOf
      <4>2. \A j \in Iterations : evidence'["evaluation"][j] = evidence["evaluation"][j]
        BY <3>3, <3>5, <4>1
      <4>3. Sound(evidence')
        BY <3>4, <4>2 DEF Sound
      <4>4. \A l \in Kinds, j \in Iterations :
              Holds(evidence, l, j) => Holds(evidence', l, j)
        BY <3>3, <4>2 DEF Holds
      <4>5. Standing(evidence', manifest.state, manifest.iteration)
        BY <3>4, <3>5, <3>6, <4>2, <4>4 DEF Standing
      <4>6. Passed(m.state) # {} =>
              /\ e.passed
              /\ e.torn \/ evidence["evaluation"][i].content \in Acceptable(k)
              /\ e.content = evidence["evaluation"][i].content
              /\ \A l \in Passed(m.state) \ {k} : Holds(evidence, l, i)
              /\ \A j \in Iterations : j > i => evidence["evaluation"][j] = None
        BY <1>1, <3>1, <3>8 DEF GoingThrough
      <4>7. Passed(m.state) # {} => Holds(evidence', k, i)
        BY <3>2, <3>3, <4>2, <4>6 DEF Holds
      <4>8. Standing(evidence', m.state, i)
        BY <3>2, <3>5, <3>6, <4>2, <4>4, <4>6, <4>7 DEF Standing
      <4>9. GoingThrough(c, evidence', manifest'.state)
        BY <4>8 DEF GoingThrough
      <4> QED
        BY <1>1, <4>3, <4>5, <4>9
    <3> QED
      BY <3>7, <3>8
  <2> HIDE DEF c
  <2> QED
    BY <1>1, <2>1, <2>2, <2>3, OneGate
<1> QED
  BY <1>2, <1>3

LEMMA NextGInv == IInv /\ GInv /\ [Next]_vars => GInv'
<1> SUFFICES ASSUME IInv, GInv, [Next]_vars PROVE GInv'
  OBVIOUS
<1>1. ASSUME NEW p \in Procs, Start(p) PROVE GInv'
  BY <1>1, StartGates
<1>2. ASSUME NEW p \in Procs, Step(p) PROVE GInv'
  BY <1>2, EvaluateGates, VerifyGates, DecideGates, OtherGates, ManifestGates, RecordGates
  DEF Step
<1>3. ASSUME NEW c \in Contents, NEW under \in SUBSET Procs, Edit(c, under) PROVE GInv'
  BY <1>3 DEF Edit, GInv
<1>4. CASE UNCHANGED vars
  BY <1>4 DEF vars, GInv
<1> QED
  BY <1>1, <1>2, <1>3, <1>4 DEF Next

(* Without overlapping commands, every gate that a loop has behind it in   *)
(* its current iteration passed and names one and the same diff; what that *)
(* gate checks holds of the diff, unless its own reading was torn.         *)
THEOREM OneDiffThroughTheGates == Spec => []GatesAgree
<1>1. GInv => GatesAgree
  <2> SUFFICES ASSUME GInv, overlaps = 0, NEW k \in Passed(manifest.state)
               PROVE  Holds(evidence, k, manifest.iteration)
    BY DEF GatesAgree, Holds
  <2> QED
    BY DEF GInv, Standing
<1> QED
  BY <1>1, InitIInv, NextIInv, InitGInv, NextGInv, PTL DEF Spec

-----------------------------------------------------------------------------
(***************************************************************************)
(* The hard stop, as long as no two commands overlapped.                   *)
(*                                                                         *)
(* StopsInTime reads the evidence files, the code reads its tally.  The    *)
(* invariant says that the tally is never behind the files (Counts), that  *)
(* a manifest whose tally is at a limit has stopped (Halts), and what of   *)
(* both a command carries in its copy until it is written (Following).     *)
(***************************************************************************)
Reached(m) == m.iteration > 0 /\ MustStop(m.tally, m.iteration, FALSE)
Halted == {"escalated", "rolled_back"}
Halts(m) == Reached(m) => m.state \in Halted

\* The last n evaluations up to the i-th.
Latest(i, n) == (i - n + 1)..i

\* The tally t after i evaluations e: what happened in all of the last n of
\* them was counted n times.
Tallied(e, i, t) ==
  /\ \A j \in 1..i : e[j] # None /\ (e[j].passed <=> e[j].signature = None)
  /\ t.signature = e[i].signature /\ t.content = e[i].content
  /\ \A n \in 1..i : (\A j \in Latest(i, n) : ~ e[j].passed) => n <= t.failures
  /\ \A n \in 1..i :
       (\A j \in Latest(i, n) : ~ e[j].passed /\ e[j].signature = e[i].signature)
          => n <= t.repeated
  /\ \A n \in 1..i : (\A j \in Latest(i, n) : e[j].content = e[i].content) => n - 1 <= t.stalled

Counts(ev, m) == m.iteration > 0 => Tallied(ev["evaluation"], m.iteration, m.tally)

\* A command c while the files hold the evidence ev and the manifest man.
Following(c, ev, man) ==
  /\ c.at \in {"look", "restore"} \/ (c.op # "evaluate" /\ c.at = "record") =>
       c.m.iteration = man.iteration /\ c.m.tally = man.tally /\ Halts(c.m)
  /\ c.at \in {"look", "restore"} /\ c.op # "rollback" => c.m.state \notin Halted
  /\ c.op = "evaluate" /\ c.at = "record" =>
       /\ c.m.iteration = man.iteration + 1
       /\ c.record \in Records /\ (c.record.passed <=> c.record.signature = None)
       /\ c.m.tally = Counted(man.tally, c.record.content, c.record.signature)
       /\ Halts(c.m)
  /\ c.at = "manifest" => Counts(ev, c.m) /\ Halts(c.m)

SInv ==
  overlaps = 0 =>
    /\ Counts(evidence, manifest) /\ Halts(manifest)
    /\ \A p \in Procs : call[p] # None => Following(call[p], evidence, manifest)

\* One more evaluation, counted.
LEMMA OneMore ==
  ASSUME NEW e, NEW e2, NEW i \in Nat, NEW t \in Tallies, NEW r \in Records,
         i > 0 => Tallied(e, i, t),
         \A j \in 1..i : e2[j] = e[j],
         e2[i + 1] = r, r # None, r.passed <=> r.signature = None
  PROVE  Tallied(e2, i + 1, Counted(t, r.content, r.signature))
<1> DEFINE u == Counted(t, r.content, r.signature)
<1>1. /\ u.failures = IF r.signature = None THEN 0 ELSE t.failures + 1
      /\ u.repeated = IF r.signature = None THEN 0
                        ELSE IF r.signature = t.signature THEN t.repeated + 1 ELSE 1
      /\ u.stalled = IF r.content = t.content THEN t.stalled + 1 ELSE 0
      /\ u.signature = r.signature /\ u.content = r.content
  BY DEF Counted
<1>2. t.failures \in Nat /\ t.repeated \in Nat /\ t.stalled \in Nat
  BY DEF Tallies
<1>3. \A j \in 1..(i + 1) : j \in 1..i \/ j = i + 1
  OBVIOUS
<1>4. \A j \in 1..(i + 1) : e2[j] # None /\ (e2[j].passed <=> e2[j].signature = None)
  BY <1>3 DEF Tallied
<1>5. ASSUME NEW n \in 2..(i + 1)
      PROVE  /\ n - 1 \in 1..i /\ i > 0 /\ i \in Latest(i, n - 1) /\ i \in 1..i
             /\ \A j \in Latest(i, n - 1) : j \in Latest(i + 1, n) /\ j \in 1..i
  BY <1>5 DEF Latest
<1>6. \A n \in 1..(i + 1) : i + 1 \in Latest(i + 1, n)
  BY DEF Latest
<1>7. ASSUME NEW n \in 1..(i + 1), \A j \in Latest(i + 1, n) : ~ e2[j].passed
      PROVE  n <= u.failures
  <2>1. u.failures = t.failures + 1
    BY <1>1, <1>6, <1>7
  <2>2. CASE n = 1
    BY <1>2, <2>1, <2>2
  <2>3. CASE n # 1
    <3>1. n \in 2..(i + 1)
      BY <2>3
    <3>2. \A j \in Latest(i, n - 1) : ~ e[j].passed
      BY <1>5, <1>7, <3>1
    <3>3. n - 1 <= t.failures
      BY <1>5, <3>1, <3>2 DEF Tallied
    <3> QED
      BY <1>2, <2>1, <3>3
  <2> QED
    BY <2>2, <2>3
<1>8. ASSUME NEW n \in 1..(i + 1),
             \A j \in Latest(i + 1, n) : ~ e2[j].passed /\ e2[j].signature = e2[i + 1].signature
      PROVE  n <= u.repeated
  <2>1. u.repeated >= 1 /\ r.signature # None
    BY <1>1, <1>2, <1>6, <1>8
  <2>2. CASE n = 1
    BY <1>1, <1>2, <2>1, <2>2
  <2>3. CASE n # 1
    <3>1. n \in 2..(i + 1)
      BY <2>3
    <3>2. \A j \in Latest(i, n - 1) : ~ e[j].passed /\ e[j].signature = r.signature
      BY <1>5, <1>8, <3>1
    <3>3. e[i].signature = r.signature /\ t.signature = e[i].signature
      BY <1>5, <3>1, <3>2 DEF Tallied
    <3>4. n - 1 <= t.repeated
      BY <1>5, <3>1, <3>2, <3>3 DEF Tallied
    <3>5. u.repeated = t.repeated + 1
      BY <1>1, <2>1, <3>3
    <3> QED
      BY <1>2, <3>4, <3>5
  <2> QED
    BY <2>2, <2>3
<1>9. ASSUME NEW n \in 1..(i + 1),
             \A j \in Latest(i + 1, n) : e2[j].content = e2[i + 1].content
      PROVE  n - 1 <= u.stalled
  <2>1. CASE n = 1
    BY <1>1, <1>2, <2>1
  <2>2. CASE n # 1
    <3>1. n \in 2..(i + 1)
      BY <2>2
    <3>2. \A j \in Latest(i, n - 1) : e[j].content = r.content
      BY <1>5, <1>9, <3>1
    <3>3. e[i].content = r.content /\ t.content = e[i].content
      BY <1>5, <3>1, <3>2 DEF Tallied
    <3>4. n - 1 - 1 <= t.stalled
      BY <1>5, <3>1, <3>2, <3>3 DEF Tallied
    <3>5. u.stalled = t.stalled + 1
      BY <1>1, <3>3
    <3> QED
      BY <1>2, <3>4, <3>5
  <2> QED
    BY <2>1, <2>2
<1> HIDE DEF u
<1> QED
  BY <1>1, <1>4, <1>7, <1>8, <1>9 DEF Tallied, u

\* The evaluations that were tallied are not written again.
LEMMA TalliedStays ==
  ASSUME NEW e, NEW e2, NEW i \in Nat, i > 0, NEW t, Tallied(e, i, t),
         \A j \in 1..i : e2[j] = e[j]
  PROVE  Tallied(e2, i, t)
<1>1. i \in 1..i /\ \A n \in 1..i : Latest(i, n) \subseteq 1..i
  BY DEF Latest
<1> QED
  BY <1>1 DEF Tallied

LEMMA InitSInv == Init => SInv
<1> SUFFICES ASSUME Init PROVE SInv
  OBVIOUS
<1>1. manifest.iteration = 0 /\ \A p \in Procs : call[p] = None
  BY DEF Init, FirstManifest
<1> QED
  BY <1>1 DEF SInv, Counts, Halts, Reached

\* One call changes, and its copy and the files are in order.
LEMMA OneCount ==
  ASSUME IInv, GInv, SInv, NEW p \in Procs, NEW c,
         call' = [call EXCEPT ![p] = c],
         overlaps' = 0 => overlaps = 0,
         \/ UNCHANGED <<evidence, manifest>>
         \/ call[p] # None,
         overlaps' = 0 =>
           /\ Counts(evidence', manifest') /\ Halts(manifest')
           /\ c # None => Following(c, evidence', manifest')
  PROVE  SInv'
<1> SUFFICES ASSUME overlaps' = 0
             PROVE  \A q \in Procs : call'[q] # None => Following(call'[q], evidence', manifest')
  BY DEF SInv, Counts, Halts, Reached, Following
<1>1. \A q \in Procs : call'[q] = IF q = p THEN c ELSE call[q]
  BY DEF IInv, RolesAreSeparate, TypeOK
<1>2. \A q \in Procs : call[q] # None => Following(call[q], evidence, manifest)
  BY DEF SInv
<1>3. call[p] # None => \A q \in Procs \ {p} : call[q] = None
  BY DEF GInv
<1> QED
  BY <1>1, <1>2, <1>3

LEMMA CountBegins ==
  ASSUME IInv, GInv, SInv, NEW p \in Procs, NEW op, NEW allowed, NEW at, NEW m, NEW seen,
         Begins(p, op, allowed, at, m, seen),
         overlaps = 0 =>
           Following([op |-> op, at |-> at, m |-> m, seen |-> seen, record |-> None],
                     evidence, manifest)
  PROVE  SInv'
<1> DEFINE c == [op |-> op, at |-> at, m |-> m, seen |-> seen, record |-> None]
<1>1. call' = [call EXCEPT ![p] = c] /\ UNCHANGED <<manifest, evidence>>
  BY DEF Begins
<1>2. overlaps' = 0 => overlaps = 0
  BY DEF Begins, IInv, RolesAreSeparate, TypeOK
<1>3. overlaps' = 0 => Counts(evidence', manifest') /\ Halts(manifest')
  BY <1>1, <1>2 DEF SInv
<1>4. overlaps' = 0 => Following(c, evidence', manifest')
  BY <1>1, <1>2
<1> HIDE DEF c
<1> QED
  BY <1>1, <1>2, <1>3, <1>4, OneCount

\* A gate begins with the counts of the manifest, which has not stopped.
LEMMA GateCounts ==
  ASSUME IInv, GInv, SInv, NEW p \in Procs, NEW op, NEW allowed, NEW roles \in Roles, NEW seen,
         Halted \cap allowed = {},
         Begins(p, op, allowed, "look", With(roles), seen)
  PROVE  SInv'
<1> DEFINE m == With(roles)
           c == [op |-> op, at |-> "look", m |-> m, seen |-> seen, record |-> None]
<1>1. /\ m.iteration = manifest.iteration /\ m.tally = manifest.tally
      /\ m.state = manifest.state /\ manifest.state \notin Halted
  BY FilesOK DEF With, Manifests, Begins
<1>2. overlaps = 0 => Halts(m)
  BY <1>1 DEF SInv, Halts, Reached
<1> HIDE DEF m
<1>3. overlaps = 0 => Following(c, evidence, manifest)
  BY <1>1, <1>2 DEF Following
<1> QED
  BY <1>3, CountBegins DEF m

LEMMA StartCounts ==
  ASSUME IInv, GInv, SInv, NEW p \in Procs, Start(p)
  PROVE  SInv'
<1>1. ASSUME NEW x \in People,
             \/ BeginEvaluate(p, x) \/ BeginVerify(p, x) \/ BeginReview(p, x) \/ BeginApprove(p, x)
      PROVE  SInv'
  <2> DEFINE r == manifest.roles
  <2>1. /\ r.runner \in People \cup {None} /\ r.verifier \in People \cup {None}
        /\ r.reviewer \in People \cup {None} /\ r.human \in People \cup {None}
    BY FilesOK DEF Manifests, Roles
  <2>2. \E op, seen, allowed : \E roles \in Roles :
          Halted \cap allowed = {} /\ Begins(p, op, allowed, "look", With(roles), seen)
    <3>1. CASE BeginEvaluate(p, x)
      <4>1. [runner |-> x, verifier |-> None, reviewer |-> None, human |-> None] \in Roles
        BY DEF Roles
      <4>2. Halted \cap {"active", "awaiting_security"} = {}
        BY DEF Halted
      <4> QED
        BY <3>1, <4>1, <4>2 DEF BeginEvaluate
    <3>2. CASE BeginVerify(p, x)
      <4>1. [runner |-> r.runner, verifier |-> x, reviewer |-> r.reviewer,
             human |-> r.human] \in Roles
        BY <2>1 DEF Roles
      <4>2. Halted \cap {"awaiting_security"} = {}
        BY DEF Halted
      <4> QED
        BY <3>2, <4>1, <4>2 DEF BeginVerify
    <3>3. CASE BeginReview(p, x)
      <4>1. [runner |-> r.runner, verifier |-> r.verifier, reviewer |-> x,
             human |-> r.human] \in Roles
        BY <2>1 DEF Roles
      <4>2. Halted \cap {"awaiting_review"} = {}
        BY DEF Halted
      <4> QED
        BY <3>3, <4>1, <4>2 DEF BeginReview
    <3>4. CASE BeginApprove(p, x)
      <4>1. [runner |-> r.runner, verifier |-> r.verifier, reviewer |-> r.reviewer,
             human |-> x] \in Roles
        BY <2>1 DEF Roles
      <4>2. Halted \cap {"awaiting_human"} = {}
        BY DEF Halted
      <4> QED
        BY <3>4, <4>1, <4>2 DEF BeginApprove
    <3> QED
      BY <1>1, <3>1, <3>2, <3>3, <3>4
  <2> QED
    BY <2>2, GateCounts
<1>2. ASSUME NEW x \in People, BeginLearn(p, x) PROVE SInv'
  <2>1. PICK i \in Iterations :
          Begins(p, "learn", {"awaiting_documentation"}, "look", manifest,
                 evidence["evaluation"][i].content)
    BY <1>2 DEF BeginLearn
  <2> DEFINE seen == evidence["evaluation"][i].content
             c == [op |-> "learn", at |-> "look", m |-> manifest, seen |-> seen, record |-> None]
  <2>2. manifest.state = "awaiting_documentation"
    BY <2>1 DEF Begins
  <2>3. overlaps = 0 => Following(c, evidence, manifest)
    BY <2>2 DEF Following, SInv, Halted
  <2> QED
    BY <2>1, <2>3, CountBegins
<1>3. ASSUME BeginEscalate(p) PROVE SInv'
  <2> DEFINE m == Moved(manifest, "escalated")
             c == [op |-> "escalate", at |-> "manifest", m |-> m, seen |-> None, record |-> None]
  <2>1. m.iteration = manifest.iteration /\ m.tally = manifest.tally /\ m.state = "escalated"
    BY FilesOK DEF Moved, Manifests
  <2>2. overlaps = 0 => Counts(evidence, m) /\ Halts(m)
    BY <2>1 DEF SInv, Counts, Halts, Halted
  <2> HIDE DEF m
  <2>3. overlaps = 0 => Following(c, evidence, manifest)
    BY <2>2 DEF Following
  <2> QED
    BY <1>3, <2>3, CountBegins DEF BeginEscalate, m
<1>4. ASSUME BeginRollback(p) PROVE SInv'
  <2> DEFINE c == [op |-> "rollback", at |-> "restore", m |-> manifest, seen |-> repo,
                   record |-> None]
  <2>1. overlaps = 0 => Following(c, evidence, manifest)
    BY DEF Following, SInv
  <2> QED
    BY <1>4, <2>1, CountBegins DEF BeginRollback
<1> QED
  BY <1>1, <1>2, <1>3, <1>4 DEF Start

-----------------------------------------------------------------------------
\* A command goes on: the files stay as they are.
LEMMA CountGoes ==
  ASSUME IInv, GInv, SInv, NEW p \in Procs, call[p] # None, NEW at, NEW m, NEW record,
         Continues(p, at, m, None, record),
         UNCHANGED <<manifest, evidence, overlaps>>,
         overlaps = 0 =>
           Following([op |-> call[p].op, at |-> at, m |-> m, seen |-> None,
                      record |-> record], evidence, manifest)
  PROVE  SInv'
<1> DEFINE c == [op |-> call[p].op, at |-> at, m |-> m, seen |-> None, record |-> record]
<1>1. call' = [call EXCEPT ![p] = c]
  BY DEF Continues
<1>2. overlaps' = 0 => /\ Counts(evidence', manifest') /\ Halts(manifest')
                       /\ Following(c, evidence', manifest')
  BY DEF SInv
<1> HIDE DEF c
<1> QED
  BY <1>1, <1>2, OneCount

LEMMA CountEnds ==
  ASSUME IInv, GInv, SInv, NEW p \in Procs, call[p] # None, Ends(p),
         UNCHANGED <<manifest, evidence, overlaps>>
  PROVE  SInv'
<1>1. overlaps' = 0 => Counts(evidence', manifest') /\ Halts(manifest')
  BY DEF SInv
<1> QED
  BY <1>1, OneCount DEF Ends

LEMMA EvaluateCounts ==
  ASSUME IInv, GInv, SInv, NEW p \in Procs, NEW suite \in {None} \cup Signatures,
         NEW late \in BOOLEAN, NEW tree \in TreeFailures, NEW d \in Contents,
         Evaluate(p, suite, late, tree, d)
  PROVE  SInv'
<1> DEFINE old == call[p].m
           f == Verdict(tree, suite)
           t == Counted(old.tally, d, f)
           s == IF MustStop(t, old.iteration + 1, late) THEN "escalated"
                ELSE IF f = None THEN "awaiting_security" ELSE "active"
           m == [state |-> s, iteration |-> old.iteration + 1, tally |-> t,
                 roles |-> old.roles]
           record == [passed |-> f = None, content |-> d, signature |-> f, torn |-> p \in torn]
           c == [op |-> call[p].op, at |-> "record", m |-> m, seen |-> None, record |-> record]
<1>1. call[p] # None /\ call[p].op = "evaluate" /\ call[p].at = "look"
  BY DEF Evaluate, At
<1>2. overlaps = 0 => old.iteration = manifest.iteration /\ old.tally = manifest.tally
  BY <1>1 DEF SInv, Following
<1>3. f \in Failure
  BY DEF Verdict, TreeFailures, Failure
<1>4. record \in Records /\ (record.passed <=> record.signature = None)
  <2>1. (p \in torn) \in BOOLEAN /\ (f = None) \in BOOLEAN
    OBVIOUS
  <2> HIDE DEF f
  <2>2. record.passed = (f = None) /\ record.signature = f
    OBVIOUS
  <2>3. record \in Records
    BY <1>3, <2>1 DEF Records
  <2> HIDE DEF record
  <2> QED
    BY <2>2, <2>3
<1>5. Halts(m)
  <2>1. MustStop(t, old.iteration + 1, FALSE) => MustStop(t, old.iteration + 1, late)
    BY DEF MustStop
  <2> HIDE DEF t, old
  <2> QED
    BY <2>1 DEF Halts, Reached, Halted
<1>6. /\ m.iteration = old.iteration + 1 /\ m.tally = Counted(old.tally, d, f)
      /\ record.content = d /\ record.signature = f
  OBVIOUS
<1>7. /\ Continues(p, "record", m, None, record)
      /\ UNCHANGED <<manifest, evidence, overlaps>>
  BY DEF Evaluate
<1> HIDE DEF m, record, f
<1>8. overlaps = 0 => Following(c, evidence, manifest)
  BY <1>1, <1>2, <1>4, <1>5, <1>6 DEF Following
<1> QED
  BY <1>1, <1>7, <1>8, CountGoes

\* The other commands move the state of a copy that has not stopped, or stop it.
LEMMA MoveCounts ==
  ASSUME IInv, GInv, SInv, NEW p \in Procs, call[p] # None, call[p].at \in {"look", "restore"},
         NEW at \in {"record", "manifest"}, NEW s, NEW record,
         call[p].op # "evaluate", call[p].op = "rollback" => s \in Halted,
         Continues(p, at, Moved(call[p].m, s), None, record),
         UNCHANGED <<manifest, evidence, overlaps>>
  PROVE  SInv'
<1> DEFINE m == Moved(call[p].m, s)
           c == [op |-> call[p].op, at |-> at, m |-> m, seen |-> None, record |-> record]
<1>1. /\ m.iteration = call[p].m.iteration /\ m.tally = call[p].m.tally /\ m.state = s
  BY CallTyped DEF Moved, Manifests
<1>2. ASSUME overlaps = 0
      PROVE  /\ m.iteration = manifest.iteration /\ m.tally = manifest.tally
             /\ Halts(m) /\ Counts(evidence, m)
  <2>1. /\ call[p].m.iteration = manifest.iteration /\ call[p].m.tally = manifest.tally
        /\ Halts(call[p].m)
        /\ call[p].op # "rollback" => call[p].m.state \notin Halted
    BY <1>2 DEF SInv, Following
  <2>2. Halts(m)
    BY <1>1, <2>1 DEF Halts, Reached
  <2>3. Counts(evidence, m)
    BY <1>1, <1>2, <2>1 DEF SInv, Counts
  <2> QED
    BY <1>1, <2>1, <2>2, <2>3
<1> HIDE DEF m
<1>3. overlaps = 0 => Following(c, evidence, manifest)
  BY <1>2 DEF Following
<1> QED
  BY <1>3, CountGoes DEF m

LEMMA OtherCounts ==
  ASSUME IInv, GInv, SInv, NEW p \in Procs,
         \/ \E clean \in BOOLEAN, d \in Contents : Verify(p, clean, d)
         \/ (\E yes \in BOOLEAN : Decide(p, yes)) \/ Learn(p) \/ Refuse(p)
         \/ Restore(p) \/ ConfirmRestored(p) \/ WriteDigest(p) \/ Crash(p)
  PROVE  SInv'
<1>1. CASE \E clean \in BOOLEAN, d \in Contents : Verify(p, clean, d)
  BY <1>1, MoveCounts DEF Verify, At
<1>2. CASE \E yes \in BOOLEAN : Decide(p, yes)
  BY <1>2, MoveCounts DEF Decide, At
<1>3. CASE Learn(p)
  BY <1>3, MoveCounts DEF Learn, At
<1>4. CASE Restore(p)
  <2>1. call[p] # None /\ call[p].op = "rollback" /\ call[p].at = "restore"
    BY <1>4 DEF Restore, At
  <2> DEFINE c == [op |-> call[p].op, at |-> "look", m |-> call[p].m, seen |-> None,
                   record |-> None]
  <2>2. overlaps = 0 => Following(c, evidence, manifest)
    BY <2>1 DEF SInv, Following
  <2> QED
    BY <1>4, <2>1, <2>2, CountGoes DEF Restore
<1>5. CASE ConfirmRestored(p)
  <2>1. call[p] # None /\ call[p].op = "rollback" /\ call[p].at = "look"
    BY <1>5 DEF ConfirmRestored, At
  <2>2. CASE Continues(p, "manifest", Moved(call[p].m, "rolled_back"), None, None)
    BY <1>5, <2>1, <2>2, MoveCounts DEF ConfirmRestored, Halted
  <2>3. CASE Ends(p)
    BY <1>5, <2>1, <2>3, CountEnds DEF ConfirmRestored
  <2> QED
    BY <1>5, <2>2, <2>3 DEF ConfirmRestored
<1>6. CASE Refuse(p) \/ WriteDigest(p) \/ Crash(p)
  BY <1>6, CountEnds DEF Refuse, WriteDigest, Crash, At
<1> QED
  BY <1>1, <1>2, <1>3, <1>4, <1>5, <1>6

LEMMA ManifestCounts ==
  ASSUME IInv, GInv, SInv, NEW p \in Procs, WriteManifest(p)
  PROVE  SInv'
<1> DEFINE m == call[p].m
           c == [op |-> call[p].op, at |-> "digest", m |-> m, seen |-> None, record |-> None]
<1>1. /\ call[p] # None /\ call[p].at = "manifest"
      /\ manifest' = m /\ call' = [call EXCEPT ![p] = c]
      /\ UNCHANGED <<evidence, overlaps>>
  BY DEF WriteManifest, At, Continues
<1>2. overlaps = 0 => Counts(evidence, m) /\ Halts(m)
  BY <1>1 DEF SInv, Following
<1>3. overlaps' = 0 => Counts(evidence', manifest') /\ Halts(manifest')
  BY <1>1, <1>2
<1>4. Following(c, evidence', manifest')
  BY DEF Following
<1> HIDE DEF c
<1> QED
  BY <1>1, <1>3, <1>4, OneCount

\* The record becomes a file: with it the copy's tally is the one of the files.
LEMMA RecordCounts ==
  ASSUME IInv, GInv, SInv, NEW p \in Procs, SaveEvidence(p)
  PROVE  SInv'
<1> DEFINE k == KindOf(call[p].op)
           m == call[p].m
           i == call[p].m.iteration
           r == call[p].record
           c == [op |-> call[p].op, at |-> "manifest", m |-> m, seen |-> None, record |-> None]
<1>1. /\ call[p] # None /\ call[p].at = "record" /\ UNCHANGED <<manifest, overlaps>>
      /\ call[p].op \in {"evaluate", "verify", "review", "approve"}
  BY DEF SaveEvidence, At
<1>2. CASE Has(k, i)
  BY <1>1, <1>2, CountEnds DEF SaveEvidence
<1>3. CASE ~Has(k, i)
  <2>1. /\ evidence' = [evidence EXCEPT ![k] = [@ EXCEPT ![i] = r]]
        /\ call' = [call EXCEPT ![p] = c]
    BY <1>3 DEF SaveEvidence, Continues
  <2>2. ASSUME overlaps = 0
        PROVE  /\ Counts(evidence', manifest) /\ Halts(manifest)
               /\ Counts(evidence', m) /\ Halts(m)
    <3>1. /\ Following(call[p], evidence, manifest) /\ GoingThrough(call[p], evidence, manifest.state)
          /\ Counts(evidence, manifest) /\ Halts(manifest)
      BY <1>1, <2>2 DEF SInv, GInv
    <3>2. i \in Iterations /\ r \in Records /\ r # None /\ k \in Kinds /\ "evaluation" \in Kinds
      BY <1>1, <3>1, NoneAssumption DEF GoingThrough, KindOf, Kinds
    <3>3. /\ evidence[k][i] = None
          /\ \A l \in Kinds, j \in Iterations :
               evidence'[l][j] = IF l = k /\ j = i THEN r ELSE evidence[l][j]
      BY <1>3, <2>1, <3>2, FilesOK DEF Has
    <3>4. /\ manifest.iteration \in 0..MaxIterations /\ manifest.tally \in Tallies
          /\ manifest.iteration \in Nat /\ MaxIterations \in Nat
      BY FilesOK, ControlsAssumption DEF Manifests
    <3>5. \A j \in 1..manifest.iteration :
            j \in Iterations /\ evidence'["evaluation"][j] = evidence["evaluation"][j]
      <4>1. \A j \in 1..manifest.iteration : j \in Iterations /\ evidence["evaluation"][j] # None
        BY <3>1, <3>4 DEF Counts, Tallied, Iterations
      <4> QED
        BY <3>2, <3>3, <4>1
    <3>6. Counts(evidence', manifest)
      BY <3>1, <3>4, <3>5, TalliedStays DEF Counts
    <3>7. CASE call[p].op # "evaluate"
      <4>1. m.iteration = manifest.iteration /\ m.tally = manifest.tally /\ Halts(m)
        BY <1>1, <3>1, <3>7 DEF Following
      <4> QED
        BY <3>1, <3>6, <4>1 DEF Counts
    <3>8. CASE call[p].op = "evaluate"
      <4>1. /\ i = manifest.iteration + 1 /\ (r.passed <=> r.signature = None) /\ Halts(m)
            /\ m.tally = Counted(manifest.tally, r.content, r.signature)
        BY <1>1, <3>1, <3>8 DEF Following
      <4>2. k = "evaluation"
        BY <3>8 DEF KindOf
      <4>3. evidence'["evaluation"][manifest.iteration + 1] = r
        BY <3>2, <3>3, <4>1, <4>2
      <4>4. manifest.iteration > 0 =>
              Tallied(evidence["evaluation"], manifest.iteration, manifest.tally)
        BY <3>1 DEF Counts
      <4>5. PICK e, e2, n, t : /\ e = evidence["evaluation"] /\ e2 = evidence'["evaluation"]
                               /\ n = manifest.iteration /\ t = manifest.tally
        OBVIOUS
      <4>6. /\ n \in Nat /\ t \in Tallies /\ (n > 0 => Tallied(e, n, t))
            /\ \A j \in 1..n : e2[j] = e[j]
            /\ e2[n + 1] = r /\ r \in Records /\ r # None /\ (r.passed <=> r.signature = None)
        BY <3>2, <3>4, <3>5, <4>1, <4>3, <4>4, <4>5
      <4> HIDE DEF m, r, i
      <4>7. Tallied(e2, n + 1, Counted(t, r.content, r.signature))
        BY <4>6, OneMore
      <4>8. Counts(evidence', m)
        BY <4>1, <4>5, <4>7 DEF Counts, m, i
      <4> QED
        BY <3>1, <3>6, <4>1, <4>8
    <3> QED
      BY <3>7, <3>8
  <2>3. overlaps' = 0 => /\ Counts(evidence', manifest') /\ Halts(manifest')
                         /\ Following(c, evidence', manifest')
    BY <1>1, <2>2 DEF Following
  <2> HIDE DEF c
  <2> QED
    BY <1>1, <2>1, <2>3, OneCount
<1> QED
  BY <1>2, <1>3

LEMMA NextSInv == IInv /\ GInv /\ SInv /\ [Next]_vars => SInv'
<1> SUFFICES ASSUME IInv, GInv, SInv, [Next]_vars PROVE SInv'
  OBVIOUS
<1>1. ASSUME NEW p \in Procs, Start(p) PROVE SInv'
  BY <1>1, StartCounts
<1>2. ASSUME NEW p \in Procs, Step(p) PROVE SInv'
  BY <1>2, EvaluateCounts, OtherCounts, ManifestCounts, RecordCounts DEF Step
<1>3. ASSUME NEW c \in Contents, NEW under \in SUBSET Procs, Edit(c, under) PROVE SInv'
  BY <1>3 DEF Edit, SInv
<1>4. CASE UNCHANGED vars
  BY <1>4 DEF vars, SInv
<1> QED
  BY <1>1, <1>2, <1>3, <1>4 DEF Next

(* Without overlapping commands, a loop whose files show that it is at one *)
(* of its limits has been escalated or rolled back.                        *)
THEOREM StopsAtItsLimits == Spec => []StopsInTime
<1>1. IInv /\ SInv => StopsInTime
  <2> SUFFICES ASSUME IInv, SInv, overlaps = 0, manifest.iteration > 0
               PROVE  LET i == manifest.iteration
                          e == evidence["evaluation"]
                          Failed == {j \in 1..i : ~e[j].passed}
                          SameFailure == {j \in Failed : e[j].signature = e[i].signature}
                          SameTree == {j \in 1..i : e[j].content = e[i].content}
                      IN (\/ LastOnes(i, MaxFailures, Failed)
                          \/ LastOnes(i, MaxRepeated, SameFailure)
                          \/ LastOnes(i, MaxStalled + 1, SameTree)
                          \/ i = MaxIterations /\ ~e[i].passed)
                         => manifest.state \in {"escalated", "rolled_back"}
    BY DEF StopsInTime
  <2> DEFINE e == evidence["evaluation"]
             i == manifest.iteration
             t == manifest.tally
  <2>1. Tallied(e, i, t) /\ (Reached(manifest) => manifest.state \in Halted)
    BY DEF SInv, Counts, Halts
  <2>2. /\ i \in 1..MaxIterations /\ i \in 1..i
        /\ t.failures \in Nat /\ t.repeated \in Nat /\ t.stalled \in Nat
    BY FilesOK, ControlsAssumption DEF Manifests, Tallies
  <2>3. /\ MaxFailures \in Nat \ {0} /\ MaxRepeated \in Nat \ {0} /\ MaxStalled \in Nat \ {0}
    BY ControlsAssumption
  <2>4. ASSUME MaxFailures <= i, \A j \in (i - MaxFailures + 1)..i : ~ e[j].passed
        PROVE  Reached(manifest)
    <3>1. MaxFailures \in 1..i
      BY <2>2, <2>3, <2>4
    <3>2. MaxFailures <= t.failures
      BY <2>1, <2>4, <3>1 DEF Tallied, Latest
    <3> QED
      BY <2>2, <2>3, <3>2 DEF Reached, MustStop
  <2>5. ASSUME MaxRepeated <= i,
               \A j \in (i - MaxRepeated + 1)..i : ~ e[j].passed /\ e[j].signature = e[i].signature
        PROVE  Reached(manifest)
    <3>1. MaxRepeated \in 1..i
      BY <2>2, <2>3, <2>5
    <3>2. MaxRepeated <= t.repeated
      BY <2>1, <2>5, <3>1 DEF Tallied, Latest
    <3> QED
      BY <2>2, <2>3, <3>2 DEF Reached, MustStop
  <2>6. ASSUME MaxStalled + 1 <= i,
               \A j \in (i - (MaxStalled + 1) + 1)..i : e[j].content = e[i].content
        PROVE  Reached(manifest)
    <3>1. PICK n \in 1..i : n = MaxStalled + 1
      BY <2>2, <2>3, <2>6
    <3>2. n - 1 <= t.stalled
      BY <2>1, <2>6, <3>1 DEF Tallied, Latest
    <3> QED
      BY <2>2, <2>3, <3>1, <3>2 DEF Reached, MustStop
  <2>7. ASSUME i = MaxIterations, ~ e[i].passed
        PROVE  Reached(manifest)
    <3>1. t.signature # None
      BY <2>1, <2>2, <2>7 DEF Tallied
    <3> QED
      BY <2>2, <2>7, <3>1 DEF Reached, MustStop
  <2> HIDE DEF e, i, t
  <2> QED
    BY <2>1, <2>4, <2>5, <2>6, <2>7 DEF LastOnes, Halted, e, i, t
<1> QED
  BY <1>1, InitIInv, NextIInv, InitGInv, NextGInv, InitSInv, NextSInv, PTL DEF Spec
=============================================================================
