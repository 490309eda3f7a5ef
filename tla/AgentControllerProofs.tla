------------------------ MODULE AgentControllerProofs ------------------------
(***************************************************************************)
(* The agent runtime's invariants for every number of processes, commands, *)
(* steps, tool calls and crashes.                                          *)
(*                                                                         *)
(* Everything rests on the compare-and-swap: a snapshot that has the       *)
(* stored revision is the stored task, so whatever a command saves is a    *)
(* change of what is stored.  An approval is then a token that is in one   *)
(* place at a time (a command that consumed it, the stored task, a command *)
(* that replays the call, the tool that was entered), no memory speaks of  *)
(* an approval before it was consumed, and after the task ended no process *)
(* comes near a tool that was not there before.                            *)
(***************************************************************************)
EXTENDS AgentController, FiniteSetTheorems, TLAPS

\* A command r while the stored task is t.
CommandOK(r, t) ==
    /\ r.mine.revision = t.revision => r.mine = t
    /\ r.pc = "replay" => r.mine.approved
    /\ r.pc = "advance" => r.work \in Proposals
    /\ r.pc \in {"execute", "record"} => r.mine.calls < MaxToolCalls

\* A command that stands for the consumed approval.
Token(r) ==
    \/ r.pc = "save_approved"
    \/ r.pc \in {"dispatch", "execute"} /\ r.work = "approved"

\* The approval is unused, or with one command, or in the stored task, or its
\* call has been made, or it was lost.
OneToken ==
    /\ ran.replayed <= 1
    /\ approval # "consumed" => ran.replayed = 0 /\ ~ task.approved
    /\ task.approved => ran.replayed = 0
    /\ \A p \in Procs : Token(run[p]) =>
          /\ approval = "consumed" /\ ran.replayed = 0 /\ ~ task.approved
          /\ \A q \in Procs : Token(run[q]) => p = q

\* A command that could only be where it is after the approval was consumed.
Backing(r) == r.mine.consumed \/ (r.pc = "execute" /\ r.work \in GatedCalls)

\* No memory and no snapshot speaks of an approval that was not consumed.
Backed ==
    /\ ran.early = 0
    /\ task.consumed => approval = "consumed"
    /\ \A p \in Procs : Backing(run[p]) => approval = "consumed"

\* The processes that are about to enter a tool without a further look.
Near(r) == r.pc \in {"dispatch", "execute"}
Entering == {p \in Procs : Near(run[p])}

\* Whoever ended the task is not among those who may still enter a tool.
LateBound ==
    IF task.status \in Terminal
      THEN ran.late + Cardinality(Entering) <= Cardinality(Procs) - 1
      ELSE ran.late = 0

IInv ==
    /\ TypeOK /\ CallBudget /\ OneToken /\ Backed /\ LateBound
    /\ task.revision = 0 => task = NewTask
    /\ \A p \in Procs : CommandOK(run[p], task)

-----------------------------------------------------------------------------

\* The first state: nothing has been saved, consumed or entered.
LEMMA InitIInv == Init => IInv
  <1> SUFFICES ASSUME Init PROVE IInv
    OBVIOUS
  <1>1. NewTask \in Task
    BY DEF NewTask, Task, TaskStatus
  <1>2. Idle \in Command /\ Idle.pc = "idle" /\ Idle.mine = NewTask
    BY <1>1 DEF Idle, Command, Label, Work
  <1>3. TypeOK
    <2>1. run \in [Procs -> Command] /\ \A p \in Procs : Mine(p) = NewTask
      BY <1>2 DEF Init, Mine
    <2>2. task \in Task /\ commands \in Nat /\ expired \in BOOLEAN
          /\ approval \in {"pending", "approved", "consumed"}
          /\ audit \in [executed : Nat, final : SUBSET {"completed", "cancelled", "timed_out"}]
          /\ ran \in [replayed : Nat, early : Nat, late : Nat]
      BY <1>1 DEF Init
    <2>3. task = NewTask /\ NewTask.revision = 0
      BY DEF Init, NewTask
    <2> QED BY <2>1, <2>2, <2>3 DEF TypeOK
  <1>4. CallBudget /\ LateBound
    BY AgentAssumption DEF Init, CallBudget, LateBound, NewTask, Terminal
  <1>5. OneToken /\ \A p \in Procs : CommandOK(run[p], task)
    BY <1>2 DEF Init, OneToken, Token, CommandOK, NewTask
  <1>6. Backed
    BY <1>2 DEF Init, Backed, Backing, NewTask
  <1> QED BY <1>3, <1>4, <1>5, <1>6 DEF Init, IInv

\* The processes are finitely many, so are those near a tool.
LEMMA EnteringFinite ==
    /\ IsFiniteSet(Entering) /\ Cardinality(Entering) \in Nat
    /\ Cardinality(Procs) \in Nat \ {0}
  <1>1. Entering \in SUBSET Procs
    BY DEF Entering
  <1>2. IsFiniteSet(Entering)
    BY <1>1, AgentAssumption, FS_Subset
  <1> QED
    BY <1>2, AgentAssumption, FS_CardinalityType, FS_EmptySet

\* A process that goes on without saving: it takes no token that it did not
\* have, does not come near a tool, and what it works on is a snapshot of what
\* is or was stored.
LEMMA Moves ==
    ASSUME IInv, NEW p \in Procs, NEW r \in Command,
           run' = [run EXCEPT ![p] = r], task' = task,
           UNCHANGED <<approval, expired, ran>>,
           commands' \in Nat,
           audit' \in [executed : Nat, final : SUBSET {"completed", "cancelled", "timed_out"}],
           CommandOK(r, task), r.mine.revision <= task.revision,
           Token(r) => Token(run[p]),
           Near(r) => Near(run[p]),
           Backing(r) => approval = "consumed"
    PROVE  IInv'
  <1>1. TypeOK'
    BY DEF IInv, TypeOK, Mine
  <1>2. CallBudget' /\ \A q \in Procs : CommandOK(run'[q], task')
    BY DEF IInv, TypeOK, CallBudget
  <1>3. OneToken'
    BY DEF IInv, TypeOK, OneToken
  <1>4. Entering' \subseteq Entering
    BY DEF IInv, TypeOK, Entering
  <1>5. /\ Cardinality(Entering') \in Nat
        /\ Cardinality(Entering') <= Cardinality(Entering)
    BY <1>4, EnteringFinite, FS_Subset, FS_CardinalityType
  <1>6. ran \in [replayed : Nat, early : Nat, late : Nat]
    BY DEF IInv, TypeOK
  <1>7. LateBound'
    BY <1>5, <1>6, EnteringFinite DEF IInv, LateBound
  <1>8. Backed'
    BY DEF IInv, TypeOK, Backed
  <1> QED BY <1>1, <1>2, <1>3, <1>7, <1>8 DEF IInv

\* A process that has nothing to do works on the task as it was at first.
LEMMA IdleOK ==
    ASSUME IInv
    PROVE  /\ Idle \in Command /\ CommandOK(Idle, task)
           /\ Idle.mine.revision <= task.revision
           /\ ~ Token(Idle) /\ ~ Near(Idle) /\ ~ Backing(Idle)
  <1>1. Idle \in Command
    BY DEF Idle, Command, Label, Work, NewTask, Task, TaskStatus
  <1>2. Idle.pc = "idle" /\ Idle.mine = NewTask /\ NewTask.revision = 0
        /\ ~ NewTask.consumed
    BY DEF Idle, NewTask
  <1>3. task.revision \in Nat
    BY DEF IInv, TypeOK, Task
  <1> QED BY <1>1, <1>2, <1>3 DEF IInv, CommandOK, Token, Near, Backing

\* A save that is refused ends the command; one that goes through changes the
\* stored task and nothing else.
LEMMA Saves ==
    ASSUME IInv, NEW p \in Procs, NEW new \in Task, NEW r \in Command,
           SaveThen(p, new, r),
           UNCHANGED <<commands, approval, expired, audit, ran>>,
           new.calls = Mine(p).calls \/ new.calls <= MaxToolCalls,
           new.revision = Mine(p).revision,
           new.approved => Mine(p).approved \/ Token(run[p]),
           new.consumed => Mine(p).consumed \/ Token(run[p]),
           Token(r) => Mine(p).approved /\ ~ new.approved,
           new.status \in Terminal => new.status = Mine(p).status \/ ~ Near(r),
           r.pc = "replay" => new.approved,
           r.pc = "advance" => r.work \in Proposals,
           r.pc # "execute",
           r.pc = "record" => new.calls < MaxToolCalls
    PROVE  IInv'
  <1>1. CASE ~ CanSave(p, new)
    <2>1. run' = [run EXCEPT ![p] = Idle] /\ task' = task
      BY <1>1, Zenon DEF SaveThen, Become, Idle
    <2>2. commands' \in Nat
          /\ audit' \in [executed : Nat, final : SUBSET {"completed", "cancelled", "timed_out"}]
      BY DEF IInv, TypeOK
    <2> QED BY <2>1, <2>2, IdleOK, Moves
  <1>2. CASE CanSave(p, new)
    <2> DEFINE next == [new EXCEPT !.revision = @ + 1]
               mine == IF r.pc = "idle" THEN Idle ELSE [r EXCEPT !.mine = next]
    <2>1. /\ Mine(p) = task /\ task.status \notin Terminal
          /\ task.revision \in Nat /\ new.revision = task.revision
      BY <1>2 DEF CanSave, IInv, CommandOK, Mine, TypeOK, Task
    <2>2. /\ next \in Task /\ next.revision = task.revision + 1
          /\ next.status = new.status /\ next.calls = new.calls
          /\ next.approved = new.approved /\ next.consumed = new.consumed
      BY <2>1 DEF Task
    <2>3. task' = next /\ run' = [run EXCEPT ![p] = mine]
      BY <1>2 DEF SaveThen, Become
    <2> HIDE DEF next
    <2>4. /\ mine \in Command /\ mine.mine.revision <= next.revision
          /\ mine.pc = r.pc /\ (r.pc # "idle" => mine.work = r.work /\ mine.mine = next)
      <3>1. CASE r.pc = "idle"
        BY <2>1, <2>2, <3>1, IdleOK DEF Idle, NewTask
      <3>2. CASE r.pc # "idle"
        <4>1. mine = [r EXCEPT !.mine = next] /\ next \in Task
          BY <2>2, <3>2
        <4>2. mine \in Command /\ mine.mine = next /\ mine.pc = r.pc /\ mine.work = r.work
          BY <4>1 DEF Command
        <4> QED BY <2>1, <2>2, <4>2
      <3> QED BY <3>1, <3>2
    <2>5. CommandOK(mine, next)
      BY <2>1, <2>2, <2>4, IdleOK DEF CommandOK
    <2>6. ASSUME NEW q \in Procs, q # p
          PROVE  /\ run'[q] = run[q] /\ Mine(q).revision < next.revision
                 /\ Mine(q).revision \in Nat /\ CommandOK(run[q], next)
      BY <2>1, <2>2, <2>3, <2>6 DEF IInv, TypeOK, Command, Task, Mine, CommandOK
    <2>7. TypeOK'
      <3>1. run' \in [Procs -> Command] /\ run'[p] = mine
        BY <2>3, <2>4 DEF IInv, TypeOK
      <3>2. \A q \in Procs : run'[q].mine.revision <= task'.revision
        BY <2>1, <2>2, <2>3, <2>4, <2>6, <3>1 DEF Mine
      <3> QED BY <2>2, <2>3, <3>1, <3>2 DEF IInv, TypeOK, Mine
    <2>8. CallBudget' /\ task'.revision # 0
      BY <2>1, <2>2, <2>3 DEF IInv, CallBudget
    <2>9. \A q \in Procs : CommandOK(run'[q], task')
      BY <2>3, <2>5, <2>6 DEF IInv, TypeOK
    <2>10. OneToken'
      BY <2>1, <2>2, <2>3, <2>4, <2>6 DEF IInv, TypeOK, OneToken, Token, Task
    <2>11. Backed'
      <3>1. new.consumed => approval = "consumed"
        BY <2>1 DEF IInv, Backed, OneToken
      <3>2. Backing(mine) => approval = "consumed"
        BY <2>2, <2>4, <3>1, IdleOK DEF Backing
      <3> QED BY <2>2, <2>3, <2>6, <3>1, <3>2 DEF IInv, TypeOK, Backed
    <2>12. LateBound'
      <3>1. ran.late = 0
        BY <2>1 DEF IInv, LateBound
      <3>2. CASE task'.status \in Terminal
        <4>1. Entering' \subseteq Procs \ {p}
          BY <2>1, <2>2, <2>3, <2>4, <3>2 DEF Entering, Near, IInv, TypeOK
        <4>2. /\ IsFiniteSet(Procs \ {p})
              /\ Cardinality(Procs \ {p}) = Cardinality(Procs) - 1
          BY AgentAssumption, FS_RemoveElement
        <4>3. Cardinality(Entering') <= Cardinality(Procs) - 1
              /\ Cardinality(Entering') \in Nat
          BY <4>1, <4>2, FS_Subset, FS_CardinalityType
        <4> QED BY <3>1, <3>2, <4>3, EnteringFinite DEF LateBound
      <3> QED BY <3>1, <3>2 DEF LateBound
    <2> QED BY <2>7, <2>8, <2>9, <2>10, <2>11, <2>12 DEF IInv
  <1> QED BY <1>1, <1>2

-----------------------------------------------------------------------------
(***************************************************************************)
(* Steps that save nothing.                                                *)
(***************************************************************************)

\* What a step other than a consumption, a tool or a save leaves alone.
Quiet ==
    /\ UNCHANGED <<task, approval, expired, ran>>
    /\ commands' \in Nat
    /\ audit' \in [executed : Nat, final : SUBSET {"completed", "cancelled", "timed_out"}]

\* A step to r, or to rest.
LEMMA Becomes ==
    ASSUME IInv, NEW p \in Procs, NEW r \in Command, Become(p, r), Quiet,
           CommandOK(r, task), r.mine.revision <= task.revision,
           Token(r) => Token(run[p]), Near(r) => Near(run[p]),
           Backing(r) => approval = "consumed"
    PROVE  IInv'
  <1>1. CASE r.pc = "idle"
    <2>1. run' = [run EXCEPT ![p] = Idle]
      BY <1>1 DEF Become
    <2> QED BY <2>1, IdleOK, Moves DEF Quiet
  <1>2. CASE r.pc # "idle"
    <2>1. run' = [run EXCEPT ![p] = r]
      BY <1>2 DEF Become
    <2> QED BY <2>1, Moves DEF Quiet
  <1> QED BY <1>1, <1>2

\* The labels at which nothing is asked of the snapshot.
Free == Label \ {"replay", "advance", "dispatch", "execute", "record", "save_approved"}

\* The command goes on with its snapshot.
LEMMA Goes ==
    ASSUME IInv, NEW p \in Procs, NEW label \in Free, Goto(p, label), Quiet
    PROVE  IInv'
  <1> DEFINE r == [run[p] EXCEPT !.pc = label]
  <1>1. run[p] \in Command /\ CommandOK(run[p], task) /\ Mine(p).revision <= task.revision
    BY DEF IInv, TypeOK
  <1>2. r \in Command /\ r.pc = label /\ r.mine = run[p].mine
    BY <1>1 DEF Command, Free
  <1>3. CommandOK(r, task) /\ ~ Token(r) /\ ~ Near(r) /\ r.mine.revision <= task.revision
    BY <1>1, <1>2 DEF CommandOK, Token, Near, Free, Mine
  <1>4. Become(p, r)
    BY DEF Goto
  <1>5. Backing(r) => approval = "consumed"
    BY <1>2 DEF Backing, Free, IInv, Backed
  <1> QED BY <1>2, <1>3, <1>4, <1>5, Becomes

\* The command reloads the task.
LEMMA Loads ==
    ASSUME IInv, NEW p \in Procs, NEW label \in Free, LoadThen(p, label), Quiet
    PROVE  IInv'
  <1> DEFINE r == [run[p] EXCEPT !.mine = task, !.pc = label]
  <1>1. run[p] \in Command /\ task \in Task /\ task.revision \in Nat
    BY DEF IInv, TypeOK, Task
  <1>2. r \in Command /\ r.pc = label /\ r.mine = task
    BY <1>1 DEF Command, Free
  <1>3. CommandOK(r, task) /\ ~ Token(r) /\ ~ Near(r) /\ r.mine.revision <= task.revision
    BY <1>1, <1>2 DEF CommandOK, Token, Near, Free
  <1>4. Become(p, r)
    BY DEF LoadThen
  <1>5. Backing(r) => approval = "consumed"
    BY <1>2 DEF Backing, Free, IInv, Backed
  <1> QED BY <1>2, <1>3, <1>4, <1>5, Becomes

\* What an event does to the audit log.
LEMMA LogTyped ==
    ASSUME IInv, NEW event \in {"completed", "cancelled", "timed_out"}, Log(event)
    PROVE  audit' \in [executed : Nat, final : SUBSET {"completed", "cancelled", "timed_out"}]
  BY DEF IInv, TypeOK, Log

\* Commands that begin by loading the task.
LEMMA LoadingOK ==
    ASSUME IInv, NEW p \in Procs,
           Run(p) \/ LoopDone(p) \/ Approve(p) \/ Cancel(p) \/ Pause(p) \/ Resume(p)
    PROVE  IInv'
  <1>1. Quiet
    BY DEF IInv, TypeOK, Quiet, Run, LoopDone, Approve, Cancel, Pause, Resume
  <1>2. \E label \in Free : LoadThen(p, label)
    <2>1. CASE Run(p)
      BY <2>1 DEF Run, Free, Label
    <2>2. CASE LoopDone(p)
      BY <2>2 DEF LoopDone, Free, Label
    <2>3. CASE Approve(p)
      BY <2>3 DEF Approve, Free, Label
    <2>4. CASE Cancel(p)
      BY <2>4 DEF Cancel, Free, Label
    <2>5. CASE Pause(p)
      BY <2>5 DEF Pause, Free, Label
    <2>6. CASE Resume(p)
      BY <2>6 DEF Resume, Free, Label
    <2> QED BY <2>1, <2>2, <2>3, <2>4, <2>5, <2>6
  <1> QED BY <1>1, <1>2, Loads

\* Events, the start of a command and its death.
LEMMA GoingOK ==
    ASSUME IInv, NEW p \in Procs,
           LogExecution(p) \/ TimeOut(p) \/ LogCancelled(p) \/ Issue(p) \/ Crash(p)
    PROVE  IInv'
  <1>1. CASE LogExecution(p)
    <2>1. audit' \in [executed : Nat, final : SUBSET {"completed", "cancelled", "timed_out"}]
      BY <1>1 DEF IInv, TypeOK, LogExecution
    <2>2. Quiet
      BY <1>1, <2>1 DEF IInv, TypeOK, Quiet, LogExecution
    <2>3. \E label \in Free : Goto(p, label)
      BY <1>1 DEF LogExecution, Free, Label
    <2> QED BY <2>2, <2>3, Goes
  <1>2. CASE TimeOut(p)
    <2>1. Quiet
      BY <1>2, LogTyped DEF IInv, TypeOK, Quiet, TimeOut
    <2>2. \E label \in Free : Goto(p, label)
      BY <1>2 DEF TimeOut, Free, Label
    <2> QED BY <2>1, <2>2, Goes
  <1>3. CASE LogCancelled(p)
    <2>1. Quiet
      BY <1>3, LogTyped DEF IInv, TypeOK, Quiet, LogCancelled
    <2>2. \E label \in Free : Goto(p, label)
      BY <1>3 DEF LogCancelled, Free, Label
    <2> QED BY <2>1, <2>2, Goes
  <1>4. CASE Issue(p)
    <2>1. Quiet
      BY <1>4 DEF IInv, TypeOK, Quiet, Issue
    <2>2. \E label \in Free : Goto(p, label)
      BY <1>4 DEF Issue, Free, Label
    <2> QED BY <2>1, <2>2, Goes
  <1>5. CASE Crash(p)
    <2>1. Quiet
      BY <1>5 DEF IInv, TypeOK, Quiet, Crash
    <2>2. \E label \in Free : Goto(p, label)
      BY <1>5 DEF Crash, Free, Label
    <2> QED BY <2>1, <2>2, Goes
  <1> QED BY <1>1, <1>2, <1>3, <1>4, <1>5

\* The top of an iteration replays a call only from a task that is approved.
LEMMA LoopOK ==
    ASSUME IInv, NEW p \in Procs, Loop(p) PROVE IInv'
  <1> DEFINE label == IF task.status \in Terminal THEN "idle"
                      ELSE IF expired THEN "timeout"
                      ELSE IF task.pending /\ task.approved THEN "replay"
                      ELSE "plan"
             r == [run[p] EXCEPT !.mine = task, !.left = @ - 1, !.pc = label]
  <1>1. label \in {"idle", "timeout", "replay", "plan"} /\ (label = "replay" => task.approved)
    OBVIOUS
  <1> HIDE DEF label
  <1>2. run[p] \in Command /\ run[p].left > 0 /\ task \in Task /\ task.revision \in Nat
    BY DEF IInv, TypeOK, Task, Loop
  <1>3. r \in Command /\ r.pc = label /\ r.mine = task
    <2>1. run[p].left - 1 \in Nat
      BY <1>2 DEF Command
    <2> QED BY <1>1, <1>2, <2>1 DEF Command, Label
  <1>4. CommandOK(r, task) /\ ~ Token(r) /\ ~ Near(r) /\ r.mine.revision <= task.revision
    BY <1>1, <1>2, <1>3 DEF CommandOK, Token, Near
  <1>5. Become(p, r) /\ Quiet
    BY DEF IInv, TypeOK, Quiet, Loop, label
  <1>6. Backing(r) => approval = "consumed"
    BY <1>1, <1>3 DEF Backing, IInv, Backed
  <1> QED BY <1>3, <1>4, <1>5, <1>6, Becomes

\* The planner's answer is carried out only as a proposal.
LEMMA PlanOK ==
    ASSUME IInv, NEW p \in Procs, Plan(p) PROVE IInv'
  <1>1. PICK proposal \in Proposals :
          Become(p, [run[p] EXCEPT
            !.work = proposal,
            !.pc   = IF proposal = "error" THEN "save_failed"
                     ELSE IF task.revision # Mine(p).revision THEN "idle"
                     ELSE "advance"])
    BY DEF Plan
  <1> DEFINE label == IF proposal = "error" THEN "save_failed"
                      ELSE IF task.revision # Mine(p).revision THEN "idle"
                      ELSE "advance"
             r == [run[p] EXCEPT !.work = proposal, !.pc = label]
  <1>2. label \in {"save_failed", "idle", "advance"}
    OBVIOUS
  <1>3. Become(p, r)
    BY <1>1
  <1> HIDE DEF label
  <1>4. run[p] \in Command /\ CommandOK(run[p], task) /\ Mine(p).revision <= task.revision
    BY DEF IInv, TypeOK
  <1>5. r \in Command /\ r.pc = label /\ r.mine = run[p].mine /\ r.work = proposal
    BY <1>2, <1>4 DEF Command, Label, Work
  <1>6. CommandOK(r, task) /\ ~ Token(r) /\ ~ Near(r) /\ r.mine.revision <= task.revision
    BY <1>2, <1>4, <1>5 DEF CommandOK, Token, Near, Mine
  <1>7. Quiet
    BY DEF IInv, TypeOK, Quiet, Plan
  <1>8. Backing(r) => approval = "consumed"
    BY <1>2, <1>5 DEF Backing, IInv, Backed
  <1> QED BY <1>3, <1>5, <1>6, <1>7, <1>8, Becomes

\* The policy lets a call through only below the budget, and one that requires
\* an approval only on a snapshot that knows of a consumed one.
LEMMA DispatchOK ==
    ASSUME IInv, NEW p \in Procs, Dispatch(p) PROVE IInv'
  <1> DEFINE decision == Policy(Mine(p), run[p].work)
             label == IF run[p].work = "complete" THEN "save_completed"
                      ELSE IF run[p].work = "pause" THEN "save_paused"
                      ELSE IF decision = "denied" THEN "save_blocked"
                      ELSE IF decision = "requires_approval" THEN "save_gated"
                      ELSE IF expired THEN "timeout" ELSE "execute"
             r == [run[p] EXCEPT !.pc = label]
  <1>1. /\ run[p] \in Command /\ CommandOK(run[p], task) /\ Mine(p).revision <= task.revision
        /\ Mine(p).calls \in Nat /\ run[p].pc = "dispatch"
    BY DEF IInv, TypeOK, Dispatch, At, Mine, Command, Task
  <1>2. label \in {"save_completed", "save_paused", "save_blocked", "save_gated", "timeout",
                   "execute"}
    OBVIOUS
  <1>3. label = "execute" =>
          Mine(p).calls < MaxToolCalls /\ (run[p].work \in GatedCalls => Mine(p).consumed)
    <2>1. label = "execute" => decision # "denied" /\ decision # "requires_approval"
      OBVIOUS
    <2>2. Mine(p).calls >= MaxToolCalls => decision = "denied"
      BY DEF Policy
    <2>3. run[p].work \in GatedCalls /\ ~ Mine(p).consumed =>
            decision \in {"denied", "requires_approval"}
      BY DEF Policy, GatedCalls
    <2> QED BY <1>1, <2>1, <2>2, <2>3, AgentAssumption
  <1>4. Goto(p, label)
    BY DEF Dispatch
  <1>5. Quiet
    <2>1. audit' \in [executed : Nat, final : SUBSET {"completed", "cancelled", "timed_out"}]
      BY LogTyped DEF IInv, TypeOK, Dispatch
    <2> QED BY <2>1 DEF IInv, TypeOK, Quiet, Dispatch
  <1> HIDE DEF label
  <1>6. r \in Command /\ r.pc = label /\ r.mine = run[p].mine /\ r.work = run[p].work
    BY <1>1, <1>2 DEF Command, Label
  <1>7. CommandOK(r, task) /\ r.mine.revision <= task.revision
    BY <1>1, <1>2, <1>3, <1>6 DEF CommandOK, Mine
  <1>8. (Token(r) => Token(run[p])) /\ (Near(r) => Near(run[p]))
    BY <1>1, <1>2, <1>6 DEF Token, Near
  <1>9. Become(p, r)
    BY <1>4 DEF Goto
  <1>10. Backing(r) => approval = "consumed"
    BY <1>3, <1>6 DEF Backing, IInv, Backed, Mine
  <1> QED BY <1>5, <1>6, <1>7, <1>8, <1>9, <1>10, Becomes

\* A tool is entered: the token is spent, the process leaves those near a tool.
LEMMA ExecuteOK ==
    ASSUME IInv, NEW p \in Procs, Execute(p) PROVE IInv'
  <1> DEFINE r == [run[p] EXCEPT !.pc = "record"]
  <1>1. /\ run[p] \in Command /\ CommandOK(run[p], task) /\ Mine(p).revision <= task.revision
        /\ run[p].pc = "execute" /\ ran \in [replayed : Nat, early : Nat, late : Nat]
    BY DEF IInv, TypeOK, Execute, At
  <1>2. r \in Command /\ r.pc = "record" /\ r.mine = run[p].mine
    BY <1>1 DEF Command, Label
  <1>3. run' = [run EXCEPT ![p] = r] /\ UNCHANGED <<task, commands, approval, expired, audit>>
    BY <1>2 DEF Execute, Goto, Become
  <1>4. /\ ran' \in [replayed : Nat, early : Nat, late : Nat]
        /\ ran'.replayed = ran.replayed + (IF run[p].work = "approved" THEN 1 ELSE 0)
        /\ ran'.early = 0
        /\ ran'.late = ran.late + (IF task.status \in Terminal THEN 1 ELSE 0)
    <2> DEFINE replayed == IF run[p].work = "approved" THEN ran.replayed + 1
                                                       ELSE ran.replayed
               early == IF run[p].work \in GatedCalls /\ approval # "consumed"
                          THEN ran.early + 1 ELSE ran.early
               late == IF task.status \in Terminal THEN ran.late + 1 ELSE ran.late
    <2>1. ran' = [ran EXCEPT !.replayed = replayed, !.early = early, !.late = late]
      BY DEF Execute
    <2>2. ran.early = 0 /\ (run[p].work \in GatedCalls => approval = "consumed")
      BY <1>1 DEF IInv, Backed, Backing
    <2>3. /\ replayed \in Nat /\ early = 0 /\ late \in Nat
          /\ replayed = ran.replayed + (IF run[p].work = "approved" THEN 1 ELSE 0)
          /\ late = ran.late + (IF task.status \in Terminal THEN 1 ELSE 0)
      BY <1>1, <2>2
    <2> HIDE DEF replayed, early, late
    <2> QED BY <1>1, <2>1, <2>3
  <1>5. CommandOK(r, task)
    BY <1>1, <1>2 DEF CommandOK
  <1>6. TypeOK'
    BY <1>1, <1>2, <1>3, <1>4 DEF IInv, TypeOK, Mine
  <1>7. CallBudget' /\ (task'.revision = 0 => task' = NewTask)
        /\ \A q \in Procs : CommandOK(run'[q], task')
    BY <1>3, <1>5 DEF IInv, TypeOK, CallBudget
  <1>8. OneToken'
    BY <1>1, <1>2, <1>3, <1>4 DEF IInv, TypeOK, OneToken, Token
  <1>9. LateBound'
    <2>1. p \in Entering /\ Entering' = Entering \ {p}
      BY <1>1, <1>2, <1>3 DEF Entering, Near, IInv, TypeOK
    <2>2. Cardinality(Entering') = Cardinality(Entering) - 1
      BY <2>1, EnteringFinite, FS_RemoveElement
    <2> QED BY <1>1, <1>3, <1>4, <2>2, EnteringFinite DEF IInv, LateBound
  <1>10. Backed'
    BY <1>1, <1>2, <1>3, <1>4 DEF IInv, TypeOK, Backed, Backing
  <1> QED BY <1>6, <1>7, <1>8, <1>9, <1>10 DEF IInv

\* An approval is consumed by one command, which then stands for it.
LEMMA ConsumeOK ==
    ASSUME IInv, NEW p \in Procs, Consume(p) PROVE IInv'
  <1>1. CASE approval # "approved"
    <2>1. Quiet /\ Goto(p, "idle")
      BY <1>1 DEF IInv, TypeOK, Quiet, Consume
    <2> QED BY <2>1, Goes DEF Free, Label
  <1>2. CASE approval = "approved"
    <2> DEFINE r == [run[p] EXCEPT !.pc = "save_approved"]
    <2>1. run[p] \in Command /\ CommandOK(run[p], task) /\ Mine(p).revision <= task.revision
      BY DEF IInv, TypeOK
    <2>2. r \in Command /\ r.pc = "save_approved" /\ r.mine = run[p].mine
      BY <2>1 DEF Command, Label
    <2>3. /\ run' = [run EXCEPT ![p] = r] /\ approval' = "consumed"
          /\ UNCHANGED <<task, commands, expired, audit, ran>>
      BY <1>2, <2>2 DEF Consume, Goto, Become
    <2>4. TypeOK'
      BY <2>1, <2>2, <2>3 DEF IInv, TypeOK, Mine
    <2>5. CallBudget' /\ (task'.revision = 0 => task' = NewTask)
          /\ \A q \in Procs : CommandOK(run'[q], task')
      BY <2>1, <2>2, <2>3 DEF IInv, TypeOK, CallBudget, CommandOK
    <2>6. OneToken'
      <3>1. ran.replayed = 0 /\ ~ task.approved /\ \A q \in Procs : ~ Token(run[q])
        BY <1>2 DEF IInv, OneToken
      <3>2. \A q \in Procs \ {p} : run'[q] = run[q]
        BY <2>3 DEF IInv, TypeOK
      <3> QED BY <2>3, <3>1, <3>2 DEF OneToken
    <2>7. Entering' \subseteq Entering
      BY <2>2, <2>3 DEF Entering, Near, IInv, TypeOK
    <2>8. /\ Cardinality(Entering') \in Nat
          /\ Cardinality(Entering') <= Cardinality(Entering)
      BY <2>7, EnteringFinite, FS_Subset, FS_CardinalityType
    <2>9. ran \in [replayed : Nat, early : Nat, late : Nat]
      BY DEF IInv, TypeOK
    <2>10. LateBound'
      BY <2>3, <2>8, <2>9, EnteringFinite DEF IInv, LateBound
    <2>11. Backed'
      BY <2>3 DEF IInv, Backed
    <2> QED BY <2>4, <2>5, <2>6, <2>10, <2>11 DEF IInv
  <1> QED BY <1>1, <1>2

\* The approver, and time.
LEMMA EnvironmentOK ==
    ASSUME IInv, HumanApproves \/ DeadlinePasses PROVE IInv'
  <1>1. /\ UNCHANGED <<task, run, commands, audit, ran>>
        /\ approval' \in {"pending", "approved", "consumed"} /\ expired' \in BOOLEAN
        /\ approval' = "consumed" <=> approval = "consumed"
    BY DEF IInv, TypeOK, HumanApproves, DeadlinePasses
  <1>2. TypeOK' /\ CallBudget' /\ (task'.revision = 0 => task' = NewTask)
        /\ \A q \in Procs : CommandOK(run'[q], task')
    BY <1>1 DEF IInv, TypeOK, CallBudget, Mine
  <1>3. OneToken'
    BY <1>1 DEF IInv, OneToken
  <1>4. LateBound'
    BY <1>1 DEF IInv, LateBound, Entering
  <1>5. Backed'
    BY <1>1 DEF IInv, Backed
  <1> QED BY <1>2, <1>3, <1>4, <1>5 DEF IInv
-----------------------------------------------------------------------------
(***************************************************************************)
(* Steps that save.                                                        *)
(***************************************************************************)

\* A save that keeps the calls and the approval of the snapshot.
LEMMA PlainSave ==
    ASSUME IInv, NEW p \in Procs, NEW new \in Task, NEW r \in Command,
           SaveThen(p, new, r),
           UNCHANGED <<commands, approval, expired, audit, ran>>,
           new.calls = Mine(p).calls, new.revision = Mine(p).revision,
           new.approved = Mine(p).approved, new.consumed = Mine(p).consumed,
           r.pc \in Free, new.status \in Terminal => ~ Near(r)
    PROVE  IInv'
  <1>1. r.pc \notin {"replay", "advance", "execute", "record"} /\ ~ Token(r)
    BY DEF Free, Label, Token
  <1> QED BY <1>1, Saves

\* The command a process is in, and its snapshot.
LEMMA Snapshot ==
    ASSUME IInv, NEW p \in Procs
    PROVE  /\ run[p] \in Command /\ CommandOK(run[p], task) /\ run[p].mine = Mine(p)
           /\ Mine(p) \in Task
  BY DEF IInv, TypeOK, Mine, Command

\* A snapshot with another status.
LEMMA Restated ==
    ASSUME NEW t \in Task, NEW status \in TaskStatus
    PROVE  LET new == [t EXCEPT !.status = status]
           IN  /\ new \in Task /\ new.revision = t.revision /\ new.calls = t.calls
               /\ new.approved = t.approved /\ new.consumed = t.consumed
               /\ new.status = status
  BY DEF Task

\* The saves a command ends with.
LEMMA EndingOK ==
    ASSUME IInv, NEW p \in Procs, NEW label, NEW status \in TaskStatus,
           EndsWith(p, label, status)
    PROVE  IInv'
  <1> DEFINE new == [Mine(p) EXCEPT !.status = status]
             r == [run[p] EXCEPT !.pc = "idle"]
  <1>1. r \in Command /\ r.pc = "idle"
    BY Snapshot DEF Command, Label
  <1>2. /\ new \in Task /\ new.revision = Mine(p).revision /\ new.calls = Mine(p).calls
        /\ new.approved = Mine(p).approved /\ new.consumed = Mine(p).consumed
    BY Snapshot, Restated
  <1>3. SaveThen(p, new, r) /\ UNCHANGED <<commands, approval, expired, audit, ran>>
    BY DEF EndsWith, Save
  <1> HIDE DEF new, r
  <1>4. r.pc \in Free /\ ~ Near(r)
    BY <1>1 DEF Free, Label, Near
  <1> QED BY <1>1, <1>2, <1>3, <1>4, PlainSave

\* A command marks the task running, stopped or cancelled and goes on.
LEMMA StatusOK ==
    ASSUME IInv, NEW p \in Procs,
           SaveCancelled(p) \/ SaveResumed(p) \/ SaveOutput(p)
    PROVE  IInv'
  <1>1. UNCHANGED <<commands, approval, expired, audit, ran>>
    BY DEF SaveCancelled, SaveResumed, SaveOutput
  <1>2. ASSUME NEW label \in {"log_cancelled", "run", "loop"}, NEW new \in Task,
               Save(p, new, label),
               new.calls = Mine(p).calls, new.revision = Mine(p).revision,
               new.approved = Mine(p).approved, new.consumed = Mine(p).consumed
        PROVE  IInv'
    <2> DEFINE r == [run[p] EXCEPT !.pc = label]
    <2>1. r \in Command /\ r.pc = label
      BY Snapshot DEF Command, Label
    <2>2. SaveThen(p, new, r)
      BY <1>2 DEF Save
    <2> HIDE DEF r
    <2>3. r.pc \in Free /\ ~ Near(r)
      BY <2>1 DEF Free, Label, Near
    <2> QED BY <1>1, <1>2, <2>1, <2>2, <2>3, PlainSave
  <1>3. CASE SaveCancelled(p)
    BY <1>2, <1>3, Snapshot, Restated DEF SaveCancelled, TaskStatus
  <1>4. CASE SaveResumed(p)
    BY <1>2, <1>4, Snapshot, Restated DEF SaveResumed, TaskStatus
  <1>5. CASE SaveOutput(p)
    BY <1>2, <1>5, Snapshot DEF SaveOutput
  <1> QED BY <1>3, <1>4, <1>5

LEMMA StartOK ==
    ASSUME IInv, NEW p \in Procs, Start(p) PROVE IInv'
  <1> DEFINE new == [Mine(p) EXCEPT !.status = "running"]
             r == [run[p] EXCEPT !.pc = "loop", !.left = MaxIterations]
  <1>1. r \in Command /\ r.pc = "loop"
    BY Snapshot, AgentAssumption DEF Command, Label
  <1>2. /\ new \in Task /\ new.revision = Mine(p).revision /\ new.calls = Mine(p).calls
        /\ new.approved = Mine(p).approved /\ new.consumed = Mine(p).consumed
    BY Snapshot, Restated DEF TaskStatus
  <1>3. SaveThen(p, new, r) /\ UNCHANGED <<commands, approval, expired, audit, ran>>
    BY DEF Start
  <1> HIDE DEF new, r
  <1>4. r.pc \in Free /\ ~ Near(r)
    BY <1>1 DEF Free, Label, Near
  <1> QED BY <1>1, <1>2, <1>3, <1>4, PlainSave

\* A counted failure, at the limit of which the task will be blocked.
LEMMA RetryOK ==
    ASSUME IInv, NEW p \in Procs, SaveRetry(p) PROVE IInv'
  <1> DEFINE new == [Mine(p) EXCEPT !.failures = @ + 1]
             label == IF new.failures >= MaxFailures THEN "save_blocked" ELSE "loop"
             r == [run[p] EXCEPT !.pc = label]
  <1>1. label \in {"save_blocked", "loop"}
    OBVIOUS
  <1>2. SaveThen(p, new, r) /\ UNCHANGED <<commands, approval, expired, audit, ran>>
    BY DEF SaveRetry, Save
  <1>3. /\ new \in Task /\ new.revision = Mine(p).revision /\ new.calls = Mine(p).calls
        /\ new.approved = Mine(p).approved /\ new.consumed = Mine(p).consumed
    BY Snapshot DEF Task
  <1> HIDE DEF label
  <1>4. r \in Command /\ r.pc = label
    BY <1>1, Snapshot DEF Command, Label
  <1> HIDE DEF new, r
  <1>5. r.pc \in Free /\ ~ Near(r)
    BY <1>1, <1>4 DEF Free, Label, Near
  <1> QED BY <1>2, <1>3, <1>4, <1>5, PlainSave

\* The task waits for an approval of the proposal it keeps.
LEMMA GatedOK ==
    ASSUME IInv, NEW p \in Procs, SaveGated(p) PROVE IInv'
  <1> DEFINE new == [Mine(p) EXCEPT !.status = "paused_approval", !.pending = TRUE]
             r == [run[p] EXCEPT !.pc = "idle"]
  <1>1. r \in Command /\ r.pc = "idle"
    BY Snapshot DEF Command, Label
  <1>2. /\ new \in Task /\ new.revision = Mine(p).revision /\ new.calls = Mine(p).calls
        /\ new.approved = Mine(p).approved /\ new.consumed = Mine(p).consumed
    BY Snapshot DEF Task, TaskStatus
  <1>3. SaveThen(p, new, r) /\ UNCHANGED <<commands, approval, expired, audit, ran>>
    BY DEF SaveGated, Save
  <1> HIDE DEF new, r
  <1>4. r.pc \in Free /\ ~ Near(r)
    BY <1>1 DEF Free, Label, Near
  <1> QED BY <1>1, <1>2, <1>3, <1>4, PlainSave

\* The token passes from the command that consumed the approval to the task.
LEMMA ApprovedOK ==
    ASSUME IInv, NEW p \in Procs, SaveApproved(p) PROVE IInv'
  <1> DEFINE new == [Mine(p) EXCEPT !.status = "running", !.approved = TRUE,
                                    !.consumed = TRUE]
             r == [run[p] EXCEPT !.pc = "run"]
  <1>1. r \in Command /\ r.pc = "run"
    BY Snapshot DEF Command, Label
  <1>2. /\ new \in Task /\ new.revision = Mine(p).revision /\ new.calls = Mine(p).calls
    BY Snapshot DEF Task, TaskStatus
  <1>3. SaveThen(p, new, r) /\ UNCHANGED <<commands, approval, expired, audit, ran>>
    BY DEF SaveApproved, Save
  <1>4. Token(run[p])
    BY DEF SaveApproved, At, Token
  <1> HIDE DEF new, r
  <1>5. r.pc \notin {"replay", "advance", "execute", "record"} /\ ~ Token(r) /\ ~ Near(r)
    BY <1>1 DEF Token, Near
  <1> QED BY <1>1, <1>2, <1>3, <1>4, <1>5, Saves

\* The token passes from the task to the command that replays the call.
LEMMA ReplayOK ==
    ASSUME IInv, NEW p \in Procs, Replay(p) PROVE IInv'
  <1> DEFINE new == Replayed(Mine(p))
  <1>0. PICK work \in {"approved", "forbidden"} :
          SaveThen(p, new, [run[p] EXCEPT !.pc = "dispatch", !.work = work])
    BY DEF Replay
  <1> DEFINE r == [run[p] EXCEPT !.pc = "dispatch", !.work = work]
  <1>1. r \in Command /\ r.pc = "dispatch"
    BY Snapshot DEF Command, Label, Work, Proposals
  <1>2. /\ new \in Task /\ new.revision = Mine(p).revision /\ new.calls = Mine(p).calls
        /\ ~ new.approved /\ new.status = Mine(p).status
        /\ new.consumed = Mine(p).consumed
    BY Snapshot DEF Task, Replayed
  <1>3. SaveThen(p, new, r) /\ UNCHANGED <<commands, approval, expired, audit, ran>>
    BY <1>0 DEF Replay
  <1>4. Mine(p).approved
    BY Snapshot DEF Replay, At, CommandOK
  <1> QED BY <1>1, <1>2, <1>3, <1>4, Saves

\* A proposal is carried out with a step counted.
LEMMA AdvanceOK ==
    ASSUME IInv, NEW p \in Procs, Advance(p) PROVE IInv'
  <1> DEFINE new == [Mine(p) EXCEPT !.steps = @ + 1]
             r == [run[p] EXCEPT !.pc = "dispatch"]
  <1>1. r \in Command /\ r.pc = "dispatch" /\ r.work = run[p].work
    BY Snapshot DEF Command, Label
  <1>2. /\ new \in Task /\ new.revision = Mine(p).revision /\ new.calls = Mine(p).calls
        /\ new.approved = Mine(p).approved /\ new.status = Mine(p).status
        /\ new.consumed = Mine(p).consumed
    BY Snapshot DEF Task
  <1>3. SaveThen(p, new, r) /\ UNCHANGED <<commands, approval, expired, audit, ran>>
    BY DEF Advance, Save
  <1>4. run[p].work # "approved"
    BY Snapshot DEF Advance, At, CommandOK, Proposals
  <1> HIDE DEF new, r
  <1>5. ~ Token(r)
    BY <1>1, <1>4 DEF Token
  <1> QED BY <1>1, <1>2, <1>3, <1>5, Saves

\* The call that was made is counted.
LEMMA RecordOK ==
    ASSUME IInv, NEW p \in Procs, Record(p) PROVE IInv'
  <1> DEFINE new == [Mine(p) EXCEPT !.calls = @ + 1]
             r == [run[p] EXCEPT !.pc = "log"]
  <1>1. r \in Command /\ r.pc = "log"
    BY Snapshot DEF Command, Label
  <1>2. /\ new \in Task /\ new.revision = Mine(p).revision
        /\ new.approved = Mine(p).approved /\ new.calls = Mine(p).calls + 1
        /\ new.consumed = Mine(p).consumed
        /\ Mine(p).calls \in Nat
    BY Snapshot DEF Task
  <1>3. SaveThen(p, new, r) /\ UNCHANGED <<commands, approval, expired, audit, ran>>
    BY DEF Record, Save
  <1>4. Mine(p).calls < MaxToolCalls
    BY Snapshot DEF Record, At, CommandOK
  <1> HIDE DEF new, r
  <1>5. new.calls <= MaxToolCalls
    BY <1>2, <1>4, AgentAssumption
  <1>6. r.pc \notin {"replay", "advance", "execute", "record"} /\ ~ Token(r) /\ ~ Near(r)
    BY <1>1 DEF Token, Near
  <1> QED BY <1>1, <1>2, <1>3, <1>5, <1>6, Saves


-----------------------------------------------------------------------------
(***************************************************************************)
(* The theorems.                                                           *)
(***************************************************************************)

LEMMA NextIInv == IInv /\ [Next]_vars => IInv'
  <1> SUFFICES ASSUME IInv, [Next]_vars PROVE IInv'
    OBVIOUS
  <1>1. CASE UNCHANGED vars
    BY <1>1 DEF vars, IInv, TypeOK, CallBudget, OneToken, Backed, LateBound, Entering,
                 Mine
  <1>2. CASE HumanApproves \/ DeadlinePasses
    BY <1>2, EnvironmentOK
  <1>3. ASSUME NEW p \in Procs, Issue(p) \/ Crash(p)
        PROVE  IInv'
    BY <1>3, GoingOK
  <1>4. ASSUME NEW p \in Procs, RunStep(p)
        PROVE  IInv'
    <2>1. CASE Run(p) \/ LoopDone(p)
      BY <2>1, LoadingOK
    <2>2. CASE Start(p) \/ Replay(p) \/ Advance(p) \/ Record(p)
      BY <2>2, StartOK, ReplayOK, AdvanceOK, RecordOK
    <2>3. CASE Loop(p) \/ Plan(p) \/ Dispatch(p) \/ Execute(p)
      BY <2>3, LoopOK, PlanOK, DispatchOK, ExecuteOK
    <2>4. CASE LogExecution(p)
      BY <2>4, GoingOK
    <2>5. CASE SaveOutput(p) \/ SaveRetry(p)
      BY <2>5, StatusOK, RetryOK
    <2> QED BY <1>4, <2>1, <2>2, <2>3, <2>4, <2>5 DEF RunStep
  <1>5. ASSUME NEW p \in Procs, CommandStep(p)
        PROVE  IInv'
    <2>1. CASE SaveCompleted(p) \/ SavePaused(p) \/ SaveBlocked(p) \/ SaveFailed(p)
                 \/ SaveBudget(p) \/ SaveTimedOut(p)
      BY <2>1, EndingOK DEF SaveCompleted, SavePaused, SaveBlocked, SaveFailed,
                            SaveBudget, SaveTimedOut, TaskStatus
    <2>2. CASE TimeOut(p) \/ LogCancelled(p)
      BY <2>2, GoingOK
    <2>3. CASE Approve(p) \/ Cancel(p) \/ Pause(p) \/ Resume(p)
      BY <2>3, LoadingOK
    <2>4. CASE SaveGated(p) \/ Consume(p) \/ SaveApproved(p)
      BY <2>4, GatedOK, ConsumeOK, ApprovedOK
    <2>5. CASE SaveCancelled(p) \/ SaveResumed(p)
      BY <2>5, StatusOK
    <2> QED BY <1>5, <2>1, <2>2, <2>3, <2>4, <2>5 DEF CommandStep
  <1> QED BY <1>1, <1>2, <1>3, <1>4, <1>5 DEF Next

THEOREM Invariance == Spec => []IInv
  BY InitIInv, NextIInv, PTL DEF Spec

\* Types, and no command of any process works on a snapshot newer than the
\* stored row of agent_tasks (AgentStore.save_task).
THEOREM TypeCorrect == Spec => []TypeOK
  <1>1. IInv => TypeOK
    BY DEF IInv
  <1> QED BY Invariance, <1>1, PTL

\* However many processes approve, resume, run and die, and whatever reference
\* the planner writes into a call: no call of an action that requires approval
\* runs before the approval was consumed, and the call that it was given for
\* runs at most once (AgentController.approve_and_resume, the replay in run,
\* AgentPolicyEngine.evaluate).
THEOREM ApprovalBuysOneReplay == Spec => []ApprovedOnce
  <1>1. IInv => ApprovedOnce
    <2> SUFFICES ASSUME IInv PROVE ApprovedOnce
      OBVIOUS
    <2>1. ran.early = 0 /\ ran.replayed <= 1
      BY DEF IInv, OneToken, Backed
    <2> QED BY <2>1 DEF ApprovedOnce
  <1> QED BY Invariance, <1>1, PTL

\* Concurrent runs together record no more tool calls than the permission
\* manifest allows: each checked the budget on the snapshot that it saves.
THEOREM CallsWithinBudget == Spec => []CallBudget
  <1>1. IInv => CallBudget
    BY DEF IInv
  <1> QED BY Invariance, <1>1, PTL

\* Once a task is cancelled, timed out, blocked, failed or completed, each
\* process but the one that ended it enters at most one more tool handler.
THEOREM EndStops == Spec => []EndStopsTools
  <1>1. IInv => EndStopsTools
    <2> SUFFICES ASSUME IInv PROVE EndStopsTools
      OBVIOUS
    <2>1. ran.late \in Nat
      BY DEF IInv, TypeOK
    <2> QED BY <2>1, EnteringFinite DEF IInv, LateBound, EndStopsTools
  <1> QED BY Invariance, <1>1, PTL

\* A save either raises or builds on the task that is stored.
LEMMA SaveAdvances ==
    ASSUME IInv, NEW p \in Procs, NEW new, NEW r, SaveThen(p, new, r)
    PROVE  \/ task' = task
           \/ /\ Mine(p) = task /\ task.status \notin Terminal
              /\ task' = [new EXCEPT !.revision = @ + 1]
  <1>1. CASE CanSave(p, new)
    BY <1>1, Snapshot DEF SaveThen, CanSave, CommandOK
  <1>2. CASE ~ CanSave(p, new)
    BY <1>2, Zenon DEF SaveThen
  <1> QED BY <1>1, <1>2

\* What a step may do to the stored task.
Advances ==
    /\ task.status \in Terminal => task' = task
    /\ task'.steps >= task.steps
    /\ task'.calls >= task.calls
    /\ task'.failures >= task.failures

\* A task that ended stays as it is and the stored counters never go back: no
\* command undoes what another saved after it loaded its snapshot.
THEOREM StoredTaskKept == Spec => StoredTaskAdvances
  <1>1. IInv /\ [Next]_vars => [Advances]_vars
    <2> SUFFICES ASSUME IInv, Next PROVE Advances
      BY DEF vars
    <2>1. task \in Task
      BY DEF IInv, TypeOK
    <2>2. CASE UNCHANGED task
      BY <2>1, <2>2 DEF Task, Advances
    <2>3. ASSUME NEW p \in Procs, NEW new \in Task, NEW r, SaveThen(p, new, r),
                 Mine(p) = task => /\ new.steps >= task.steps /\ new.calls >= task.calls
                                   /\ new.failures >= task.failures
          PROVE  Advances
      <3>1. [new EXCEPT !.revision = @ + 1].steps = new.steps
            /\ [new EXCEPT !.revision = @ + 1].calls = new.calls
            /\ [new EXCEPT !.revision = @ + 1].failures = new.failures
        BY <2>3 DEF Task
      <3> QED BY <2>2, <2>3, <3>1, SaveAdvances DEF Advances
    <2>4. ASSUME NEW p \in Procs PROVE Mine(p) \in Task
      BY Snapshot
    <2>5. ASSUME NEW p \in Procs, NEW label, NEW status \in TaskStatus,
                 EndsWith(p, label, status)
          PROVE  Advances
      BY <2>3, <2>4, <2>5 DEF EndsWith, Save, Task
    <2>6. CASE HumanApproves \/ DeadlinePasses
      BY <2>2, <2>6 DEF HumanApproves, DeadlinePasses
    <2>7. ASSUME NEW p \in Procs, Issue(p) \/ Crash(p)
          PROVE  Advances
      BY <2>2, <2>7 DEF Issue, Crash
    <2>8. ASSUME NEW p \in Procs, RunStep(p)
          PROVE  Advances
      <3>1. CASE Run(p) \/ Loop(p) \/ LoopDone(p) \/ Plan(p) \/ Dispatch(p) \/ Execute(p)
                   \/ LogExecution(p)
        BY <2>2, <3>1 DEF Run, Loop, LoopDone, Plan, Dispatch, Execute, LogExecution
      <3>2. CASE Start(p)
        BY <2>3, <2>4, <3>2 DEF Start, Task, TaskStatus
      <3>3. CASE Replay(p)
        <4> DEFINE new == Replayed(Mine(p))
        <4>1. /\ new \in Task /\ new.steps = Mine(p).steps /\ new.calls = Mine(p).calls
              /\ new.failures = Mine(p).failures
              /\ Mine(p).steps \in Nat /\ Mine(p).calls \in Nat /\ Mine(p).failures \in Nat
          BY <2>4 DEF Replayed, Task
        <4>2. \E r : SaveThen(p, new, r)
          BY <3>3 DEF Replay
        <4> HIDE DEF new
        <4> QED BY <2>3, <4>1, <4>2
      <3>4. CASE Advance(p)
        BY <2>3, <2>4, <3>4 DEF Advance, Save, Task
      <3>5. CASE Record(p)
        BY <2>3, <2>4, <3>5 DEF Record, Save, Task
      <3>6. CASE SaveOutput(p)
        BY <2>3, <2>4, <3>6 DEF SaveOutput, Save, Task
      <3>7. CASE SaveRetry(p)
        BY <2>3, <2>4, <3>7 DEF SaveRetry, Save, Task
      <3> QED BY <2>8, <3>1, <3>2, <3>3, <3>4, <3>5, <3>6, <3>7 DEF RunStep
    <2>9. ASSUME NEW p \in Procs, CommandStep(p)
          PROVE  Advances
      <3>1. CASE SaveCompleted(p) \/ SavePaused(p) \/ SaveBlocked(p) \/ SaveFailed(p)
                   \/ SaveBudget(p) \/ SaveTimedOut(p)
        BY <2>5, <3>1 DEF SaveCompleted, SavePaused, SaveBlocked, SaveFailed,
                          SaveBudget, SaveTimedOut, TaskStatus
      <3>2. CASE TimeOut(p) \/ Approve(p) \/ Consume(p) \/ Cancel(p) \/ LogCancelled(p)
                   \/ Pause(p) \/ Resume(p)
        BY <2>2, <3>2 DEF TimeOut, Approve, Consume, Cancel, LogCancelled, Pause, Resume
      <3>3. CASE SaveGated(p)
        <4> DEFINE new == [Mine(p) EXCEPT !.status = "paused_approval", !.pending = TRUE]
        <4>1. /\ new \in Task /\ new.steps = Mine(p).steps /\ new.calls = Mine(p).calls
              /\ new.failures = Mine(p).failures
              /\ Mine(p).steps \in Nat /\ Mine(p).calls \in Nat /\ Mine(p).failures \in Nat
          BY <2>4 DEF Task, TaskStatus
        <4>2. \E r : SaveThen(p, new, r)
          BY <3>3 DEF SaveGated, Save
        <4> HIDE DEF new
        <4> QED BY <2>3, <4>1, <4>2
      <3>4. CASE SaveApproved(p)
        <4> DEFINE new == [Mine(p) EXCEPT !.status = "running", !.approved = TRUE,
                                          !.consumed = TRUE]
        <4>1. /\ new \in Task /\ new.steps = Mine(p).steps /\ new.calls = Mine(p).calls
              /\ new.failures = Mine(p).failures
              /\ Mine(p).steps \in Nat /\ Mine(p).calls \in Nat /\ Mine(p).failures \in Nat
          BY <2>4 DEF Task, TaskStatus
        <4>2. \E r : SaveThen(p, new, r)
          BY <3>4 DEF SaveApproved, Save
        <4> HIDE DEF new
        <4> QED BY <2>3, <4>1, <4>2
      <3>5. CASE SaveCancelled(p)
        BY <2>3, <2>4, <3>5 DEF SaveCancelled, Save, Task, TaskStatus
      <3>6. CASE SaveResumed(p)
        BY <2>3, <2>4, <3>6 DEF SaveResumed, Save, Task, TaskStatus
      <3> QED BY <2>9, <3>1, <3>2, <3>3, <3>4, <3>5, <3>6 DEF CommandStep
    <2> QED BY <2>6, <2>7, <2>8, <2>9 DEF Next
  <1> QED BY Invariance, <1>1, PTL, <1>1, PTL DEF Spec, StoredTaskAdvances, Advances
=============================================================================
