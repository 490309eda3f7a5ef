-------------------------- MODULE WorkerSpoolProofs --------------------------
(***************************************************************************)
(* The worker spool's invariants for every number of jobs, workers, stop   *)
(* requests and crashes.                                                   *)
(*                                                                         *)
(* No lock guards the spool.  What holds is carried by one atomic step, a  *)
(* rename takes a job out of the area it was in, and by the manager, which *)
(* enqueues a job once.  While a job is pending and after it was withdrawn *)
(* no worker knows it, and the one that claimed it is the only one that    *)
(* may start its scanner: whoever recovers it only ends it.                *)
(***************************************************************************)
EXTENDS WorkerSpool, FiniteSetTheorems, TLAPS

WorkerState ==
    [pc : WorkerLabel, job : Jobs \cup {NoJob},
     state : {"completed", "failed", "cancelled", "rejected"},
     next : {"off", "idle", "recover", "raise"}, todo : SUBSET Jobs]

\* A worker holds a job exactly while it works on one.
Holds(r) == r.job = NoJob <=> r.pc \in {"off", "recover", "idle"}

\* A stop request under way is about a job.
StopperOK == \A s \in Stoppers : ~StopAt(s, "idle") => stopper[s].job \in Jobs

\* No worker has come across the job.
Untouched(j) ==
    /\ started[j] = 0
    /\ \A w \in Workers : worker[w].job # j /\ j \notin worker[w].todo

\* A stop request moved the job file away and has its receipt to write.
Withdrawing(j) == \E s \in Stoppers : StopAt(s, "receipt") /\ stopper[s].job = j

Nowhere(j) == j \notin pending \cup processing \cup completed \cup failed

InOnlyOne(j) ==
    /\ ~ Nowhere(j)
    /\ j \in pending => j \notin processing \cup completed \cup failed
    /\ j \in processing => j \notin completed \cup failed
    /\ j \in completed => j \notin failed

\* Where a job is before and after the manager enqueues it.
Delivered(j) ==
    /\ j \notin enqueued => Nowhere(j) /\ Untouched(j) /\ ~ Withdrawing(j)
    /\ j \in enqueued =>
         /\ InOnlyOne(j)
         /\ j \in pending => Untouched(j)
         /\ Withdrawing(j) => j \in failed /\ Untouched(j)

\* A worker that claimed the job and has not started the scanner yet.
MayScan(r, j) == r.pc \in {"load", "check"} /\ r.job = j

\* There is one at most, and only before the scanner was started.
Owned(j) ==
    /\ started[j] <= 1
    /\ \A w \in Workers : MayScan(worker[w], j) =>
         /\ started[j] = 0
         /\ \A v \in Workers : MayScan(worker[v], j) => v = w

TypeInv == TypeOK /\ StopperOK

IInv == TypeInv /\ \A j \in Jobs : Delivered(j) /\ Owned(j)

-----------------------------------------------------------------------------
(***************************************************************************)
(* Types.                                                                  *)
(***************************************************************************)

LEMMA RestTyped ==
    /\ Off \in WorkerState /\ Holds(Off) /\ Poll \in WorkerState /\ Holds(Poll)
    /\ Off.todo = {} /\ Off.job = NoJob /\ Off.pc = "off"
    /\ Poll.todo = {} /\ Poll.job = NoJob /\ Poll.pc = "idle"
  BY DEF Off, Poll, WorkerState, WorkerLabel, Holds

\* What a worker step asks of the worker's new state.
LEMMA BecomeTyped ==
    ASSUME TypeInv, NEW w \in Workers, NEW r \in WorkerState, Holds(r), Become(w, r)
    PROVE  /\ worker' \in [Workers -> WorkerState]
           /\ \A v \in Workers : Holds(worker'[v])
           /\ worker'[w] = r /\ \A v \in Workers \ {w} : worker'[v] = worker[v]
  BY DEF TypeInv, TypeOK, Become, WorkerState, Holds

\* The types when only files, counters and workers changed.
LEMMA WorkerTyped ==
    ASSUME TypeInv, worker' \in [Workers -> WorkerState],
           \A v \in Workers : Holds(worker'[v]), UNCHANGED stopper,
           pending' \subseteq Jobs, processing' \subseteq Jobs, completed' \subseteq Jobs,
           failed' \subseteq Jobs, cancellations' \subseteq Jobs,
           receipts' \in [Jobs -> SUBSET Receipt], enqueued' \subseteq Jobs,
           started' \in [Jobs -> Nat], crashes' \in 0..MaxCrashes
    PROVE  TypeInv'
  BY DEF TypeInv, TypeOK, StopperOK, StopAt, WorkerState, Holds

\* What a worker looks like that goes on with the job it holds.
LEMMA StaysTyped ==
    ASSUME TypeInv, NEW w \in Workers, ~ At(w, "off"), ~ At(w, "recover"), ~ At(w, "idle"),
           NEW label \in {"check", "scan", "rename", "unlink"}
    PROVE  LET r == [worker[w] EXCEPT !.pc = label]
           IN  /\ r \in WorkerState /\ Holds(r) /\ r.job = worker[w].job
               /\ r.pc = label /\ r.todo = worker[w].todo /\ worker[w].job \in Jobs
  <1>1. /\ worker[w] \in WorkerState /\ Holds(worker[w])
        /\ worker[w].pc \notin {"off", "recover", "idle"}
    BY DEF TypeInv, TypeOK, At, WorkerState, Holds
  <1> QED BY <1>1 DEF WorkerState, WorkerLabel, Holds

\* A worker that begins to finish a job.
LEMMA FinishingTyped ==
    ASSUME TypeInv, NEW w \in Workers, NEW j \in Jobs,
           NEW state \in {"completed", "failed", "cancelled", "rejected"},
           NEW next \in {"off", "idle", "recover", "raise"},
           Finishing(w, j, state, next)
    PROVE  \E r \in WorkerState : /\ Holds(r) /\ Become(w, r) /\ r.job = j
                                  /\ r.pc = "receipt" /\ r.todo = worker[w].todo
  <1> DEFINE r == [worker[w] EXCEPT !.pc = "receipt", !.job = j, !.state = state,
                                    !.next = next]
  <1>1. worker[w] \in WorkerState
    BY DEF TypeInv, TypeOK, WorkerState
  <1>2. r \in WorkerState /\ r.job = j /\ r.pc = "receipt" /\ r.todo = worker[w].todo
    BY <1>1 DEF WorkerState, WorkerLabel
  <1>3. Become(w, r)
    BY DEF Finishing
  <1> HIDE DEF r
  <1> QED BY <1>2, <1>3, SpoolAssumption DEF Holds

-----------------------------------------------------------------------------
(***************************************************************************)
(* Steps that move no job file.                                            *)
(***************************************************************************)

\* What most worker steps leave alone.
SameFiles == UNCHANGED <<pending, processing, completed, failed, stopper,
                         enqueued>>

\* A worker that goes on with what it has, and may not scan if it could not.
LEMMA Moves ==
    ASSUME IInv, NEW w \in Workers, NEW r \in WorkerState, Holds(r), Become(w, r),
           SameFiles, UNCHANGED started,
           cancellations' \subseteq Jobs, receipts' \in [Jobs -> SUBSET Receipt],
           crashes' \in 0..MaxCrashes,
           r.job \in {NoJob, worker[w].job} \cup worker[w].todo,
           r.todo \subseteq worker[w].todo,
           \A j \in Jobs : MayScan(r, j) => MayScan(worker[w], j)
    PROVE  IInv'
  <1>1. TypeInv
    BY DEF IInv
  <1>2. /\ worker' \in [Workers -> WorkerState] /\ \A v \in Workers : Holds(worker'[v])
        /\ worker'[w] = r /\ \A v \in Workers \ {w} : worker'[v] = worker[v]
    BY <1>1, BecomeTyped
  <1>3. TypeInv'
    BY <1>1, <1>2, WorkerTyped DEF SameFiles, TypeInv, TypeOK
  <1>4. ASSUME NEW j \in Jobs PROVE Delivered(j)' /\ Owned(j)'
    <2>1. Delivered(j) /\ Owned(j)
      BY DEF IInv
    <2>2. Untouched(j) => Untouched(j)'
      BY <1>2, SpoolAssumption DEF Untouched
    <2>3. /\ Nowhere(j)' <=> Nowhere(j)
          /\ InOnlyOne(j)' <=> InOnlyOne(j)
          /\ Withdrawing(j)' <=> Withdrawing(j)
      BY DEF SameFiles, Nowhere, InOnlyOne, Withdrawing, StopAt
    <2>4. Delivered(j)'
      BY <2>1, <2>2, <2>3 DEF Delivered, SameFiles
    <2>5. \A v \in Workers : MayScan(worker'[v], j) => MayScan(worker[v], j)
      BY <1>2
    <2>6. Owned(j)'
      BY <2>1, <2>5 DEF Owned
    <2> QED BY <2>4, <2>6
  <1> QED BY <1>3, <1>4 DEF IInv

\* A worker that begins to finish the job it holds or is to recover.
LEMMA Finishes ==
    ASSUME IInv, NEW w \in Workers, NEW j \in Jobs, j \in {worker[w].job} \cup worker[w].todo,
           NEW state \in {"completed", "failed", "cancelled", "rejected"},
           NEW next \in {"off", "idle", "recover", "raise"},
           Finishing(w, j, state, next),
           SameFiles, UNCHANGED <<started, cancellations, receipts, crashes>>
    PROVE  IInv'
  <1>1. TypeInv
    BY DEF IInv
  <1>2. PICK r \in WorkerState : /\ Holds(r) /\ Become(w, r) /\ r.job = j
                                 /\ r.pc = "receipt" /\ r.todo = worker[w].todo
    BY <1>1, FinishingTyped
  <1> QED BY <1>1, <1>2, Moves DEF TypeInv, TypeOK, MayScan

\* A worker that comes to rest.
LEMMA Rests ==
    ASSUME IInv, NEW w \in Workers, NEW r \in {Off, Poll}, Become(w, r),
           SameFiles, UNCHANGED <<started, receipts>>,
           cancellations' \subseteq Jobs, crashes' \in 0..MaxCrashes
    PROVE  IInv'
  BY RestTyped, Moves DEF IInv, TypeInv, TypeOK, MayScan

\* The job a busy worker holds.
LEMMA Busy ==
    ASSUME TypeInv, NEW w \in Workers
    PROVE  /\ worker[w] \in WorkerState /\ Holds(worker[w]) /\ worker[w].todo \subseteq Jobs
           /\ worker[w].job \in Jobs <=> worker[w].pc \notin {"off", "recover", "idle"}
  BY SpoolAssumption DEF TypeInv, TypeOK, WorkerState, Holds

LEMMA RecoverProcessingOK ==
    ASSUME IInv, NEW w \in Workers, RecoverProcessing(w) PROVE IInv'
  <1>1. TypeInv /\ SameFiles /\ UNCHANGED <<started, cancellations, receipts, crashes>>
        /\ cancellations \subseteq Jobs /\ crashes \in 0..MaxCrashes
    BY DEF IInv, TypeInv, TypeOK, RecoverProcessing, SameFiles, files
  <1>2. CASE worker[w].todo = {}
    BY <1>1, <1>2, Rests DEF RecoverProcessing
  <1>3. CASE worker[w].todo # {}
    <2>1. PICK j \in worker[w].todo : Finishing(w, j, "rejected", "recover")
      BY <1>3 DEF RecoverProcessing
    <2> QED BY <1>1, <2>1, Busy, Finishes
  <1> QED BY <1>2, <1>3

LEMMA LoadClaimedOK ==
    ASSUME IInv, NEW w \in Workers, LoadClaimed(w) PROVE IInv'
  <1>1. TypeInv /\ SameFiles /\ UNCHANGED <<started, cancellations, receipts, crashes>>
    BY DEF IInv, LoadClaimed, SameFiles, files
  <1>2. ~ At(w, "off") /\ ~ At(w, "recover") /\ ~ At(w, "idle") /\ worker[w].job \in Jobs
    BY <1>1, Busy DEF LoadClaimed, At
  <1>3. CASE Goto(w, "check")
    <2> DEFINE r == [worker[w] EXCEPT !.pc = "check"]
    <2>1. r \in WorkerState /\ Holds(r) /\ r.job = worker[w].job /\ r.pc = "check"
          /\ r.todo = worker[w].todo
      BY <1>1, <1>2, StaysTyped
    <2>2. Become(w, r)
      BY <1>3 DEF Goto
    <2>3. \A j \in Jobs : MayScan(r, j) => MayScan(worker[w], j)
      BY <2>1 DEF LoadClaimed, At, MayScan
    <2> HIDE DEF r
    <2> QED BY <1>1, <2>1, <2>2, <2>3, Moves DEF TypeInv, TypeOK
  <1>4. CASE Finishing(w, worker[w].job, "rejected", "raise")
    BY <1>1, <1>2, <1>4, Finishes
  <1> QED BY <1>3, <1>4 DEF LoadClaimed

LEMMA ScanOK ==
    ASSUME IInv, NEW w \in Workers, Scan(w) PROVE IInv'
  <1>1. TypeInv /\ SameFiles /\ UNCHANGED <<started, cancellations, receipts, crashes>>
    BY DEF IInv, Scan, SameFiles, files
  <1>2. worker[w].job \in Jobs
    BY <1>1, Busy DEF Scan, At
  <1>3. \E state \in {"completed", "failed", "cancelled", "rejected"}, next \in {"idle", "raise"} :
          Finishing(w, worker[w].job, state, next)
    BY DEF Scan
  <1> QED BY <1>1, <1>2, <1>3, Finishes

\* The receipt is written, or the process exits.
LEMMA FinishReceiptOK ==
    ASSUME IInv, NEW w \in Workers, FinishReceipt(w) PROVE IInv'
  <1>1. TypeInv /\ SameFiles /\ UNCHANGED <<started, cancellations, crashes>>
        /\ cancellations \subseteq Jobs /\ crashes \in 0..MaxCrashes
    BY DEF IInv, TypeInv, TypeOK, FinishReceipt, SameFiles
  <1>2. ~ At(w, "off") /\ ~ At(w, "recover") /\ ~ At(w, "idle") /\ worker[w].job \in Jobs
        /\ worker[w].state \in {"completed", "failed", "cancelled", "rejected"}
    BY <1>1, Busy DEF FinishReceipt, At, WorkerState
  <1> DEFINE area == Area(worker[w].state)
  <1>3. area \in {"completed", "failed"}
    BY DEF Area
  <1>4. CASE ReceiptIn(worker[w].job, area)
    BY <1>1, <1>4, Rests DEF FinishReceipt
  <1>5. CASE ~ ReceiptIn(worker[w].job, area)
    <2>1. WriteReceipt(worker[w].job, area, worker[w].state) /\ Goto(w, "rename")
      BY <1>5 DEF FinishReceipt
    <2>2. receipts' \in [Jobs -> SUBSET Receipt]
      <3>1. [area |-> area, state |-> worker[w].state] \in Receipt
        BY <1>2, <1>3 DEF Receipt
      <3>2. receipts \in [Jobs -> SUBSET Receipt]
        BY <1>1 DEF TypeInv, TypeOK
      <3> HIDE DEF area
      <3> QED BY <1>2, <2>1, <3>1, <3>2 DEF WriteReceipt
    <2> DEFINE r == [worker[w] EXCEPT !.pc = "rename"]
    <2>3. r \in WorkerState /\ Holds(r) /\ r.job = worker[w].job /\ r.pc = "rename"
          /\ r.todo = worker[w].todo
      BY <1>1, <1>2, StaysTyped
    <2>4. Become(w, r)
      BY <2>1 DEF Goto
    <2> HIDE DEF r
    <2> QED BY <1>1, <2>2, <2>3, <2>4, Moves DEF MayScan
  <1> QED BY <1>4, <1>5

LEMMA FinishUnlinkOK ==
    ASSUME IInv, NEW w \in Workers, FinishUnlink(w) PROVE IInv'
  <1>1. TypeInv /\ SameFiles /\ UNCHANGED <<started, receipts, crashes>>
        /\ crashes \in 0..MaxCrashes /\ cancellations' \subseteq Jobs
        /\ receipts \in [Jobs -> SUBSET Receipt]
    BY DEF IInv, TypeInv, TypeOK, FinishUnlink, SameFiles
  <1>2. CASE Become(w, Off) \/ Become(w, Poll)
    BY <1>1, <1>2, Rests
  <1>3. CASE Become(w, Recovered(w))
    <2>1. Recovered(w) \in WorkerState /\ Holds(Recovered(w)) /\ Recovered(w).job = NoJob
          /\ Recovered(w).todo \subseteq worker[w].todo /\ Recovered(w).pc = "recover"
      BY <1>1, Busy, RestTyped DEF Recovered, Off, WorkerState, WorkerLabel, Holds
    <2> QED BY <1>1, <1>3, <2>1, Moves DEF MayScan
  <1> QED BY <1>2, <1>3 DEF FinishUnlink

LEMMA StopOK ==
    ASSUME IInv, NEW w \in Workers, Stop(w) PROVE IInv'
  <1>1. SameFiles /\ UNCHANGED <<started, cancellations, receipts, crashes>>
        /\ cancellations \subseteq Jobs /\ crashes \in 0..MaxCrashes
    BY DEF IInv, TypeInv, TypeOK, Stop, SameFiles, files
  <1> QED BY <1>1, Rests DEF Stop

LEMMA WorkerCrashOK ==
    ASSUME IInv, NEW w \in Workers, WorkerCrash(w) PROVE IInv'
  <1>1. SameFiles /\ UNCHANGED <<started, cancellations, receipts>>
        /\ cancellations \subseteq Jobs /\ crashes' \in 0..MaxCrashes
    BY SpoolAssumption DEF IInv, TypeInv, TypeOK, WorkerCrash, SameFiles, files
  <1> QED BY <1>1, Rests DEF WorkerCrash

-----------------------------------------------------------------------------
(***************************************************************************)
(* Steps of a worker that list, take, scan or end a job.                   *)
(***************************************************************************)

\* Nothing that recovery lists is pending or withdrawn.
LEMMA LaunchOK ==
    ASSUME IInv, NEW w \in Workers, Launch(w) PROVE IInv'
  <1> DEFINE r == [Off EXCEPT !.pc = "recover", !.todo = processing]
  <1>1. TypeInv /\ UNCHANGED <<files, stopper, enqueued, started, crashes>> /\ processing \subseteq Jobs
    BY DEF IInv, Launch, TypeInv, TypeOK
  <1>2. r \in WorkerState /\ Holds(r) /\ r.job = NoJob /\ r.todo = processing /\ r.pc = "recover"
    BY <1>1 DEF Off, WorkerState, WorkerLabel, Holds
  <1>3. Become(w, r)
    BY DEF Launch
  <1> HIDE DEF r
  <1>4. /\ worker' \in [Workers -> WorkerState] /\ \A v \in Workers : Holds(worker'[v])
        /\ worker'[w] = r /\ \A v \in Workers \ {w} : worker'[v] = worker[v]
    BY <1>1, <1>2, <1>3, BecomeTyped
  <1>5. TypeInv'
    BY <1>1, <1>4, WorkerTyped DEF files, TypeInv, TypeOK
  <1>6. ASSUME NEW j \in Jobs PROVE Delivered(j)' /\ Owned(j)'
    <2>1. Delivered(j) /\ Owned(j)
      BY DEF IInv
    <2>2. j \notin processing /\ Untouched(j) => Untouched(j)'
      BY <1>1, <1>2, <1>4, SpoolAssumption DEF Untouched
    <2>3. /\ Nowhere(j)' <=> Nowhere(j)
          /\ InOnlyOne(j)' <=> InOnlyOne(j)
          /\ Withdrawing(j)' <=> Withdrawing(j)
      BY <1>1 DEF files, Nowhere, InOnlyOne, Withdrawing, StopAt
    <2>4. Delivered(j)'
      BY <1>1, <2>1, <2>2, <2>3 DEF Delivered, files, Nowhere, InOnlyOne
    <2>5. Owned(j)'
      BY <1>1, <1>2, <1>4, <2>1 DEF Owned, MayScan
    <2> QED BY <2>4, <2>5
  <1> QED BY <1>5, <1>6 DEF IInv

\* A claimed job is pending no more, and nobody else knew it.
LEMMA ClaimOK ==
    ASSUME IInv, NEW w \in Workers, Claim(w) PROVE IInv'
  <1>1. PICK i \in pending : /\ pending' = pending \ {i}
                             /\ processing' = processing \cup {i}
                             /\ Become(w, [Poll EXCEPT !.pc = "load", !.job = i])
    BY DEF Claim
  <1>2. /\ TypeInv /\ UNCHANGED <<completed, failed, cancellations, receipts,
                                  stopper, enqueued, started, crashes>>
        /\ i \in Jobs
    BY <1>1 DEF IInv, Claim, TypeInv, TypeOK
  <1> DEFINE r == [Poll EXCEPT !.pc = "load", !.job = i]
  <1>3. r \in WorkerState /\ Holds(r) /\ r.job = i /\ r.todo = {} /\ r.pc = "load"
    BY <1>2, SpoolAssumption DEF Poll, WorkerState, WorkerLabel, Holds
  <1>4. Become(w, r)
    BY <1>1
  <1> HIDE DEF r
  <1>5. /\ worker' \in [Workers -> WorkerState] /\ \A v \in Workers : Holds(worker'[v])
        /\ worker'[w] = r /\ \A v \in Workers \ {w} : worker'[v] = worker[v]
    BY <1>2, <1>3, <1>4, BecomeTyped
  <1>6. TypeInv'
    BY <1>1, <1>2, <1>5, WorkerTyped DEF TypeInv, TypeOK
  <1>7. ASSUME NEW j \in Jobs PROVE Delivered(j)' /\ Owned(j)'
    <2>1. Delivered(j) /\ Owned(j)
      BY DEF IInv
    <2>2. j # i /\ Untouched(j) => Untouched(j)'
      BY <1>2, <1>3, <1>5 DEF Untouched
    <2>3. Withdrawing(j)' <=> Withdrawing(j)
      BY <1>2 DEF Withdrawing, StopAt
    <2>4. Delivered(j)'
      BY <1>1, <1>2, <2>1, <2>2, <2>3 DEF Delivered, Nowhere, InOnlyOne
    <2>5. j = i => Untouched(j)
      BY <1>1, <2>1 DEF Delivered, Nowhere
    <2>6. CASE j = i
      BY <1>2, <1>3, <1>5, <2>4, <2>5, <2>6 DEF Owned, MayScan, Untouched
    <2>7. CASE j # i
      BY <1>2, <1>3, <1>5, <2>1, <2>4, <2>7 DEF Owned, MayScan
    <2> QED BY <2>6, <2>7
  <1> QED BY <1>6, <1>7 DEF IInv

\* The scanner starts once for a claim.
LEMMA CheckOK ==
    ASSUME IInv, NEW w \in Workers, Check(w) PROVE IInv'
  <1> DEFINE i == worker[w].job
  <1>1. TypeInv /\ UNCHANGED <<files, stopper, enqueued, crashes>> /\ started \in [Jobs -> Nat]
    BY DEF IInv, Check, TypeInv, TypeOK
  <1>2. /\ ~ At(w, "off") /\ ~ At(w, "recover") /\ ~ At(w, "idle") /\ i \in Jobs
        /\ At(w, "check")
    BY <1>1, Busy DEF Check, At
  <1>3. CASE /\ \E state \in {"failed", "cancelled", "rejected"}, next \in {"idle", "raise"} :
                  Finishing(w, i, state, next)
             /\ UNCHANGED started
    BY <1>1, <1>2, <1>3, Finishes DEF SameFiles, files
  <1>4. CASE Goto(w, "scan") /\ started' = [started EXCEPT ![i] = @ + 1]
    <2> DEFINE r == [worker[w] EXCEPT !.pc = "scan"]
    <2>1. r \in WorkerState /\ Holds(r) /\ r.job = i /\ r.pc = "scan" /\ r.todo = worker[w].todo
      BY <1>1, <1>2, StaysTyped
    <2>2. Become(w, r)
      BY <1>4 DEF Goto
    <2> HIDE DEF r
    <2>3. /\ worker' \in [Workers -> WorkerState] /\ \A v \in Workers : Holds(worker'[v])
          /\ worker'[w] = r /\ \A v \in Workers \ {w} : worker'[v] = worker[v]
      BY <1>1, <2>1, <2>2, BecomeTyped
    <2>4. /\ started' \in [Jobs -> Nat] /\ started'[i] = started[i] + 1
          /\ \A j \in Jobs \ {i} : started'[j] = started[j]
      BY <1>1, <1>2, <1>4
    <2>5. TypeInv'
      BY <1>1, <2>3, <2>4, WorkerTyped DEF TypeInv, TypeOK, files
    <2>6. ASSUME NEW j \in Jobs PROVE Delivered(j)' /\ Owned(j)'
      <3>1. Delivered(j) /\ Owned(j) /\ (Untouched(j) => j # i)
        BY DEF IInv, Untouched
      <3>2. Untouched(j) => Untouched(j)'
        BY <1>1, <2>1, <2>3, <2>4, <3>1 DEF Untouched
      <3>3. /\ Nowhere(j)' <=> Nowhere(j)
            /\ InOnlyOne(j)' <=> InOnlyOne(j)
            /\ Withdrawing(j)' <=> Withdrawing(j)
        BY <1>1 DEF Nowhere, InOnlyOne, Withdrawing, StopAt, files
      <3>4. Delivered(j)'
        BY <1>1, <3>1, <3>2, <3>3 DEF Delivered, files
      <3>5. Owned(j)'
        BY <1>1, <1>2, <2>1, <2>3, <2>4, <3>1 DEF Owned, MayScan, At
      <3> QED BY <3>4, <3>5
    <2> QED BY <2>5, <2>6 DEF IInv
  <1> QED BY <1>3, <1>4 DEF Check

\* The job file is moved to where it ends, or the process exits.
LEMMA FinishRenameOK ==
    ASSUME IInv, NEW w \in Workers, FinishRename(w) PROVE IInv'
  <1> DEFINE i == worker[w].job
  <1>1. /\ TypeInv /\ UNCHANGED <<pending, cancellations, receipts, stopper,
                                  enqueued, started, crashes>>
        /\ cancellations \subseteq Jobs /\ crashes \in 0..MaxCrashes
    BY DEF IInv, FinishRename, TypeInv, TypeOK
  <1>2. ~ At(w, "off") /\ ~ At(w, "recover") /\ ~ At(w, "idle") /\ i \in Jobs
    BY <1>1, Busy DEF FinishRename, At
  <1>3. CASE i \notin processing
    <2>1. SameFiles /\ Become(w, Off)
      BY <1>1, <1>3 DEF FinishRename, SameFiles
    <2> QED BY <1>1, <2>1, Rests
  <1>4. CASE i \in processing
    <2> DEFINE r == [worker[w] EXCEPT !.pc = "unlink"]
    <2>1. r \in WorkerState /\ Holds(r) /\ r.job = i /\ r.pc = "unlink" /\ r.todo = worker[w].todo
      BY <1>1, <1>2, StaysTyped
    <2>2. /\ Become(w, r) /\ processing' = processing \ {i}
          /\ \/ completed' = completed \cup {i} /\ failed' = failed
             \/ failed' = failed \cup {i} /\ completed' = completed
      BY <1>4 DEF FinishRename, Goto
    <2> HIDE DEF r
    <2>3. /\ worker' \in [Workers -> WorkerState] /\ \A v \in Workers : Holds(worker'[v])
          /\ worker'[w] = r /\ \A v \in Workers \ {w} : worker'[v] = worker[v]
      BY <1>1, <2>1, <2>2, BecomeTyped
    <2>4. TypeInv'
      BY <1>1, <1>2, <2>2, <2>3, WorkerTyped DEF TypeInv, TypeOK
    <2>5. ASSUME NEW j \in Jobs PROVE Delivered(j)' /\ Owned(j)'
      <3>1. Delivered(j) /\ Owned(j)
        BY DEF IInv
      <3>2. Untouched(j)' <=> Untouched(j)
        BY <1>1, <2>1, <2>3 DEF Untouched
      <3>3. Withdrawing(j)' <=> Withdrawing(j)
        BY <1>1 DEF Withdrawing, StopAt
      <3>4. Delivered(j)'
        BY <1>1, <1>4, <2>2, <3>1, <3>2, <3>3 DEF Delivered, Nowhere, InOnlyOne
      <3>5. Owned(j)'
        BY <1>1, <2>1, <2>3, <3>1 DEF Owned, MayScan
      <3> QED BY <3>4, <3>5
    <2> QED BY <2>4, <2>5 DEF IInv
  <1> QED BY <1>3, <1>4

-----------------------------------------------------------------------------
(***************************************************************************)
(* The manager and the stop requests.                                      *)
(***************************************************************************)

\* An enqueued job is pending, and no worker has come across it.
LEMMA EnqueueOK ==
    ASSUME IInv, NEW i \in Jobs, Enqueue(i) PROVE IInv'
  <1>1. /\ TypeInv /\ UNCHANGED <<processing, completed, failed, cancellations, receipts,
                                  worker, stopper, started, crashes>>
        /\ pending' = pending \cup {i} /\ enqueued' = enqueued \cup {i}
        /\ i \notin enqueued
    BY DEF IInv, Enqueue
  <1>2. TypeInv'
    BY <1>1 DEF TypeInv, TypeOK, StopperOK, StopAt
  <1>3. ASSUME NEW j \in Jobs PROVE Delivered(j)' /\ Owned(j)'
    <2>1. Delivered(j) /\ Owned(j)
      BY DEF IInv
    <2>2. /\ Untouched(j)' <=> Untouched(j)
          /\ Withdrawing(j)' <=> Withdrawing(j)
      BY <1>1 DEF Untouched, Withdrawing, StopAt
    <2>3. Delivered(j)'
      BY <1>1, <2>1, <2>2 DEF Delivered, Nowhere, InOnlyOne
    <2>4. Owned(j)'
      BY <1>1, <2>1 DEF Owned
    <2> QED BY <2>3, <2>4
  <1> QED BY <1>2, <1>3 DEF IInv

StopperState == [pc : {"idle", "withdraw", "receipt", "marker", "lost"},
                 job : Jobs \cup {NoJob}]

\* A stop request that moves no job file and has none moved away.
LEMMA Requests ==
    ASSUME IInv, NEW s \in Stoppers, NEW r \in StopperState,
           stopper' = [stopper EXCEPT ![s] = r],
           r.pc # "idle" => r.job \in Jobs, r.pc # "receipt",
           UNCHANGED <<pending, processing, completed, failed, worker,
                       enqueued, started>>,
           cancellations' \subseteq Jobs, receipts' \in [Jobs -> SUBSET Receipt],
           crashes' \in 0..MaxCrashes
    PROVE  IInv'
  <1>1. TypeInv'
    BY DEF IInv, TypeInv, TypeOK, StopperOK, StopAt, StopperState
  <1>2. ASSUME NEW j \in Jobs PROVE Delivered(j)' /\ Owned(j)'
    <2>1. Delivered(j) /\ Owned(j)
      BY DEF IInv
    <2>2. Withdrawing(j)' => Withdrawing(j)
      BY DEF Withdrawing, StopAt, IInv, TypeInv, TypeOK
    <2>3. /\ Untouched(j)' <=> Untouched(j)
          /\ Nowhere(j)' <=> Nowhere(j)
          /\ InOnlyOne(j)' <=> InOnlyOne(j)
      BY DEF Untouched, Nowhere, InOnlyOne
    <2>4. Delivered(j)'
      BY <2>1, <2>2, <2>3 DEF Delivered
    <2>5. Owned(j)'
      BY <2>1 DEF Owned
    <2> QED BY <2>4, <2>5
  <1> QED BY <1>1, <1>2 DEF IInv

LEMMA NoStopTyped == NoStop \in StopperState /\ NoStop.pc = "idle"
  BY DEF NoStop, StopperState

LEMMA AskingOK ==
    ASSUME IInv, NEW s \in Stoppers,
           RequestCancellation(s) \/ WithdrawReceipt(s) \/ Marker(s) \/ StopError(s)
              \/ StopperCrash(s)
    PROVE  IInv'
  <1>1. /\ UNCHANGED <<pending, processing, completed, failed, worker,
                       enqueued, started>>
        /\ cancellations \subseteq Jobs /\ receipts \in [Jobs -> SUBSET Receipt]
        /\ crashes \in 0..MaxCrashes /\ TypeInv
    BY DEF IInv, TypeInv, TypeOK, RequestCancellation, WithdrawReceipt, Marker, StopError,
           StopperCrash, files
  <1>2. CASE RequestCancellation(s)
    <2>1. PICK j \in Jobs :
             stopper' = [stopper EXCEPT ![s] =
                           [pc  |-> IF j \in pending THEN "withdraw" ELSE "marker",
                            job |-> j]]
      BY <1>2 DEF RequestCancellation
    <2> DEFINE label == IF j \in pending THEN "withdraw" ELSE "marker"
               r == [pc |-> label, job |-> j]
    <2>2. label \in {"withdraw", "marker"} /\ stopper' = [stopper EXCEPT ![s] = r]
      BY <2>1
    <2> HIDE DEF label
    <2>3. r \in StopperState /\ r.pc = label /\ r.job = j
      BY <2>2 DEF StopperState
    <2>4. UNCHANGED <<cancellations, receipts, crashes>>
      BY <1>2 DEF RequestCancellation, files
    <2> HIDE DEF r
    <2> QED BY <1>1, <2>2, <2>3, <2>4, Requests
  <1>3. CASE WithdrawReceipt(s)
    <2>1. stopper[s].job \in Jobs
      BY <1>1, <1>3 DEF TypeInv, StopperOK, StopAt, WithdrawReceipt
    <2>2. [area |-> "failed", state |-> "cancelled"] \in Receipt
      BY DEF Receipt
    <2>3. receipts' \in [Jobs -> SUBSET Receipt]
      BY <1>1, <1>3, <2>1, <2>2 DEF WithdrawReceipt, WriteReceipt
    <2>4. stopper' = [stopper EXCEPT ![s] = NoStop] /\ UNCHANGED <<cancellations, crashes>>
      BY <1>3 DEF WithdrawReceipt
    <2> QED BY <1>1, <2>3, <2>4, NoStopTyped, Requests
  <1>4. CASE Marker(s)
    <2>1. stopper[s].job \in Jobs
      BY <1>1, <1>4 DEF TypeInv, StopperOK, StopAt, Marker
    <2>2. /\ stopper' = [stopper EXCEPT ![s] = NoStop] /\ UNCHANGED <<receipts, crashes>>
          /\ cancellations' \subseteq Jobs
      BY <1>1, <1>4, <2>1 DEF Marker
    <2> QED BY <1>1, <2>2, NoStopTyped, Requests
  <1>5. CASE StopError(s) \/ StopperCrash(s)
    <2>1. /\ stopper' = [stopper EXCEPT ![s] = NoStop] /\ UNCHANGED <<cancellations, receipts>>
          /\ crashes' \in 0..MaxCrashes
      BY <1>1, <1>5, SpoolAssumption DEF StopError, StopperCrash, files
    <2> QED BY <1>1, <2>1, NoStopTyped, Requests
  <1> QED BY <1>2, <1>3, <1>4, <1>5

\* A job that is withdrawn was pending: no worker knows it, none will.
LEMMA WithdrawOK ==
    ASSUME IInv, NEW s \in Stoppers, Withdraw(s) PROVE IInv'
  <1> DEFINE i == stopper[s].job
  <1>1. /\ TypeInv /\ i \in Jobs /\ stopper[s] \in StopperState
        /\ UNCHANGED <<processing, completed, cancellations, receipts, worker,
                       enqueued, started, crashes>>
        /\ cancellations \subseteq Jobs /\ receipts \in [Jobs -> SUBSET Receipt]
        /\ crashes \in 0..MaxCrashes
    BY DEF IInv, TypeInv, TypeOK, StopperOK, StopAt, StopperState, Withdraw
  <1>2. CASE i \notin pending
    <2> DEFINE r == [stopper[s] EXCEPT !.pc = "lost"]
    <2>1. r \in StopperState /\ r.pc = "lost" /\ r.job = i
      BY <1>1 DEF StopperState
    <2>2. stopper' = [stopper EXCEPT ![s] = r] /\ UNCHANGED <<pending, failed>>
      BY <1>2 DEF Withdraw, StopGoto
    <2> HIDE DEF r
    <2> QED BY <1>1, <2>1, <2>2, Requests
  <1>3. CASE i \in pending
    <2> DEFINE r == [stopper[s] EXCEPT !.pc = "receipt"]
    <2>1. r \in StopperState /\ r.pc = "receipt" /\ r.job = i
      BY <1>1 DEF StopperState
    <2>2. /\ stopper' = [stopper EXCEPT ![s] = r]
          /\ pending' = pending \ {i} /\ failed' = failed \cup {i}
      BY <1>3 DEF Withdraw, StopGoto
    <2> HIDE DEF r
    <2>3. stopper \in [Stoppers -> StopperState]
      BY <1>1 DEF TypeInv, TypeOK, StopperState
    <2>4. stopper' \in [Stoppers -> StopperState] /\ stopper'[s] = r
          /\ \A q \in Stoppers \ {s} : stopper'[q] = stopper[q]
      BY <2>1, <2>2, <2>3
    <2>5. TypeInv'
      BY <1>1, <2>1, <2>2, <2>4 DEF TypeInv, TypeOK, StopperOK, StopAt, StopperState
    <2>6. ASSUME NEW j \in Jobs PROVE Delivered(j)' /\ Owned(j)'
      <3>1. Delivered(j) /\ Owned(j)
        BY DEF IInv
      <3>2. Untouched(j)' <=> Untouched(j)
        BY <1>1 DEF Untouched
      <3>3. j # i /\ Withdrawing(j)' => Withdrawing(j)
        BY <2>1, <2>4 DEF Withdrawing, StopAt
      <3>4. Delivered(j)'
        BY <1>1, <1>3, <2>2, <3>1, <3>2, <3>3 DEF Delivered, Nowhere, InOnlyOne
      <3>5. Owned(j)'
        BY <1>1, <3>1 DEF Owned
      <3> QED BY <3>4, <3>5
    <2> QED BY <2>5, <2>6 DEF IInv
  <1> QED BY <1>2, <1>3

-----------------------------------------------------------------------------
(***************************************************************************)
(* The theorems.                                                           *)
(***************************************************************************)

LEMMA InitIInv == Init => IInv
  <1> SUFFICES ASSUME Init PROVE IInv
    OBVIOUS
  <1>1. worker \in [Workers -> WorkerState] /\ \A w \in Workers : worker[w] = Off
    BY RestTyped DEF Init
  <1>2. stopper \in [Stoppers -> StopperState] /\ \A s \in Stoppers : stopper[s].pc = "idle"
    BY NoStopTyped DEF Init
  <1>3. TypeOK
    BY <1>1, <1>2, RestTyped, SpoolAssumption DEF Init, TypeOK, WorkerState, StopperState, Holds
  <1>4. TypeInv
    BY <1>2, <1>3 DEF TypeInv, StopperOK, StopAt
  <1>5. ASSUME NEW j \in Jobs PROVE Delivered(j) /\ Owned(j)
    <2>1. Untouched(j) /\ ~ Withdrawing(j) /\ Nowhere(j)
      BY <1>1, <1>2, RestTyped, SpoolAssumption DEF Init, Untouched, Withdrawing, StopAt, Nowhere
    <2> QED BY <1>1, <2>1, RestTyped DEF Init, Delivered, Owned, MayScan
  <1> QED BY <1>4, <1>5 DEF IInv

LEMMA NextIInv == IInv /\ [Next]_vars => IInv'
  <1> SUFFICES ASSUME IInv, [Next]_vars PROVE IInv'
    OBVIOUS
  <1>1. CASE UNCHANGED vars
    BY <1>1 DEF vars, files, IInv, TypeInv, TypeOK, StopperOK, StopAt, Delivered, Owned,
                Nowhere, InOnlyOne, Untouched, Withdrawing
  <1>2. ASSUME NEW j \in Jobs, Enqueue(j)
        PROVE  IInv'
    BY <1>2, EnqueueOK
  <1>3. ASSUME NEW w \in Workers, WorkerStep(w)
        PROVE  IInv'
    BY <1>3, RecoverProcessingOK, ClaimOK, LoadClaimedOK, CheckOK, ScanOK,
       FinishReceiptOK, FinishRenameOK, FinishUnlinkOK DEF WorkerStep
  <1>4. ASSUME NEW w \in Workers, Launch(w) \/ Stop(w) \/ WorkerCrash(w)
        PROVE  IInv'
    BY <1>4, LaunchOK, StopOK, WorkerCrashOK
  <1>5. ASSUME NEW s \in Stoppers, StopperStep(s) \/ StopperCrash(s)
        PROVE  IInv'
    BY <1>5, AskingOK, WithdrawOK DEF StopperStep
  <1> QED BY <1>1, <1>2, <1>3, <1>4, <1>5 DEF Next

THEOREM Invariance == Spec => []IInv
  BY InitIInv, NextIInv, PTL DEF Spec

\* The files, processes and counters have their types, and a worker holds a job
\* exactly while it works on one.
THEOREM TypeCorrect == Spec => []TypeOK
  <1>1. IInv => TypeOK
    BY DEF IInv, TypeInv
  <1> QED BY Invariance, <1>1, PTL

\* The scanner starts at most once for a job the manager enqueued once, whatever
\* number of workers serve the spool and recover what others are working on, and
\* whoever dies when: the rename of claim_next gives it to one worker.
THEOREM ScansOnce == Spec => []ScannedOnce
  <1>1. IInv => ScannedOnce
    BY DEF IInv, Owned, ScannedOnce
  <1> QED BY Invariance, <1>1, PTL

\* What cancel_pending moved out of pending/ was not scanned before, and is not
\* scanned while the stop request goes on to write its receipt.
THEOREM WithdrawnStaysUnscanned == Spec => []WithdrawnNeverScanned
  <1>1. IInv => WithdrawnNeverScanned
    BY DEF IInv, Delivered, Withdrawing, Untouched, WithdrawnNeverScanned
  <1> QED BY Invariance, <1>1, PTL

\* An enqueued job is in exactly one area: no race of claim, withdrawal,
\* finish and recovery loses it or leaves it both ended and runnable.
THEOREM JobsInOneArea == Spec => []InOneArea
  <1>1. IInv => InOneArea
    <2> SUFFICES ASSUME IInv, NEW j \in enqueued
                 PROVE  Cardinality(Areas(j)) = 1
      BY DEF InOneArea
    <2>1. InOnlyOne(j)
      BY DEF IInv, Delivered, TypeInv, TypeOK
    <2>2. \E a : Areas(j) = {a}
      <3>1. CASE j \in pending
        BY <2>1, <3>1 DEF Areas, InOnlyOne
      <3>2. CASE j \in processing
        BY <2>1, <3>2 DEF Areas, InOnlyOne
      <3>3. CASE j \in completed
        BY <2>1, <3>3 DEF Areas, InOnlyOne
      <3>4. CASE j \in failed
        BY <2>1, <3>4 DEF Areas, InOnlyOne
      <3> QED BY <2>1, <3>1, <3>2, <3>3, <3>4 DEF InOnlyOne, Nowhere
    <2> QED BY <2>2, FS_Singleton
  <1> QED BY Invariance, <1>1, PTL
=============================================================================
