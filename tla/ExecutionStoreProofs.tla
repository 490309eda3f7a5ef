------------------------ MODULE ExecutionStoreProofs ------------------------
(***************************************************************************)
(* ExecutionStore's invariants, for every number of stop requests and of   *)
(* processes that die, and that it implements ExecutionLifecycle.          *)
(*                                                                         *)
(* No lock holds anybody up, so nothing is known of the record that a call *)
(* has loaded once it goes on.  What carries the proof is that no file     *)
(* holds a state that was not decided on, that only the worker decides on  *)
(* anything but "cancelling", and that the worker goes through its pcs     *)
(* once and never back: what it decides depends on its pc, and the record  *)
(* can only refuse it.                                                     *)
(***************************************************************************)
EXTENDS ExecutionStore, TLAPS

Frame == [pc : FrameLabel, old : Record \cup {None}, new : Record \cup {None}]

\* A call that has decided, and one that has yet to read the ledger.
Working == {"clear", "unlink", "create", "write", "publish", "append"}
Busy(f) == f.pc \in Working \cup {"verify"}

Ended == decided \cap TERMINAL # {}

\* The worker before the end of its scan.
Going == {"new", "prepared", "validated", "starting", "running"}

\* No file holds a state that was not decided on.
Holds(file) == file # None /\ file.content # None => file.content.state \in decided

FilesOK ==
    /\ Holds(record) /\ Holds(part)
    /\ \A i \in 1..Len(ledger) : ledger[i].to \in decided

\* Nor does a call.
FrameOK(p) ==
    /\ Busy(frame[p]) => frame[p].new # None
    /\ frame[p].pc \in Working => frame[p].new.state \in decided
    /\ FrameAt(p, "verify") =>
         /\ frame[p].old # None /\ frame[p].old.state \in decided
         /\ frame[p].new.state \in AllowedTransitions[frame[p].old.state]

\* A request decides on nothing but the cancellation.
RequestOK(r) == FrameAt(r, "verify") => frame[r].new.state = "cancelling"

\* The worker's calls, by what they lead to.
WorkerCall ==
    LET f == frame["worker"] IN
    /\ f.pc \notin {"cancel", "done"}
    /\ Busy(f) =>
         /\ worker.pc # "running" /\ ~Flags("worker")
         /\ f.new.state \in {"completed", "timed_out"} => scan = f.new.state
         /\ \/ f.new.state \in TERMINAL
            \/ f.new.state = "prepared" /\ worker.pc = "new" /\ f.pc # "verify"
            \/ f.new.state = "validated" /\ worker.pc = "prepared"
            \/ f.new.state = "starting" /\ worker.pc = "validated"
            \/ f.new.state = "running" /\ worker.pc = "starting"

\* Where the worker is tells how far the execution has got.
WorkerOK ==
    /\ At("new") => decided = {}
    /\ worker.pc \in Going \ {"new"} => worker.pc \in decided
    /\ worker.pc \in Going => scan = "none" \/ (worker.pc = "running" /\ scan = "running")
    /\ worker.pc \in Going /\ Ended =>
         frame["worker"].pc \in Working /\ frame["worker"].new.state \in TERMINAL
    /\ worker.pc = "running" => \E i \in 1..Len(ledger) : ledger[i].to = "running"
    /\ worker.pc \notin Going => scan # "running"
    /\ worker.pc \in {"ended", "closing"} =>
         (worker.target \in {"completed", "timed_out"} => scan = worker.target)
    /\ worker.pc = "recovering" => worker.target \in {"blocked", "failed"}

IInv ==
    /\ TypeOK /\ FilesOK /\ WorkerCall /\ WorkerOK
    /\ \A p \in Procs : FrameOK(p)
    /\ \A r \in Requests : RequestOK(r)
    /\ "running" \in decided => "starting" \in decided

-----------------------------------------------------------------------------
(***************************************************************************)
(* What the steps have in common.                                          *)
(***************************************************************************)

LEMMA ProcsOK == "worker" \in Procs /\ Requests = Procs \ {"worker"}
  BY ExecutionAssumption DEF Procs

LEMMA InitIInv == Init => IInv
  <1> SUFFICES ASSUME Init PROVE IInv
    OBVIOUS
  <1>1. frame = [p \in Procs |-> NoFrame] /\ NoFrame \in Frame
    BY DEF Init, NoFrame, Frame, FrameLabel
  <1>2. \A p \in Procs : frame[p] = NoFrame /\ frame[p].pc = "idle"
    BY <1>1 DEF NoFrame
  <1>3. TypeOK
    BY <1>1, ExecutionAssumption DEF Init, TypeOK, Frame, WorkerLabel
  <1>4. FilesOK
    BY DEF Init, FilesOK, Holds
  <1>6. WorkerCall
    BY <1>2, ProcsOK DEF WorkerCall, Busy, Working
  <1>7. WorkerOK
    BY DEF Init, WorkerOK, Going, Ended
  <1>5. \A p \in Procs : FrameOK(p) /\ RequestOK(p)
    BY <1>2 DEF FrameOK, RequestOK, FrameAt, Busy, Working
  <1> QED BY <1>3, <1>4, <1>5, <1>6, <1>7, ProcsOK DEF IInv, Init

\* A call in the middle of its writes.
LEMMA GoesOn ==
    ASSUME IInv, NEW p \in Procs, frame[p].pc \in Working,
           NEW label \in Working \cup {"cancel", "done"}, FrameGoto(p, label),
           p = "worker" => label \in Working,
           record' \in File \cup {None}, part' \in File \cup {None},
           Holds(record)', Holds(part)',
           UNCHANGED <<ledger, made, decided, worker, scan, crashes>>
    PROVE  IInv'
  <1> DEFINE f == [frame[p] EXCEPT !.pc = label]
  <1>1. frame \in [Procs -> Frame] /\ frame[p] \in Frame
    BY DEF IInv, TypeOK, Frame
  <1>2. f \in Frame /\ f.pc = label /\ f.old = frame[p].old /\ f.new = frame[p].new
    BY <1>1 DEF Frame, FrameLabel, Working
  <1>3. frame' = [frame EXCEPT ![p] = f]
    BY DEF FrameGoto
  <1> HIDE DEF f
  <1>4. /\ frame' \in [Procs -> Frame] /\ frame'[p] = f
        /\ \A q \in Procs \ {p} : frame'[q] = frame[q]
    BY <1>1, <1>2, <1>3
  <1>5. TypeOK'
    BY <1>4 DEF IInv, TypeOK, Frame
  <1>6. FilesOK'
    BY DEF IInv, FilesOK
  <1>7. WorkerCall' /\ WorkerOK'
    <2>1. CASE p = "worker"
      BY <1>2, <1>4, <2>1 DEF IInv, WorkerCall, WorkerOK, At, FrameAt, Busy, Working, Flags, Ended
    <2>2. CASE p # "worker"
      BY <1>4, <2>2, ProcsOK DEF IInv, WorkerCall, WorkerOK, At, FrameAt, Flags, Ended, Busy
    <2> QED BY <2>1, <2>2
  <1>8. \A q \in Procs : FrameOK(q)'
    BY <1>2, <1>4 DEF IInv, FrameOK, FrameAt, Busy, Working
  <1>9. \A r \in Requests : RequestOK(r)'
    BY <1>2, <1>4, ProcsOK DEF IInv, RequestOK, FrameAt, Working
  <1> QED BY <1>5, <1>6, <1>7, <1>8, <1>9 DEF IInv

\* A process that leaves its call for good.
LEMMA Leaves ==
    ASSUME IInv, NEW p \in Procs, NEW label \in {"idle", "done"},
           p = "worker" <=> label = "idle",
           frame' = [frame EXCEPT ![p] = [NoFrame EXCEPT !.pc = label]],
           p # "worker" => UNCHANGED worker,
           p = "worker" => worker' = [worker EXCEPT !.pc = "off"],
           scan' = scan \/ (scan' = "killed" /\ p = "worker"),
           p = "worker" => scan' # "running",
           record' \in File \cup {None}, part' \in File \cup {None},
           Holds(record)', Holds(part)', crashes' \in 0..MaxCrashes,
           UNCHANGED <<ledger, made, decided>>
    PROVE  IInv'
  <1> DEFINE f == [NoFrame EXCEPT !.pc = label]
  <1>1. frame \in [Procs -> Frame]
    BY DEF IInv, TypeOK, Frame
  <1>2. f \in Frame /\ f.pc = label
    BY DEF NoFrame, Frame, FrameLabel
  <1>3. frame' = [frame EXCEPT ![p] = f]
    OBVIOUS
  <1> HIDE DEF f
  <1>4. /\ frame' \in [Procs -> Frame] /\ frame'[p] = f
        /\ \A q \in Procs \ {p} : frame'[q] = frame[q]
    BY <1>1, <1>2, <1>3
  <1>5. worker' \in [pc : WorkerLabel, target : TERMINAL \cup {None}]
        /\ (p = "worker" => worker'.pc = "off")
    BY DEF IInv, TypeOK, WorkerLabel
  <1>6. TypeOK'
    BY <1>4, <1>5 DEF IInv, TypeOK, Frame
  <1>7. FilesOK'
    BY DEF IInv, FilesOK
  <1>8. WorkerCall' /\ WorkerOK'
    <2>1. CASE p = "worker"
      <3>1. frame'["worker"].pc = "idle" /\ worker'.pc = "off" /\ scan' # "running"
        BY <1>2, <1>4, <1>5, <2>1
      <3>2. WorkerCall'
        BY <3>1 DEF WorkerCall, Busy, Working
      <3>3. WorkerOK'
        BY <3>1 DEF WorkerOK, At, Going
      <3> QED BY <3>2, <3>3
    <2>2. CASE p # "worker"
      BY <1>4, <2>2, ProcsOK DEF IInv, WorkerCall, WorkerOK, At, FrameAt, Flags, Ended, Busy
    <2> QED BY <2>1, <2>2
  <1>9. \A q \in Procs : FrameOK(q)'
    BY <1>2, <1>4 DEF IInv, FrameOK, FrameAt, Busy, Working
  <1>10. \A r \in Requests : RequestOK(r)'
    BY <1>2, <1>4, ProcsOK DEF IInv, RequestOK, FrameAt
  <1> QED BY <1>6, <1>7, <1>8, <1>9, <1>10 DEF IInv

\* An exception; the scanner of a worker that raises is not running.
LEMMA Raises ==
    ASSUME IInv, NEW p \in Procs, Raise(p), p = "worker" => scan # "running",
           record' \in File \cup {None}, part' \in File \cup {None},
           Holds(record)', Holds(part)',
           UNCHANGED <<ledger, made, decided, scan, crashes>>
    PROVE  IInv'
  <1> DEFINE label == IF p = "worker" THEN "idle" ELSE "done"
  <1>1. /\ label \in {"idle", "done"} /\ (p = "worker" <=> label = "idle")
        /\ frame' = [frame EXCEPT ![p] = [NoFrame EXCEPT !.pc = label]]
    BY DEF Raise
  <1> HIDE DEF label
  <1>2. crashes' \in 0..MaxCrashes
    BY DEF IInv, TypeOK
  <1> QED BY <1>1, <1>2, Leaves DEF Raise

\* The files as they are.
LEMMA SameFiles ==
    ASSUME IInv, UNCHANGED <<files, decided>>
    PROVE  /\ record' \in File \cup {None} /\ part' \in File \cup {None}
           /\ Holds(record)' /\ Holds(part)'
  BY DEF IInv, TypeOK, files, FilesOK, Holds

\* While the worker is in a call, its scanner does not run.
LEMMA NotScanning ==
    ASSUME IInv PROVE Busy(frame["worker"]) \/ worker.pc # "running" => scan # "running"
  BY DEF IInv, WorkerCall, WorkerOK, Going

-----------------------------------------------------------------------------
(***************************************************************************)
(* The store's steps.                                                      *)
(***************************************************************************)

\* Where the worker may ask for a transition to which state.
Due(to) ==
    /\ FrameAt("worker", "idle") /\ worker.pc # "running" /\ scan # "running"
    /\ to \in {"completed", "timed_out"} => scan = to
    /\ \/ to \in TERMINAL
       \/ to = "validated" /\ worker.pc = "prepared"
       \/ to = "starting" /\ worker.pc = "validated"
       \/ to = "running" /\ worker.pc = "starting"

LEMMA TransitionOK ==
    ASSUME IInv, NEW p \in Procs, NEW to \in State, Transition(p, to),
           IF p = "worker" THEN Due(to) ELSE to = "cancelling"
    PROVE  IInv'
  <1>1. UNCHANGED <<record, part, ledger, made, decided, scan, crashes>>
    BY DEF Transition, files
  <1>2. /\ record' \in File \cup {None} /\ part' \in File \cup {None}
        /\ Holds(record)' /\ Holds(part)'
    BY <1>1, SameFiles DEF files
  <1>3. CASE ~(Readable /\ Allowed(to))
    <2>1. Raise(p)
      BY <1>3 DEF Transition
    <2> QED BY <1>1, <1>2, <2>1, Raises DEF Due
  <1>4. CASE Readable /\ Allowed(to)
    <2> DEFINE f == [pc |-> "verify", old |-> Stored,
                     new |-> [Stored EXCEPT !.state = to]]
    <2>1. Stored \in Record /\ Stored.state \in decided
      BY <1>4 DEF IInv, TypeOK, FilesOK, Holds, File, Readable, Stored
    <2>2. /\ f \in Frame /\ f.pc = "verify" /\ f.new.state = to
          /\ f.old # None /\ f.new # None /\ f.old.state \in decided
          /\ f.new.cancel = f.old.cancel /\ to \in AllowedTransitions[f.old.state]
      BY <1>4, <2>1, NoneAssumption DEF Frame, FrameLabel, Record, Allowed
    <2>3. frame' = [frame EXCEPT ![p] = f] /\ worker' = worker
      BY <1>4 DEF Transition
    <2> HIDE DEF f
    <2>4. /\ frame' \in [Procs -> Frame] /\ frame'[p] = f
          /\ \A q \in Procs \ {p} : frame'[q] = frame[q]
      BY <2>2, <2>3 DEF IInv, TypeOK, Frame
    <2>5. TypeOK'
      BY <1>1, <2>3, <2>4 DEF IInv, TypeOK, Frame
    <2>6. FilesOK'
      BY <1>1 DEF IInv, FilesOK, Holds
    <2>7. WorkerCall' /\ WorkerOK'
      <3>1. CASE p = "worker"
        <4>1. WorkerCall'
          BY <1>1, <2>2, <2>3, <2>4, <3>1 DEF Due, WorkerCall, Busy, Working, Flags
        <4>2. ~(worker.pc \in Going /\ Ended)
          BY <3>1 DEF IInv, WorkerOK, Due, FrameAt, Working
        <4>3. WorkerOK'
          BY <1>1, <2>2, <2>3, <2>4, <3>1, <4>2 DEF IInv, WorkerOK, At, FrameAt, Ended
        <4> QED BY <4>1, <4>3
      <3>2. CASE p # "worker"
        BY <1>1, <2>3, <2>4, <3>2, ProcsOK
           DEF IInv, WorkerCall, WorkerOK, At, FrameAt, Flags, Ended, Busy
      <3> QED BY <3>1, <3>2
    <2>8. \A q \in Procs : FrameOK(q)'
      BY <1>1, <2>2, <2>4 DEF IInv, FrameOK, FrameAt, Busy, Working
    <2>9. \A r \in Requests : RequestOK(r)'
      BY <2>2, <2>4, ProcsOK DEF IInv, RequestOK, FrameAt
    <2> QED BY <1>1, <2>5, <2>6, <2>7, <2>8, <2>9 DEF IInv
  <1> QED BY <1>3, <1>4

LEMMA VerifyOK ==
    ASSUME IInv, NEW p \in Procs, Verify(p)
    PROVE  IInv'
  <1>1. UNCHANGED <<record, part, ledger, scan, crashes>> /\ FrameAt(p, "verify")
    BY DEF Verify, files
  <1>2. /\ frame[p] \in Frame /\ frame[p].new # None /\ frame[p].old # None
        /\ frame[p].new \in Record /\ frame[p].old \in Record
        /\ frame[p].old.state \in decided
        /\ frame[p].new.state \in AllowedTransitions[frame[p].old.state]
    BY <1>1 DEF IInv, TypeOK, FrameOK, Frame, Busy, FrameAt
  <1>3. CASE ~LedgerVerifies
    <2>1. Raise(p) /\ UNCHANGED <<made, decided>>
      BY <1>3 DEF Verify
    <2>2. /\ record' \in File \cup {None} /\ part' \in File \cup {None}
          /\ Holds(record)' /\ Holds(part)'
      BY <1>1, <2>1, SameFiles DEF files
    <2>3. p = "worker" => scan # "running"
      BY <1>1, NotScanning DEF Busy, FrameAt
    <2> QED BY <1>1, <2>1, <2>2, <2>3, Raises
  <1>4. CASE LedgerVerifies
    <2> DEFINE f == [frame[p] EXCEPT !.pc = "clear", !.new.last = made + 1]
               to == frame[p].new.state
    <2>1. /\ frame' = [frame EXCEPT ![p] = f] /\ made' = made + 1
          /\ decided' = decided \cup {to} /\ worker' = worker
      BY <1>4 DEF Verify
    <2>2. /\ f \in Frame /\ f.pc = "clear" /\ f.new.state = to /\ f.new # None
          /\ f.old = frame[p].old /\ f.new.cancel = frame[p].new.cancel
      <3> DEFINE n == [frame[p].new EXCEPT !.last = made + 1]
      <3>1. n \in Record /\ n.state = to /\ n.cancel = frame[p].new.cancel
        BY <1>2 DEF Record, IInv, TypeOK
      <3>2. f = [frame[p] EXCEPT !.pc = "clear", !.new = n]
        BY <1>2 DEF Frame
      <3> HIDE DEF f, n
      <3>3. /\ f.pc = "clear" /\ f.new = n /\ f.old = frame[p].old
            /\ f \in Frame
        BY <1>2, <3>1, <3>2 DEF Frame, FrameLabel
      <3> QED BY <3>1, <3>3, NoneAssumption
    <2>3. to \in State /\ made' \in Nat /\ decided' \subseteq State
      BY <1>2, <2>1 DEF Record, IInv, TypeOK
    <2> HIDE DEF f, to
    <2>4. /\ frame' \in [Procs -> Frame] /\ frame'[p] = f
          /\ \A q \in Procs \ {p} : frame'[q] = frame[q]
      BY <2>1, <2>2 DEF IInv, TypeOK, Frame
    <2>5. TypeOK'
      BY <1>1, <2>1, <2>3, <2>4 DEF IInv, TypeOK, Frame
    <2>6. FilesOK'
      BY <1>1, <2>1 DEF IInv, FilesOK, Holds
    <2>7. \A q \in Procs : FrameOK(q)'
      BY <2>1, <2>2, <2>4 DEF IInv, FrameOK, FrameAt, Busy, Working
    <2>8. \A r \in Requests : RequestOK(r)'
      BY <2>2, <2>4, ProcsOK DEF IInv, RequestOK, FrameAt
    <2>9. CASE p = "worker"
      <3>1. /\ worker.pc # "running" /\ ~Flags("worker") /\ scan # "running"
            /\ to \in {"completed", "timed_out"} => scan = to
            /\ \/ to \in TERMINAL
               \/ to = "validated" /\ worker.pc = "prepared"
               \/ to = "starting" /\ worker.pc = "validated"
               \/ to = "running" /\ worker.pc = "starting"
        BY <1>1, <2>9, NotScanning DEF IInv, WorkerCall, Busy, FrameAt, to
      <3>2. WorkerCall'
        BY <1>1, <2>1, <2>2, <2>4, <2>9, <3>1 DEF WorkerCall, Busy, Working, Flags
      <3>3. Ended' /\ worker.pc \in Going => to \in TERMINAL
        BY <1>1, <2>1, <2>9 DEF Ended, IInv, WorkerOK, FrameAt, Working
      <3>4. WorkerOK'
        BY <1>1, <2>1, <2>2, <2>4, <2>9, <3>3
           DEF IInv, WorkerOK, At, FrameAt, Working
      <3>5. "running" \in decided' => "starting" \in decided'
        BY <2>1, <3>1 DEF IInv, WorkerOK, Going, TERMINAL
      <3> QED BY <2>5, <2>6, <2>7, <2>8, <3>2, <3>4, <3>5 DEF IInv
    <2>10. CASE p # "worker"
      <3>1. to = "cancelling"
        BY <1>1, <2>10, ProcsOK DEF IInv, RequestOK, to
      <3>2. WorkerCall'
        BY <1>1, <2>1, <2>4, <2>10, ProcsOK DEF IInv, WorkerCall, Busy, Flags
      <3>3. Ended' = Ended
        BY <2>1, <3>1 DEF Ended, TERMINAL
      <3>4. decided # {}
        BY <1>2
      <3>5. WorkerOK'
        BY <1>1, <2>1, <2>4, <2>10, <3>3, <3>4, ProcsOK
           DEF IInv, WorkerOK, At, FrameAt
      <3>6. "running" \in decided' => "starting" \in decided'
        BY <2>1, <3>1 DEF IInv
      <3> QED BY <2>5, <2>6, <2>7, <2>8, <3>2, <3>5, <3>6 DEF IInv
    <2> QED BY <2>9, <2>10
  <1> QED BY <1>3, <1>4

LEMMA ClearOK ==
    ASSUME IInv, NEW p \in Procs, Clear(p)
    PROVE  IInv'
  <1> DEFINE label == IF part = None THEN "create" ELSE "unlink"
  <1>1. FrameGoto(p, label) /\ label \in Working /\ frame[p].pc \in Working
    BY DEF Clear, FrameAt, Working
  <1>2. UNCHANGED <<record, part, ledger, made, decided, worker, scan, crashes>>
    BY DEF Clear, files
  <1>3. UNCHANGED <<files, decided>>
    BY <1>2 DEF files
  <1> HIDE DEF label
  <1> QED BY <1>1, <1>2, SameFiles, <1>3, GoesOn

LEMMA UnlinkOK ==
    ASSUME IInv, NEW p \in Procs, Unlink(p)
    PROVE  IInv'
  <1>1. /\ UNCHANGED <<record, ledger, made, decided, scan, crashes>> /\ part' = None
        /\ frame[p].pc \in Working /\ (p = "worker" => scan # "running")
    BY NotScanning DEF Unlink, FrameAt, Working, Busy
  <1>2. /\ record' \in File \cup {None} /\ part' \in File \cup {None}
        /\ Holds(record)' /\ Holds(part)'
    BY <1>1 DEF IInv, TypeOK, FilesOK, Holds
  <1>3. CASE Raise(p)
    BY <1>1, <1>2, <1>3, Raises
  <1>4. CASE FrameGoto(p, "create") /\ UNCHANGED worker
    BY <1>1, <1>2, <1>4, GoesOn DEF Working
  <1> QED BY <1>3, <1>4 DEF Unlink

LEMMA CreateOK ==
    ASSUME IInv, NEW p \in Procs, Create(p)
    PROVE  IInv'
  <1>1. /\ UNCHANGED <<record, ledger, made, decided, scan, crashes>>
        /\ part' \in {part, [by |-> p, content |-> None]}
        /\ frame[p].pc \in Working /\ (p = "worker" => scan # "running")
    BY NotScanning DEF Create, FrameAt, Working, Busy
  <1>2. /\ record' \in File \cup {None} /\ part' \in File \cup {None}
        /\ Holds(record)' /\ Holds(part)'
    BY <1>1 DEF IInv, TypeOK, FilesOK, Holds, File
  <1>3. CASE Raise(p)
    BY <1>1, <1>2, <1>3, Raises
  <1>4. CASE FrameGoto(p, "write") /\ UNCHANGED worker
    BY <1>1, <1>2, <1>4, GoesOn DEF Working
  <1> QED BY <1>3, <1>4 DEF Create

\* What a call writes into a file.
LEMMA WrittenOK ==
    ASSUME IInv, NEW p \in Procs, frame[p].pc \in Working,
           NEW file \in File \cup {None}, Holds(file)
    PROVE  Written(file, p) \in File \cup {None} /\ Holds(Written(file, p))
  <1>1. frame[p].new \in Record /\ frame[p].new.state \in decided
    BY DEF IInv, TypeOK, FrameOK, Busy
  <1> QED BY <1>1 DEF Written, Holds, File

LEMMA WriteOK ==
    ASSUME IInv, NEW p \in Procs, Write(p)
    PROVE  IInv'
  <1>1. /\ UNCHANGED <<ledger, made, decided, worker, scan, crashes>>
        /\ frame[p].pc \in Working /\ FrameGoto(p, "publish")
        /\ record' = Written(record, p) /\ part' = Written(part, p)
    BY DEF Write, FrameAt, Working
  <1>2. /\ Written(record, p) \in File \cup {None} /\ Holds(Written(record, p))
        /\ Written(part, p) \in File \cup {None} /\ Holds(Written(part, p))
    BY <1>1, WrittenOK DEF IInv, TypeOK, FilesOK
  <1>3. /\ record' \in File \cup {None} /\ part' \in File \cup {None}
        /\ Holds(record)' /\ Holds(part)'
    BY <1>1, <1>2 DEF Holds
  <1> QED BY <1>1, <1>3, GoesOn DEF Working

LEMMA PublishOK ==
    ASSUME IInv, NEW p \in Procs, Publish(p)
    PROVE  IInv'
  <1>1. /\ UNCHANGED <<ledger, made, decided, scan, crashes>>
        /\ frame[p].pc \in Working /\ (p = "worker" => scan # "running" /\ ~Flags(p))
    BY NotScanning DEF Publish, FrameAt, Working, Busy, IInv, WorkerCall
  <1>2. \/ record' = record /\ part' = part
        \/ record' = part /\ part' = None
    BY DEF Publish
  <1>3. /\ record' \in File \cup {None} /\ part' \in File \cup {None}
        /\ Holds(record)' /\ Holds(part)'
    BY <1>1, <1>2 DEF IInv, TypeOK, FilesOK, Holds
  <1>4. CASE part = None
    BY <1>1, <1>3, <1>4, Raises DEF Publish
  <1>5. CASE part # None
    <2>1. UNCHANGED worker
      BY <1>5 DEF Publish
    <2>2. PICK label \in {"append", "cancel", "done"} :
             FrameGoto(p, label) /\ (~Flags(p) => label = "append")
      BY <1>5 DEF Publish
    <2> QED BY <1>1, <1>3, <2>1, <2>2, GoesOn DEF Working
  <1> QED BY <1>4, <1>5

LEMMA AppendEventOK ==
    ASSUME IInv, NEW p \in Procs, AppendEvent(p)
    PROVE  IInv'
  <1> DEFINE label == IF p = "worker" THEN "idle" ELSE "done"
             f == [NoFrame EXCEPT !.pc = label]
             e == EventOf(p)
             to == frame[p].new.state
  <1>1. /\ UNCHANGED <<record, part, made, decided, scan, crashes>>
        /\ ledger' = Append(ledger, e) /\ frame' = [frame EXCEPT ![p] = f]
        /\ worker' = IF p = "worker" THEN [worker EXCEPT !.pc = to] ELSE worker
        /\ FrameAt(p, "append")
    BY DEF AppendEvent
  <1>2. /\ frame[p] \in Frame /\ frame[p].new \in Record /\ to \in decided
        /\ frame[p].old \in Record \cup {None} /\ to \in State
    BY <1>1 DEF IInv, TypeOK, FrameOK, Frame, Busy, FrameAt, Working, Record
  <1>3. e \in Event /\ e.to = to
    BY <1>2, NoneAssumption DEF EventOf, Event, Record
  <1>4. f \in Frame /\ f.pc = label /\ f.pc \in {"idle", "done"}
    BY DEF NoFrame, Frame, FrameLabel
  <1>5. label = "idle" <=> p = "worker"
    OBVIOUS
  <1>6. p = "worker" => /\ worker.pc # "running" /\ scan # "running"
                        /\ to \in TERMINAL \/ to \in {"prepared", "validated", "starting", "running"}
    BY <1>1, NotScanning DEF IInv, WorkerCall, Busy, Working, FrameAt
  <1> HIDE DEF e, f, to, label
  <1>7. /\ frame' \in [Procs -> Frame] /\ frame'[p] = f
        /\ \A q \in Procs \ {p} : frame'[q] = frame[q]
    BY <1>1, <1>4 DEF IInv, TypeOK, Frame
  <1>8. /\ ledger' \in Seq(Event) /\ Len(ledger') = Len(ledger) + 1
        /\ \A i \in 1..Len(ledger) : ledger'[i] = ledger[i]
        /\ ledger'[Len(ledger) + 1] = e
    BY <1>1, <1>3 DEF IInv, TypeOK
  <1>9. worker' \in [pc : WorkerLabel, target : TERMINAL \cup {None}]
        /\ (worker'.pc \in {"ended", "closing", "recovering"} => worker'.target # None)
    BY <1>1, <1>2, <1>6 DEF IInv, TypeOK, WorkerLabel, TERMINAL
  <1>10. TypeOK'
    BY <1>1, <1>7, <1>8, <1>9 DEF IInv, TypeOK, Frame
  <1>11. FilesOK'
    <2>1. \A i \in 1..Len(ledger') : ledger'[i].to \in decided
      BY <1>2, <1>3, <1>8 DEF IInv, FilesOK, TypeOK
    <2> QED BY <1>1, <2>1 DEF IInv, FilesOK, Holds
  <1>12. WorkerCall'
    <2>1. CASE p = "worker"
      BY <1>4, <1>7, <2>1 DEF WorkerCall, Busy, Working, label
    <2>2. CASE p # "worker"
      BY <1>1, <1>7, <2>2, ProcsOK DEF IInv, WorkerCall, Busy, Flags
    <2> QED BY <2>1, <2>2
  <1>13. WorkerOK'
    <2>1. CASE p = "worker"
      <3>1. worker'.pc = to /\ worker'.target = worker.target
        BY <1>1, <2>1 DEF IInv, TypeOK
      <3>2. ~(worker'.pc \in Going /\ Ended')
        <4>1. SUFFICES ASSUME to \in Going, Ended PROVE FALSE
          BY <1>1, <3>1 DEF Ended
        <4>2. worker.pc \in Going
          BY <1>1, <2>1, <4>1 DEF IInv, WorkerCall, Busy, Working, FrameAt, Going, TERMINAL, to
        <4> QED BY <1>1, <2>1, <4>1, <4>2 DEF IInv, WorkerOK, Going, TERMINAL, to
      <3>3. to \in Going => scan = "none"
        BY <1>1, <2>1 DEF IInv, WorkerCall, WorkerOK, Busy, Working, FrameAt, Going, TERMINAL, to
      <3>4. to = "running" => \E i \in 1..Len(ledger') : ledger'[i].to = "running"
        <4>1. Len(ledger) + 1 \in 1..Len(ledger')
          BY <1>8 DEF IInv, TypeOK
        <4> QED BY <1>3, <1>8, <4>1
      <3>5. to \notin {"new", "ended", "closing", "recovering"}
        BY <1>6, <2>1 DEF TERMINAL
      <3>6. to \notin Going => scan # "running"
        BY <1>6, <2>1
      <3>7. to \in decided' /\ scan' = scan
        BY <1>1, <1>2
      <3> QED BY <3>1, <3>2, <3>3, <3>4, <3>5, <3>6, <3>7 DEF WorkerOK, At
    <2>2. CASE p # "worker"
      <3>1. worker' = worker /\ frame'["worker"] = frame["worker"]
        BY <1>1, <1>7, <2>2, ProcsOK
      <3>2. worker.pc = "running" => \E i \in 1..Len(ledger') : ledger'[i].to = "running"
        BY <1>8 DEF IInv, WorkerOK, TypeOK
      <3> QED BY <1>1, <3>1, <3>2 DEF IInv, WorkerOK, At, FrameAt, Ended
    <2> QED BY <2>1, <2>2
  <1>14. \A q \in Procs : FrameOK(q)'
    BY <1>1, <1>4, <1>7 DEF IInv, FrameOK, FrameAt, Busy, Working
  <1>15. \A r \in Requests : RequestOK(r)'
    BY <1>4, <1>7, ProcsOK DEF IInv, RequestOK, FrameAt
  <1> QED BY <1>1, <1>10, <1>11, <1>12, <1>13, <1>14, <1>15 DEF IInv

LEMMA StoreStepOK ==
    ASSUME IInv, NEW p \in Procs, StoreStep(p)
    PROVE  IInv'
  BY VerifyOK, ClearOK, UnlinkOK, CreateOK, WriteOK, PublishOK, AppendEventOK
     DEF StoreStep

-----------------------------------------------------------------------------
(***************************************************************************)
(* The requests and the worker.                                            *)
(***************************************************************************)

\* A request loads the record and has its flag to store.
LEMMA RequestCancellationOK ==
    ASSUME IInv, NEW r \in Requests, RequestCancellation(r)
    PROVE  IInv'
  <1> DEFINE f == IF Readable /\ ~Stored.cancel
                    THEN [pc |-> "clear", old |-> Stored,
                          new |-> [Stored EXCEPT !.cancel = TRUE]]
                    ELSE [NoFrame EXCEPT !.pc = "done"]
  <1>1. /\ UNCHANGED <<record, part, ledger, made, decided, worker, scan, crashes>>
        /\ frame' = [frame EXCEPT ![r] = f]
    BY DEF RequestCancellation, files
  <1>2. Readable => Stored \in Record /\ Stored.state \in decided
    BY DEF IInv, TypeOK, FilesOK, Holds, File, Readable, Stored
  <1>3. /\ f \in Frame /\ f.pc \in {"clear", "done"}
        /\ f.pc = "clear" => f.new # None /\ f.new.state \in decided
    <2>1. CASE Readable /\ ~Stored.cancel
      <3> DEFINE n == [Stored EXCEPT !.cancel = TRUE]
      <3>1. n \in Record /\ n.state \in decided
        BY <1>2, <2>1 DEF Record
      <3>2. f = [pc |-> "clear", old |-> Stored, new |-> n]
        BY <2>1
      <3> HIDE DEF n, f
      <3> QED BY <1>2, <2>1, <3>1, <3>2, NoneAssumption DEF Frame, FrameLabel
    <2>2. CASE ~(Readable /\ ~Stored.cancel)
      BY <2>2 DEF NoFrame, Frame, FrameLabel
    <2> QED BY <2>1, <2>2
  <1> HIDE DEF f
  <1>4. /\ frame' \in [Procs -> Frame] /\ frame'[r] = f /\ r # "worker"
        /\ \A q \in Procs \ {r} : frame'[q] = frame[q]
    BY <1>1, <1>3, ProcsOK DEF IInv, TypeOK, Frame
  <1>5. TypeOK'
    BY <1>1, <1>4 DEF IInv, TypeOK, Frame
  <1>6. FilesOK'
    BY <1>1 DEF IInv, FilesOK, Holds
  <1>7. WorkerCall' /\ WorkerOK'
    BY <1>1, <1>4, ProcsOK DEF IInv, WorkerCall, WorkerOK, At, FrameAt, Flags, Ended, Busy
  <1>8. \A q \in Procs : FrameOK(q)'
    BY <1>1, <1>3, <1>4 DEF IInv, FrameOK, FrameAt, Busy, Working
  <1>9. \A q \in Requests : RequestOK(q)'
    BY <1>3, <1>4, ProcsOK DEF IInv, RequestOK, FrameAt
  <1> QED BY <1>1, <1>5, <1>6, <1>7, <1>8, <1>9 DEF IInv

LEMMA PrepareOK == ASSUME IInv, Prepare PROVE IInv'
  <1> DEFINE n == [state |-> "prepared", cancel |-> FALSE, last |-> 1]
             f == [pc |-> "clear", old |-> None, new |-> n]
  <1>1. /\ UNCHANGED <<record, part, ledger, worker, scan, crashes>>
        /\ frame' = [frame EXCEPT !["worker"] = f]
        /\ made' = 1 /\ decided' = {"prepared"}
        /\ worker.pc = "new" /\ decided = {}
    BY DEF Prepare, files, IInv, WorkerOK, At
  <1>2. n \in Record /\ n.state = "prepared"
    BY DEF Record, State, UNFINISHED
  <1>3. /\ f.pc = "clear" /\ f.old = None /\ f.new = n
        /\ (n \in Record => f \in Frame)
    BY DEF Frame, FrameLabel
  <1> HIDE DEF f, n
  <1>4. /\ frame' \in [Procs -> Frame] /\ frame'["worker"] = f
        /\ \A q \in Procs \ {"worker"} : frame'[q] = frame[q]
    BY <1>1, <1>2, <1>3, ProcsOK DEF IInv, TypeOK, Frame
  <1>5. TypeOK'
    <2>1. {"prepared"} \subseteq State
      BY DEF State, UNFINISHED
    <2> QED BY <1>1, <1>4, <2>1 DEF IInv, TypeOK, Frame
  <1>6. FilesOK'
    BY <1>1 DEF IInv, FilesOK, Holds
  <1>7. WorkerCall'
    BY <1>1, <1>2, <1>3, <1>4, NoneAssumption DEF WorkerCall, Busy, Working, Flags
  <1>8. WorkerOK'
    <2>1. ~Ended'
      BY <1>1 DEF Ended, TERMINAL
    <2> QED BY <1>1, <1>3, <1>4, <2>1 DEF IInv, WorkerOK, At, FrameAt, Going
  <1>9. \A q \in Procs : FrameOK(q)'
    <2>1. \A q \in Procs : frame[q].pc \notin Working \cup {"verify"}
      BY <1>1 DEF IInv, FrameOK, FrameAt, Working
    <2> QED BY <1>1, <1>2, <1>3, <1>4, <2>1, NoneAssumption DEF FrameOK, FrameAt, Busy, Working
  <1>10. \A r \in Requests : RequestOK(r)'
    BY <1>4, ProcsOK DEF IInv, RequestOK, FrameAt
  <1> QED BY <1>1, <1>5, <1>6, <1>7, <1>8, <1>9, <1>10 DEF IInv

\* The worker between two calls.
LEMMA Rests ==
    ASSUME IInv, FrameAt("worker", "idle"),
           UNCHANGED <<files, made, decided, frame, crashes>>,
           worker' \in [pc : WorkerLabel, target : TERMINAL \cup {None}],
           worker'.pc \in {"ended", "closing", "recovering"} => worker'.target # None,
           scan' \in {"none", "running", "killed"} \cup Results,
           WorkerOK'
    PROVE  IInv'
  <1>1. TypeOK'
    BY DEF IInv, TypeOK, files
  <1>2. FilesOK'
    BY DEF IInv, FilesOK, Holds, files
  <1>3. WorkerCall'
    BY DEF WorkerCall, Busy, Working, FrameAt
  <1>4. (\A q \in Procs : FrameOK(q)') /\ \A r \in Requests : RequestOK(r)'
    BY DEF IInv, FrameOK, RequestOK, FrameAt
  <1> QED BY <1>1, <1>2, <1>3, <1>4 DEF IInv

LEMMA ScanOK == ASSUME IInv, Scan PROVE IInv'
  <1>1. /\ FrameAt("worker", "idle") /\ UNCHANGED <<files, made, decided, frame, worker, crashes>>
        /\ scan' = "running" /\ worker.pc = "running"
    BY DEF Scan, At
  <1>2. WorkerOK'
    BY <1>1 DEF IInv, WorkerOK, At, FrameAt, Going, Ended, files
  <1> QED BY <1>1, <1>2, Rests DEF IInv, TypeOK

LEMMA RunnerEndsOK == ASSUME IInv, RunnerEnds PROVE IInv'
  <1>1. PICK result \in Results :
            scan' = result /\ worker' = [pc |-> "ended", target |-> result]
    BY DEF RunnerEnds, Results
  <1>2. FrameAt("worker", "idle") /\ UNCHANGED <<files, made, decided, frame, crashes>>
    BY DEF RunnerEnds, At
  <1>3. result \in TERMINAL /\ result # None /\ result # "running"
    BY NoneAssumption DEF Results, TERMINAL, State
  <1>4. worker'.pc = "ended" /\ worker'.target = result
    BY <1>1
  <1>5. WorkerOK'
    BY <1>1, <1>3, <1>4 DEF WorkerOK, At, Going
  <1> QED BY <1>1, <1>2, <1>3, <1>5, Rests DEF WorkerLabel

LEMMA RespectCancellingOK == ASSUME IInv, RespectCancelling PROVE IInv'
  <1>1. /\ FrameAt("worker", "idle") /\ worker.pc = "ended"
        /\ UNCHANGED <<record, part, ledger, made, decided, scan, crashes>>
    BY DEF RespectCancelling, At, files
  <1>2. CASE ~Readable
    <2>1. Raise("worker")
      BY <1>2 DEF RespectCancelling
    <2>2. scan # "running"
      BY <1>1, NotScanning
    <2> QED BY <1>1, <2>1, <2>2, ProcsOK, SameFiles, Raises DEF files
  <1>3. CASE Readable
    <2>1. PICK target \in {"cancelled", worker.target} :
             worker' = [pc |-> "closing", target |-> target]
      BY <1>3 DEF RespectCancelling
    <2>2. /\ target \in TERMINAL /\ target # None
          /\ target \in {"completed", "timed_out"} => scan = target
      BY <1>1, NoneAssumption DEF IInv, TypeOK, WorkerOK, TERMINAL, State
    <2>3. frame' = frame
      BY <1>3 DEF RespectCancelling
    <2>4. WorkerOK'
      BY <1>1, <2>1, <2>2 DEF IInv, WorkerOK, At, Going
    <2> QED BY <1>1, <2>1, <2>2, <2>3, <2>4, Rests DEF IInv, TypeOK, WorkerLabel, files
  <1> QED BY <1>2, <1>3

LEMMA RecoverUnfinishedOK == ASSUME IInv, RecoverUnfinished PROVE IInv'
  <1>1. /\ FrameAt("worker", "idle") /\ worker.pc = "recover" /\ scan # "running"
        /\ UNCHANGED <<record, part, ledger, made, decided, scan, crashes>>
    BY NotScanning DEF RecoverUnfinished, At, files
  <1>2. CASE record # None /\ ~Readable
    <2>1. Raise("worker")
      BY <1>2 DEF RecoverUnfinished
    <2> QED BY <1>1, <2>1, ProcsOK, SameFiles, Raises DEF files
  <1>3. CASE ~(record # None /\ ~Readable)
    <2>1. frame' = frame
      BY <1>3 DEF RecoverUnfinished
    <2>2. CASE worker' = [worker EXCEPT !.pc = "idle"]
      <3>1. worker'.pc = "idle"
        BY <2>2 DEF IInv, TypeOK
      <3>2. WorkerOK'
        BY <1>1, <3>1 DEF WorkerOK, At, Going
      <3> QED BY <1>1, <2>1, <2>2, <3>1, <3>2, Rests DEF IInv, TypeOK, WorkerLabel, files
    <2>3. CASE \E target \in {"blocked", "failed"} :
                 worker' = [pc |-> "recovering", target |-> target]
      <3>1. PICK target \in {"blocked", "failed"} :
               worker' = [pc |-> "recovering", target |-> target]
        BY <2>3
      <3>2. target \in TERMINAL /\ target # None
        BY NoneAssumption DEF TERMINAL, State
      <3>3. WorkerOK'
        BY <1>1, <3>1 DEF WorkerOK, At, Going
      <3> QED BY <1>1, <2>1, <3>1, <3>2, <3>3, Rests DEF IInv, TypeOK, WorkerLabel, files
    <2> QED BY <1>3, <2>2, <2>3 DEF RecoverUnfinished, RecoveryTarget
  <1> QED BY <1>2, <1>3

LEMMA ExitRestartOK == ASSUME IInv, Exit \/ Restart PROVE IInv'
  <1>1. /\ FrameAt("worker", "idle") /\ worker.pc \notin Going
        /\ UNCHANGED <<files, made, decided, frame, scan, crashes>>
    BY DEF Exit, Restart, At, Going, TERMINAL
  <1>2. PICK label \in {"off", "recover"} : worker' = [worker EXCEPT !.pc = label]
    BY DEF Exit, Restart
  <1>3. worker'.pc = label
    BY <1>2 DEF IInv, TypeOK
  <1>4. WorkerOK'
    BY <1>1, <1>3 DEF IInv, WorkerOK, At, Going
  <1> QED BY <1>1, <1>2, <1>3, <1>4, Rests DEF IInv, TypeOK, WorkerLabel

LEMMA CrashOK ==
    ASSUME IInv, WorkerCrash \/ \E r \in Requests : RequestCrash(r)
    PROVE  IInv'
  <1>1. UNCHANGED <<record, part, ledger, made, decided>> /\ crashes' \in 0..MaxCrashes
    BY ExecutionAssumption DEF WorkerCrash, RequestCrash, files, IInv, TypeOK
  <1>2. /\ record' \in File \cup {None} /\ part' \in File \cup {None}
        /\ Holds(record)' /\ Holds(part)'
    BY <1>1, SameFiles DEF files
  <1>3. CASE WorkerCrash
    <2>1. frame' = [frame EXCEPT !["worker"] = [NoFrame EXCEPT !.pc = "idle"]]
      BY <1>3 DEF WorkerCrash, NoFrame
    <2> QED BY <1>1, <1>2, <1>3, <2>1, ProcsOK, Leaves DEF WorkerCrash
  <1>4. CASE \E r \in Requests : RequestCrash(r)
    <2>1. PICK r \in Requests : RequestCrash(r)
      BY <1>4
    <2>2. r \in Procs /\ r # "worker"
      BY ProcsOK
    <2> QED BY <1>1, <1>2, <2>1, <2>2, Leaves DEF RequestCrash
  <1> QED BY <1>3, <1>4

LEMMA WorkerCallsOK ==
    ASSUME IInv, Revalidate \/ Starting \/ Running \/ Close \/ Recover
    PROVE  IInv'
  <1>1. PICK to : Transition("worker", to) /\ to \in State /\ Due(to)
    <2>1. worker.pc # "running" => scan # "running"
      BY NotScanning
    <2>2. CASE Revalidate
      BY <2>1, <2>2 DEF Revalidate, Moves, At, Due, State, UNFINISHED, TERMINAL
    <2>3. CASE Starting
      BY <2>1, <2>3 DEF Starting, Moves, At, Due, State, UNFINISHED, TERMINAL
    <2>4. CASE Running
      BY <2>1, <2>4 DEF Running, Moves, At, Due, State, UNFINISHED, TERMINAL
    <2>5. CASE Close
      BY <2>1, <2>5 DEF Close, Moves, At, Due, State, IInv, TypeOK, WorkerOK
    <2>6. CASE Recover
      BY <2>1, <2>6 DEF Recover, Moves, At, Due, State, IInv, TypeOK, WorkerOK
    <2> QED BY <2>2, <2>3, <2>4, <2>5, <2>6
  <1> QED BY <1>1, ProcsOK, TransitionOK

LEMMA NextIInv == ASSUME IInv, [Next]_vars PROVE IInv'
  <1>1. CASE WorkerStep
    BY <1>1, ProcsOK, PrepareOK, WorkerCallsOK, ScanOK, RunnerEndsOK, RespectCancellingOK,
       RecoverUnfinishedOK, StoreStepOK DEF WorkerStep
  <1>2. CASE Exit \/ Restart \/ WorkerCrash
    BY <1>2, ExitRestartOK, CrashOK
  <1>3. ASSUME NEW r \in Requests, RequestCancellation(r) \/ RequestStep(r) \/ RequestCrash(r)
        PROVE  IInv'
    <2>1. r \in Procs /\ r # "worker" /\ "cancelling" \in State
      BY ProcsOK DEF State, UNFINISHED
    <2>2. CASE Cancelling(r)
      BY <2>1, <2>2, TransitionOK DEF Cancelling
    <2> QED BY <1>3, <2>1, <2>2, RequestCancellationOK, StoreStepOK, CrashOK DEF RequestStep
  <1>4. CASE UNCHANGED vars
    BY <1>4 DEF vars, files, IInv, TypeOK, FilesOK, Holds, WorkerCall, WorkerOK, At, FrameAt,
       Ended, Flags, FrameOK, RequestOK
  <1> QED BY <1>1, <1>2, <1>3, <1>4 DEF Next

LEMMA AlwaysIInv == Spec => []IInv
  BY InitIInv, NextIInv, PTL DEF Spec

-----------------------------------------------------------------------------
(***************************************************************************)
(* Theorems.                                                               *)
(***************************************************************************)

\* TypeOK holds always.
THEOREM TypeCorrect == Spec => []TypeOK
  <1>1. IInv => TypeOK
    BY DEF IInv
  <1> QED BY <1>1, AlwaysIInv, PTL

\* ScannerRunsOnRecord holds always: the worker is where it started the scanner,
\* and no end is decided on before it has left.
THEOREM ScanIsOnRecord == Spec => []ScannerRunsOnRecord
  <1>1. IInv => ScannerRunsOnRecord
    <2> SUFFICES ASSUME IInv, scan = "running" PROVE ScannerRunsOnRecord
      BY DEF ScannerRunsOnRecord
    <2>1. worker.pc = "running" /\ ~Busy(frame["worker"])
      BY NotScanning
    <2>2. ~Ended
      BY <2>1 DEF IInv, WorkerOK, Going, Busy
    <2>3. \E i \in 1..Len(ledger) : ledger[i].to = "running"
      BY <2>1 DEF IInv, WorkerOK
    <2>4. \A i \in 1..Len(ledger) : ledger[i].to \notin TERMINAL
      BY <2>2 DEF IInv, FilesOK, Ended
    <2>5. Readable => Stored.state \in State /\ Stored.state \notin TERMINAL
      BY <2>2 DEF IInv, FilesOK, Holds, Ended, Readable, Stored, TypeOK
    <2> QED BY <2>3, <2>4, <2>5 DEF ScannerRunsOnRecord, OnLedger, State
  <1> QED BY <1>1, AlwaysIInv, PTL

\* What the lifecycle sees of the files.
LEMMA StandingDecided == ASSUME IInv PROVE Standing \in decided \cup {None}
  BY DEF IInv, FilesOK, Holds, Standing, Readable, Stored

\* A call of p that is not its first step leaves whether somebody asked.
LEMMA AskedStays ==
    ASSUME IInv, NEW p \in Procs, p = "worker" \/ ~FrameAt(p, "idle"),
           frame' \in [Procs -> Frame], p = "worker" \/ frame'[p].pc # "idle",
           \A q \in Procs \ {p} : frame'[q] = frame[q]
    PROVE  Asked' = Asked
  BY ProcsOK DEF Asked, FrameAt

\* A transition is decided on.
LEMMA VerifyMaps ==
    ASSUME IInv, IInv', NEW p \in Procs, Verify(p), Asked' = Asked
    PROVE  [Lifecycle!Step]_Lifecycle!vars
  <1> DEFINE to == frame[p].new.state
  <1>1. UNCHANGED <<record, scan>> /\ FrameAt(p, "verify")
    BY DEF Verify, files
  <1>2. Standing' = Standing
    BY <1>1 DEF Standing, Readable, Stored
  <1>3. CASE decided' = decided
    BY <1>1, <1>2, <1>3 DEF Lifecycle!vars
  <1>4. CASE decided' = decided \cup {to}
    <2>1. Lifecycle!Decides(to)
      BY <1>1, <1>2, <1>4 DEF Lifecycle!Decides
    <2>2. decided # {} /\ to \in AllowedTransitions[frame[p].old.state]
          /\ frame[p].old.state \in decided /\ frame[p].old.state \in State
      BY <1>1 DEF IInv, FrameOK, TypeOK
    <2> HIDE DEF to
    <2>3. CASE p = "worker"
      <3>1. /\ worker.pc # "running" /\ scan # "running"
            /\ to \in {"completed", "timed_out"} => scan = to
            /\ \/ to \in TERMINAL
               \/ to = "validated" /\ worker.pc = "prepared"
               \/ to = "starting" /\ worker.pc = "validated"
               \/ to = "running" /\ worker.pc = "starting"
        BY <1>1, <2>3, NotScanning DEF IInv, WorkerCall, Busy, FrameAt, to
      <3>2. CASE to \in TERMINAL
        BY <2>1, <2>2, <3>1, <3>2 DEF Lifecycle!Step, Lifecycle!End, Lifecycle!Ends, TERMINAL
      <3>3. CASE to \notin TERMINAL
        <4>1. worker.pc \in {"prepared", "validated", "starting"}
          BY <3>1, <3>3
        <4>2. ~Ended /\ scan = "none" /\ worker.pc \in decided
          BY <1>1, <2>3, <4>1 DEF IInv, WorkerOK, Going, FrameAt, Working
        <4>3. ~Lifecycle!Ended
          BY <4>2 DEF Lifecycle!Ended, Lifecycle!Ends, Ended, TERMINAL
        <4>4. to \in {"validated", "starting", "running"}
              /\ Lifecycle!Before(to) = worker.pc
          BY <3>1, <3>3 DEF Lifecycle!Before
        <4> QED BY <2>1, <4>2, <4>3, <4>4 DEF Lifecycle!Step, Lifecycle!Advance
      <3> QED BY <3>2, <3>3
    <2>4. CASE p # "worker"
      <3>1. to = "cancelling" /\ Asked
        BY <1>1, <2>4, ProcsOK DEF IInv, RequestOK, Asked, FrameAt, to
      <3>2. frame[p].old.state \in {"starting", "running"}
        BY <2>2, <3>1 DEF AllowedTransitions
      <3>3. "starting" \in decided
        BY <2>2, <3>2 DEF IInv
      <3> QED BY <2>1, <3>1, <3>3 DEF Lifecycle!Step, Lifecycle!Cancelling
    <2> QED BY <2>3, <2>4
  <1> QED BY <1>3, <1>4 DEF Verify

\* The record file is written or replaced.
LEMMA ShowMaps ==
    ASSUME IInv', UNCHANGED <<decided, scan>>, Asked' = Asked
    PROVE  [Lifecycle!Step]_Lifecycle!vars
  <1>1. Standing' \in decided' \cup {None}
    BY StandingDecided DEF IInv, FilesOK, Holds, Standing, Readable, Stored
  <1> QED BY <1>1 DEF Lifecycle!Step, Lifecycle!Show

LEMMA NextMaps ==
    ASSUME IInv, IInv', [Next]_vars
    PROVE  [Lifecycle!Step]_Lifecycle!vars
  <1>1. /\ frame \in [Procs -> Frame] /\ frame' \in [Procs -> Frame]
    BY DEF IInv, TypeOK, Frame
  <1>2. ASSUME NEW p \in Procs, StoreStep(p) PROVE [Lifecycle!Step]_Lifecycle!vars
    <2>1. Asked' = Asked
      <3>1. ~FrameAt(p, "idle")
        BY <1>2 DEF StoreStep, Verify, Clear, Unlink, Create, Write, Publish, AppendEvent, FrameAt
      <3>2. (p = "worker" \/ frame'[p].pc # "idle")
            /\ \A q \in Procs \ {p} : frame'[q] = frame[q]
        BY <1>1, <1>2 DEF StoreStep, Verify, Clear, Unlink, Create, Write, Publish, AppendEvent,
           Raise, FrameGoto, Frame, NoFrame
      <3> QED BY <1>1, <3>1, <3>2, AskedStays
    <2>2. CASE Verify(p)
      BY <2>1, <2>2, VerifyMaps
    <2>3. CASE ~Verify(p)
      <3>1. UNCHANGED <<decided, scan>>
        BY <1>2, <2>3 DEF StoreStep, Clear, Unlink, Create, Write, Publish, AppendEvent, files
      <3> QED BY <2>1, <3>1, ShowMaps
    <2> QED BY <2>2, <2>3
  <1>3. CASE Prepare
    <2>1. decided = {} /\ decided' = {"prepared"} /\ UNCHANGED <<record, scan>>
      BY <1>3 DEF Prepare, files, IInv, WorkerOK
    <2>2. Standing' = Standing
      BY <2>1 DEF Standing, Readable, Stored
    <2>3. \A q \in Procs \ {"worker"} : frame'[q] = frame[q]
      BY <1>1, <1>3 DEF Prepare
    <2>4. Asked' = Asked
      BY <1>1, <2>3, AskedStays, ProcsOK
    <2> QED BY <2>1, <2>2, <2>4 DEF Lifecycle!Step, Lifecycle!Prepare, Lifecycle!Decides
  <1>4. CASE Revalidate \/ Starting \/ Running \/ Close \/ Recover \/ RespectCancelling
             \/ RecoverUnfinished \/ Exit \/ Restart
    <2>1. UNCHANGED <<record, decided, scan>>
      BY <1>4 DEF Revalidate, Starting, Running, Close, Recover, RespectCancelling,
         RecoverUnfinished, Exit, Restart, Moves, Transition, files
    <2>2. \A q \in Procs \ {"worker"} : frame'[q] = frame[q]
      BY <1>1, <1>4 DEF Revalidate, Starting, Running, Close, Recover, RespectCancelling,
         RecoverUnfinished, Exit, Restart, Moves, Transition, Raise
    <2>3. Asked' = Asked
      BY <1>1, <2>2, AskedStays, ProcsOK
    <2> QED BY <2>1, <2>3, ShowMaps
  <1>5. CASE Scan
    <2>1. /\ UNCHANGED <<record, decided, frame>> /\ scan = "none" /\ scan' = "running"
          /\ worker.pc = "running" /\ FrameAt("worker", "idle")
      BY <1>5 DEF Scan, At, files
    <2>2. "running" \in decided /\ ~Lifecycle!Ended
      BY <2>1 DEF IInv, WorkerOK, Going, FrameAt, Working, Ended, TERMINAL,
         Lifecycle!Ended, Lifecycle!Ends
    <2>3. Standing' = Standing /\ Asked' = Asked
      BY <2>1 DEF Standing, Readable, Stored, Asked, FrameAt
    <2> QED BY <2>1, <2>2, <2>3 DEF Lifecycle!Step, Lifecycle!ScanStarts
  <1>6. CASE RunnerEnds \/ WorkerCrash
    <2>1. /\ UNCHANGED <<record, decided>>
          /\ \A q \in Procs \ {"worker"} : frame'[q] = frame[q]
      BY <1>1, <1>6 DEF RunnerEnds, WorkerCrash, files
    <2>2. Standing' = Standing /\ Asked' = Asked
      BY <1>1, <2>1, AskedStays, ProcsOK DEF Standing, Readable, Stored
    <2>3. \/ scan' = scan
          \/ scan = "running" /\ scan' \in Results \cup {"killed"}
      BY <1>6 DEF RunnerEnds, WorkerCrash, Results
    <2> QED BY <2>1, <2>2, <2>3
            DEF Lifecycle!Step, Lifecycle!ScanEnds, Lifecycle!vars, Results
  <1>7. ASSUME NEW r \in Requests, RequestCancellation(r) PROVE [Lifecycle!Step]_Lifecycle!vars
    <2>1. UNCHANGED <<record, decided, scan>> /\ frame'[r].pc # "idle"
      BY <1>1, <1>7, ProcsOK DEF RequestCancellation, files, NoFrame, Frame
    <2>2. Standing' = Standing /\ Asked'
      BY <2>1 DEF Standing, Readable, Stored, Asked, FrameAt
    <2> QED BY <2>1, <2>2 DEF Lifecycle!Step, Lifecycle!Ask
  <1>8. ASSUME NEW r \in Requests, Cancelling(r) \/ RequestCrash(r)
        PROVE  [Lifecycle!Step]_Lifecycle!vars
    <2>1. UNCHANGED <<decided, scan>> /\ r \in Procs /\ r # "worker" /\ ~FrameAt(r, "idle")
      BY <1>8, ProcsOK DEF Cancelling, RequestCrash, Transition, FrameAt
    <2>2. frame'[r].pc # "idle" /\ \A q \in Procs \ {r} : frame'[q] = frame[q]
      BY <1>1, <1>8, <2>1 DEF Cancelling, RequestCrash, Transition, Raise, NoFrame, Frame
    <2>3. Asked' = Asked
      BY <1>1, <2>1, <2>2, AskedStays
    <2> QED BY <2>1, <2>3, ShowMaps
  <1>9. CASE UNCHANGED vars
    <2>1. UNCHANGED <<record, decided, scan, frame>>
      BY <1>9 DEF vars, files
    <2>2. Standing' = Standing /\ Asked' = Asked
      BY <2>1 DEF Standing, Readable, Stored, Asked, FrameAt
    <2> QED BY <2>1, <2>2 DEF Lifecycle!vars
  <1> QED BY <1>2, <1>3, <1>4, <1>5, <1>6, <1>7, <1>8, <1>9, ProcsOK
          DEF Next, WorkerStep, RequestStep

\* ExecutionStore implements ExecutionLifecycle, for every number of stop
\* requests, however their calls overlap the worker's and each other, and
\* whatever processes die.
THEOREM LifecycleImplemented == Spec => ImplementsLifecycle
  <1>1. Init => Lifecycle!Init
    BY ProcsOK DEF Init, Lifecycle!Init, Standing, Readable, Asked, FrameAt, NoFrame
  <1> QED BY <1>1, NextMaps, NextIInv, InitIInv, PTL DEF Spec, ImplementsLifecycle, Lifecycle!Spec
=============================================================================
