-------------------------- MODULE GovernanceProofs --------------------------
(***************************************************************************)
(* The two governed ways out of the system: the publication of reports     *)
(* (Publication, first part) and the release of a campaign's labels        *)
(* (Campaign, second part), for every number of people, processes, calls   *)
(* and crashes.                                                            *)
(***************************************************************************)
EXTENDS Publication, Campaign, FiniteSetTheorems, TLAPS

(***************************************************************************)
(* Publication's invariants for every number of reports, requests, publish *)
(* calls, recoveries and crashes.                                          *)
(*                                                                         *)
(* The types hold whatever number of servers work on the store.  What      *)
(* publishing, correcting, revoking and rolling back keep true of it holds *)
(* with one server thread beside the recovery command, and rests on one    *)
(* thing: nobody knows a publication before its publish call has ended, so *)
(* that a rollback takes nothing from under anybody's feet.                *)
(***************************************************************************)

\* The shipped configuration: one web server thread.
OneServer == \A s, q \in Servers : s = q

Publishing == {"staged", "placed", "superseding", "correcting", "corrected",
               "undo_correction", "undo_record", "undo_directory"}
Correcting == {"superseding", "correcting", "corrected", "undo_correction"}
Revoking == {"revoking", "signing", "signed", "undo_revocation"}

WebRequest == [pc : {"idle"} \cup Publishing \cup Revoking, pub : Nat]

\* A web request w works on a publication; to publish means that it was
\* released, to correct that it has something to correct.
WorkOK(w) ==
    /\ w.pc # "idle" => w.pub \in Pubs
    /\ w.pc \in Publishing => releases[w.pub] # None
    /\ w.pc \in Correcting => Target(w.pub) # None

ServerTyped ==
    /\ server \in [Servers -> WebRequest]
    /\ \A s \in Servers : WorkOK(server[s])

Issues == [kind : {"staging"}, pub : Pubs, content : {None}]
            \cup [kind : {"correction"}, pub : Pubs, content : PubOrNone]
            \cup [kind : {"revocation"}, pub : Pubs, content : RevocationOrNone]

TypeInv == TypeOK /\ ServerTyped /\ repairs \subseteq Issues

\* Nobody has revoked p or asked for its correction.
Fresh(p) ==
    /\ revocations[p] = None
    /\ \A q \in DOMAIN requests : requests[q].corrects # p

\* What the store looks like in the middle of a web request.
ServerOK(s) ==
    LET p == server[s].pub  pc == server[s].pc
    IN /\ pc \in Publishing => Fresh(p)
       /\ pc \in {"staged", "placed", "undo_directory"} => p \notin records
       /\ pc \in Correcting \cup {"undo_record"} \cup Revoking => p \in records
       /\ pc = "placed" => p \in published
       /\ pc \in {"superseding", "correcting", "undo_record"} =>
             \A t \in Pubs : corrections[t] # p
       /\ pc \in {"corrected", "undo_correction"} => corrections[Target(p)] = p
       /\ pc = "signing" => revocations[p] = None
       /\ pc \in {"signed", "undo_revocation"} => revocations[p] = s /\ p \notin told

\* A publication that a request corrects, or that is revoked, is on record.
Known ==
    /\ \A q \in DOMAIN requests :
          requests[q].corrects # None => requests[q].corrects \in records
    /\ \A p \in Pubs : revocations[p] # None => p \in records

StoreOK ==
    /\ records \subseteq published
    /\ Known /\ CorrectionBound /\ RevocationStays
    /\ \A s \in Servers : ServerOK(s)

IInv == TypeInv /\ StoreOK

-----------------------------------------------------------------------------
(***************************************************************************)
(* Types, for any number of servers.                                       *)
(***************************************************************************)

LEMMA RequestTyped ==
    ASSUME TypeInv, NEW p \in Pubs, releases[p] # None
    PROVE  /\ releases[p] \in DOMAIN requests
           /\ RequestOf(p) \in [report : 1..MaxReports, corrects : PubOrNone]
           /\ Target(p) \in PubOrNone
  <1> DEFINE R == [report : 1..MaxReports, corrects : PubOrNone]
  <1>1. releases[p] \in DOMAIN requests /\ requests \in Seq(R)
    BY DEF TypeInv, TypeOK
  <1>2. requests[releases[p]] \in R
    <2> HIDE DEF R
    <2> QED BY <1>1
  <1> QED BY <1>1, <1>2 DEF RequestOf, Target

\* A web request that goes on as w, or ends.
LEMMA BecomeTyped ==
    ASSUME TypeInv, NEW s \in Servers, NEW w \in WebRequest, Become(s, w), WorkOK(w),
           UNCHANGED <<requests, releases>>
    PROVE  ServerTyped' /\ server'[s] = w
  BY DEF TypeInv, ServerTyped, WorkOK, Become, Target, RequestOf

LEMMA IdleTyped == Idle \in WebRequest /\ WorkOK(Idle) /\ Idle.pc = "idle"
  BY DEF Idle, WebRequest, WorkOK, Publishing, Correcting

\* A web request that goes on with its publication.
LEMMA GotoTyped ==
    ASSUME TypeInv, NEW s \in Servers, ~ At(s, "idle"),
           NEW pc \in Publishing \cup Revoking, Goto(s, pc),
           pc \in Publishing => server[s].pc \in Publishing,
           pc \in Correcting => Target(server[s].pub) # None,
           UNCHANGED <<requests, releases>>
    PROVE  ServerTyped' /\ server'[s].pc = pc /\ server'[s].pub = server[s].pub
  <1> DEFINE w == [server[s] EXCEPT !.pc = pc]
  <1>1. server[s] \in WebRequest /\ WorkOK(server[s]) /\ server[s].pc # "idle"
    BY DEF TypeInv, ServerTyped, At
  <1>2. w \in WebRequest /\ w.pc = pc /\ w.pub = server[s].pub
    BY <1>1 DEF WebRequest
  <1>3. Become(s, w)
    BY DEF Goto, Become
  <1> HIDE DEF w
  <1>4. WorkOK(w)
    BY <1>1, <1>2 DEF WorkOK, Publishing, Correcting
  <1> QED BY <1>2, <1>3, <1>4, BecomeTyped

\* A step inside a web request leaves the requests and their releases alone.
LEMMA StepServerTyped ==
    ASSUME TypeInv, NEW s \in Servers, Step(s) PROVE ServerTyped'
  <1>1. ~ At(s, "idle") /\ server[s] \in WebRequest /\ WorkOK(server[s]) /\ server[s].pub \in Pubs
    BY DEF Step, At, TypeInv, ServerTyped, WorkOK, Place, SavePublication, CheckCorrection,
           SaveCorrection, CorrectionNotice, UndoCorrection, UndoRecord, UndoDirectory,
           CheckRevocation, SaveRevocation, RevocationNotice, UndoRevocation
  <1>2. UNCHANGED <<requests, releases>>
    BY DEF Step, store, Place, SavePublication, CheckCorrection,
           SaveCorrection, CorrectionNotice, UndoCorrection, UndoRecord, UndoDirectory,
           CheckRevocation, SaveRevocation, RevocationNotice, UndoRevocation
  <1>3. CASE Become(s, Idle)
    BY <1>2, <1>3, IdleTyped, BecomeTyped
  <1>4. CASE \E pc \in Publishing \ Correcting : Goto(s, pc) /\ server[s].pc \in Publishing
    BY <1>1, <1>2, <1>4, GotoTyped
  <1>5. CASE \E pc \in Correcting : Goto(s, pc) /\ server[s].pc \in Publishing
                                    /\ Target(server[s].pub) # None
    BY <1>1, <1>2, <1>5, GotoTyped DEF Correcting, Publishing
  <1>6. CASE \E pc \in Revoking : Goto(s, pc)
    BY <1>1, <1>2, <1>6, GotoTyped DEF Revoking, Correcting, Publishing
  <1>7. CASE Place(s) \/ UndoRecord(s)
    BY <1>3, <1>4, <1>7 DEF Place, UndoRecord, At, Publishing, Correcting
  <1>8. CASE SavePublication(s)
    BY <1>3, <1>5, <1>8 DEF SavePublication, At, Publishing, Correcting
  <1>9. CASE CheckCorrection(s) \/ SaveCorrection(s) \/ CorrectionNotice(s) \/ UndoCorrection(s)
    <2>1. server[s].pc \in Publishing /\ Target(server[s].pub) # None
      BY <1>1, <1>9 DEF CheckCorrection, SaveCorrection, CorrectionNotice, UndoCorrection,
                        At, WorkOK, Correcting, Publishing
    <2>2. \/ Become(s, Idle)
          \/ \E pc \in {"correcting", "corrected", "undo_correction"} : Goto(s, pc)
          \/ \E pc \in {"undo_record", "undo_directory"} : Goto(s, pc)
      BY <1>9 DEF CheckCorrection, SaveCorrection, CorrectionNotice, UndoCorrection
    <2> QED BY <1>3, <1>4, <1>5, <2>1, <2>2 DEF Publishing, Correcting
  <1>10. CASE UndoDirectory(s) \/ UndoRevocation(s)
    BY <1>3, <1>10 DEF UndoDirectory, UndoRevocation
  <1>11. CASE CheckRevocation(s) \/ SaveRevocation(s) \/ RevocationNotice(s)
    BY <1>3, <1>6, <1>11 DEF CheckRevocation, SaveRevocation, RevocationNotice, Revoking
  <1> QED BY <1>7, <1>8, <1>9, <1>10, <1>11 DEF Step

\* What a step of a web request does to the store and the destination.
LEMMA StepTyped ==
    ASSUME TypeInv, NEW s \in Servers, Step(s) PROVE TypeInv'
  <1>1. ServerTyped'
    BY StepServerTyped
  <1>2. server[s].pub \in Pubs /\ WorkOK(server[s])
    BY DEF Step, At, TypeInv, ServerTyped, WorkOK, Place, SavePublication, CheckCorrection,
           SaveCorrection, CorrectionNotice, UndoCorrection, UndoRecord, UndoDirectory,
           CheckRevocation, SaveRevocation, RevocationNotice, UndoRevocation
  <1> DEFINE p == server[s].pub
  <1>3. CASE Place(s)
    BY <1>1, <1>2, <1>3 DEF TypeInv, TypeOK, Place, store, bounds
  <1>4. CASE SavePublication(s)
    BY <1>1, <1>2, <1>4 DEF TypeInv, TypeOK, SavePublication, destination, bounds,
                            WorkOK, Publishing, At
  <1>5. CASE CheckCorrection(s) \/ CheckRevocation(s)
    BY <1>1, <1>5 DEF TypeInv, TypeOK, CheckCorrection, CheckRevocation, store, destination, bounds
  <1>6. CASE SaveCorrection(s)
    BY <1>1, <1>2, <1>6 DEF TypeInv, TypeOK, SaveCorrection, destination, bounds, PubOrNone
  <1>7. CASE CorrectionNotice(s)
    BY <1>1, <1>2, <1>7 DEF TypeInv, TypeOK, CorrectionNotice, store, bounds, PubOrNone
  <1>8. CASE UndoCorrection(s)
    BY <1>1, <1>8 DEF TypeInv, TypeOK, UndoCorrection, destination, bounds, PubOrNone
  <1>9. CASE UndoRecord(s)
    BY <1>1, <1>9 DEF TypeInv, TypeOK, UndoRecord, destination, bounds
  <1>10. CASE UndoDirectory(s)
    BY <1>1, <1>10 DEF TypeInv, TypeOK, UndoDirectory, store, bounds, NoNotices, PubOrNone,
                       RevocationOrNone
  <1>11. CASE SaveRevocation(s)
    BY <1>1, <1>11 DEF TypeInv, TypeOK, SaveRevocation, destination, bounds, RevocationOrNone
  <1>12. CASE RevocationNotice(s)
    BY <1>1, <1>2, <1>12 DEF TypeInv, TypeOK, RevocationNotice, store, bounds, RevocationOrNone
  <1>13. CASE UndoRevocation(s)
    BY <1>1, <1>13 DEF TypeInv, TypeOK, UndoRevocation, destination, bounds, RevocationOrNone
  <1> QED BY <1>3, <1>4, <1>5, <1>6, <1>7, <1>8, <1>9, <1>10, <1>11, <1>12, <1>13 DEF Step

\* A request that follows the others.
LEMMA RequestReleaseTyped ==
    ASSUME TypeInv, NEW s \in Servers, RequestRelease(s)
    PROVE  /\ TypeInv' /\ DOMAIN requests \subseteq DOMAIN requests'
           /\ \A q \in DOMAIN requests : requests'[q] = requests[q]
           /\ \A q \in DOMAIN requests' \ DOMAIN requests :
                 requests'[q].corrects \in Current \cup {None}
  <1> DEFINE R == [report : 1..MaxReports, corrects : PubOrNone]
             corrected == IF Current = {} THEN None ELSE CHOOSE p \in Current : TRUE
             new == [report |-> latestReport, corrects |-> corrected]
  <1>1. corrected \in Current \cup {None} /\ Current \subseteq Pubs
    BY DEF TypeInv, TypeOK, Current
  <1>2. new \in R /\ new.corrects = corrected
    <2> HIDE DEF corrected
    <2> QED BY <1>1 DEF TypeInv, TypeOK, PubOrNone
  <1>3. requests' = Append(requests, new) /\ requests \in Seq(R)
    BY DEF RequestRelease, TypeInv, TypeOK
  <1> HIDE DEF R, new, corrected
  <1>4. /\ requests' \in Seq(R) /\ DOMAIN requests = 1..Len(requests)
        /\ DOMAIN requests' = 1..(Len(requests) + 1) /\ Len(requests) \in Nat
        /\ \A q \in DOMAIN requests : requests'[q] = requests[q]
        /\ requests'[Len(requests) + 1] = new
    BY <1>2, <1>3
  <1>5. /\ UNCHANGED <<approvals, releases, records, corrections, revocations,
                       destination, server, repairs, bounds, told>>
        /\ DOMAIN requests \subseteq DOMAIN requests'
    BY <1>4 DEF RequestRelease
  <1>6. TypeOK'
    BY <1>4, <1>5 DEF R, TypeInv, TypeOK, destination, bounds
  <1>7. ServerTyped'
    BY <1>4, <1>5 DEF TypeInv, TypeOK, ServerTyped, WorkOK, Correcting, Publishing, Target, RequestOf
  <1> QED BY <1>1, <1>2, <1>4, <1>5, <1>6, <1>7 DEF TypeInv

LEMMA PublishTyped ==
    ASSUME TypeInv, NEW s \in Servers, NEW q \in DOMAIN requests, Publish(s, q)
    PROVE  TypeInv'
  <1>1. PICK p \in Pubs : /\ releases[p] = None
                          /\ releases' = [releases EXCEPT ![p] = q]
                          /\ staging' = staging \cup {p}
                          /\ Become(s, Working("staged", p))
    BY DEF Publish
  <1>2. UNCHANGED <<requests, approvals, records, corrections, revocations,
                    published, notices, repairs, bounds, told>>
    BY DEF Publish
  <1>3. q # None
    BY PublicationAssumption DEF TypeInv, TypeOK
  <1>4. /\ releases' \in [Pubs -> DOMAIN requests \cup {None}] /\ releases'[p] # None
        /\ \A o \in Pubs : releases[o] # None => releases'[o] = releases[o]
    BY <1>1, <1>3 DEF TypeInv, TypeOK
  <1>5. TypeOK'
    BY <1>1, <1>2, <1>4 DEF TypeInv, TypeOK, bounds
  <1> DEFINE w == Working("staged", p)
  <1>6. w \in WebRequest /\ w.pc = "staged" /\ w.pub = p
    BY DEF Working, WebRequest, Publishing, Pubs
  <1> HIDE DEF w
  <1>7. server' \in [Servers -> WebRequest] /\ server'[s] = w
        /\ \A o \in Servers \ {s} : server'[o] = server[o]
    BY <1>1, <1>6 DEF Become, w, TypeInv, ServerTyped
  <1>8. ASSUME NEW o \in Servers PROVE WorkOK(server[o])'
    <2>1. CASE o = s
      BY <1>4, <1>6, <1>7, <2>1 DEF WorkOK, Correcting
    <2>2. CASE o # s
      <3>1. WorkOK(server[o]) /\ server'[o] = server[o]
        BY <1>7, <2>2 DEF TypeInv, ServerTyped
      <3>2. /\ server[o].pc # "idle" => server[o].pub \in Pubs
            /\ server[o].pc \in Publishing => releases[server[o].pub] # None
            /\ server[o].pc \in Correcting => server[o].pc \in Publishing
            /\ server[o].pc \in Publishing => server[o].pc # "idle"
        BY <3>1 DEF WorkOK, Correcting, Publishing
      <3>3. server[o].pc \in Publishing => releases'[server[o].pub] = releases[server[o].pub]
        BY <1>4, <3>2
      <3> QED BY <1>2, <3>1, <3>2, <3>3 DEF WorkOK, Target, RequestOf
    <2> QED BY <2>1, <2>2
  <1> QED BY <1>2, <1>5, <1>7, <1>8 DEF TypeInv, ServerTyped

LEMMA ApproveTyped ==
    ASSUME TypeInv, NEW s \in Servers, NEW q \in DOMAIN requests, ApproveRelease(s, q)
    PROVE  TypeInv'
  BY DEF TypeInv, TypeOK, ServerTyped, WorkOK, Target, RequestOf, ApproveRelease,
         destination, bounds

LEMMA RevokeTyped ==
    ASSUME TypeInv, NEW s \in Servers, NEW p \in Pubs, Revoke(s, p)
    PROVE  TypeInv' /\ server'[s] = Working("revoking", p)
  <1>1. Working("revoking", p) \in WebRequest /\ WorkOK(Working("revoking", p))
    BY DEF Working, WebRequest, WorkOK, Revoking, Publishing, Correcting, Pubs
  <1>2. ServerTyped' /\ server'[s] = Working("revoking", p)
    BY <1>1, BecomeTyped DEF Revoke, store
  <1> QED BY <1>2 DEF TypeInv, TypeOK, Revoke, store, destination, bounds

\* What recovery may repair.
LEMMA RecoverTyped == TypeInv /\ Recover => TypeInv'
  <1> SUFFICES ASSUME TypeInv, Recover PROVE TypeInv'
    OBVIOUS
  <1>1. PICK stale \in SUBSET staging : repairs' = Recoverable(stale)
    BY DEF Recover
  <1>2. stale \subseteq Pubs /\ records \subseteq Pubs
    BY DEF TypeInv, TypeOK
  <1>3. Missing("correction", corrections) \subseteq Issues
    BY <1>2 DEF TypeInv, TypeOK, Missing, Issues
  <1>4. Missing("revocation", revocations) \subseteq Issues
    BY <1>2 DEF TypeInv, TypeOK, Missing, Issues
  <1>5. {[kind |-> "staging", pub |-> p, content |-> None] : p \in stale} \subseteq Issues
    BY <1>2 DEF Issues
  <1>6. repairs' \subseteq Issues
    BY <1>1, <1>3, <1>4, <1>5 DEF Recoverable
  <1>7. recoveries' \in 0..MaxRecoveries
    BY PublicationAssumption DEF Recover, TypeInv, TypeOK
  <1> QED
    BY <1>6, <1>7 DEF TypeInv, TypeOK, ServerTyped, WorkOK, Target, RequestOf, Recover,
                      store, destination

LEMMA RepairTyped ==
    ASSUME TypeInv, NEW r \in repairs, Repair(r) PROVE TypeInv'
  <1>1. r \in Issues
    BY DEF TypeInv
  <1>2. UNCHANGED <<store, published, server, bounds, told>> /\ repairs' \subseteq Issues
        /\ staging' \subseteq Pubs
    BY DEF Repair, TypeInv, TypeOK
  <1>3. notices' \in [Pubs -> [correction : PubOrNone, revocation : RevocationOrNone]]
    <2> DEFINE Notice == [correction : PubOrNone, revocation : RevocationOrNone]
    <2>0. notices \in [Pubs -> Notice] BY DEF TypeInv, TypeOK
    <2>1. CASE r \in [kind : {"correction"}, pub : Pubs, content : PubOrNone]
      <3>1. [notices[r.pub] EXCEPT !["correction"] = r.content] \in Notice BY <2>0, <2>1
      <3> QED BY <2>0, <2>1, <3>1 DEF Repair
    <2>2. CASE r \in [kind : {"revocation"}, pub : Pubs, content : RevocationOrNone]
      <3> DEFINE noticed == [notices[r.pub] EXCEPT !["revocation"] = r.content]
      <3>1. noticed \in Notice BY <2>0, <2>2
      <3>2. r.kind = "revocation" /\ r.pub \in Pubs BY <2>2
      <3>3. notices' \in {notices, [notices EXCEPT ![r.pub] = noticed]}
        BY <2>0, <3>2 DEF Repair
      <3> HIDE DEF Notice, noticed
      <3>4. [notices EXCEPT ![r.pub] = noticed] \in [Pubs -> Notice]
        BY <2>0, <3>1, <3>2
      <3>5. notices' \in [Pubs -> Notice] BY <2>0, <3>3, <3>4
      <3> QED BY <3>5 DEF Notice
    <2>3. CASE r.kind = "staging"
      BY <2>3 DEF Repair, TypeInv, TypeOK
    <2> QED BY <1>1, <2>1, <2>2, <2>3 DEF Issues
  <1> QED BY <1>2, <1>3 DEF TypeInv, TypeOK, ServerTyped, WorkOK, Target, RequestOf,
                            store, bounds

LEMMA CrashTyped == TypeInv /\ Crash => TypeInv'
  <1> SUFFICES ASSUME TypeInv, Crash PROVE TypeInv'
    OBVIOUS
  <1>1. /\ UNCHANGED <<store, destination, latestReport, recoveries, told>>
        /\ crashes' \in 0..MaxCrashes
    BY PublicationAssumption DEF Crash, TypeInv, TypeOK
  <1>2. repairs' \subseteq Issues
    BY DEF Crash, TypeInv
  <1>3. ServerTyped'
    <2>1. ASSUME NEW s \in Servers, Become(s, Idle)
          PROVE  ServerTyped'
      BY <1>1, <2>1, IdleTyped, BecomeTyped DEF store
    <2>2. CASE UNCHANGED server
      BY <1>1, <2>2 DEF TypeInv, ServerTyped, WorkOK, Target, RequestOf, store
    <2> QED BY <2>1, <2>2 DEF Crash
  <1> QED BY <1>1, <1>2, <1>3 DEF TypeInv, TypeOK, store, destination

LEMMA NextTyped == TypeInv /\ [Next]_vars => TypeInv'
  <1> SUFFICES ASSUME TypeInv, [Next]_vars PROVE TypeInv'
    OBVIOUS
  <1>1. CASE UNCHANGED vars
    BY <1>1 DEF vars, store, destination, bounds, TypeInv, TypeOK, ServerTyped, WorkOK,
                Target, RequestOf
  <1>2. CASE NewReport
    BY <1>2, PublicationAssumption DEF NewReport, store, destination, TypeInv, TypeOK, ServerTyped, WorkOK,
                Target, RequestOf
  <1>3. ASSUME NEW s \in Servers, Release(s)
        PROVE  TypeInv'
    BY <1>3, RequestReleaseTyped, ApproveTyped, PublishTyped, RevokeTyped DEF Release
  <1>4. ASSUME NEW s \in Servers, Step(s)
        PROVE  TypeInv'
    BY <1>4, StepTyped
  <1>5. CASE Recover
    BY <1>5, RecoverTyped
  <1>6. ASSUME NEW r \in repairs, Repair(r)
        PROVE  TypeInv'
    BY <1>6, RepairTyped
  <1>7. CASE Crash
    BY <1>7, CrashTyped
  <1> QED BY <1>1, <1>2, <1>3, <1>4, <1>5, <1>6, <1>7 DEF Next

LEMMA InitTyped == Init => TypeInv
  <1> SUFFICES ASSUME Init PROVE TypeInv
    OBVIOUS
  <1>1. server \in [Servers -> WebRequest] /\ \A s \in Servers : server[s] = Idle
    BY IdleTyped DEF Init
  <1>2. ServerTyped
    BY <1>1, IdleTyped DEF ServerTyped
  <1>3. TypeOK
    BY PublicationAssumption DEF Init, TypeOK, NoNotices, PubOrNone, RevocationOrNone
  <1> QED BY <1>2, <1>3 DEF Init, TypeInv

\* Stored files, web requests and repairs have their types for any number of
\* servers: no race makes a record of something that was never released.
THEOREM TypeCorrect == Spec => []TypeOK
  <1>1. TypeInv => TypeOK
    BY DEF TypeInv
  <1> QED BY InitTyped, NextTyped, <1>1, PTL DEF Spec

-----------------------------------------------------------------------------
(***************************************************************************)
(* The store, with one server beside the recovery command.                 *)
(***************************************************************************)

\* What a publication corrects while nothing is requested or released.
LEMMA TargetStays ==
    ASSUME UNCHANGED <<requests, releases>>
    PROVE  \A p : Target(p)' = Target(p)
  BY DEF Target, RequestOf

LEMMA RequestReleaseOK ==
    ASSUME IInv, NEW s \in Servers, OneServer, RequestRelease(s) PROVE StoreOK'
  <1>1. /\ UNCHANGED <<releases, records, corrections, revocations, published, notices,
                       server, told>>
        /\ \A q \in Servers : server[q].pc = "idle"
    BY DEF RequestRelease, destination, OneServer, At
  <1>2. /\ TypeInv /\ StoreOK
        /\ DOMAIN requests \subseteq DOMAIN requests'
        /\ \A q \in DOMAIN requests : requests'[q] = requests[q]
        /\ \A q \in DOMAIN requests' \ DOMAIN requests :
              requests'[q].corrects \in Current \cup {None}
    BY RequestReleaseTyped DEF IInv
  <1>3. Known'
    BY <1>1, <1>2 DEF StoreOK, Known, Current
  <1>4. CorrectionBound'
    <2>1. ASSUME NEW t \in Pubs, corrections[t] # None
          PROVE  /\ {t, corrections[t]} \subseteq records /\ Target(corrections[t]) = t
                 /\ releases[corrections[t]] \in DOMAIN requests
      <3>1. {t, corrections[t]} \subseteq records /\ Target(corrections[t]) = t
        BY <1>2, <2>1 DEF StoreOK, CorrectionBound
      <3> QED BY <1>2, <3>1, RequestTyped DEF TypeInv, TypeOK
    <2> QED BY <1>1, <1>2, <2>1 DEF CorrectionBound, Target, RequestOf
  <1>5. RevocationStays' /\ records' \subseteq published'
    BY <1>1, <1>2 DEF StoreOK, RevocationStays
  <1>6. \A q \in Servers : ServerOK(q)'
    BY <1>1 DEF ServerOK, Publishing, Correcting, Revoking
  <1> QED BY <1>3, <1>4, <1>5, <1>6 DEF StoreOK

\* A publish call is about a publication that nobody knows of.
LEMMA PublishOK ==
    ASSUME IInv, NEW s \in Servers, OneServer, NEW q \in DOMAIN requests, Publish(s, q)
    PROVE  StoreOK'
  <1>1. PICK p \in Pubs : /\ releases[p] = None
                          /\ releases' = [releases EXCEPT ![p] = q]
                          /\ Become(s, Working("staged", p))
    BY DEF Publish
  <1>2. UNCHANGED <<requests, records, corrections, revocations, published, notices, told>>
    BY DEF Publish
  <1>3. p \notin records /\ \A o \in records : releases[o] # None
    BY <1>1 DEF IInv, TypeInv, TypeOK
  <1>4. Fresh(p)
    <2>1. p # None
      BY PublicationAssumption DEF Pubs
    <2> QED BY <1>3, <2>1 DEF IInv, StoreOK, Known, Fresh
  <1>5. server'[s].pc = "staged" /\ server'[s].pub = p
    BY <1>1 DEF Become, Working, IInv, TypeInv, ServerTyped
  <1>6. ServerOK(s)'
    BY <1>2, <1>3, <1>4, <1>5 DEF ServerOK, Fresh, Correcting, Revoking
  <1>7. Known' /\ RevocationStays' /\ records' \subseteq published'
    BY <1>2 DEF IInv, StoreOK, Known, RevocationStays
  <1>8. CorrectionBound'
    <2>1. ASSUME NEW t \in Pubs, corrections[t] # None
          PROVE  /\ {t, corrections[t]} \subseteq records /\ Target(corrections[t]) = t
                 /\ releases'[corrections[t]] = releases[corrections[t]]
      <3>1. {t, corrections[t]} \subseteq records /\ Target(corrections[t]) = t
        BY <2>1 DEF IInv, StoreOK, CorrectionBound
      <3>2. corrections[t] # p
        BY <1>3, <3>1
      <3> QED BY <1>1, <3>1, <3>2 DEF IInv, TypeInv, TypeOK
    <2> QED BY <1>2, <2>1 DEF CorrectionBound, Target, RequestOf
  <1> QED BY <1>6, <1>7, <1>8 DEF StoreOK, OneServer

\* Steps that change neither a signed file nor a published directory, and
\* leave the web request in a state that asks nothing more.
LEMMA QuietOK ==
    ASSUME IInv, UNCHANGED <<store, published, notices, told>>,
           \A s \in Servers : ServerOK(s)'
    PROVE  StoreOK'
  <1>1. \A p : Target(p)' = Target(p)
    BY TargetStays DEF store
  <1> QED BY <1>1 DEF IInv, StoreOK, Known, CorrectionBound, RevocationStays, store

LEMMA ApproveOK ==
    ASSUME IInv, NEW s \in Servers, NEW q \in DOMAIN requests, ApproveRelease(s, q)
    PROVE  StoreOK'
  <1>1. UNCHANGED <<requests, releases, records, corrections, revocations, destination,
                    server, told>>
    BY DEF ApproveRelease
  <1>2. \A p : Target(p)' = Target(p)
    BY <1>1, TargetStays
  <1> QED BY <1>1, <1>2 DEF IInv, StoreOK, Known, CorrectionBound, RevocationStays,
                            ServerOK, Fresh, destination

LEMMA RevokeOK ==
    ASSUME IInv, NEW s \in Servers, OneServer, NEW p \in Pubs, Revoke(s, p)
    PROVE  StoreOK'
  <1>1. UNCHANGED <<store, destination, told>> /\ p \in records
    BY DEF Revoke
  <1>2. server'[s].pc = "revoking" /\ server'[s].pub = p
    <2>1. TypeInv /\ server'[s] = Working("revoking", p)
      BY RevokeTyped DEF IInv
    <2> QED BY <2>1 DEF Working
  <1>3. ServerOK(s)'
    BY <1>1, <1>2 DEF ServerOK, store, Publishing, Correcting
  <1> QED BY <1>1, <1>3, QuietOK DEF OneServer, destination

\* A web request that goes on: where it is, and with which publication.
LEMMA Goes ==
    ASSUME TypeInv, NEW s \in Servers, NEW pc, Goto(s, pc)
    PROVE  server'[s].pc = pc /\ server'[s].pub = server[s].pub
  BY DEF TypeInv, ServerTyped, WebRequest, Goto

LEMMA Ends ==
    ASSUME TypeInv, NEW s \in Servers, OneServer, Become(s, Idle)
    PROVE  \A q \in Servers : ServerOK(q)'
  <1>1. server'[s].pc = "idle"
    BY DEF TypeInv, ServerTyped, Become, Idle
  <1> QED BY <1>1 DEF ServerOK, OneServer, Publishing, Correcting, Revoking

LEMMA PlaceOK ==
    ASSUME IInv, NEW s \in Servers, OneServer, Place(s) PROVE StoreOK'
  <1> DEFINE p == server[s].pub
  <1>1. TypeInv /\ StoreOK /\ ServerOK(s) /\ server[s].pc = "staged"
        /\ UNCHANGED <<store, notices, told>>
    BY DEF IInv, StoreOK, Place, At
  <1>2. CASE p \notin staging
    BY <1>1, <1>2, Ends, QuietOK DEF Place
  <1>3. CASE p \in staging
    <2>1. published' = published \cup {p} /\ server'[s].pc = "placed" /\ server'[s].pub = p
      BY <1>1, <1>3, Goes DEF Place
    <2>2. ServerOK(s)'
      BY <1>1, <2>1 DEF ServerOK, store, Fresh, Publishing, Correcting, Revoking
    <2>3. \A o : Target(o)' = Target(o)
      BY <1>1, TargetStays DEF store
    <2> QED BY <1>1, <2>1, <2>2, <2>3 DEF StoreOK, Known, CorrectionBound, RevocationStays,
                                          store, OneServer
  <1> QED BY <1>2, <1>3

\* The record of a publication that no correction names yet.
LEMMA SavePublicationOK ==
    ASSUME IInv, NEW s \in Servers, OneServer, SavePublication(s) PROVE StoreOK'
  <1> DEFINE p == server[s].pub
  <1>1. /\ TypeInv /\ StoreOK /\ server[s].pc = "placed"
        /\ UNCHANGED <<requests, releases, corrections, revocations, destination, told>>
        /\ records' = records \cup {p}
    BY DEF IInv, SavePublication, At
  <1>2. Fresh(p) /\ p \notin records /\ p \in published /\ p \in Pubs
    BY <1>1 DEF StoreOK, ServerOK, TypeInv, ServerTyped, WorkOK, Publishing
  <1>3. ServerOK(s)'
    <2>1. CASE Become(s, Idle)
      BY <1>1, <2>1, Ends
    <2>2. CASE Goto(s, "superseding")
      <3>1. server'[s].pc = "superseding" /\ server'[s].pub = p
        BY <1>1, <2>2, Goes
      <3>2. \A t \in Pubs : corrections[t] # p
        BY <1>1, <1>2, PublicationAssumption DEF StoreOK, CorrectionBound, Pubs
      <3> QED BY <1>1, <1>2, <3>1, <3>2 DEF ServerOK, Fresh, Correcting, Revoking
    <2> QED BY <2>1, <2>2 DEF SavePublication
  <1>4. \A o : Target(o)' = Target(o)
    BY <1>1, TargetStays
  <1> QED BY <1>1, <1>2, <1>3, <1>4 DEF StoreOK, Known, CorrectionBound, RevocationStays,
                                        destination, OneServer

LEMMA CheckCorrectionOK ==
    ASSUME IInv, NEW s \in Servers, OneServer, CheckCorrection(s) PROVE StoreOK'
  <1>1. /\ TypeInv /\ StoreOK /\ ServerOK(s) /\ server[s].pc = "superseding"
        /\ UNCHANGED <<store, destination, told>>
    BY DEF IInv, StoreOK, CheckCorrection, At
  <1>2. server'[s].pc \in {"correcting", "undo_record"} /\ server'[s].pub = server[s].pub
    BY <1>1, Goes DEF CheckCorrection
  <1>3. ServerOK(s)'
    BY <1>1, <1>2 DEF ServerOK, store, Fresh, Publishing, Correcting, Revoking
  <1> QED BY <1>1, <1>3, QuietOK DEF OneServer, destination

\* The link to a publication on record from the one it was requested for.
LEMMA SaveCorrectionOK ==
    ASSUME IInv, NEW s \in Servers, OneServer, SaveCorrection(s) PROVE StoreOK'
  <1> DEFINE p == server[s].pub  t == Target(p)
  <1>1. /\ TypeInv /\ StoreOK /\ ServerOK(s) /\ server[s].pc = "correcting"
        /\ UNCHANGED <<requests, releases, records, revocations, destination, told>>
        /\ corrections' = [corrections EXCEPT ![t] = p]
    BY DEF IInv, StoreOK, SaveCorrection, At
  <1>2. Fresh(p) /\ p \in records /\ p \in Pubs /\ releases[p] # None /\ t # None
    BY <1>1 DEF ServerOK, TypeInv, ServerTyped, WorkOK, Publishing, Correcting
  <1>3. t \in records /\ t \in Pubs
    <2>1. releases[p] \in DOMAIN requests /\ t \in PubOrNone
      BY <1>1, <1>2, RequestTyped
    <2> QED BY <1>1, <1>2, <2>1 DEF StoreOK, Known, Target, RequestOf, PubOrNone
  <1>4. corrections'[t] = p /\ \A o \in Pubs \ {t} : corrections'[o] = corrections[o]
    BY <1>1, <1>3 DEF TypeInv, TypeOK
  <1>5. server'[s].pc = "corrected" /\ server'[s].pub = p
    BY <1>1, Goes DEF SaveCorrection
  <1>6. \A o : Target(o)' = Target(o)
    BY <1>1, TargetStays
  <1> HIDE DEF t
  <1>7. ServerOK(s)'
    <2>1. Target(server[s].pub)' = t
      BY <1>5, <1>6 DEF t
    <2> QED BY <1>1, <1>2, <1>4, <1>5, <2>1 DEF ServerOK, Fresh, Publishing, Correcting, Revoking
  <1>8. CorrectionBound'
    BY <1>1, <1>2, <1>3, <1>4, <1>6 DEF StoreOK, CorrectionBound, t
  <1> QED BY <1>1, <1>7, <1>8 DEF StoreOK, Known, RevocationStays, destination, OneServer

LEMMA CorrectionNoticeOK ==
    ASSUME IInv, NEW s \in Servers, OneServer, CorrectionNotice(s) PROVE StoreOK'
  <1> DEFINE p == server[s].pub  t == Target(p)
  <1>1. /\ TypeInv /\ StoreOK /\ ServerOK(s) /\ server[s].pc = "corrected"
        /\ UNCHANGED <<store, staging, published, told>>
    BY DEF IInv, StoreOK, CorrectionNotice, At
  <1>2. \A o : Target(o)' = Target(o)
    BY <1>1, TargetStays DEF store
  <1>3. CASE CanNotice(t, "correction")
    <2>1. t \in Pubs
      BY <1>1, <1>3 DEF CanNotice, TypeInv, TypeOK
    <2>2. notices' = [notices EXCEPT ![t].correction = p] /\ Become(s, Idle)
      BY <1>3 DEF CorrectionNotice
    <2>3. \A o \in Pubs : notices'[o].revocation = notices[o].revocation
      BY <1>1, <2>1, <2>2 DEF TypeInv, TypeOK
    <2>4. \A q \in Servers : ServerOK(q)'
      BY <1>1, <2>2, Ends
    <2> QED BY <1>1, <1>2, <2>3, <2>4 DEF StoreOK, Known, CorrectionBound, RevocationStays,
                                          store, TypeInv, TypeOK
  <1>4. CASE ~ CanNotice(t, "correction")
    <2>1. server'[s].pc = "undo_correction" /\ server'[s].pub = p /\ UNCHANGED notices
      BY <1>1, <1>4, Goes DEF CorrectionNotice
    <2>2. Target(server[s].pub)' = t
      BY <1>2, <2>1
    <2>3. ServerOK(s)'
      BY <1>1, <2>1, <2>2 DEF ServerOK, store, Fresh, Publishing, Correcting, Revoking
    <2> QED BY <1>1, <2>1, <2>3, QuietOK DEF OneServer
  <1> QED BY <1>3, <1>4

\* The link is this request's own, and no other names its publication.
LEMMA UndoCorrectionOK ==
    ASSUME IInv, NEW s \in Servers, OneServer, UndoCorrection(s) PROVE StoreOK'
  <1> DEFINE p == server[s].pub  t == Target(p)
  <1>1. /\ TypeInv /\ StoreOK /\ ServerOK(s) /\ server[s].pc = "undo_correction"
        /\ UNCHANGED <<requests, releases, records, revocations, destination, told>>
    BY DEF IInv, StoreOK, UndoCorrection, At
  <1>2. Fresh(p) /\ p \in records /\ p \in Pubs /\ corrections[t] = p
    BY <1>1 DEF ServerOK, TypeInv, ServerTyped, WorkOK, Publishing, Correcting
  <1>3. corrections' = [corrections EXCEPT ![t] = None] /\ Goto(s, "undo_record")
    BY <1>2 DEF UndoCorrection
  <1>4. server'[s].pc = "undo_record" /\ server'[s].pub = p
    BY <1>1, <1>3, Goes
  <1>5. \A o : Target(o)' = Target(o)
    BY <1>1, TargetStays
  <1>6. p # None
    BY <1>2, PublicationAssumption DEF Pubs
  <1>7. \A o \in Pubs : corrections[o] = p => o = t
    BY <1>1, <1>2, <1>6 DEF StoreOK, CorrectionBound
  <1>8. \A o \in Pubs : corrections'[o] = IF o = t THEN None ELSE corrections[o]
    BY <1>1, <1>3 DEF TypeInv, TypeOK
  <1> HIDE DEF t
  <1>9. \A o \in Pubs : corrections'[o] # p
    BY <1>6, <1>7, <1>8
  <1>10. ServerOK(s)'
    BY <1>1, <1>2, <1>4, <1>9 DEF ServerOK, Fresh, Publishing, Correcting, Revoking
  <1>11. CorrectionBound'
    BY <1>1, <1>5, <1>8 DEF StoreOK, CorrectionBound
  <1> QED BY <1>1, <1>10, <1>11 DEF StoreOK, Known, RevocationStays, destination, OneServer

\* Nothing names the record that is taken back.
LEMMA UndoRecordOK ==
    ASSUME IInv, NEW s \in Servers, OneServer, UndoRecord(s) PROVE StoreOK'
  <1> DEFINE p == server[s].pub
  <1>1. /\ TypeInv /\ StoreOK /\ ServerOK(s) /\ server[s].pc = "undo_record"
        /\ UNCHANGED <<requests, releases, corrections, revocations, destination, told>>
        /\ records' = records \ {p}
    BY DEF IInv, StoreOK, UndoRecord, At
  <1>2. Fresh(p) /\ \A t \in Pubs : corrections[t] # p
    BY <1>1 DEF ServerOK, Publishing
  <1>3. server'[s].pc = "undo_directory" /\ server'[s].pub = p
    BY <1>1, Goes DEF UndoRecord
  <1>4. \A o : Target(o)' = Target(o)
    BY <1>1, TargetStays
  <1>5. ServerOK(s)'
    BY <1>1, <1>2, <1>3 DEF ServerOK, Fresh, Publishing, Correcting, Revoking
  <1>6. Known'
    BY <1>1, <1>2 DEF StoreOK, Known, Fresh
  <1>7. ASSUME NEW t \in Pubs, corrections[t] # None
        PROVE  {t, corrections[t]} \subseteq records' /\ Target(corrections[t]) = t
    <2>1. {t, corrections[t]} \subseteq records /\ Target(corrections[t]) = t
      BY <1>1, <1>7 DEF StoreOK, CorrectionBound
    <2>2. corrections[t] \in Pubs /\ releases[corrections[t]] \in DOMAIN requests
      BY <1>1, <2>1, RequestTyped DEF TypeInv, TypeOK
    <2>3. t # p
      BY <1>2, <2>1, <2>2 DEF Fresh, Target, RequestOf
    <2> QED BY <1>1, <1>2, <2>1, <2>3
  <1>8. CorrectionBound'
    BY <1>1, <1>4, <1>7 DEF CorrectionBound
  <1> QED BY <1>1, <1>5, <1>6, <1>8 DEF StoreOK, RevocationStays, destination, OneServer

\* The directory that is taken back has no record, and was never revoked.
LEMMA UndoDirectoryOK ==
    ASSUME IInv, NEW s \in Servers, OneServer, UndoDirectory(s) PROVE StoreOK'
  <1> DEFINE p == server[s].pub
  <1>1. /\ TypeInv /\ StoreOK /\ ServerOK(s) /\ server[s].pc = "undo_directory"
        /\ UNCHANGED <<store, told>> /\ published' = published \ {p}
        /\ notices' = [notices EXCEPT ![p] = NoNotices] /\ Become(s, Idle)
    BY DEF IInv, StoreOK, UndoDirectory, At
  <1>2. Fresh(p) /\ p \notin records
    BY <1>1 DEF ServerOK, Publishing
  <1>3. \A o : Target(o)' = Target(o)
    BY <1>1, TargetStays DEF store
  <1>4. \A q \in Servers : ServerOK(q)'
    BY <1>1, Ends
  <1>5. RevocationStays'
    BY <1>1, <1>2 DEF StoreOK, RevocationStays, store, Fresh, TypeInv, TypeOK
  <1> QED BY <1>1, <1>2, <1>3, <1>4, <1>5 DEF StoreOK, Known, CorrectionBound, store

-----------------------------------------------------------------------------

LEMMA CheckRevocationOK ==
    ASSUME IInv, NEW s \in Servers, OneServer, CheckRevocation(s) PROVE StoreOK'
  <1>1. /\ TypeInv /\ StoreOK /\ ServerOK(s) /\ server[s].pc = "revoking"
        /\ UNCHANGED <<store, destination, told>>
    BY DEF IInv, StoreOK, CheckRevocation, At
  <1>2. CASE revocations[server[s].pub] = None
    <2>1. server'[s].pc = "signing" /\ server'[s].pub = server[s].pub
      BY <1>1, <1>2, Goes DEF CheckRevocation
    <2>2. ServerOK(s)'
      BY <1>1, <1>2, <2>1 DEF ServerOK, store, Publishing, Correcting, Revoking
    <2> QED BY <1>1, <2>2, QuietOK DEF OneServer, destination
  <1>3. CASE revocations[server[s].pub] # None
    BY <1>1, <1>3, Ends, QuietOK DEF CheckRevocation, destination
  <1> QED BY <1>2, <1>3

\* A revocation is signed where there was none, so none was reported.
LEMMA SaveRevocationOK ==
    ASSUME IInv, NEW s \in Servers, OneServer, SaveRevocation(s) PROVE StoreOK'
  <1> DEFINE p == server[s].pub
  <1>1. /\ TypeInv /\ StoreOK /\ ServerOK(s) /\ server[s].pc = "signing" /\ p \in Pubs
        /\ UNCHANGED <<requests, approvals, releases, records, corrections, destination, told>>
        /\ revocations' = [revocations EXCEPT ![p] = s]
    BY DEF IInv, StoreOK, SaveRevocation, At, TypeInv, ServerTyped, WorkOK
  <1>2. revocations[p] = None /\ p \in records
    BY <1>1 DEF ServerOK, Revoking
  <1>3. p \notin told
    BY <1>1, <1>2 DEF StoreOK, RevocationStays
  <1>4. server'[s].pc = "signed" /\ server'[s].pub = p
    BY <1>1, Goes DEF SaveRevocation
  <1>5. revocations'[p] = s /\ \A o \in Pubs \ {p} : revocations'[o] = revocations[o]
    BY <1>1 DEF TypeInv, TypeOK
  <1>6. ServerOK(s)'
    BY <1>1, <1>2, <1>3, <1>4, <1>5 DEF ServerOK, Publishing, Correcting, Revoking
  <1>7. \A o : Target(o)' = Target(o)
    BY <1>1, TargetStays
  <1>8. Known' /\ CorrectionBound'
    BY <1>1, <1>2, <1>5, <1>7 DEF StoreOK, Known, CorrectionBound
  <1>9. RevocationStays'
    BY <1>1, <1>3, <1>5 DEF StoreOK, RevocationStays, TypeInv, TypeOK, destination
  <1> QED BY <1>1, <1>6, <1>8, <1>9 DEF StoreOK, destination, OneServer

\* The authority is told what the record and the notice both say.
LEMMA RevocationNoticeOK ==
    ASSUME IInv, NEW s \in Servers, OneServer, RevocationNotice(s) PROVE StoreOK'
  <1> DEFINE p == server[s].pub
  <1>1. /\ TypeInv /\ StoreOK /\ ServerOK(s) /\ server[s].pc = "signed" /\ p \in Pubs
        /\ UNCHANGED <<store, staging, published>>
    BY DEF IInv, StoreOK, RevocationNotice, At, TypeInv, ServerTyped, WorkOK
  <1>2. revocations[p] = s /\ p \notin told /\ s # None
    BY <1>1, PublicationAssumption DEF ServerOK
  <1>3. CASE CanNotice(p, "revocation")
    <2>1. /\ notices' = [notices EXCEPT ![p].revocation = s] /\ Become(s, Idle)
          /\ told' = told \cup {p}
      BY <1>3 DEF RevocationNotice
    <2>2. /\ notices'[p].revocation = s
          /\ \A o \in Pubs \ {p} : notices'[o] = notices[o]
      BY <1>1, <2>1 DEF TypeInv, TypeOK
    <2>3. \A q \in Servers : ServerOK(q)'
      BY <1>1, <2>1, Ends
    <2>4. RevocationStays'
      BY <1>1, <1>2, <2>1, <2>2 DEF StoreOK, RevocationStays, store, TypeInv, TypeOK
    <2>5. \A o : Target(o)' = Target(o)
      BY <1>1, TargetStays DEF store
    <2> QED BY <1>1, <2>3, <2>4, <2>5 DEF StoreOK, Known, CorrectionBound, store
  <1>4. CASE ~ CanNotice(p, "revocation")
    <2>1. /\ server'[s].pc = "undo_revocation" /\ server'[s].pub = p
          /\ UNCHANGED <<notices, told>>
      BY <1>1, <1>4, Goes DEF RevocationNotice
    <2>2. ServerOK(s)'
      BY <1>1, <2>1 DEF ServerOK, store, Publishing, Correcting, Revoking
    <2> QED BY <1>1, <2>1, <2>2, QuietOK DEF OneServer
  <1> QED BY <1>3, <1>4

\* What is taken back was not reported.
LEMMA UndoRevocationOK ==
    ASSUME IInv, NEW s \in Servers, OneServer, UndoRevocation(s) PROVE StoreOK'
  <1> DEFINE p == server[s].pub
  <1>1. /\ TypeInv /\ StoreOK /\ ServerOK(s) /\ server[s].pc = "undo_revocation" /\ p \in Pubs
        /\ UNCHANGED <<requests, approvals, releases, records, corrections, destination, told>>
        /\ Become(s, Idle)
    BY DEF IInv, StoreOK, UndoRevocation, At, TypeInv, ServerTyped, WorkOK
  <1>2. revocations[p] = s /\ p \notin told
    BY <1>1 DEF ServerOK
  <1>3. \A o \in Pubs : revocations'[o] = IF o = p THEN None ELSE revocations[o]
    BY <1>1, <1>2 DEF UndoRevocation, TypeInv, TypeOK
  <1>4. \A q \in Servers : ServerOK(q)'
    BY <1>1, Ends
  <1>5. RevocationStays'
    BY <1>1, <1>2, <1>3 DEF StoreOK, RevocationStays, TypeInv, TypeOK, destination
  <1>6. \A o : Target(o)' = Target(o)
    BY <1>1, TargetStays
  <1>7. Known'
    BY <1>1, <1>3 DEF StoreOK, Known
  <1> QED BY <1>1, <1>4, <1>5, <1>6, <1>7 DEF StoreOK, CorrectionBound, destination

\* Recovery, crashes and reports touch no record; a repair writes no notice
\* over another.
LEMMA BesideOK ==
    ASSUME IInv, OneServer, NewReport \/ Recover \/ Crash \/ \E r \in repairs : Repair(r)
    PROVE  StoreOK'
  <1>1. CASE NewReport \/ Recover
    <2>1. UNCHANGED <<store, destination, server, told>>
      BY <1>1 DEF NewReport, Recover
    <2>2. \A o : Target(o)' = Target(o)
      BY <2>1, TargetStays DEF store
    <2>3. \A s \in Servers : ServerOK(s)'
      BY <2>1, <2>2 DEF IInv, StoreOK, ServerOK, store, destination, Fresh
    <2> QED BY <2>1, <2>3, QuietOK DEF destination
  <1>2. CASE Crash
    <2>1. UNCHANGED <<store, destination, told>>
      BY <1>2 DEF Crash
    <2>2. CASE UNCHANGED server
      <3>1. \A o : Target(o)' = Target(o)
        BY <2>1, TargetStays DEF store
      <3>2. \A s \in Servers : ServerOK(s)'
        BY <2>1, <2>2, <3>1 DEF IInv, StoreOK, ServerOK, store, destination, Fresh
      <3> QED BY <2>1, <3>2, QuietOK DEF destination
    <2>3. ASSUME NEW s \in Servers, Become(s, Idle)
          PROVE  StoreOK'
      <3>1. \A q \in Servers : ServerOK(q)'
        BY <2>3, Ends DEF IInv
      <3> QED BY <2>1, <3>1, QuietOK DEF destination
    <2> QED BY <1>2, <2>2, <2>3 DEF Crash
  <1>3. ASSUME NEW r \in repairs, Repair(r)
        PROVE  StoreOK'
    <2>1. UNCHANGED <<store, published, server, told>> /\ r \in Issues /\ TypeInv /\ StoreOK
      BY <1>3 DEF Repair, IInv, TypeInv
    <2>2. \A o : Target(o)' = Target(o)
      BY <2>1, TargetStays DEF store
    <2>3. \A s \in Servers : ServerOK(s)'
      BY <2>1, <2>2 DEF StoreOK, ServerOK, store, Fresh
    <2>4. ASSUME NEW o \in Pubs, notices[o].revocation # None
          PROVE  notices'[o].revocation = notices[o].revocation
      <3>1. CASE r \in [kind : {"correction"}, pub : Pubs, content : PubOrNone]
        BY <1>3, <2>1, <3>1 DEF Repair, TypeInv, TypeOK
      <3>2. CASE r \in [kind : {"revocation"}, pub : Pubs, content : RevocationOrNone]
        BY <1>3, <2>1, <2>4, <3>2 DEF Repair, TypeInv, TypeOK
      <3>3. CASE r.kind = "staging"
        BY <1>3, <3>3 DEF Repair
      <3> QED BY <2>1, <3>1, <3>2, <3>3 DEF Issues
    <2>5. RevocationStays'
      BY <2>1, <2>4 DEF StoreOK, RevocationStays, store, TypeInv, TypeOK
    <2> QED BY <2>1, <2>2, <2>3, <2>5 DEF StoreOK, Known, CorrectionBound, store
  <1> QED BY <1>1, <1>2, <1>3

LEMMA NextIInv == ASSUME OneServer PROVE IInv /\ [Next]_vars => IInv'
  <1> SUFFICES ASSUME IInv, [Next]_vars PROVE IInv'
    OBVIOUS
  <1>1. TypeInv'
    BY NextTyped DEF IInv
  <1>2. CASE UNCHANGED vars
    <2>1. \A o : Target(o)' = Target(o)
      BY <1>2, TargetStays DEF vars, store
    <2>2. \A s \in Servers : ServerOK(s)'
      BY <1>2, <2>1 DEF vars, store, destination, IInv, StoreOK, ServerOK, Fresh
    <2>3. StoreOK'
      BY <1>2, <2>2, QuietOK DEF vars, store, destination
    <2> QED BY <1>1, <2>3 DEF IInv
  <1>3. ASSUME NEW s \in Servers, Release(s)
        PROVE  StoreOK'
    BY <1>3, RequestReleaseOK, ApproveOK, PublishOK, RevokeOK DEF Release
  <1>4. ASSUME NEW s \in Servers, Step(s)
        PROVE  StoreOK'
    BY <1>4, PlaceOK, SavePublicationOK, CheckCorrectionOK, SaveCorrectionOK,
       CorrectionNoticeOK, UndoCorrectionOK, UndoRecordOK, UndoDirectoryOK,
       CheckRevocationOK, SaveRevocationOK, RevocationNoticeOK, UndoRevocationOK DEF Step
  <1>5. CASE NewReport \/ Recover \/ Crash \/ \E r \in repairs : Repair(r)
    BY <1>1, <1>5, BesideOK DEF IInv
  <1> QED BY <1>1, <1>2, <1>3, <1>4, <1>5 DEF Next, IInv

LEMMA InitIInv == Init => IInv
  <1> SUFFICES ASSUME Init PROVE IInv
    OBVIOUS
  <1>1. \A s \in Servers : server[s].pc = "idle"
    BY DEF Init, Idle
  <1>2. \A s \in Servers : ServerOK(s)
    BY <1>1 DEF ServerOK, Publishing, Correcting, Revoking
  <1> QED BY <1>2, InitTyped DEF Init, IInv, StoreOK, Known, CorrectionBound, RevocationStays

-----------------------------------------------------------------------------
(***************************************************************************)
(* The theorems about one server.                                          *)
(***************************************************************************)

THEOREM Invariance == ASSUME OneServer PROVE Spec => []IInv
  BY InitIInv, NextIInv, PTL DEF Spec

\* Every publication on record has its artifacts, in the middle of a publish
\* call, of a rollback and of a recovery, and after any crash
\* (PublicationService.publish moves the directory before it signs the record).
THEOREM ArtifactsStay == ASSUME OneServer PROVE Spec => []RecordHasArtifacts
  <1>1. IInv => RecordHasArtifacts
    BY DEF IInv, TypeInv, StoreOK, RecordHasArtifacts
  <1> QED BY Invariance, <1>1, PTL

\* A correction names a publication on record that was requested as the
\* correction of just that one: a rollback leaves no link behind.
THEOREM CorrectionsBound == ASSUME OneServer PROVE Spec => []CorrectionBound
  <1>1. IInv => CorrectionBound
    BY DEF IInv, StoreOK
  <1> QED BY Invariance, <1>1, PTL

\* A revocation that its authority was told of stays, in the store and beside
\* the artifacts, whatever recovery repairs at the same time.
THEOREM RevocationsStay == ASSUME OneServer PROVE Spec => []RevocationStays
  <1>1. IInv => RevocationStays
    BY DEF IInv, StoreOK
  <1> QED BY Invariance, <1>1, PTL

-----------------------------------------------------------------------------
(***************************************************************************)
(* Campaign.  A call acts on what it read when it began, so the invariant  *)
(* says of each call under way what is still true of what it read, and     *)
(* that is what grows: assignments are never replaced, decisions are only  *)
(* appended, attestations are never taken back.  Nothing stops a direct    *)
(* call that began early from adding a decision to a case or labelling it, *)
(* but the first two decisions stay what they are: a case that they and    *)
(* their attestations vouch for stays vouched for.                         *)
(***************************************************************************)

Notes == [scan : Scans, actor : People, role : {"primary", "adjudicator"}, outcome : Outcomes]
Row == [status : Statuses, approver : Admins \cup {Null}, manifest : SUBSET Apps]
Duty == [primary : SUBSET Reviewers, adjudicator : Adjudicators \cup {Null}]
Case == [decisions : Seq(Decision), adjudication : Decision \cup {Null}, label : Labels]

Manifest == [apps : SUBSET Apps, scans : SUBSET Scans,
             labels : UNION {[S -> Outcomes] : S \in SUBSET Scans}]

WriteState == [op : {"decide", "adjudicate", "attest"}, note : Notes, loaded : Labels,
               attests : BOOLEAN]

CallState ==
    {NoCall} \cup [op : {"register"}, app : Apps] \cup [op : {"replace"}, new : Row]
    \cup [op : {"link"}, scan : Scans] \cup [op : {"assign"}, scan : Scans, new : Duty]
    \cup WriteState \cup [op : {"label"}, scan : Scans, outcome : Outcomes]
    \cup [op : {"complete", "collect"}]
    \cup [op : {"release"}, new : Manifest]
    \cup [op : {"change"}, person : People, status : {"active", "disabled", "revoked"}]

\* Two reviewers and perhaps an adjudicator, four people with the campaign's own.
Proper(duty) ==
    /\ \E x, y \in duty.primary : x # y /\ duty.primary = {x, y}
    /\ duty.adjudicator \notin duty.primary
    /\ {Creator, Owner} \cap (duty.primary \cup {duty.adjudicator}) = {}

\* The first two decisions of a case disagree.
Split(c) == Len(c.decisions) >= 2 /\ c.decisions[1].outcome # c.decisions[2].outcome

\* Nobody decides twice, and only a dispute is adjudicated.
CaseOK(c) ==
    /\ \A i, j \in DOMAIN c.decisions : c.decisions[i].actor = c.decisions[j].actor => i = j
    /\ c.adjudication # Null => Split(c)

\* The labels that the decisions of a case may give it.  A third decision puts
\* an adjudicated case back to needs_review.
Deserved(c) ==
    IF Len(c.decisions) >= 2 /\ ~Split(c) THEN {c.decisions[1].outcome}
    ELSE {"needs_review"} \cup
         {o \in Outcomes : c.adjudication # Null /\ c.adjudication.outcome = o}

LabelOK(c) ==
    IF c.decisions = <<>> THEN c.label # "needs_review" ELSE c.label \in Deserved(c)

\* What the session of a decision or adjudication has loaded is no outcome, so
\* the outcome it computes is written.
LoadedOK(c) ==
    /\ c.loaded \notin Outcomes
    /\ c.loaded = "needs_review" => case[c.note.scan].decisions # <<>>

\* The first two decisions of a case, and its adjudication if they disagree,
\* are attested; their outcome.
Vouched(s) ==
    LET d == case[s].decisions  a == case[s].adjudication
    IN /\ Len(d) >= 2
       /\ Note(s, d[1].actor, "primary", d[1].outcome) \in attested
       /\ Note(s, d[2].actor, "primary", d[2].outcome) \in attested
       /\ Split(case[s]) =>
            a # Null /\ Note(s, a.actor, "adjudicator", a.outcome) \in attested
Verdict(c) == IF Split(c) THEN c.adjudication.outcome ELSE c.decisions[1].outcome

\* What the gate of the release leaves: every observation that is assigned is
\* vouched for, but for those assigned since.
Settled == \A s \in Scans : assignment[s] # Null => s \in unassessed \/ Vouched(s)

Reviewed(manifest) ==
    \A s \in DOMAIN manifest.labels : s \notin unassessed =>
        Vouched(s) /\ (s \notin mislabelled => manifest.labels[s] = Verdict(case[s]))

\* What a call has read and still holds when it writes.
CallOK(c) ==
    /\ c.op = "replace" => c.new.approver # Creator
    /\ c.op = "link" => AppOf[c.scan] \in apps
    /\ c.op = "assign" => c.scan \in scans /\ Proper(c.new)
    /\ c.op = "decide" /\ c.attests =>
         /\ c.note.role = "primary" /\ assignment[c.note.scan] # Null
         /\ c.note.actor \in assignment[c.note.scan].primary
    /\ c.op = "adjudicate" => Split(case[c.note.scan])
    /\ c.op = "adjudicate" /\ c.attests =>
         /\ c.note.role = "adjudicator" /\ assignment[c.note.scan] # Null
         /\ c.note.actor = assignment[c.note.scan].adjudicator
    /\ c.op \in {"decide", "adjudicate"} => c.note.scan \in mislabelled \/ LoadedOK(c)
    /\ c.op = "attest" => Earned(c.note)
    /\ c.op = "collect" => Settled
    /\ c.op = "release" => Reviewed(c.new)

CampaignInv ==
    /\ CampaignTypeOK
    /\ call \in [Procs -> CallState]
    /\ release \in Manifest \cup {Null}
    /\ campaign.approver # Creator
    /\ \A s \in Scans : assignment[s] # Null => Proper(assignment[s])
    /\ \A s \in Scans : CaseOK(case[s]) /\ (s \notin mislabelled => LabelOK(case[s]))
    /\ \A t \in attested : Earned(t)
    /\ \A p \in Procs : CallOK(call[p])
    /\ release # Null => Reviewed(release)

-----------------------------------------------------------------------------
(***************************************************************************)
(* Calls by their type.                                                    *)
(***************************************************************************)
LEMMA CallTypes ==
    ASSUME NEW c \in CallState
    PROVE  /\ c.op = "register" => c.app \in Apps
           /\ c.op = "replace" => c.new \in Row
           /\ c.op \in {"link", "assign", "label"} => c.scan \in Scans
           /\ c.op = "assign" => c.new \in Duty
           /\ c.op = "label" => c.outcome \in Outcomes
           /\ c.op \in {"decide", "adjudicate", "attest"} =>
                c \in WriteState /\ c.note \in Notes /\ c.note.scan \in Scans
           /\ c.op = "release" => c.new \in Manifest
           /\ c.op = "change" => /\ c.person \in People
                                 /\ c.status \in {"active", "disabled", "revoked"}
<1> USE NullAssumption
<1>1. CASE c = NoCall BY <1>1 DEF NoCall
<1>2. CASE c \in [op : {"register"}, app : Apps] BY <1>2
<1>3. CASE c \in [op : {"replace"}, new : Row] BY <1>3
<1>4. CASE c \in [op : {"link"}, scan : Scans] BY <1>4
<1>5. CASE c \in [op : {"assign"}, scan : Scans, new : Duty] BY <1>5
<1>6. CASE c \in WriteState
  <2>1. c.op \in {"decide", "adjudicate", "attest"} /\ c.note \in Notes
    BY <1>6 DEF WriteState
  <2> QED BY <1>6, <2>1 DEF Notes
<1>7. CASE c \in [op : {"label"}, scan : Scans, outcome : Outcomes] BY <1>7
<1>8. CASE c \in [op : {"complete", "collect"}] BY <1>8
<1>9. CASE c \in [op : {"release"}, new : Manifest] BY <1>9
<1>10. CASE c \in [op : {"change"}, person : People, status : {"active", "disabled", "revoked"}]
  BY <1>10
<1> QED BY <1>1, <1>2, <1>3, <1>4, <1>5, <1>6, <1>7, <1>8, <1>9, <1>10 DEF CallState

LEMMA NoCallOK == CallOK(NoCall) /\ NoCall \in CallState
BY NullAssumption DEF CallOK, NoCall, CallState

-----------------------------------------------------------------------------
(***************************************************************************)
(* Cases.                                                                  *)
(***************************************************************************)

\* A case is final once a dispute was adjudicated, or with two decisions that
\* agree and no adjudication.
LEMMA FinalMeans ==
    ASSUME NEW c \in Case
    PROVE  /\ Final(c) => \/ c.adjudication # Null
                          \/ /\ Len(c.decisions) = 2
                             /\ c.decisions[1].outcome = c.decisions[2].outcome
           /\ State(c) = "disputed" =>
                c.adjudication = Null /\ Len(c.decisions) = 2 /\ Split(c)
<1> DEFINE n == Len(c.decisions)
<1>0. n \in Nat BY DEF Case
<1>1. CASE c.adjudication # Null
  <2>1. State(c) = "adjudicated" BY <1>1 DEF State
  <2> QED BY <1>1, <2>1
<1>2. CASE c.adjudication = Null /\ n = 2
  <2>1. State(c) = IF c.decisions[1].outcome = c.decisions[2].outcome
                     THEN "consensus" ELSE "disputed"
    BY <1>2 DEF State
  <2> QED BY <1>2, <2>1 DEF Final, Split
<1>3. CASE c.adjudication = Null /\ n = 1
  <2>1. State(c) = "pending_second_review" BY <1>3 DEF State
  <2> QED BY <2>1 DEF Final
<1>4. CASE c.adjudication = Null /\ n \notin {1, 2}
  <2>1. State(c) = IF c.label \in Outcomes THEN "legacy_final" ELSE c.label
    BY <1>4 DEF State
  <2>2. c.label \in Outcomes \cup {"unreviewed", "needs_review"} BY DEF Case, Labels
  <2> QED BY <2>1, <2>2 DEF Final
<1> QED BY <1>1, <1>2, <1>3, <1>4

LEMMA CaseTyped == ASSUME CampaignInv, NEW s \in Scans PROVE case[s] \in Case
BY DEF CampaignInv, CampaignTypeOK, Case

\* What the gate of the release asks of a case: all of its decisions are
\* attested, and there are two that agree, or an adjudication.
LEMMA GateVouches ==
    ASSUME CampaignInv, NEW s \in Scans, AllAttested(s), Final(case[s])
    PROVE  Vouched(s)
<1> DEFINE d == case[s].decisions
           a == case[s].adjudication
<1>1. d \in Seq(Decision) /\ case[s] \in Case BY CaseTyped DEF Case
<1>2. Len(d) \in Nat /\ Len(d) >= 2 /\ DOMAIN d = 1..Len(d)
  BY <1>1, FinalMeans DEF CampaignInv, CaseOK, Split
<1>3. 1 \in DOMAIN d /\ 2 \in DOMAIN d BY <1>2
<1>4. /\ Note(s, d[1].actor, "primary", d[1].outcome) \in attested
      /\ Note(s, d[2].actor, "primary", d[2].outcome) \in attested
      /\ a # Null => Note(s, a.actor, "adjudicator", a.outcome) \in attested
  BY <1>3 DEF AllAttested
<1>5. Split(case[s]) => a # Null BY <1>1, FinalMeans DEF Split
<1> QED BY <1>2, <1>4, <1>5 DEF Vouched

\* A case only grows.
Later(new, old) ==
    /\ \A i \in DOMAIN old.decisions :
         i \in DOMAIN new.decisions /\ new.decisions[i] = old.decisions[i]
    /\ old.adjudication # Null => new.adjudication = old.adjudication

\* What two decisions are, they stay.
LEMMA SplitStays ==
    ASSUME NEW old \in Case, NEW new \in Case, Later(new, old), Len(old.decisions) >= 2
    PROVE  /\ Len(new.decisions) >= 2 /\ (Split(new) <=> Split(old))
           /\ new.decisions[1] = old.decisions[1] /\ new.decisions[2] = old.decisions[2]
<1>1. /\ old.decisions \in Seq(Decision) /\ new.decisions \in Seq(Decision) BY DEF Case
<1>2. 1 \in DOMAIN old.decisions /\ 2 \in DOMAIN old.decisions BY <1>1
<1>3. 1 \in DOMAIN new.decisions /\ 2 \in DOMAIN new.decisions BY <1>2 DEF Later
<1>4. new.decisions[1] = old.decisions[1] /\ new.decisions[2] = old.decisions[2]
  BY <1>2 DEF Later
<1>5. Len(new.decisions) >= 2 BY <1>1, <1>3
<1> QED BY <1>4, <1>5 DEF Split

-----------------------------------------------------------------------------
(***************************************************************************)
(* What no step takes back.                                                *)
(***************************************************************************)
Growth ==
    /\ \A s \in Scans : assignment[s] # Null => assignment'[s] = assignment[s]
    /\ (\E q \in Procs : call[q].op = "collect") =>
         \A s \in Scans : assignment'[s] = assignment[s] \/ s \in unassessed'
    /\ apps \subseteq apps' /\ scans \subseteq scans' /\ attested \subseteq attested'
    /\ unassessed \subseteq unassessed' /\ mislabelled \subseteq mislabelled'
    /\ \A s \in Scans : Later(case'[s], case[s])

LEMMA EarnedStays ==
    ASSUME CampaignInv, Growth, NEW t \in Notes, Earned(t)
    PROVE  Earned(t)'
<1>1. t.scan \in Scans BY DEF Notes
<1>2. assignment'[t.scan] = assignment[t.scan] /\ assignment[t.scan] # Null
  BY <1>1 DEF Growth, Earned
<1>3. Later(case'[t.scan], case[t.scan]) BY <1>1 DEF Growth
<1>4. CASE t.role = "primary"
  BY <1>2, <1>3, <1>4 DEF Earned, Later
<1>5. CASE t.role # "primary"
  <2>1. case[t.scan].adjudication = [actor |-> t.actor, outcome |-> t.outcome]
    BY <1>5 DEF Earned
  <2>2. case[t.scan].adjudication # Null BY <2>1, NullAssumption DEF Notes
  <2> QED BY <1>2, <1>3, <1>5, <2>1, <2>2 DEF Earned, Later
<1> QED BY <1>4, <1>5

LEMMA VouchedStays ==
    ASSUME CampaignInv, Growth, CampaignTypeOK', NEW s \in Scans, Vouched(s)
    PROVE  Vouched(s)' /\ Verdict(case'[s]) = Verdict(case[s])
<1>1. case[s] \in Case /\ case'[s] \in Case BY CaseTyped DEF CampaignTypeOK, Case
<1>2. Later(case'[s], case[s]) /\ attested \subseteq attested' BY DEF Growth
<1>3. Len(case[s].decisions) >= 2 BY DEF Vouched
<1>4. /\ Len(case'[s].decisions) >= 2 /\ (Split(case'[s]) <=> Split(case[s]))
      /\ case'[s].decisions[1] = case[s].decisions[1]
      /\ case'[s].decisions[2] = case[s].decisions[2]
  BY <1>1, <1>2, <1>3, SplitStays
<1>5. Split(case[s]) => case[s].adjudication # Null
                        /\ case'[s].adjudication = case[s].adjudication
  BY <1>2 DEF Vouched, Later
<1>6. /\ Note(s, case'[s].decisions[1].actor, "primary", case'[s].decisions[1].outcome)
           \in attested'
      /\ Note(s, case'[s].decisions[2].actor, "primary", case'[s].decisions[2].outcome)
           \in attested'
  BY <1>2, <1>4 DEF Vouched
<1>7. Split(case[s]) =>
        Note(s, case'[s].adjudication.actor, "adjudicator", case'[s].adjudication.outcome)
          \in attested'
  BY <1>2, <1>5 DEF Vouched
<1>8. Verdict(case'[s]) = Verdict(case[s]) BY <1>4, <1>5 DEF Verdict
<1>9. Vouched(s)' BY <1>4, <1>5, <1>6, <1>7 DEF Vouched, Split, Note
<1> QED BY <1>8, <1>9

LEMMA ReviewedStays ==
    ASSUME CampaignInv, Growth, CampaignTypeOK', NEW m \in Manifest, Reviewed(m)
    PROVE  Reviewed(m)'
<1> SUFFICES ASSUME NEW s \in DOMAIN m.labels, s \notin unassessed'
             PROVE  Vouched(s)' /\ (s \notin mislabelled' => m.labels[s] = Verdict(case'[s]))
  BY DEF Reviewed, Verdict, Split
<1>1. s \in Scans BY DEF Manifest
<1>2. s \notin unassessed /\ mislabelled \subseteq mislabelled' BY DEF Growth
<1>3. Vouched(s) /\ (s \notin mislabelled => m.labels[s] = Verdict(case[s]))
  BY <1>2 DEF Reviewed
<1> QED BY <1>1, <1>2, <1>3, VouchedStays

\* Once the gate was passed, only the assignments counted as unassessed are new.
LEMMA SettledStays ==
    ASSUME CampaignInv, Growth, CampaignTypeOK', Settled,
           \A s \in Scans : assignment'[s] = assignment[s] \/ s \in unassessed'
    PROVE  Settled'
<1> SUFFICES ASSUME NEW s \in Scans, assignment'[s] # Null, s \notin unassessed'
             PROVE  Vouched(s)'
  BY DEF Settled
<1>1. assignment'[s] = assignment[s] OBVIOUS
<1>2. s \notin unassessed BY DEF Growth
<1> QED BY <1>1, <1>2, VouchedStays DEF Settled

LEMMA LoadedStays ==
    ASSUME CampaignInv, Growth, CampaignTypeOK', NEW c \in WriteState, LoadedOK(c)
    PROVE  LoadedOK(c)'
<1> SUFFICES ASSUME c.loaded = "needs_review"
             PROVE  case'[c.note.scan].decisions # <<>>
  BY DEF LoadedOK
<1> DEFINE s == c.note.scan
<1>1. s \in Scans BY DEF WriteState, Notes
<1>2. case[s] \in Case /\ case'[s] \in Case /\ case[s].decisions # <<>>
  BY <1>1, CaseTyped DEF CampaignTypeOK, Case, LoadedOK
<1>3. 1 \in DOMAIN case[s].decisions BY <1>2 DEF Case
<1>4. 1 \in DOMAIN case'[s].decisions BY <1>1, <1>3 DEF Growth, Later
<1> QED BY <1>4

\* A call holds what it has read while others take their steps.
LEMMA HeldStays ==
    ASSUME CampaignInv, Growth, CampaignTypeOK', NEW c \in CallState, CallOK(c),
           c.op = "collect" =>
             \A s \in Scans : assignment'[s] = assignment[s] \/ s \in unassessed'
    PROVE  CallOK(c)'
<1>0. /\ c.op \in {"decide", "adjudicate", "attest"} =>
           c \in WriteState /\ c.note \in Notes /\ c.note.scan \in Scans
      /\ c.op \in {"link", "assign"} => c.scan \in Scans
      /\ c.op = "release" => c.new \in Manifest
  BY CallTypes
<1>1. c.op = "link" => AppOf[c.scan] \in apps' BY DEF CallOK, Growth
<1>2. c.op = "assign" => c.scan \in scans' /\ Proper(c.new) BY DEF CallOK, Growth
<1>3. c.op \in {"decide", "adjudicate"} /\ c.attests =>
        assignment[c.note.scan] # Null /\ assignment'[c.note.scan] = assignment[c.note.scan]
  BY <1>0 DEF CallOK, Growth
<1>4. ASSUME c.op = "adjudicate" PROVE Split(case'[c.note.scan])
  <2>1. c.note.scan \in Scans /\ Split(case[c.note.scan]) BY <1>0, <1>4 DEF CallOK
  <2>2. case[c.note.scan] \in Case /\ case'[c.note.scan] \in Case
    BY <2>1, CaseTyped DEF CampaignTypeOK, Case
  <2>3. Later(case'[c.note.scan], case[c.note.scan]) BY <2>1 DEF Growth
  <2>4. Len(case[c.note.scan].decisions) >= 2 BY <2>1 DEF Split
  <2> QED BY <2>1, <2>2, <2>3, <2>4, SplitStays
<1>5. c.op = "attest" => Earned(c.note)' BY <1>0, EarnedStays DEF CallOK
<1>6. c.op = "collect" => Settled' BY SettledStays DEF CallOK
<1>7. c.op = "release" => Reviewed(c.new)' BY <1>0, ReviewedStays DEF CallOK
<1>8. c.op \in {"decide", "adjudicate"} => c.note.scan \in mislabelled' \/ LoadedOK(c)'
  BY <1>0, LoadedStays DEF CallOK, Growth
<1>9. c.op = "decide" /\ c.attests =>
        /\ c.note.role = "primary" /\ assignment'[c.note.scan] # Null
        /\ c.note.actor \in assignment'[c.note.scan].primary
  BY <1>3 DEF CallOK
<1>10. c.op = "adjudicate" /\ c.attests =>
        /\ c.note.role = "adjudicator" /\ assignment'[c.note.scan] # Null
        /\ c.note.actor = assignment'[c.note.scan].adjudicator
  BY <1>3 DEF CallOK
<1>11. c.op = "adjudicate" => Split(case[c.note.scan])' BY <1>4 DEF Split
<1>12. c.op = "replace" => c.new.approver # Creator BY DEF CallOK
<1> QED BY <1>1, <1>2, <1>5, <1>6, <1>7, <1>8, <1>9, <1>10, <1>11, <1>12 DEF CallOK

\* What is left to show of a step: that it takes nothing back, and that what
\* it adds is in order.
LEMMA StepOK ==
    ASSUME CampaignInv, Growth, CampaignTypeOK', release' \in Manifest \cup {Null},
           call' \in [Procs -> CallState],
           campaign'.approver # Creator,
           \A s \in Scans : assignment'[s] = assignment[s] \/ Proper(assignment'[s]),
           \A s \in Scans : case'[s] = case[s] \/
             (CaseOK(case'[s]) /\ (s \notin mislabelled' => LabelOK(case'[s]))),
           \A t \in attested' : t \in attested \/ Earned(t)',
           \A p \in Procs : call'[p] = call[p] \/ CallOK(call[p])',
           release' = release \/ Reviewed(release)'
    PROVE  CampaignInv'
<1>1. \A s \in Scans : assignment'[s] # Null => Proper(assignment'[s]) BY DEF CampaignInv
<1>2. \A s \in Scans : CaseOK(case'[s]) /\ (s \notin mislabelled' => LabelOK(case'[s]))
  BY DEF CampaignInv, Growth
<1>3. ASSUME NEW t \in attested' PROVE Earned(t)'
  <2>1. t \in attested => t \in Notes /\ Earned(t) BY DEF CampaignInv, CampaignTypeOK, Notes
  <2> QED BY <2>1, EarnedStays
<1>4. ASSUME NEW p \in Procs PROVE CallOK(call[p])'
  <2>1. call[p] \in CallState /\ CallOK(call[p]) BY DEF CampaignInv
  <2>2. call[p].op = "collect" =>
          \A s \in Scans : assignment'[s] = assignment[s] \/ s \in unassessed'
    BY DEF Growth
  <2> QED BY <2>1, <2>2, HeldStays
<1>5. release' # Null => Reviewed(release)'
  <2> SUFFICES ASSUME release' = release, release # Null
               PROVE  Reviewed(release)'
    OBVIOUS
  <2>1. release \in Manifest /\ Reviewed(release) BY DEF CampaignInv
  <2> QED BY <2>1, ReviewedStays
<1>6. \A s \in Scans : CaseOK(case[s])' /\ (s \notin mislabelled' => LabelOK(case[s])')
  BY <1>2 DEF CaseOK, LabelOK, Deserved, Split
<1>7. \A s \in Scans : assignment'[s] # Null => Proper(assignment[s])' BY <1>1 DEF Proper
<1> QED BY <1>3, <1>4, <1>5, <1>6, <1>7 DEF CampaignInv

-----------------------------------------------------------------------------
(***************************************************************************)
(* Calls that begin.                                                       *)
(***************************************************************************)
LEMMA Counted ==
    ASSUME CampaignInv, Disturbed \/ UNCHANGED disturbances
    PROVE  disturbances' \in 0..MaxDisturbances
BY CampaignAssumption DEF CampaignInv, CampaignTypeOK, Disturbed

LEMMA CasesTheSame == ASSUME CampaignInv, NEW s \in Scans PROVE Later(case[s], case[s])
BY CaseTyped DEF Later, Case

\* A call begins, or goes on to its next write, and nothing else happens.
LEMMA CallStep ==
    ASSUME CampaignInv, NEW p \in Procs, NEW c \in CallState, CallOK(c),
           call' = [call EXCEPT ![p] = c],
           UNCHANGED <<governance, identity, authorized, case, mislabelled>>,
           disturbances' \in 0..MaxDisturbances
    PROVE  CampaignInv'
<1>1. call \in [Procs -> CallState] BY DEF CampaignInv
<1>2. CampaignTypeOK' BY DEF CampaignInv, CampaignTypeOK, governance
<1>3. Growth BY <1>1, CasesTheSame DEF Growth, governance
<1>4. CallOK(c)' BY <1>2, <1>3, HeldStays DEF governance
<1>5. \A q \in Procs : call'[q] = call[q] \/ CallOK(call[q])' BY <1>1, <1>4
<1>6. call' \in [Procs -> CallState] BY <1>1
<1> QED BY <1>2, <1>3, <1>5, <1>6, StepOK DEF CampaignInv, governance

LEMMA BeginOK ==
    ASSUME CampaignInv, NEW p \in Procs, NEW c \in CallState, Begin(p, c), CallOK(c)
    PROVE  CampaignInv'
BY Counted, CallStep DEF Begin, cases

LEMMA BeginRegisterOK ==
    ASSUME CampaignInv, NEW p \in Procs, NEW a \in Apps, BeginRegister(p, a)
    PROVE  CampaignInv'
<1> DEFINE c == [op |-> "register", app |-> a]
<1>1. c \in CallState /\ CallOK(c) BY DEF CallState, CallOK
<1> QED BY <1>1, BeginOK DEF BeginRegister

LEMMA BeginApproveOK ==
    ASSUME CampaignInv, NEW p \in Procs, NEW x \in Admins, BeginApprove(p, x)
    PROVE  CampaignInv'
<1> DEFINE new == [status |-> "approved", approver |-> x, manifest |-> apps]
           c == [op |-> "replace", new |-> new]
<1>1. new \in Row BY DEF Row, Statuses, CampaignInv, CampaignTypeOK
<1>2. c \in CallState BY <1>1 DEF CallState
<1>3. CallOK(c) BY DEF CallOK, BeginApprove, MayApprove
<1> QED BY <1>2, <1>3, BeginOK DEF BeginApprove

LEMMA BeginActivateOK ==
    ASSUME CampaignInv, NEW p \in Procs, NEW x \in Admins, BeginActivate(p, x)
    PROVE  CampaignInv'
<1> DEFINE new == [campaign EXCEPT !.status = "active"]
           c == [op |-> "replace", new |-> new]
<1>1. new \in Row /\ new.approver # Creator
  BY DEF Row, Statuses, CampaignInv, CampaignTypeOK
<1>2. c \in CallState BY <1>1 DEF CallState
<1>3. CallOK(c) BY <1>1 DEF CallOK
<1> QED BY <1>2, <1>3, BeginOK DEF BeginActivate

LEMMA BeginLinkOK ==
    ASSUME CampaignInv, NEW p \in Procs, NEW x \in Admins, NEW s \in Scans, BeginLink(p, x, s)
    PROVE  CampaignInv'
<1> DEFINE c == [op |-> "link", scan |-> s]
<1>1. c \in CallState BY DEF CallState
<1>2. CallOK(c) BY DEF CallOK, BeginLink, MayLink
<1> QED BY <1>1, <1>2, BeginOK DEF BeginLink

LEMMA BeginCompleteOK ==
    ASSUME CampaignInv, NEW p \in Procs, NEW x \in Admins, BeginComplete(p, x)
    PROVE  CampaignInv'
<1> DEFINE c == [op |-> "complete"]
<1>1. c \in CallState /\ CallOK(c) BY DEF CallState, CallOK
<1> QED BY <1>1, BeginOK DEF BeginComplete

\* The gate of the release.
LEMMA BeginReleaseOK ==
    ASSUME CampaignInv, NEW p \in Procs, NEW x \in Admins, BeginRelease(p, x)
    PROVE  CampaignInv'
<1> DEFINE c == [op |-> "collect"]
<1>1. c \in CallState BY DEF CallState
<1>2. \A s \in Scans : assignment[s] # Null => AllAttested(s) /\ Final(case[s])
  BY DEF BeginRelease, Ready
<1>3. Settled BY <1>2, GateVouches DEF Settled
<1>4. CallOK(c) BY <1>3 DEF CallOK
<1> QED BY <1>1, <1>4, BeginOK DEF BeginRelease

LEMMA BeginChangeOK ==
    ASSUME CampaignInv, NEW p \in Procs, NEW x \in Admins, NEW y \in People,
           NEW st \in {"active", "disabled", "revoked"}, BeginChange(p, x, y, st)
    PROVE  CampaignInv'
<1> DEFINE c == [op |-> "change", person |-> y, status |-> st]
<1>1. c \in CallState BY DEF CallState
<1>2. CallOK(c) BY DEF CallOK
<1> QED BY <1>1, <1>2, BeginOK DEF BeginChange

LEMMA BeginAssignOK ==
    ASSUME CampaignInv, NEW p \in Procs, NEW x \in Admins, NEW s \in Scans,
           NEW y \in Reviewers, NEW z \in Reviewers, NEW j \in Adjudicators \cup {Null},
           BeginAssign(p, x, s, y, z, j)
    PROVE  CampaignInv'
<1> DEFINE new == [primary |-> {y, z}, adjudicator |-> j]
           c == [op |-> "assign", scan |-> s, new |-> new]
<1>1. new \in Duty /\ c \in CallState BY DEF CallState, Duty
<1>2. /\ y # z /\ {y, z} \cap {Creator, Owner} = {}
      /\ j # Null => j \notin {y, z} /\ j \notin {Creator, Owner}
  BY DEF BeginAssign, MayBeAssigned
<1>3. j = Null => j \notin {y, z, Creator, Owner} BY NullAssumption, CampaignAssumption
<1>4. Proper(new) BY <1>2, <1>3 DEF Proper
<1>5. CallOK(c) BY <1>4 DEF CallOK, BeginAssign
<1> QED BY <1>1, <1>5, BeginOK DEF BeginAssign

\* A session that has loaded a case: unless a late label came before, it has
\* loaded no outcome.
LEMMA WritingOK ==
    ASSUME CampaignInv, NEW op \in {"decide", "adjudicate"}, NEW note \in Notes,
           NEW attests \in BOOLEAN,
           op = "decide" => \E x \in People : MayDecide(case[note.scan], x),
           op = "adjudicate" => \E x \in People : MayAdjudicate(case[note.scan], x)
    PROVE  LET c == Writing(op, note, attests)
           IN /\ c \in CallState
              /\ c.op = op /\ c.note = note /\ c.attests = attests
              /\ c.op = "adjudicate" => Split(case[note.scan])
              /\ note.scan \in mislabelled \/ LoadedOK(c)
<1> DEFINE c == Writing(op, note, attests)
           k == case[note.scan]
<1>1. note.scan \in Scans /\ k \in Case BY CaseTyped DEF Notes
<1>2. /\ c.op = op /\ c.note = note /\ c.attests = attests /\ c.loaded = k.label
      /\ k.label \in Labels
  BY <1>1 DEF Writing, Case
<1>3. c \in CallState BY <1>1 DEF Writing, CallState, WriteState, Case
<1>4. op = "adjudicate" => Split(k) /\ Len(k.decisions) = 2 /\ k.adjudication = Null
  BY <1>1, FinalMeans DEF MayAdjudicate
<1>5. note.scan \notin mislabelled => LabelOK(k) BY <1>1 DEF CampaignInv
<1>6. ASSUME note.scan \notin mislabelled PROVE LoadedOK(c)
  <2>1. CASE k.decisions = <<>>
    <3>1. op # "adjudicate"
      <4>1. Len(<<>>) = 0 OBVIOUS
      <4> QED BY <2>1, <1>4, <4>1
    <3>2. k.label \notin Outcomes BY <2>1, <3>1 DEF MayDecide
    <3>3. k.label # "needs_review" BY <2>1, <1>5, <1>6 DEF LabelOK
    <3> QED BY <3>2, <3>3, <1>2 DEF LoadedOK
  <2>2. CASE k.decisions # <<>>
    <3>1. k.label \in Deserved(k) BY <2>2, <1>5, <1>6 DEF LabelOK
    <3>2. k.adjudication = Null /\ ~(Len(k.decisions) >= 2 /\ ~Split(k))
      <4>1. CASE op = "decide"
        <5>1. k.adjudication = Null /\ Len(k.decisions) < 2 BY <4>1 DEF MayDecide
        <5>2. Len(k.decisions) \in Nat BY <1>1 DEF Case
        <5> QED BY <5>1, <5>2
      <4>2. CASE op = "adjudicate" BY <4>2, <1>4
      <4> QED BY <4>1, <4>2
    <3>3. k.label = "needs_review" BY <3>1, <3>2 DEF Deserved
    <3>4. k.label \notin Outcomes BY <3>3, CampaignAssumption
    <3> QED BY <2>2, <3>4, <1>2 DEF LoadedOK
  <2> QED BY <2>1, <2>2
<1> QED BY <1>2, <1>3, <1>4, <1>6

LEMMA NoteTyped ==
    ASSUME NEW s \in Scans, NEW x \in People, NEW r \in {"primary", "adjudicator"},
           NEW o \in Outcomes
    PROVE  /\ Note(s, x, r, o) \in Notes
           /\ Note(s, x, r, o).scan = s /\ Note(s, x, r, o).actor = x
           /\ Note(s, x, r, o).role = r
BY DEF Note, Notes

LEMMA BeginReviewOK ==
    ASSUME CampaignInv, NEW p \in Procs, NEW s \in Scans, NEW x \in People, NEW o \in Outcomes,
           BeginReview(p, s, x, o) \/ DecideDirectly(p, s, x, o)
    PROVE  CampaignInv'
<1> DEFINE n == Note(s, x, "primary", o)
<1>1. PICK attests \in BOOLEAN :
        /\ MayDecide(case[s], x) /\ Begin(p, Writing("decide", n, attests))
        /\ attests => assignment[s] # Null /\ x \in assignment[s].primary
  BY DEF BeginReview, DecideDirectly
<1>2. n \in Notes /\ n.scan = s /\ n.actor = x /\ n.role = "primary" BY NoteTyped
<1> HIDE DEF n
<1> DEFINE c == Writing("decide", n, attests)
<1>3. /\ c \in CallState /\ c.op = "decide" /\ c.note = n /\ c.attests = attests
      /\ s \in mislabelled \/ LoadedOK(c)
  BY <1>1, <1>2, WritingOK
<1> HIDE DEF c
<1>4. CallOK(c) BY <1>1, <1>2, <1>3 DEF CallOK
<1> QED BY <1>1, <1>3, <1>4, BeginOK DEF c

LEMMA BeginAdjudicateOK ==
    ASSUME CampaignInv, NEW p \in Procs, NEW s \in Scans, NEW x \in People, NEW o \in Outcomes,
           BeginAdjudicate(p, s, x, o) \/ AdjudicateDirectly(p, s, x, o)
    PROVE  CampaignInv'
<1> DEFINE n == Note(s, x, "adjudicator", o)
<1>1. PICK attests \in BOOLEAN :
        /\ MayAdjudicate(case[s], x) /\ Begin(p, Writing("adjudicate", n, attests))
        /\ attests => assignment[s] # Null /\ x = assignment[s].adjudicator
  BY DEF BeginAdjudicate, AdjudicateDirectly
<1>2. n \in Notes /\ n.scan = s /\ n.actor = x /\ n.role = "adjudicator" BY NoteTyped
<1> HIDE DEF n
<1> DEFINE c == Writing("adjudicate", n, attests)
<1>3. /\ c \in CallState /\ c.op = "adjudicate" /\ c.note = n /\ c.attests = attests
      /\ Split(case[s]) /\ (s \in mislabelled \/ LoadedOK(c))
  BY <1>1, <1>2, WritingOK
<1> HIDE DEF c
<1>4. CallOK(c) BY <1>1, <1>2, <1>3 DEF CallOK
<1> QED BY <1>1, <1>3, <1>4, BeginOK DEF c

LEMMA LabelDirectlyOK ==
    ASSUME CampaignInv, NEW p \in Procs, NEW s \in Scans, NEW o \in Outcomes,
           LabelDirectly(p, s, o)
    PROVE  CampaignInv'
<1> DEFINE c == [op |-> "label", scan |-> s, outcome |-> o]
<1>1. c \in CallState BY DEF CallState
<1>2. CallOK(c) BY DEF CallOK
<1> QED BY <1>1, <1>2, BeginOK DEF LabelDirectly

-----------------------------------------------------------------------------
(***************************************************************************)
(* Writes.                                                                 *)
(***************************************************************************)

\* The call that ends leaves the others alone.
LEMMA Ended ==
    ASSUME CampaignInv, NEW p \in Procs, Done(p)
    PROVE  /\ call' \in [Procs -> CallState]
           /\ \A q \in Procs : call'[q] = call[q] \/ CallOK(call[q])'
<1>1. call' = [call EXCEPT ![p] = NoCall] /\ call \in [Procs -> CallState]
  BY DEF Done, CampaignInv
<1>2. call'[p] = NoCall /\ \A q \in Procs \ {p} : call'[q] = call[q] BY <1>1
<1>3. CallOK(call[p])' BY <1>2, NullAssumption DEF CallOK, NoCall
<1> QED BY <1>1, <1>2, <1>3, NoCallOK

LEMMA RegisterOK == ASSUME CampaignInv, NEW p \in Procs, Register(p) PROVE CampaignInv'
<1>1. call[p] \in CallState /\ call[p].app \in Apps
  BY CallTypes DEF CampaignInv, Register, Doing
<1>2. /\ Done(p) /\ apps' = apps \cup {call[p].app}
      /\ UNCHANGED <<campaign, unassessed, scans, assignment, attested, release, identity,
                     authorized, case, mislabelled, disturbances>>
  BY DEF Register, cases
<1>3. CampaignTypeOK' BY <1>1, <1>2 DEF CampaignInv, CampaignTypeOK
<1>4. Growth BY <1>2, Ended, CasesTheSame DEF Growth
<1> QED BY <1>2, <1>3, <1>4, Ended, StepOK DEF CampaignInv

LEMMA ReplaceOK == ASSUME CampaignInv, NEW p \in Procs, Replace(p) PROVE CampaignInv'
<1>1. call[p] \in CallState /\ call[p].new \in Row /\ call[p].new.approver # Creator
  BY CallTypes DEF CampaignInv, CallOK, Replace, Doing
<1>2. /\ Done(p) /\ campaign' = call[p].new
      /\ UNCHANGED <<unassessed, apps, scans, assignment, attested, release, identity,
                     authorized, case, mislabelled, disturbances>>
  BY DEF Replace, cases
<1>3. CampaignTypeOK' BY <1>1, <1>2 DEF CampaignInv, CampaignTypeOK, Row
<1>4. Growth BY <1>2, Ended, CasesTheSame DEF Growth
<1> QED BY <1>1, <1>2, <1>3, <1>4, Ended, StepOK DEF CampaignInv

LEMMA LinkOK == ASSUME CampaignInv, NEW p \in Procs, Link(p) PROVE CampaignInv'
<1>1. call[p] \in CallState /\ call[p].scan \in Scans /\ AppOf[call[p].scan] \in apps
  BY CallTypes DEF CampaignInv, CallOK, Link, Doing
<1>2. /\ Done(p) /\ scans' = scans \cup {call[p].scan}
      /\ UNCHANGED <<campaign, unassessed, apps, assignment, attested, release, identity,
                     authorized, case, mislabelled, disturbances>>
  BY DEF Link, cases
<1>3. CampaignTypeOK' BY <1>1, <1>2 DEF CampaignInv, CampaignTypeOK
<1>4. Growth BY <1>2, Ended, CasesTheSame DEF Growth
<1> QED BY <1>2, <1>3, <1>4, Ended, StepOK DEF CampaignInv

LEMMA AssignOK == ASSUME CampaignInv, NEW p \in Procs, Assign(p) PROVE CampaignInv'
<1> DEFINE s == call[p].scan
<1>1. /\ call[p] \in CallState /\ s \in Scans /\ s \in scans
      /\ call[p].new \in Duty /\ Proper(call[p].new) /\ call[p].op = "assign"
  BY CallTypes DEF CampaignInv, CallOK, Assign, Doing
<1>2. /\ Done(p)
      /\ assignment' = IF assignment[s] = Null THEN [assignment EXCEPT ![s] = call[p].new]
                                               ELSE assignment
      /\ unassessed' = IF assignment' # assignment /\ \E q \in Procs : Doing(q, "collect")
                          THEN unassessed \cup {s} ELSE unassessed
      /\ UNCHANGED <<campaign, apps, scans, attested, release, identity,
                     authorized, case, mislabelled, disturbances>>
  BY DEF Assign, cases
<1>3. assignment \in [Scans -> Duty \cup {Null}] BY DEF CampaignInv, CampaignTypeOK, Duty
<1>4. \A t \in Scans : assignment'[t] # assignment[t] =>
        t = s /\ assignment[t] = Null /\ assignment'[t] = call[p].new
  BY <1>1, <1>2, <1>3
<1>5. CampaignTypeOK'
  <2>1. assignment' \in [Scans -> Duty \cup {Null}] BY <1>1, <1>2, <1>3
  <2>2. \A t \in Scans : assignment'[t] # Null => t \in scans'
    BY <1>1, <1>2, <1>4 DEF CampaignInv, CampaignTypeOK
  <2>3. unassessed' \subseteq Scans BY <1>1, <1>2 DEF CampaignInv, CampaignTypeOK
  <2> QED BY <1>2, <2>1, <2>2, <2>3 DEF CampaignInv, CampaignTypeOK, Duty
<1>6. ASSUME NEW q \in Procs, call[q].op = "collect", NEW t \in Scans
      PROVE  assignment'[t] = assignment[t] \/ t \in unassessed'
  <2> SUFFICES ASSUME assignment'[t] # assignment[t] PROVE t \in unassessed' OBVIOUS
  <2>1. t = s BY <1>4
  <2>2. unassessed' = unassessed \cup {s} BY <1>2, <1>6 DEF Doing
  <2> QED BY <2>1, <2>2
<1>7. Growth BY <1>2, <1>4, <1>6, CasesTheSame DEF Growth
<1>8. \A t \in Scans : assignment'[t] = assignment[t] \/ Proper(assignment'[t])
  BY <1>1, <1>4
<1> QED BY <1>2, <1>5, <1>7, <1>8, Ended, StepOK DEF CampaignInv

LEMMA CreateReleaseOK == ASSUME CampaignInv, NEW p \in Procs, CreateRelease(p) PROVE CampaignInv'
<1>1. call[p] \in CallState /\ call[p].new \in Manifest /\ Reviewed(call[p].new)
  BY CallTypes DEF CampaignInv, CallOK, CreateRelease, Doing
<1>2. /\ Done(p) /\ release' = IF release = Null THEN call[p].new ELSE release
      /\ UNCHANGED <<campaign, unassessed, apps, scans, assignment, attested, identity,
                     authorized, case, mislabelled, disturbances>>
  BY DEF CreateRelease, cases
<1>3. CampaignTypeOK' BY <1>2 DEF CampaignInv, CampaignTypeOK
<1>4. Growth BY <1>2, CasesTheSame DEF Growth
<1>5. ASSUME release' = call[p].new PROVE Reviewed(release)'
  <2>1. \A m \in Manifest : m = call[p].new => Reviewed(m)'
    BY <1>1, <1>3, <1>4, ReviewedStays
  <2>2. release' \in Manifest BY <1>1, <1>5
  <2> QED BY <1>5, <1>1, <2>1 DEF Reviewed
<1>6. release' \in Manifest \cup {Null} BY <1>1, <1>2 DEF CampaignInv
<1> QED BY <1>2, <1>3, <1>4, <1>5, <1>6, Ended, StepOK DEF CampaignInv

LEMMA CompleteOK == ASSUME CampaignInv, NEW p \in Procs, Complete(p) PROVE CampaignInv'
<1> DEFINE c == [op |-> "replace", new |-> [campaign EXCEPT !.status = "completed"]]
<1>1. /\ call' = [call EXCEPT ![p] = c]
      /\ UNCHANGED <<governance, identity, authorized, case, mislabelled, disturbances>>
  BY DEF Complete, cases
<1>2. c \in CallState /\ CallOK(c)
  <2>1. /\ [campaign EXCEPT !.status = "completed"] \in Row
        /\ [campaign EXCEPT !.status = "completed"].approver # Creator
    BY DEF Row, Statuses, CampaignInv, CampaignTypeOK
  <2> QED BY <2>1 DEF CallState, CallOK
<1>3. disturbances' \in 0..MaxDisturbances BY <1>1 DEF CampaignInv, CampaignTypeOK
<1> HIDE DEF c
<1> QED BY <1>1, <1>2, <1>3, CallStep

\* What is listed is what the gate let through, with the label of its verdict.
LEMMA CollectOK == ASSUME CampaignInv, NEW p \in Procs, Collect(p) PROVE CampaignInv'
<1> DEFINE assigned == {s \in Scans : assignment[s] # Null}
           labels == [s \in assigned |-> case[s].label]
           new == [apps |-> apps, scans |-> scans, labels |-> labels]
           c == [op |-> "release", new |-> new]
<1>1. /\ UNCHANGED <<governance, identity, authorized, case, mislabelled, disturbances>>
      /\ \/ Done(p)
         \/ call' = [call EXCEPT ![p] = c] /\ \A s \in assigned : labels[s] \in Outcomes
  BY DEF Collect, cases
<1>2. CampaignTypeOK' BY <1>1 DEF CampaignInv, CampaignTypeOK, governance
<1>3. CASE Done(p)
  <2>1. Growth BY <1>1, <1>3, Ended, CasesTheSame DEF Growth, governance
  <2> QED BY <1>1, <1>2, <1>3, <2>1, Ended, StepOK DEF CampaignInv, governance
<1>4. CASE call' = [call EXCEPT ![p] = c] /\ \A s \in assigned : labels[s] \in Outcomes
  <2>1. new \in Manifest
    <3>1. labels \in [assigned -> Outcomes] /\ assigned \in SUBSET Scans BY <1>4
    <3>2. labels \in UNION {[S -> Outcomes] : S \in SUBSET Scans} BY <3>1
    <3> HIDE DEF labels, assigned
    <3> QED BY <3>2 DEF Manifest, CampaignInv, CampaignTypeOK
  <2>2. Reviewed(new)
    <3> SUFFICES ASSUME NEW s \in assigned, s \notin unassessed
                 PROVE  Vouched(s) /\ (s \notin mislabelled => labels[s] = Verdict(case[s]))
      BY DEF Reviewed
    <3>1. Settled BY DEF CampaignInv, CallOK, Collect, Doing
    <3>2. s \in Scans /\ Vouched(s) BY <3>1 DEF Settled
    <3>3. labels[s] = case[s].label /\ case[s].label \in Outcomes BY <1>4
    <3>4. ASSUME s \notin mislabelled PROVE case[s].label = Verdict(case[s])
      <4>1. Len(case[s].decisions) >= 2 BY <3>2 DEF Vouched
      <4>2. case[s].decisions # <<>>
        <5>1. Len(<<>>) = 0 OBVIOUS
        <5> QED BY <4>1, <5>1
      <4>3. case[s].label \in Deserved(case[s])
        BY <3>2, <3>4, <4>2 DEF CampaignInv, LabelOK
      <4>4. case[s].label # "needs_review" BY <3>3, CampaignAssumption
      <4> QED BY <4>1, <4>3, <4>4 DEF Deserved, Verdict
    <3> QED BY <3>2, <3>3, <3>4
  <2>3. c \in CallState BY <2>1 DEF CallState
  <2>4. CallOK(c) BY <2>2 DEF CallOK
  <2>5. disturbances' \in 0..MaxDisturbances BY <1>1 DEF CampaignInv, CampaignTypeOK
  <2> HIDE DEF c
  <2> QED BY <1>1, <1>4, <2>3, <2>4, <2>5, CallStep
<1> QED BY <1>1, <1>3, <1>4

LEMMA ChangeOK == ASSUME CampaignInv, NEW p \in Procs, Change(p) PROVE CampaignInv'
<1>1. /\ call[p] \in CallState /\ call[p].person \in People
      /\ call[p].status \in {"active", "disabled", "revoked"}
  BY CallTypes DEF CampaignInv, Change, Doing
<1>2. /\ Done(p) /\ identity' = [identity EXCEPT ![call[p].person] = call[p].status]
      /\ UNCHANGED <<governance, authorized, case, mislabelled>> /\ Disturbed
  BY DEF Change, cases
<1>3. CampaignTypeOK'
  BY <1>1, <1>2, Counted DEF CampaignInv, CampaignTypeOK, governance
<1>4. Growth BY <1>2, Ended, CasesTheSame DEF Growth, governance
<1> QED BY <1>2, <1>3, <1>4, Ended, StepOK DEF CampaignInv, governance

LEMMA AuthorizationEndsOK ==
    ASSUME CampaignInv, NEW a \in Apps, AuthorizationEnds(a)
    PROVE  CampaignInv'
<1>1. /\ authorized' = [authorized EXCEPT ![a] = FALSE]
      /\ UNCHANGED <<governance, identity, case, mislabelled, call>> /\ Disturbed
  BY DEF AuthorizationEnds, cases
<1>2. CampaignTypeOK' BY <1>1, Counted DEF CampaignInv, CampaignTypeOK, governance
<1>3. Growth BY <1>1, CasesTheSame DEF Growth, governance
<1> QED BY <1>1, <1>2, <1>3, StepOK DEF CampaignInv, governance

LEMMA LoseOK == ASSUME CampaignInv, NEW p \in Procs, Lose(p) PROVE CampaignInv'
<1>1. Done(p) /\ UNCHANGED <<governance, identity, authorized, case, mislabelled>> /\ Disturbed
  BY DEF Lose, cases
<1>2. CampaignTypeOK' BY <1>1, Counted DEF CampaignInv, CampaignTypeOK, governance
<1>3. Growth BY <1>1, Ended, CasesTheSame DEF Growth, governance
<1> QED BY <1>1, <1>2, <1>3, Ended, StepOK DEF CampaignInv, governance

LEMMA AttestOK == ASSUME CampaignInv, NEW p \in Procs, Attest(p) PROVE CampaignInv'
<1>1. call[p] \in CallState /\ call[p].note \in Notes /\ Earned(call[p].note)
  BY CallTypes DEF CampaignInv, CallOK, Attest, Doing
<1>2. /\ Done(p) /\ attested' = attested \cup {call[p].note}
      /\ UNCHANGED <<campaign, unassessed, apps, scans, assignment, release, identity,
                     authorized, case, mislabelled, disturbances>>
  BY DEF Attest, cases
<1>3. CampaignTypeOK' BY <1>1, <1>2 DEF CampaignInv, CampaignTypeOK, Notes
<1>4. Growth BY <1>2, Ended, CasesTheSame DEF Growth
<1>5. \A t \in attested' : t \in attested \/ Earned(t)' BY <1>1, <1>2, <1>4, EarnedStays
<1> QED BY <1>2, <1>3, <1>4, <1>5, Ended, StepOK DEF CampaignInv

-----------------------------------------------------------------------------
(***************************************************************************)
(* Steps of a review case.                                                 *)
(***************************************************************************)
LEMMA DecidedOK ==
    ASSUME NEW c \in Case, CaseOK(c), NEW x \in People, NEW o \in Outcomes, NEW l \in Labels,
           \A i \in DOMAIN c.decisions : c.decisions[i].actor # x
    PROVE  /\ Decided(c, x, o, l) \in Case /\ CaseOK(Decided(c, x, o, l))
           /\ Later(Decided(c, x, o, l), c)
           /\ \E i \in DOMAIN Decided(c, x, o, l).decisions :
                Decided(c, x, o, l).decisions[i] = [actor |-> x, outcome |-> o]
           /\ LabelOK(c) /\ l \notin Outcomes
                /\ (l = "needs_review" => c.decisions # <<>>)
              => LabelOK(Decided(c, x, o, l))
<1> DEFINE e == [actor |-> x, outcome |-> o]
           d == Append(c.decisions, e)
           computed == IF Len(d) > 1 /\ d[1].outcome = d[2].outcome
                         THEN d[1].outcome ELSE "needs_review"
           label == Labelled(c, l, computed)
           new == Decided(c, x, o, l)
<1>1. c.decisions \in Seq(Decision) /\ e \in Decision BY DEF Case, Decision
<1>2. /\ d \in Seq(Decision) /\ Len(d) = Len(c.decisions) + 1
      /\ DOMAIN d = 1..Len(d) /\ DOMAIN c.decisions = 1..Len(c.decisions)
      /\ d[Len(d)] = e /\ \A i \in 1..Len(c.decisions) : d[i] = c.decisions[i]
      /\ Len(c.decisions) \in Nat /\ Len(d) \in Nat
  BY <1>1
<1>3. /\ new.decisions = d /\ new.adjudication = c.adjudication /\ new.label = label
      /\ new \in [decisions : {d}, adjudication : {c.adjudication}, label : {label}]
  BY DEF Decided, Case
<1> HIDE DEF d, e, new
<1>4. computed \in Labels
  <2>1. Len(d) > 1 => 1 \in DOMAIN d BY <1>2
  <2>2. Len(d) > 1 => d[1] \in Decision BY <2>1, <1>2
  <2> QED BY <2>2 DEF Labels, Decision
<1>5. label \in Labels BY <1>4 DEF Labelled, Case
<1> HIDE DEF label
<1>6. new \in Case BY <1>2, <1>3, <1>5 DEF Case
<1>7. Later(new, c) BY <1>2, <1>3 DEF Later
<1>8. ASSUME NEW i \in DOMAIN d, NEW j \in DOMAIN d, d[i].actor = d[j].actor PROVE i = j
  <2>1. e.actor = x BY DEF e
  <2>2. i \in DOMAIN c.decisions \/ i = Len(d) BY <1>2
  <2>3. j \in DOMAIN c.decisions \/ j = Len(d) BY <1>2
  <2> QED BY <1>2, <1>8, <2>1, <2>2, <2>3 DEF CaseOK
<1>9. new.adjudication # Null => Split(new)
  <2>1. Split(c) => Len(c.decisions) >= 2 BY DEF Split
  <2> QED BY <1>3, <1>6, <1>7, <2>1, SplitStays DEF CaseOK
<1>10. CaseOK(new) BY <1>3, <1>8, <1>9 DEF CaseOK
<1>11. new.decisions[Len(d)] = e /\ Len(d) \in DOMAIN new.decisions BY <1>2, <1>3
<1>12. ASSUME LabelOK(c), l \notin Outcomes, l = "needs_review" => c.decisions # <<>>
       PROVE  LabelOK(new)
  <2>1. d # <<>>
    <3>1. Len(<<>>) = 0 /\ Len(d) >= 1 BY <1>2
    <3> QED BY <3>1
  <2>2. SUFFICES label \in Deserved(new) BY <1>3, <2>1 DEF LabelOK
  <2>3. CASE Len(d) > 1 /\ d[1].outcome = d[2].outcome
    <3>1. computed = d[1].outcome BY <2>3
    <3>2. 1 \in DOMAIN d BY <1>2, <2>3
    <3>3. d[1].outcome \in Outcomes
      <4>1. d[1] \in Decision BY <1>2, <3>2
      <4> QED BY <4>1 DEF Decision
    <3>4. label = d[1].outcome BY <3>1, <3>3, <1>12 DEF label, Labelled
    <3>5. Len(d) >= 2 /\ ~Split(new) BY <1>2, <1>3, <2>3 DEF Split
    <3> QED BY <1>3, <3>4, <3>5 DEF Deserved
  <2>4. CASE ~(Len(d) > 1 /\ d[1].outcome = d[2].outcome)
    <3>1. computed = "needs_review" BY <2>4
    <3>2. ~(Len(d) >= 2 /\ ~Split(new)) BY <1>2, <1>3, <2>4 DEF Split
    <3>3. CASE l # "needs_review"
      <4>1. label = "needs_review" BY <3>1, <3>3 DEF label, Labelled
      <4> QED BY <1>3, <3>2, <4>1 DEF Deserved
    <3>4. CASE l = "needs_review"
      <4>1. label = c.label /\ c.decisions # <<>> BY <3>1, <3>4, <1>12 DEF label, Labelled
      <4>2. c.label \in Deserved(c) BY <4>1, <1>12 DEF LabelOK
      <4>3. ~(Len(c.decisions) >= 2 /\ ~Split(c))
        <5> SUFFICES ASSUME Len(c.decisions) >= 2 PROVE Split(c) OBVIOUS
        <5>1. Len(d) >= 2 /\ (Split(new) <=> Split(c)) BY <1>3, <1>6, <1>7, SplitStays
        <5> QED BY <3>2, <5>1
      <4>4. Deserved(c) = Deserved(new) BY <1>3, <3>2, <4>3 DEF Deserved
      <4> QED BY <4>1, <4>2, <4>4
    <3> QED BY <3>3, <3>4
  <2> QED BY <2>3, <2>4
<1> QED BY <1>6, <1>7, <1>10, <1>11, <1>12 DEF new, e

LEMMA AdjudicatedOK ==
    ASSUME NEW c \in Case, CaseOK(c), Split(c), c.adjudication = Null,
           NEW x \in People, NEW o \in Outcomes, NEW l \in Labels
    PROVE  /\ Adjudicated(c, x, o, l) \in Case /\ CaseOK(Adjudicated(c, x, o, l))
           /\ Later(Adjudicated(c, x, o, l), c)
           /\ Adjudicated(c, x, o, l).adjudication = [actor |-> x, outcome |-> o]
           /\ l \notin Outcomes => LabelOK(Adjudicated(c, x, o, l))
<1> DEFINE e == [actor |-> x, outcome |-> o]
           label == Labelled(c, l, o)
           new == Adjudicated(c, x, o, l)
<1>1. /\ new.decisions = c.decisions /\ new.adjudication = e /\ new.label = label
      /\ new \in [decisions : {c.decisions}, adjudication : {e}, label : {label}]
  BY DEF Adjudicated, Case
<1>2. e \in Decision /\ label \in Labels /\ e.outcome = o
  BY DEF Decision, Labels, Labelled, Case
<1>3. new \in Case BY <1>1, <1>2 DEF Case
<1>4. Later(new, c) BY <1>1 DEF Later, Case
<1>5. Split(new) BY <1>1 DEF Split
<1>6. CaseOK(new) BY <1>1, <1>5 DEF CaseOK
<1>7. ASSUME l \notin Outcomes PROVE LabelOK(new)
  <2>1. new.label = o BY <1>1, <1>7 DEF Labelled
  <2>2. new.decisions # <<>>
    <3>1. Len(<<>>) = 0 /\ Len(new.decisions) >= 2 BY <1>5 DEF Split
    <3> QED BY <3>1
  <2>3. new.adjudication # Null BY <1>1, NullAssumption
  <2>4. o \in Deserved(new) BY <1>1, <1>2, <1>5, <2>3 DEF Deserved
  <2> QED BY <2>1, <2>2, <2>4 DEF LabelOK
<1> QED BY <1>1, <1>3, <1>4, <1>6, <1>7

\* One case takes a step.
LEMMA CaseStep ==
    ASSUME CampaignInv, NEW s \in Scans, NEW new \in Case, CaseOK(new), Later(new, case[s]),
           case' = [case EXCEPT ![s] = new], s \notin mislabelled' => LabelOK(new),
           mislabelled \subseteq mislabelled', mislabelled' \subseteq Scans,
           UNCHANGED <<governance, identity, authorized, disturbances>>
    PROVE  /\ CampaignTypeOK' /\ Growth
           /\ \A t \in Scans : case'[t] = case[t] \/
                (CaseOK(case'[t]) /\ (t \notin mislabelled' => LabelOK(case'[t])))
<1>1. case \in [Scans -> Case] BY DEF CampaignInv, CampaignTypeOK, Case
<1>2. case'[s] = new /\ \A t \in Scans \ {s} : case'[t] = case[t] BY <1>1
<1>3. case' \in [Scans -> Case] BY <1>1
<1>4. CampaignTypeOK' BY <1>3 DEF CampaignInv, CampaignTypeOK, governance, Case
<1>5. Growth BY <1>2, CasesTheSame DEF Growth, governance
<1> QED BY <1>2, <1>4, <1>5

\* What a call has to write of a case was written: it is attested next, unless
\* the call is a direct one.
LEMMA WrittenOK ==
    ASSUME CampaignInv, NEW p \in Procs, call[p] \in WriteState, AfterWrite(p),
           \A m \in Notes : m = call[p].note /\ call[p].attests => Earned(m)'
    PROVE  /\ call' \in [Procs -> CallState]
           /\ \A q \in Procs : call'[q] = call[q] \/ CallOK(call[q])'
<1>1. CASE ~call[p].attests BY <1>1, Ended DEF AfterWrite
<1>2. CASE call[p].attests
  <2> DEFINE n == call[p].note
             more == [call[p] EXCEPT !.op = "attest"]
  <2>1. more \in CallState /\ more.op = "attest" /\ more.note = n
    BY DEF CallState, WriteState
  <2> HIDE DEF more
  <2>2. /\ call' \in [Procs -> CallState] /\ call'[p] = more
        /\ \A q \in Procs \ {p} : call'[q] = call[q]
    BY <1>2, <2>1 DEF CampaignInv, AfterWrite, more
  <2>3. \A m \in Notes : m = n => Earned(m)' BY <1>2
  <2>4. n \in Notes BY DEF WriteState
  <2>5. CallOK(call[p])' BY <2>1, <2>2, <2>3, <2>4 DEF CallOK
  <2> QED BY <2>2, <2>5
<1> QED BY <1>1, <1>2

LEMMA DecideOK == ASSUME CampaignInv, NEW p \in Procs, Decide(p) PROVE CampaignInv'
<1> DEFINE n == call[p].note
           l == call[p].loaded
           c == case[n.scan]
<1>1. /\ call[p] \in WriteState /\ n \in Notes /\ n.scan \in Scans /\ call[p].op = "decide"
      /\ n.scan \in mislabelled \/ LoadedOK(call[p])
      /\ call[p].attests => /\ n.role = "primary" /\ assignment[n.scan] # Null
                            /\ n.actor \in assignment[n.scan].primary
  BY CallTypes DEF CampaignInv, CallOK, Decide, Doing
<1>2. n.actor \in People /\ n.outcome \in Outcomes /\ c \in Case /\ l \in Labels
  BY <1>1, CaseTyped DEF Notes, WriteState
<1>3. CASE \E i \in DOMAIN c.decisions : c.decisions[i].actor = n.actor
  <2>1. /\ Done(p)
        /\ UNCHANGED <<governance, identity, authorized, case, mislabelled, disturbances>>
    BY <1>3 DEF Decide
  <2>2. CampaignTypeOK' BY <2>1 DEF CampaignInv, CampaignTypeOK, governance
  <2>3. Growth BY <2>1, CasesTheSame DEF Growth, governance
  <2> QED BY <2>1, <2>2, <2>3, Ended, StepOK DEF CampaignInv, governance
<1>4. CASE \A i \in DOMAIN c.decisions : c.decisions[i].actor # n.actor
  <2> DEFINE new == Decided(c, n.actor, n.outcome, l)
  <2>1. /\ case' = [case EXCEPT ![n.scan] = new] /\ AfterWrite(p)
        /\ UNCHANGED <<governance, identity, authorized, mislabelled, disturbances>>
    BY <1>4 DEF Decide
  <2>2. /\ new \in Case /\ CaseOK(new) /\ Later(new, c)
        /\ \E i \in DOMAIN new.decisions :
             new.decisions[i] = [actor |-> n.actor, outcome |-> n.outcome]
        /\ n.scan \notin mislabelled => LabelOK(new)
    BY <1>1, <1>2, <1>4, DecidedOK DEF CampaignInv, LoadedOK
  <2> HIDE DEF new
  <2>3. mislabelled' \subseteq Scans BY <2>1 DEF CampaignInv, CampaignTypeOK
  <2>4. /\ CampaignTypeOK' /\ Growth
        /\ \A t \in Scans : case'[t] = case[t] \/
             (CaseOK(case'[t]) /\ (t \notin mislabelled' => LabelOK(case'[t])))
    BY <1>1, <2>1, <2>2, <2>3, CaseStep
  <2>5. \A m \in Notes : m = n /\ call[p].attests => Earned(m)'
    <3>1. case'[n.scan] = new BY <1>1, <2>1 DEF CampaignInv, CampaignTypeOK
    <3>2. assignment' = assignment BY <2>1 DEF governance
    <3>3. \A m \in Notes : m = n /\ call[p].attests =>
            /\ assignment'[m.scan] # Null /\ m.role = "primary"
            /\ m.actor \in assignment'[m.scan].primary
            /\ \E i \in DOMAIN case'[m.scan].decisions :
                 case'[m.scan].decisions[i] = [actor |-> m.actor, outcome |-> m.outcome]
      BY <1>1, <2>2, <3>1, <3>2
    <3> QED BY <3>3 DEF Earned
  <2> QED BY <1>1, <2>1, <2>4, <2>5, WrittenOK, StepOK DEF CampaignInv, governance
<1> QED BY <1>3, <1>4

LEMMA AdjudicateOK == ASSUME CampaignInv, NEW p \in Procs, Adjudicate(p) PROVE CampaignInv'
<1> DEFINE n == call[p].note
           l == call[p].loaded
           c == case[n.scan]
<1>1. /\ call[p] \in WriteState /\ n \in Notes /\ n.scan \in Scans
      /\ call[p].op = "adjudicate" /\ Split(c)
      /\ n.scan \in mislabelled \/ LoadedOK(call[p])
      /\ call[p].attests => /\ n.role = "adjudicator" /\ assignment[n.scan] # Null
                            /\ n.actor = assignment[n.scan].adjudicator
  BY CallTypes DEF CampaignInv, CallOK, Adjudicate, Doing
<1>2. n.actor \in People /\ n.outcome \in Outcomes /\ c \in Case /\ l \in Labels
  BY <1>1, CaseTyped DEF Notes, WriteState
<1>3. CASE c.adjudication # Null
  <2>1. /\ Done(p)
        /\ UNCHANGED <<governance, identity, authorized, case, mislabelled, disturbances>>
    BY <1>3 DEF Adjudicate
  <2>2. CampaignTypeOK' BY <2>1 DEF CampaignInv, CampaignTypeOK, governance
  <2>3. Growth BY <2>1, CasesTheSame DEF Growth, governance
  <2> QED BY <2>1, <2>2, <2>3, Ended, StepOK DEF CampaignInv, governance
<1>4. CASE c.adjudication = Null
  <2> DEFINE new == Adjudicated(c, n.actor, n.outcome, l)
  <2>1. /\ case' = [case EXCEPT ![n.scan] = new] /\ AfterWrite(p)
        /\ UNCHANGED <<governance, identity, authorized, mislabelled, disturbances>>
    BY <1>4 DEF Adjudicate
  <2>2. /\ new \in Case /\ CaseOK(new) /\ Later(new, c)
        /\ new.adjudication = [actor |-> n.actor, outcome |-> n.outcome]
        /\ n.scan \notin mislabelled => LabelOK(new)
    BY <1>1, <1>2, <1>4, AdjudicatedOK DEF CampaignInv, LoadedOK
  <2> HIDE DEF new
  <2>3. mislabelled' \subseteq Scans BY <2>1 DEF CampaignInv, CampaignTypeOK
  <2>4. /\ CampaignTypeOK' /\ Growth
        /\ \A t \in Scans : case'[t] = case[t] \/
             (CaseOK(case'[t]) /\ (t \notin mislabelled' => LabelOK(case'[t])))
    BY <1>1, <2>1, <2>2, <2>3, CaseStep
  <2>5. \A m \in Notes : m = n /\ call[p].attests => Earned(m)'
    <3>1. case'[n.scan] = new BY <1>1, <2>1 DEF CampaignInv, CampaignTypeOK
    <3>2. assignment' = assignment BY <2>1 DEF governance
    <3>3. \A m \in Notes : m = n /\ call[p].attests =>
            /\ assignment'[m.scan] # Null /\ m.role # "primary"
            /\ m.actor = assignment'[m.scan].adjudicator
            /\ case'[m.scan].adjudication = [actor |-> m.actor, outcome |-> m.outcome]
      BY <1>1, <2>2, <3>1, <3>2
    <3> QED BY <3>3 DEF Earned
  <2> QED BY <1>1, <2>1, <2>4, <2>5, WrittenOK, StepOK DEF CampaignInv, governance
<1> QED BY <1>3, <1>4

\* A label that comes too late is counted as such.
LEMMA LabelStepOK == ASSUME CampaignInv, NEW p \in Procs, Label(p) PROVE CampaignInv'
<1> DEFINE s == call[p].scan
           o == call[p].outcome
           new == [case[s] EXCEPT !.label = o]
<1>1. s \in Scans /\ o \in Outcomes
  BY CallTypes DEF CampaignInv, Label, Doing
<1>2. /\ case' = [case EXCEPT ![s] = new] /\ Done(p)
      /\ mislabelled' = IF case[s].decisions = <<>> THEN mislabelled ELSE mislabelled \cup {s}
      /\ UNCHANGED <<governance, identity, authorized, disturbances>>
  BY DEF Label
<1>3. case[s] \in Case /\ CaseOK(case[s]) /\ o \in Labels
  BY <1>1, CaseTyped DEF CampaignInv, Labels
<1>4. /\ new \in Case /\ new.decisions = case[s].decisions /\ new.label = o
      /\ new.adjudication = case[s].adjudication
  BY <1>3 DEF Case
<1> HIDE DEF new
<1>5. Later(new, case[s]) /\ CaseOK(new) BY <1>3, <1>4, CasesTheSame DEF Later, CaseOK, Split
<1>6. s \notin mislabelled' => LabelOK(new) BY <1>1, <1>2, <1>4, CampaignAssumption DEF LabelOK
<1>7. mislabelled \subseteq mislabelled' /\ mislabelled' \subseteq Scans
  BY <1>1, <1>2 DEF CampaignInv, CampaignTypeOK
<1>8. /\ CampaignTypeOK' /\ Growth
      /\ \A t \in Scans : case'[t] = case[t] \/
           (CaseOK(case'[t]) /\ (t \notin mislabelled' => LabelOK(case'[t])))
  BY <1>1, <1>2, <1>4, <1>5, <1>6, <1>7, CaseStep
<1> QED BY <1>2, <1>8, Ended, StepOK DEF CampaignInv, governance

-----------------------------------------------------------------------------
(***************************************************************************)
(* The theorems.                                                           *)
(***************************************************************************)
LEMMA InitCampaignInv == CampaignInit => CampaignInv
<1> SUFFICES ASSUME CampaignInit PROVE CampaignInv OBVIOUS
<1> USE DEF CampaignInit
<1>1. NewCase \in Case /\ CaseOK(NewCase) /\ LabelOK(NewCase)
  BY NullAssumption DEF NewCase, Case, CaseOK, Labels, LabelOK
<1>2. CampaignTypeOK
  <2>1. campaign \in [status : Statuses, approver : Admins \cup {Null},
                      manifest : SUBSET Apps]
    BY DEF Statuses
  <2>2. case \in [Scans -> [decisions : Seq(Decision), adjudication : Decision \cup {Null},
                            label : Labels]]
    BY <1>1 DEF Case
  <2>3. disturbances \in 0..MaxDisturbances BY CampaignAssumption
  <2>4. authorized \in [Apps -> BOOLEAN] OBVIOUS
  <2> QED BY <2>1, <2>2, <2>3, <2>4 DEF CampaignTypeOK
<1>3. \A s \in Scans : assignment[s] = Null /\ CaseOK(case[s]) /\ LabelOK(case[s]) BY <1>1
<1>4. call \in [Procs -> CallState] /\ \A p \in Procs : CallOK(call[p]) BY NoCallOK
<1>5. campaign.approver # Creator BY NullAssumption, CampaignAssumption
<1> QED BY <1>2, <1>3, <1>4, <1>5 DEF CampaignInv

LEMMA NextCampaignInv == CampaignInv /\ [CampaignNext]_campaignVars => CampaignInv'
<1> SUFFICES ASSUME CampaignInv, [CampaignNext]_campaignVars PROVE CampaignInv' OBVIOUS
<1>1. CASE UNCHANGED campaignVars
  <2>1. CampaignTypeOK'
    BY <1>1 DEF CampaignInv, CampaignTypeOK, campaignVars, governance, cases
  <2>2. Growth BY <1>1, CasesTheSame DEF Growth, campaignVars, governance, cases
  <2> QED BY <1>1, <2>1, <2>2, StepOK DEF CampaignInv, campaignVars, governance, cases
<1>2. ASSUME NEW p \in Procs, Manage(p) PROVE CampaignInv'
  BY <1>2, BeginRegisterOK, BeginApproveOK, BeginActivateOK, BeginCompleteOK, BeginReleaseOK,
     BeginLinkOK, BeginChangeOK, RegisterOK, ReplaceOK, LinkOK, CompleteOK, CollectOK,
     CreateReleaseOK, ChangeOK
     DEF Manage
<1>3. ASSUME NEW p \in Procs, Review(p) PROVE CampaignInv'
  BY <1>3, BeginAssignOK, BeginReviewOK, BeginAdjudicateOK, AssignOK, DecideOK, AdjudicateOK,
     AttestOK, LoseOK
     DEF Review
<1>4. ASSUME NEW p \in Procs, Apart(p) PROVE CampaignInv'
  BY <1>4, LabelDirectlyOK, BeginReviewOK, BeginAdjudicateOK, LabelStepOK DEF Apart
<1> QED BY <1>1, <1>2, <1>3, <1>4, AuthorizationEndsOK DEF CampaignNext

LEMMA CampaignInvMeans == CampaignInv => DutiesAreSeparate /\ ReleaseIsReviewed
<1> SUFFICES ASSUME CampaignInv PROVE DutiesAreSeparate /\ ReleaseIsReviewed OBVIOUS
<1>1. ASSUME NEW s \in Scans, assignment[s] # Null
      PROVE  /\ Cardinality(assignment[s].primary) = 2
             /\ assignment[s].adjudicator \notin assignment[s].primary
             /\ {Creator, Owner} \cap
                  (assignment[s].primary \cup {assignment[s].adjudicator}) = {}
  <2>1. Proper(assignment[s]) BY <1>1 DEF CampaignInv
  <2>2. PICK x, y : assignment[s].primary = {x, y} /\ x # y BY <2>1 DEF Proper
  <2>3. IsFiniteSet({x}) /\ Cardinality({x}) = 1 /\ y \notin {x}
    BY <2>2, FS_Singleton
  <2>4. Cardinality({x} \cup {y}) = Cardinality({x}) + 1
    <3> DEFINE X == {x}
    <3>1. IsFiniteSet(X) /\ y \notin X BY <2>3
    <3> HIDE DEF X
    <3>2. Cardinality(X \cup {y}) = Cardinality(X) + 1 BY <3>1, FS_AddElement
    <3> QED BY <3>2 DEF X
  <2>5. {x, y} = {x} \cup {y} OBVIOUS
  <2>6. Cardinality({x, y}) = 2 BY <2>3, <2>4, <2>5
  <2> QED BY <2>1, <2>2, <2>6 DEF Proper
<1>2. DutiesAreSeparate BY <1>1 DEF DutiesAreSeparate, CampaignInv, CaseOK
<1>3. ASSUME release # Null, NEW s \in DOMAIN release.labels \ unassessed
      PROVE  /\ Vouched(s)
             /\ s \notin mislabelled => release.labels[s] = Verdict(case[s])
  BY <1>3 DEF CampaignInv, Reviewed
<1>4. ASSUME release # Null, NEW s \in DOMAIN release.labels \ unassessed
      PROVE  Split(case[s]) <=>
               case[s].decisions[1].outcome # case[s].decisions[2].outcome
  BY <1>3, <1>4 DEF Vouched, Split
<1>5. ReleaseIsReviewed BY <1>3, <1>4 DEF ReleaseIsReviewed, Vouched, Verdict
<1> QED BY <1>2, <1>5

LEMMA CampaignInvariance == CampaignSpec => []CampaignInv
BY InitCampaignInv, NextCampaignInv, PTL DEF CampaignSpec

\* Creator, reviewers and adjudicator of a campaign are different people, nobody
\* decides a case twice, and what is attested was decided by who was assigned,
\* for any number of overlapping, delayed and lost calls, governed or direct.
THEOREM DutiesStaySeparate == CampaignSpec => []DutiesAreSeparate
BY CampaignInvariance, CampaignInvMeans, PTL

\* Every released label but those of scans assigned behind the gate rests on two
\* attested decisions that agree or on an attested adjudication, and stays so
\* whatever is decided directly; it is their outcome unless a direct label that
\* had looked before the first decision came after it.
THEOREM ReleasedIsReviewed == CampaignSpec => []ReleaseIsReviewed
BY CampaignInvariance, CampaignInvMeans, PTL
=============================================================================
