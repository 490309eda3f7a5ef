---------------------------- MODULE Publication ----------------------------
(***************************************************************************)
(* Governed publication of a finding's signed reports                      *)
(* (vulnhunter/publication/, web/remediation_publication_views.py):        *)
(* request, approval, publication, correction and revocation as immutable  *)
(* signed files, artifact directories in a destination, and the operator's *)
(* recovery command.                                                       *)
(*                                                                         *)
(* Nothing locks the store or the destination.  A file or directory        *)
(* operation is one step; a server is one web request at a time.  Who      *)
(* requests, approves, publishes and revokes is left out: these checks     *)
(* compare fields of signed, immutable files, and so is expiry, which only *)
(* refuses.                                                                *)
(***************************************************************************)
EXTENDS Naturals, Sequences, FiniteSets

CONSTANTS Servers,         \* web server threads
          MaxReports,      \* bound: signed reports of the finding
          MaxRequests,     \* bound: release requests
          MaxPublications, \* bound: publish calls that get as far as staging
          MaxRecoveries,   \* bound: runs of the recovery command
          MaxCrashes,      \* bound: processes that die
          None

ASSUME PublicationAssumption ==
    /\ MaxReports \in Nat \ {0}
    /\ {MaxRequests, MaxPublications, MaxRecoveries, MaxCrashes} \subseteq Nat
    /\ None \notin Nat /\ None \notin Servers

VARIABLES latestReport, \* the finding's last signed report
          requests,     \* requests/: in the order of their creation
          approvals,    \* approvals/: the requests that have one
          releases,     \* releases[p]: the request that publish call p releases
          records,      \* publications/
          corrections,  \* corrections/: superseded -> replacement
          revocations,  \* revocations/: publication -> the call that signed it
          staging,      \* .publication-* directories in the destination
          published,    \* publication-* directories in the destination
          notices,      \* notices[p]: the notices in p's directory
          server,       \* server[s]: the request that s works on
          repairs,      \* what the recovery command has still to repair
          recoveries, crashes,
          told          \* history: publications reported as revoked

store == <<requests, approvals, releases, records, corrections, revocations>>
destination == <<staging, published, notices>>
bounds == <<latestReport, recoveries, crashes>>
vars == <<store, destination, server, repairs, bounds, told>>

Pubs == 1..MaxPublications

Idle == [pc |-> "idle", pub |-> 1]
Working(pc, p) == [pc |-> pc, pub |-> p]
NoNotices == [correction |-> None, revocation |-> None]

At(s, pc) == server[s].pc = pc
Become(s, w) == server' = [server EXCEPT ![s] = w]
Goto(s, pc) == server' = [server EXCEPT ![s].pc = pc]

RequestOf(p) == requests[releases[p]]
Target(p) == RequestOf(p).corrects

\* status: a revocation hides a correction.
Status(p) == IF revocations[p] # None THEN "revoked"
             ELSE IF corrections[p] # None THEN "superseded" ELSE "published"

Current == {p \in records : Status(p) = "published"}

\* A further signed report for the finding.  The remediation record admits one
\* report only, so it comes from outside: whoever owns the finding database
\* replaces the row, as the acceptance test of corrections does.
NewReport ==
    /\ latestReport < MaxReports
    /\ latestReport' = latestReport + 1
    /\ UNCHANGED <<store, destination, server, repairs, recoveries, crashes, told>>

-----------------------------------------------------------------------------
(***************************************************************************)
(* Request and approval: checks, then one new file.                        *)
(***************************************************************************)

\* Only a report without publications may be requested, and it has to correct
\* the current publication if there is one.
MayRequest ==
    /\ \A p \in records : RequestOf(p).report # latestReport
    /\ Cardinality(Current) <= 1

RequestRelease(s) ==
    /\ At(s, "idle") /\ Len(requests) < MaxRequests
    /\ MayRequest
    /\ requests' = Append(requests,
          [report |-> latestReport,
           corrects |-> IF Current = {} THEN None
                        ELSE CHOOSE p \in Current : TRUE])
    /\ UNCHANGED <<approvals, releases, records, corrections, revocations,
                   destination, server, repairs, bounds, told>>

ApproveRelease(s, q) ==
    /\ At(s, "idle")
    /\ approvals' = approvals \cup {q}
    /\ UNCHANGED <<requests, releases, records, corrections, revocations,
                   destination, server, repairs, bounds, told>>

-----------------------------------------------------------------------------
(***************************************************************************)
(* publish: stage, move the directory into place, sign the record, and for *)
(* a correction the link from the superseded publication and its notice.   *)
(***************************************************************************)

\* The approval is all that publish looks at: neither whether the request was
\* published before nor what has become of the publication it corrects.
Publish(s, q) ==
    /\ At(s, "idle")
    /\ q \in approvals
    /\ \E p \in Pubs :
          /\ releases[p] = None /\ \A o \in Pubs : o < p => releases[o] # None
          /\ releases' = [releases EXCEPT ![p] = q]
          /\ staging' = staging \cup {p}
          /\ Become(s, Working("staged", p))
    /\ UNCHANGED <<requests, approvals, records, corrections, revocations,
                   published, notices, repairs, bounds, told>>

\* os.replace(staging, destination), which fails if recovery has taken the
\* staging directory for a stale one.
Place(s) ==
    LET p == server[s].pub
    IN /\ At(s, "staged")
       /\ IF p \in staging
          THEN published' = published \cup {p} /\ Goto(s, "placed")
          ELSE UNCHANGED published /\ Become(s, Idle)
       /\ staging' = staging \ {p}
       /\ UNCHANGED <<store, notices, repairs, bounds, told>>

SavePublication(s) ==
    LET p == server[s].pub
    IN /\ At(s, "placed")
       /\ records' = records \cup {p}
       /\ IF Target(p) = None THEN Become(s, Idle) ELSE Goto(s, "superseding")
       /\ UNCHANGED <<requests, approvals, releases, corrections, revocations,
                      destination, repairs, bounds, told>>

\* _save looks for another correction first and replaces afterwards.
CheckCorrection(s) ==
    /\ At(s, "superseding")
    /\ Goto(s, IF corrections[Target(server[s].pub)] = None
               THEN "correcting" ELSE "undo_record")
    /\ UNCHANGED <<store, destination, repairs, bounds, told>>

SaveCorrection(s) ==
    LET p == server[s].pub
    IN /\ At(s, "correcting")
       /\ corrections' = [corrections EXCEPT ![Target(p)] = p]
       /\ Goto(s, "corrected")
       /\ UNCHANGED <<requests, approvals, releases, records, revocations,
                      destination, repairs, bounds, told>>

\* _write_notice: the publication and its directory exist and the notice does
\* not.
CanNotice(p, kind) ==
    p \in records /\ p \in published /\ notices[p][kind] = None

CorrectionNotice(s) ==
    LET p == server[s].pub  t == Target(p)
    IN /\ At(s, "corrected")
       /\ IF CanNotice(t, "correction")
          THEN /\ notices' = [notices EXCEPT ![t].correction = p]
               /\ Become(s, Idle)
          ELSE UNCHANGED notices /\ Goto(s, "undo_correction")
       /\ UNCHANGED <<store, staging, published, repairs, bounds, told>>

\* Mutant: the link is left when its notice failed.
MutUndoCorrection(s) ==
    /\ At(s, "undo_correction")
    /\ Goto(s, "undo_record")
    /\ UNCHANGED <<store, destination, repairs, bounds, told>>

\* rollback_correction refuses a file with another content, and its exception
\* skips the rollback of the record.
UndoCorrection(s) ==
    LET p == server[s].pub  t == Target(p)
    IN /\ At(s, "undo_correction")
       /\ IF corrections[t] \in {p, None}
          THEN /\ corrections' = [corrections EXCEPT ![t] = None]
               /\ Goto(s, "undo_record")
          ELSE UNCHANGED corrections /\ Goto(s, "undo_directory")
       /\ UNCHANGED <<requests, approvals, releases, records, revocations,
                      destination, repairs, bounds, told>>

\* Mutant: the record is left when the directory is taken back.
MutUndoRecord(s) ==
    /\ At(s, "undo_record")
    /\ Goto(s, "undo_directory")
    /\ UNCHANGED <<store, destination, repairs, bounds, told>>

UndoRecord(s) ==
    /\ At(s, "undo_record")
    /\ records' = records \ {server[s].pub}
    /\ Goto(s, "undo_directory")
    /\ UNCHANGED <<requests, approvals, releases, corrections, revocations,
                   destination, repairs, bounds, told>>

UndoDirectory(s) ==
    LET p == server[s].pub
    IN /\ At(s, "undo_directory")
       /\ published' = published \ {p}
       /\ notices' = [notices EXCEPT ![p] = NoNotices]
       /\ Become(s, Idle)
       /\ UNCHANGED <<store, staging, repairs, bounds, told>>

-----------------------------------------------------------------------------
(***************************************************************************)
(* revoke: the signed record, then the notice beside the artifacts.        *)
(***************************************************************************)

Revoke(s, p) ==
    /\ At(s, "idle")
    /\ p \in records /\ Status(p) = "published"
    /\ Become(s, Working("revoking", p))
    /\ UNCHANGED <<store, destination, repairs, bounds, told>>

CheckRevocation(s) ==
    /\ At(s, "revoking")
    /\ IF revocations[server[s].pub] = None
       THEN Goto(s, "signing") ELSE Become(s, Idle)
    /\ UNCHANGED <<store, destination, repairs, bounds, told>>

SaveRevocation(s) ==
    /\ At(s, "signing")
    /\ revocations' = [revocations EXCEPT ![server[s].pub] = s]
    /\ Goto(s, "signed")
    /\ UNCHANGED <<requests, approvals, releases, records, corrections,
                   destination, repairs, bounds, told>>

\* Mutant: the authority is told before the notice is written.
MutRevocationNotice(s) ==
    LET p == server[s].pub
    IN /\ At(s, "signed")
       /\ told' = told \cup {p}
       /\ IF CanNotice(p, "revocation")
          THEN /\ notices' = [notices EXCEPT ![p].revocation = s]
               /\ Become(s, Idle)
          ELSE UNCHANGED notices /\ Goto(s, "undo_revocation")
       /\ UNCHANGED <<store, staging, published, repairs, bounds>>

RevocationNotice(s) ==
    LET p == server[s].pub
    IN /\ At(s, "signed")
       /\ IF CanNotice(p, "revocation")
          THEN /\ notices' = [notices EXCEPT ![p].revocation = s]
               /\ told' = told \cup {p}
               /\ Become(s, Idle)
          ELSE UNCHANGED <<notices, told>> /\ Goto(s, "undo_revocation")
       /\ UNCHANGED <<store, staging, published, repairs, bounds>>

UndoRevocation(s) ==
    LET p == server[s].pub
    IN /\ At(s, "undo_revocation")
       /\ revocations' = [revocations EXCEPT ![p] =
              IF @ = s THEN None ELSE @]
       /\ Become(s, Idle)
       /\ UNCHANGED <<requests, approvals, releases, records, corrections,
                      destination, repairs, bounds, told>>

-----------------------------------------------------------------------------
(***************************************************************************)
(* The recovery command, which runs beside the server.                     *)
(***************************************************************************)

\* audit_publication_state: every record's references, one record per request,
\* no publication both superseded and revoked, one current publication.
AuditPasses ==
    /\ \A p, o \in records : releases[p] = releases[o] => p = o
    /\ \A t \in Pubs : corrections[t] # None =>
          {t, corrections[t]} \subseteq records /\ Target(corrections[t]) = t
    /\ \A p \in Pubs : revocations[p] # None =>
          p \in records /\ corrections[p] = None
    /\ Cardinality(Current) <= 1

Missing(kind, signed) ==
    {[kind |-> kind, pub |-> p, content |-> signed[p]] :
        p \in {o \in records \cap published :
                  signed[o] # None /\ notices[o][kind] = None}}

\* The issues that may be repaired: stale staging directories, and notices
\* that the signed state has and the directory lacks.
Recoverable(stale) ==
    {[kind |-> "staging", pub |-> p, content |-> None] : p \in stale}
        \cup Missing("correction", corrections)
        \cup Missing("revocation", revocations)

Recover ==
    /\ repairs = {} /\ recoveries < MaxRecoveries
    /\ AuditPasses
    /\ \E stale \in SUBSET staging : repairs' = Recoverable(stale)
    /\ recoveries' = recoveries + 1
    /\ UNCHANGED <<store, destination, server, latestReport, crashes, told>>

\* One repair; a notice that is there by now is left alone.
Repair(r) ==
    /\ repairs' = repairs \ {r}
    /\ IF r.kind = "staging"
       THEN staging' = staging \ {r.pub} /\ UNCHANGED notices
       ELSE /\ notices' = IF r.pub \in published /\ notices[r.pub][r.kind] = None
                          THEN [notices EXCEPT ![r.pub][r.kind] = r.content]
                          ELSE notices
            /\ UNCHANGED staging
    /\ UNCHANGED <<store, published, server, bounds, told>>

-----------------------------------------------------------------------------
\* The server dies (its master restarts it), or the recovery command does.
Crash ==
    /\ crashes < MaxCrashes
    /\ crashes' = crashes + 1
    /\ \/ \E s \in Servers : ~ At(s, "idle") /\ Become(s, Idle) /\ UNCHANGED repairs
       \/ repairs # {} /\ repairs' = {} /\ UNCHANGED server
    /\ UNCHANGED <<store, destination, latestReport, recoveries, told>>

Init ==
    /\ latestReport = 1
    /\ requests = <<>> /\ approvals = {}
    /\ releases = [p \in Pubs |-> None] /\ records = {}
    /\ corrections = [p \in Pubs |-> None] /\ revocations = [p \in Pubs |-> None]
    /\ staging = {} /\ published = {}
    /\ notices = [p \in Pubs |-> NoNotices]
    /\ server = [s \in Servers |-> Idle]
    /\ repairs = {} /\ recoveries = 0 /\ crashes = 0
    /\ told = {}

Release(s) ==
    \/ RequestRelease(s)
    \/ \E q \in DOMAIN requests : ApproveRelease(s, q) \/ Publish(s, q)
    \/ \E p \in Pubs : Revoke(s, p)

Step(s) ==
    \/ Place(s) \/ SavePublication(s) \/ CheckCorrection(s)
    \/ SaveCorrection(s) \/ CorrectionNotice(s) \/ UndoCorrection(s)
    \/ UndoRecord(s) \/ UndoDirectory(s)
    \/ CheckRevocation(s) \/ SaveRevocation(s) \/ RevocationNotice(s)
    \/ UndoRevocation(s)

Next ==
    \/ NewReport
    \/ \E s \in Servers : Release(s) \/ Step(s)
    \/ Recover
    \/ \E r \in repairs : Repair(r)
    \/ Crash

Spec == Init /\ [][Next]_vars

-----------------------------------------------------------------------------
PubOrNone == Pubs \cup {None}
RevocationOrNone == Servers \cup {None}

\* Every variable holds a value of its type.
TypeOK ==
    /\ latestReport \in 1..MaxReports
    /\ requests \in Seq([report : 1..MaxReports, corrects : PubOrNone])
    /\ approvals \subseteq DOMAIN requests
    /\ releases \in [Pubs -> DOMAIN requests \cup {None}]
    /\ \A p \in records : releases[p] # None
    /\ corrections \in [Pubs -> PubOrNone]
    /\ revocations \in [Pubs -> RevocationOrNone]
    /\ records \subseteq Pubs /\ staging \subseteq Pubs /\ published \subseteq Pubs
    /\ notices \in [Pubs -> [correction : PubOrNone, revocation : RevocationOrNone]]
    /\ told \subseteq Pubs
    /\ recoveries \in 0..MaxRecoveries /\ crashes \in 0..MaxCrashes

\* A publication on record has its artifacts in the destination, at every step
\* of publishing, of rolling back and of recovery, and after a crash: the
\* directory is there before the record is signed and goes after it.
RecordHasArtifacts == TypeOK /\ records \subseteq published

\* A correction on record names a publication on record that was requested as
\* the correction of just that publication.
CorrectionBound ==
    \A t \in Pubs : corrections[t] # None =>
        {t, corrections[t]} \subseteq records /\ Target(corrections[t]) = t

\* A revocation that was reported to its authority stays: the record, and the
\* notice with the same content beside the artifacts.
RevocationStays ==
    \A p \in told : revocations[p] # None /\ notices[p].revocation = revocations[p]

\* The audit's own assertions hold whenever no request is being served.
AuditHolds == (\A s \in Servers : At(s, "idle")) => AuditPasses
=============================================================================
