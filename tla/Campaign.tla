------------------------------ MODULE Campaign ------------------------------
(***************************************************************************)
(* One governed collection campaign: its draft, independent approval,      *)
(* activation, linked scans, assigned reviews, completion and release      *)
(* (governance/service.py over governance/store.py), the identities that   *)
(* act in it, the authorizations it rests on (authorization/store.py) and  *)
(* the review cases in the scan database (observations/storage.py), which  *)
(* people may also reach without the campaign.                             *)
(*                                                                         *)
(* Every command reads first, in transactions of their own, and writes     *)
(* later: a call begins with what it reads and requires, holds that, and   *)
(* makes each write as a step.  An update replaces the row with what the   *)
(* call read; no revision is compared.  A scan has one observation, named  *)
(* like the scan; each was completed with the evidence that linking needs. *)
(***************************************************************************)
EXTENDS Naturals, Sequences, FiniteSets

CONSTANTS People, Admins, Reviewers, Adjudicators, \* identities by role
          Creator, Owner,          \* of the campaign
          Apps, Family,            \* applications and the family of each
          Scans, AppOf,            \* scans and the application of each
          Outcomes,                \* confirmed and false_positive
          MinApplications, MinFamilies, MinObservations, MaxScansPerApplication,
          Procs,                   \* operators' processes
          MaxDisturbances,         \* bound: calls begun during another, lost
                                   \* calls, labels and decisions given directly,
                                   \* identities changed, authorizations ended
          Null

ASSUME CampaignAssumption ==
    /\ Admins \cup Reviewers \cup Adjudicators \subseteq People
    /\ Creator \in Admins /\ Owner \in People
    /\ Family \in [Apps -> Apps] /\ AppOf \in [Scans -> Apps]
    /\ Outcomes \cap {"unreviewed", "needs_review"} = {}
    /\ {MinApplications, MinFamilies, MinObservations, MaxScansPerApplication} \subseteq Nat
    /\ MaxDisturbances \in Nat

VARIABLES campaign,     \* the row: status, approver and approved applications
          apps, scans,  \* registered applications and linked scans
          assignment,   \* assignment[s]: who reviews the observation of s
          attested,     \* attestations of review decisions
          release,      \* the release manifest
          identity,     \* identity[x]: status of the account of x
          authorized,   \* authorized[a]: the authorization of a is current
          case,         \* case[s]: decisions, adjudication and label of s
          call,         \* call[p]: what p has read and is about to write
          disturbances,
          unassessed,   \* history: scans assigned behind the gate of a release
          mislabelled   \* history: scans labelled after their first decision, by
                        \* a call that had looked before it

governance == <<campaign, apps, scans, assignment, attested, release, unassessed>>
cases == <<case, mislabelled>>
campaignVars == <<governance, identity, authorized, cases, call, disturbances>>

ASSUME NullAssumption ==
    Null \notin People \cup [actor : People, outcome : Outcomes] \cup
        {"register", "replace", "link", "assign", "decide", "adjudicate", "attest",
         "complete", "collect", "release", "change", "label"}

NoCall == [op |-> Null]

Disturbed ==
    /\ disturbances < MaxDisturbances
    /\ disturbances' = disturbances + 1

\* A call of the review commands of the scan database, without the campaign.
Direct(c) == c.op = "label" \/ (c.op \in {"decide", "adjudicate"} /\ ~c.attests)

Busy == \E p \in Procs : call[p] # NoCall /\ ~Direct(call[p])

\* A call that has read what it requires.  Calls seldom overlap.
Begin(p, c) ==
    /\ call[p] = NoCall
    /\ IF Busy \/ Direct(c) THEN Disturbed ELSE UNCHANGED disturbances
    /\ call' = [call EXCEPT ![p] = c]
    /\ UNCHANGED <<governance, identity, authorized, cases>>

Doing(p, op) == call[p].op = op
Done(p) == call' = [call EXCEPT ![p] = NoCall]

\* authenticate_identity: an active account that holds the role.
Acts(x, role) == x \in role /\ identity[x] = "active"

-----------------------------------------------------------------------------
(***************************************************************************)
(* Draft, approval and activation.                                         *)
(***************************************************************************)

\* register_application: the creator edits the draft.
BeginRegister(p, a) ==
    /\ Acts(Creator, Admins) /\ campaign.status = "draft"
    /\ authorized[a]
    /\ Begin(p, [op |-> "register", app |-> a])

\* create_application: unique per campaign and authorization, else refused.
Register(p) ==
    /\ Doing(p, "register")
    /\ apps' = apps \cup {call[p].app}
    /\ Done(p)
    /\ UNCHANGED <<campaign, unassessed, scans, assignment, attested, release, identity,
                   authorized, cases, disturbances>>

\* _validate_campaign_applications, also the first gates of assess_release.
ApplicationsHold ==
    /\ Cardinality(apps) >= MinApplications
    /\ Cardinality({Family[a] : a \in apps}) >= MinFamilies
    /\ \A a \in apps : authorized[a]

\* approve_campaign: another administrator than the creator.
MayApprove(x) ==
    /\ Acts(x, Admins) /\ x # Creator /\ campaign.status = "draft"

BeginApprove(p, x) ==
    /\ MayApprove(x) /\ ApplicationsHold
    /\ Begin(p, [op |-> "replace",
                 new |-> [status |-> "approved", approver |-> x, manifest |-> apps]])

\* activate_campaign: the approved set of applications is still registered.
BeginActivate(p, x) ==
    /\ Acts(x, Admins) /\ campaign.status = "approved" /\ ApplicationsHold
    /\ campaign.manifest = apps
    /\ Begin(p, [op |-> "replace", new |-> [campaign EXCEPT !.status = "active"]])

\* replace_campaign: the row becomes what the call made of the row it read.
Replace(p) ==
    /\ Doing(p, "replace")
    /\ campaign' = call[p].new
    /\ Done(p)
    /\ UNCHANGED <<unassessed, apps, scans, assignment, attested, release, identity,
                   authorized, cases, disturbances>>

-----------------------------------------------------------------------------
(***************************************************************************)
(* Scans and assignments.                                                  *)
(***************************************************************************)

\* link_scan, with the ceiling counted on the scans linked so far.
MayLink(s) ==
    /\ campaign.status = "active" /\ AppOf[s] \in apps /\ authorized[AppOf[s]]
    /\ Cardinality({t \in scans : AppOf[t] = AppOf[s]}) < MaxScansPerApplication

BeginLink(p, x, s) ==
    /\ Acts(x, Admins) /\ MayLink(s) /\ s \notin scans
    /\ Begin(p, [op |-> "link", scan |-> s])

\* create_scan: unique per campaign, else refused.
Link(p) ==
    /\ Doing(p, "link")
    /\ scans' = scans \cup {call[p].scan}
    /\ Done(p)
    /\ UNCHANGED <<campaign, unassessed, apps, assignment, attested, release, identity,
                   authorized, cases, disturbances>>

\* Mutant: creators and owners may review their own campaign.
MutMayBeAssigned(x, role) == Acts(x, role)

\* _require_assignment_identity.
MayBeAssigned(x, role) == Acts(x, role) /\ x \notin {Creator, Owner}

\* assign_reviewers: two distinct reviewers and perhaps another adjudicator.
BeginAssign(p, x, s, first, second, adjudicator) ==
    /\ Acts(x, Admins) /\ campaign.status = "active" /\ s \in scans
    /\ MayBeAssigned(first, Reviewers) /\ MayBeAssigned(second, Reviewers)
    /\ first # second
    /\ adjudicator # Null =>
         MayBeAssigned(adjudicator, Adjudicators) /\ adjudicator \notin {first, second}
    /\ assignment[s] = Null
    /\ Begin(p, [op |-> "assign", scan |-> s,
                 new |-> [primary |-> {first, second}, adjudicator |-> adjudicator]])

\* create_assignment: one per observation, else refused.
Assign(p) ==
    /\ Doing(p, "assign")
    /\ assignment' = IF assignment[call[p].scan] = Null
                       THEN [assignment EXCEPT ![call[p].scan] = call[p].new]
                       ELSE assignment
    /\ Done(p)
    /\ unassessed' = IF assignment' # assignment /\ \E q \in Procs : Doing(q, "collect")
                        THEN unassessed \cup {call[p].scan} ELSE unassessed
    /\ UNCHANGED <<campaign, apps, scans, attested, release, identity, authorized,
                   cases, disturbances>>

-----------------------------------------------------------------------------
(***************************************************************************)
(* The review cases of the scan database.                                  *)
(***************************************************************************)
NewCase == [decisions |-> <<>>, adjudication |-> Null, label |-> "unreviewed"]

\* _review_case_from_session.
State(c) ==
    LET n == Len(c.decisions)
    IN CASE c.adjudication # Null -> "adjudicated"
         [] c.adjudication = Null /\ n = 2 ->
              IF c.decisions[1].outcome = c.decisions[2].outcome
                THEN "consensus" ELSE "disputed"
         [] c.adjudication = Null /\ n = 1 -> "pending_second_review"
         [] OTHER -> IF c.label \in Outcomes THEN "legacy_final" ELSE c.label

Final(c) == State(c) \in {"consensus", "adjudicated"}

\* submit_review_decision: what it requires of the case it looks at.
MayDecide(c, x) ==
    /\ c.adjudication = Null /\ Len(c.decisions) < 2
    /\ c.decisions = <<>> => c.label \notin Outcomes
    /\ \A i \in DOMAIN c.decisions : c.decisions[i].actor # x

\* The session writes a label only when it is another than the one it loaded.
Labelled(c, loaded, label) == IF label = loaded THEN c.label ELSE label

\* The insertion fails for a second decision of a reviewer only; the label is
\* computed from the decisions found after it.
Decided(c, x, outcome, loaded) ==
    LET d == Append(c.decisions, [actor |-> x, outcome |-> outcome])
    IN [c EXCEPT !.decisions = d,
                 !.label = Labelled(c, loaded,
                             IF Len(d) > 1 /\ d[1].outcome = d[2].outcome
                               THEN d[1].outcome ELSE "needs_review")]

\* adjudicate_review.
MayAdjudicate(c, x) ==
    /\ State(c) = "disputed"
    /\ \A i \in DOMAIN c.decisions : c.decisions[i].actor # x
Adjudicated(c, x, outcome, loaded) ==
    [c EXCEPT !.adjudication = [actor |-> x, outcome |-> outcome],
              !.label = Labelled(c, loaded, outcome)]

\* What is about to be written of a decision, and whether it is to be attested
\* in the campaign.  Nothing is locked before that write.
Note(s, x, role, outcome) ==
    [scan |-> s, actor |-> x, role |-> role, outcome |-> outcome]
Writing(op, note, attests) ==
    [op |-> op, note |-> note, loaded |-> case[note.scan].label, attests |-> attests]

\* The call goes on to its attestation, or was a direct one.
AfterWrite(p) ==
    IF call[p].attests THEN call' = [call EXCEPT ![p].op = "attest"] ELSE Done(p)

Decide(p) ==
    /\ Doing(p, "decide")
    /\ LET n == call[p].note  c == case[n.scan]
       IN IF \E i \in DOMAIN c.decisions : c.decisions[i].actor = n.actor
            THEN Done(p) /\ UNCHANGED case
            ELSE /\ case' = [case EXCEPT ![n.scan] =
                              Decided(c, n.actor, n.outcome, call[p].loaded)]
                 /\ AfterWrite(p)
    /\ UNCHANGED <<governance, identity, authorized, mislabelled, disturbances>>

Adjudicate(p) ==
    /\ Doing(p, "adjudicate")
    /\ LET n == call[p].note  c == case[n.scan]
       IN IF c.adjudication # Null
            THEN Done(p) /\ UNCHANGED case
            ELSE /\ case' = [case EXCEPT ![n.scan] =
                              Adjudicated(c, n.actor, n.outcome, call[p].loaded)]
                 /\ AfterWrite(p)
    /\ UNCHANGED <<governance, identity, authorized, mislabelled, disturbances>>

\* A decision, an adjudication or a label given through the review commands
\* of the scan database, without the campaign.
DecideDirectly(p, s, x, outcome) ==
    /\ MayDecide(case[s], x)
    /\ Begin(p, Writing("decide", Note(s, x, "primary", outcome), FALSE))

AdjudicateDirectly(p, s, x, outcome) ==
    /\ MayAdjudicate(case[s], x)
    /\ Begin(p, Writing("adjudicate", Note(s, x, "adjudicator", outcome), FALSE))

\* label_observation looks for decisions, ...
LabelDirectly(p, s, outcome) ==
    /\ case[s].decisions = <<>> /\ case[s].label # outcome
    /\ Begin(p, [op |-> "label", scan |-> s, outcome |-> outcome])

\* ... and writes its label.
Label(p) ==
    /\ Doing(p, "label")
    /\ LET s == call[p].scan
       IN /\ case' = [case EXCEPT ![s].label = call[p].outcome]
          /\ mislabelled' = IF case[s].decisions = <<>> THEN mislabelled
                            ELSE mislabelled \cup {s}
    /\ Done(p)
    /\ UNCHANGED <<governance, identity, authorized, disturbances>>

-----------------------------------------------------------------------------
(***************************************************************************)
(* Governed review: the decision in the scan database, then its            *)
(* attestation in the campaign.                                            *)
(***************************************************************************)
\* Mutant: the attestations of primary decisions are not looked at.
MutAllAttested(s) ==
    case[s].adjudication # Null =>
        Note(s, case[s].adjudication.actor, "adjudicator",
                    case[s].adjudication.outcome) \in attested

\* _ensure_existing_decisions_are_attested.
AllAttested(s) ==
    /\ \A i \in DOMAIN case[s].decisions :
         Note(s, case[s].decisions[i].actor, "primary",
                     case[s].decisions[i].outcome) \in attested
    /\ case[s].adjudication # Null =>
         Note(s, case[s].adjudication.actor, "adjudicator",
                     case[s].adjudication.outcome) \in attested

\* submit_governed_review, down to what the scan database looks at.
BeginReview(p, s, x, outcome) ==
    /\ Acts(x, Reviewers) /\ campaign.status = "active"
    /\ assignment[s] # Null /\ x \in assignment[s].primary
    /\ AllAttested(s) /\ MayDecide(case[s], x)
    /\ Begin(p, Writing("decide", Note(s, x, "primary", outcome), TRUE))

\* adjudicate_governed_review.
BeginAdjudicate(p, s, x, outcome) ==
    /\ Acts(x, Adjudicators) /\ campaign.status = "active"
    /\ assignment[s] # Null /\ x = assignment[s].adjudicator
    /\ AllAttested(s) /\ MayAdjudicate(case[s], x)
    /\ Begin(p, Writing("adjudicate", Note(s, x, "adjudicator", outcome), TRUE))

\* create_attestation.
Attest(p) ==
    /\ Doing(p, "attest")
    /\ attested' = attested \cup {call[p].note}
    /\ Done(p)
    /\ UNCHANGED <<campaign, unassessed, apps, scans, assignment, release, identity,
                   authorized, cases, disturbances>>

\* The process dies after the decision and before its attestation; to die
\* elsewhere is not to have begun.
Lose(p) ==
    /\ Doing(p, "attest") /\ Disturbed
    /\ Done(p)
    /\ UNCHANGED <<governance, identity, authorized, cases>>

-----------------------------------------------------------------------------
(***************************************************************************)
(* Completion and release.                                                 *)
(***************************************************************************)
Required(s) == assignment[s].primary \cup
    IF case[s].adjudication # Null THEN {assignment[s].adjudicator} \ {Null} ELSE {}

\* assess_release, for a campaign in the given status.
Ready(status) ==
    /\ campaign.status = status /\ ApplicationsHold
    /\ Cardinality(scans) >= MinObservations
    /\ {s \in Scans : assignment[s] # Null} = scans
    /\ \A s \in scans :
         /\ AllAttested(s) /\ Final(case[s])
         /\ \A x \in Required(s) : identity[x] # "revoked"

BeginComplete(p, x) ==
    /\ Acts(x, Admins) /\ Ready("active")
    /\ Begin(p, [op |-> "complete"])

\* The row is read again after the assessment.
Complete(p) ==
    /\ Doing(p, "complete")
    /\ call' = [call EXCEPT ![p] = [op |-> "replace",
                                    new |-> [campaign EXCEPT !.status = "completed"]]]
    /\ UNCHANGED <<governance, identity, authorized, cases, disturbances>>

BeginRelease(p, x) ==
    /\ Acts(x, Admins) /\ Ready("completed")
    /\ Begin(p, [op |-> "collect"])

\* Everything is listed again; a label that is none fails the manifest.
Collect(p) ==
    /\ Doing(p, "collect")
    /\ LET assigned == {s \in Scans : assignment[s] # Null}
           labels == [s \in assigned |-> case[s].label]
       IN IF \A s \in assigned : labels[s] \in Outcomes
            THEN call' = [call EXCEPT ![p] =
                   [op |-> "release",
                    new |-> [apps |-> apps, scans |-> scans, labels |-> labels]]]
            ELSE Done(p)
    /\ UNCHANGED <<governance, identity, authorized, cases, disturbances>>

\* create_release: one per campaign, else refused.
CreateRelease(p) ==
    /\ Doing(p, "release")
    /\ release' = IF release = Null THEN call[p].new ELSE release
    /\ Done(p)
    /\ UNCHANGED <<campaign, unassessed, apps, scans, assignment, attested, identity,
                   authorized, cases, disturbances>>

-----------------------------------------------------------------------------
(***************************************************************************)
(* Identities and authorizations.                                          *)
(***************************************************************************)

\* change_identity_status and reactivate_identity: an administrator changes
\* the account of another; revocation is for good.
MayChange(old, new) ==
    \/ old = "active" /\ new \in {"disabled", "revoked"}
    \/ old = "disabled" /\ new \in {"active", "revoked"}

BeginChange(p, x, y, status) ==
    /\ Acts(x, Admins) /\ x # y /\ MayChange(identity[y], status)
    /\ Begin(p, [op |-> "change", person |-> y, status |-> status])

\* replace_identity.
Change(p) ==
    /\ Doing(p, "change")
    /\ Disturbed
    /\ identity' = [identity EXCEPT ![call[p].person] = call[p].status]
    /\ Done(p)
    /\ UNCHANGED <<governance, authorized, cases>>

\* AuthorizationStore.revoke, or the authorization expires.
AuthorizationEnds(a) ==
    /\ authorized[a] /\ Disturbed
    /\ authorized' = [authorized EXCEPT ![a] = FALSE]
    /\ UNCHANGED <<governance, identity, cases, call>>

-----------------------------------------------------------------------------
CampaignInit ==
    /\ campaign = [status |-> "draft", approver |-> Null, manifest |-> {}]
    /\ apps = {} /\ scans = {} /\ attested = {} /\ release = Null
    /\ assignment = [s \in Scans |-> Null]
    /\ identity = [x \in People |-> "active"]
    /\ authorized = [a \in Apps |-> TRUE]
    /\ case = [s \in Scans |-> NewCase]
    /\ call = [p \in Procs |-> NoCall]
    /\ disturbances = 0 /\ unassessed = {} /\ mislabelled = {}

Manage(p) ==
    \/ \E a \in Apps : BeginRegister(p, a)
    \/ \E x \in Admins : \/ BeginApprove(p, x) \/ BeginActivate(p, x)
                         \/ BeginComplete(p, x) \/ BeginRelease(p, x)
                         \/ \E s \in Scans : BeginLink(p, x, s)
                         \/ \E y \in People, st \in {"active", "disabled", "revoked"} :
                              BeginChange(p, x, y, st)
    \/ Register(p) \/ Replace(p) \/ Link(p) \/ Complete(p)
    \/ Collect(p) \/ CreateRelease(p) \/ Change(p)

Review(p) ==
    \/ \E x \in Admins, s \in Scans, y, z \in Reviewers, j \in Adjudicators \cup {Null} :
         BeginAssign(p, x, s, y, z, j)
    \/ \E s \in Scans, x \in People, o \in Outcomes :
         BeginReview(p, s, x, o) \/ BeginAdjudicate(p, s, x, o)
    \/ Assign(p) \/ Decide(p) \/ Adjudicate(p) \/ Attest(p) \/ Lose(p)

Apart(p) ==
    \/ \E s \in Scans, o \in Outcomes :
         \/ LabelDirectly(p, s, o)
         \/ \E x \in People : DecideDirectly(p, s, x, o) \/ AdjudicateDirectly(p, s, x, o)
    \/ Label(p)

CampaignNext ==
    \/ \E p \in Procs : Manage(p) \/ Review(p) \/ Apart(p)
    \/ \E a \in Apps : AuthorizationEnds(a)

CampaignSpec == CampaignInit /\ [][CampaignNext]_campaignVars

-----------------------------------------------------------------------------
(***************************************************************************)
(* Properties.                                                             *)
(***************************************************************************)
Decision == [actor : People, outcome : Outcomes]
Labels == Outcomes \cup {"unreviewed", "needs_review"}
Statuses == {"draft", "approved", "active", "completed"}

CampaignTypeOK ==
    /\ campaign \in [status : Statuses, approver : Admins \cup {Null}, manifest : SUBSET Apps]
    /\ apps \subseteq Apps /\ scans \subseteq Scans
    /\ assignment \in [Scans -> [primary : SUBSET Reviewers,
                                 adjudicator : Adjudicators \cup {Null}] \cup {Null}]
    /\ attested \subseteq [scan : Scans, actor : People,
                           role : {"primary", "adjudicator"}, outcome : Outcomes]
    /\ identity \in [People -> {"active", "disabled", "revoked"}]
    /\ authorized \in [Apps -> BOOLEAN]
    /\ case \in [Scans -> [decisions : Seq(Decision), adjudication : Decision \cup {Null},
                           label : Labels]]
    /\ \A s \in scans : AppOf[s] \in apps
    /\ \A s \in Scans : assignment[s] # Null => s \in scans
    /\ disturbances \in 0..MaxDisturbances /\ unassessed \subseteq Scans
    /\ mislabelled \subseteq Scans

\* What an attestation says: a decision in the scan database with that outcome,
\* by a person who is assigned for it.
Earned(t) ==
    /\ assignment[t.scan] # Null
    /\ IF t.role = "primary"
         THEN /\ t.actor \in assignment[t.scan].primary
              /\ \E i \in DOMAIN case[t.scan].decisions :
                   case[t.scan].decisions[i] = [actor |-> t.actor, outcome |-> t.outcome]
         ELSE /\ t.actor = assignment[t.scan].adjudicator
              /\ case[t.scan].adjudication = [actor |-> t.actor, outcome |-> t.outcome]

\* "Separation and conflicts": the creator does not approve the campaign, and
\* what is attested was decided, by a person who is assigned for it, no matter
\* how calls overlap or die; nobody decides a case twice;
\* a case has two primary reviewers and an adjudicator who is neither, and
\* none of them is the campaign's creator or owner.
DutiesAreSeparate ==
    /\ CampaignTypeOK
    /\ campaign.approver # Creator
    /\ \A s \in Scans : assignment[s] # Null =>
         /\ Cardinality(assignment[s].primary) = 2
         /\ assignment[s].adjudicator \notin assignment[s].primary
         /\ {Creator, Owner} \cap (assignment[s].primary \cup {assignment[s].adjudicator}) = {}
    /\ \A s \in Scans : \A i, j \in DOMAIN case[s].decisions :
         case[s].decisions[i].actor = case[s].decisions[j].actor => i = j
    /\ \A t \in attested : Earned(t)

\* A label that is released is the result of a review: the case rests on its
\* first two decisions, which agree or were adjudicated, each made by the people
\* assigned and each attested, whatever else is decided directly, also by calls
\* that had looked at the case long before ("a decision made through a legacy or
\* direct review path is not silently adopted").  The label is their outcome,
\* except that a label given directly by a call that had looked before the first
\* decision takes its place.  Nothing is said of a scan that was assigned between
\* the gate of the release and its listing.
ReleaseIsReviewed ==
    release # Null => \A s \in DOMAIN release.labels \ unassessed :
        LET d == case[s].decisions
            adjudication == case[s].adjudication
            Signed(x, role) == Note(s, x.actor, role, x.outcome) \in attested
        IN /\ Len(d) >= 2 /\ Signed(d[1], "primary") /\ Signed(d[2], "primary")
           /\ d[1].outcome # d[2].outcome =>
                adjudication # Null /\ Signed(adjudication, "adjudicator")
           /\ s \notin mislabelled =>
                release.labels[s] = IF d[1].outcome = d[2].outcome
                                      THEN d[1].outcome ELSE adjudication.outcome
=============================================================================
