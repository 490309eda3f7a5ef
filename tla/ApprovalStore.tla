---------------------------- MODULE ApprovalStore ----------------------------
(***************************************************************************)
(* Exact, attributable, one-time human approvals                           *)
(* (vulnhunter/approvals/store.py, models.py, conditions.py).              *)
(*                                                                         *)
(* decide and consume read the wall clock, then run one BEGIN IMMEDIATE    *)
(* transaction: it waits for the write lock, loads the request, decides,   *)
(* saves the request and appends the event, all or nothing.  Every actor   *)
(* is a process of its own and may die at any step.                        *)
(***************************************************************************)
EXTENDS Naturals, Sequences

CONSTANTS Requests,    \* approval requests that were created
          Actors,      \* people and services that decide and consume
          RequestedBy, \* RequestedBy[r]: who asked for r
          Limits,      \* values of a maximum_requests condition
          Budgets,     \* request budgets of the execution plans offered
          ManifestLimit, \* the action manifest's own maximum_requests
          ExpiresAt,   \* when the requests expire
          MaxTime,     \* bound: the clock stops here
          MaxEvents,   \* bound: no decision is begun after that many events
          None

Decision == {"approve_once", "approve_with_conditions",
             "request_more_information", "propose_safer_alternative", "deny"}

ASSUME ApprovalAssumption ==
    /\ RequestedBy \in [Requests -> Actors]
    /\ Limits \subseteq Nat /\ Budgets \subseteq Nat \ {0}
    /\ ManifestLimit \in Nat
    /\ ExpiresAt \in Nat \ {0} /\ MaxTime \in Nat /\ MaxEvents \in Nat
    /\ None \notin Nat /\ None \notin Actors /\ None \notin Decision

VARIABLES request, \* request[r]: the stored request
          log,     \* log[r]: its events
          lock,    \* who holds the database's write lock
          call,    \* call[a]: the decide or consume a is in
          granted, \* granted[r]: how often consume told a caller to execute r
          clock

vars == <<request, log, lock, call, granted, clock>>

OPEN     == {"pending", "information_required", "conditions_proposed"}
FINAL    == {"denied", "expired", "consumed"}
Status   == OPEN \cup FINAL \cup {"approved"}

\* conditions: the limit on requests that was set; budget: what was granted.
Request == [status : Status, decision : Decision \cup {None},
            decidedBy : Actors \cup {None}, conditions : Limits \cup {None},
            budget : Budgets \cup {None}]

LogEvent == [type : Decision \cup {"requested", "expired", "consumed"},
             actor : Actors]

\* What a call carries across its steps: the instant it read, and what it
\* loaded.  Its other arguments are used in its last step and chosen there.
Call == [op : {"decide", "consume"}, request : Requests, instant : Nat,
         loaded : Request \cup {None}]

NoCall == [op |-> "none"]

InCall(a, op) == call[a].op = op

-----------------------------------------------------------------------------
(***************************************************************************)
(* A call starts with its arguments and the instant it read.               *)
(***************************************************************************)

Begin(a, op) ==
    /\ call[a] = NoCall
    /\ \E r \in Requests :
         call' = [call EXCEPT ![a] = [op |-> op, request |-> r,
                                      instant |-> clock, loaded |-> None]]
    /\ UNCHANGED <<request, log, lock, granted, clock>>

\* The bound keeps the log of a request that is asked about again and again short.
BeginDecide(a) ==
    /\ \A r \in Requests : Len(log[r]) < MaxEvents
    /\ Begin(a, "decide")

BeginConsume(a) == Begin(a, "consume")

\* Mutant: the transaction is not IMMEDIATE.
MutMayLock == TRUE

MayLock == lock = None

\* BEGIN IMMEDIATE, then _load_locked.
Load(a) ==
    /\ call[a] # NoCall
    /\ call[a].loaded = None
    /\ MayLock
    /\ lock' = a
    /\ call' = [call EXCEPT ![a].loaded = request[call[a].request]]
    /\ UNCHANGED <<request, log, granted, clock>>

\* The end of the transaction: what was saved and appended, or nothing.
Commit(a, admitted, new, type) ==
    /\ IF admitted
         THEN /\ request' = [request EXCEPT ![call[a].request] = new]
              /\ log' = [log EXCEPT ![call[a].request] =
                           Append(@, [type |-> type, actor |-> a])]
         ELSE UNCHANGED <<request, log>>
    /\ call' = [call EXCEPT ![a] = NoCall]
    /\ lock' = None
    /\ UNCHANGED clock

Expired(c) == c.instant >= ExpiresAt

-----------------------------------------------------------------------------
(***************************************************************************)
(* decide                                                                  *)
(***************************************************************************)

StatusAfter(decision) ==
    CASE decision \in {"approve_once", "approve_with_conditions"} -> "approved"
      [] decision = "request_more_information"  -> "information_required"
      [] decision = "propose_safer_alternative" -> "conditions_proposed"
      [] OTHER -> "denied"

\* Mutant: the requester may decide.
MutMayDecide(a, c) == c.loaded.status \in OPEN

\* Mutant: a decided request may be decided again.
MutMayDecideAgain(a, c) == a # RequestedBy[c.request]

MayDecide(a, c) ==
    /\ a # RequestedBy[c.request]
    /\ c.loaded.status \in OPEN

Decided(a, c, decision, conditions) ==
    [status |-> StatusAfter(decision), decision |-> decision, decidedBy |-> a,
     conditions |-> conditions, budget |-> c.loaded.budget]

\* Mutant: an approval with conditions that carries none.
MutValidDecision(decision, conditions) == TRUE

\* ApprovalRequest.validate_state, for what decide can produce.
ValidDecision(decision, conditions) ==
    decision = "approve_with_conditions" => conditions # None

\* A request found expired is saved as such, and the call raises after that.
Decide(a) ==
    /\ InCall(a, "decide") /\ call[a].loaded # None
    /\ \E decision \in Decision, conditions \in Limits \cup {None} :
         LET c == call[a] IN
         \/ /\ MayDecide(a, c) => ~Expired(c) /\ ~ValidDecision(decision, conditions)
            /\ Commit(a, FALSE, c.loaded, "expired")
         \/ /\ MayDecide(a, c) /\ Expired(c)
            /\ Commit(a, TRUE, [c.loaded EXCEPT !.status = "expired"], "expired")
         \/ /\ MayDecide(a, c) /\ ~Expired(c) /\ ValidDecision(decision, conditions)
            /\ Commit(a, TRUE, Decided(a, c, decision, conditions), decision)
    /\ UNCHANGED granted

-----------------------------------------------------------------------------
(***************************************************************************)
(* consume                                                                 *)
(***************************************************************************)

\* Mutant: the requester may consume.
MutMayConsume(a, c) == c.loaded.status = "approved"

MayConsume(a, c) ==
    /\ a # RequestedBy[c.request]
    /\ c.loaded.status = "approved"

\* Mutant: conditions are compared with the manifest's limit only.
MutConditionsMet(c, budget) ==
    c.loaded.decision = "approve_with_conditions" =>
        budget # None /\ budget <= ManifestLimit

\* evaluate and validate_approval_conditions: only a conditional approval
\* looks at the plan, whose request budget is None when no plan is passed.
ConditionsMet(c, budget) ==
    c.loaded.decision = "approve_with_conditions" =>
        /\ budget # None
        /\ budget <= ManifestLimit
        /\ budget <= c.loaded.conditions

Consumed(c, budget) ==
    [status |-> "consumed", decision |-> c.loaded.decision,
     decidedBy |-> c.loaded.decidedBy, conditions |-> c.loaded.conditions,
     budget |-> budget]

\* exact: the digest the caller presents is the one the request is bound to,
\* and its manifest, plan and execution identifier belong together.
Consume(a) ==
    /\ InCall(a, "consume") /\ call[a].loaded # None
    /\ \E exact \in BOOLEAN, budget \in Budgets \cup {None} :
       LET c == call[a]
           grant == /\ MayConsume(a, c) /\ ~Expired(c)
                    /\ exact /\ ConditionsMet(c, budget)
       IN /\ \/ /\ MayConsume(a, c) /\ Expired(c)
                /\ Commit(a, TRUE, [c.loaded EXCEPT !.status = "expired"], "expired")
             \/ /\ ~(MayConsume(a, c) /\ Expired(c))
                /\ Commit(a, grant, Consumed(c, budget), "consumed")
          /\ granted' = IF grant THEN [granted EXCEPT ![c.request] = @ + 1]
                                 ELSE granted

-----------------------------------------------------------------------------

\* The process dies: SQLite rolls its transaction back.
Crash(a) ==
    /\ call[a] # NoCall
    /\ call' = [call EXCEPT ![a] = NoCall]
    /\ lock' = IF lock = a THEN None ELSE lock
    /\ UNCHANGED <<request, log, granted, clock>>

Tick == /\ clock < MaxTime
        /\ clock' = clock + 1
        /\ UNCHANGED <<request, log, lock, call, granted>>

\* create: the request is pending and its log starts.
Init ==
    /\ request = [r \in Requests |->
         [status |-> "pending", decision |-> None, decidedBy |-> None,
          conditions |-> None, budget |-> None]]
    /\ log = [r \in Requests |->
                <<[type |-> "requested", actor |-> RequestedBy[r]]>>]
    /\ lock = None
    /\ call = [a \in Actors |-> NoCall]
    /\ granted = [r \in Requests |-> 0]
    /\ clock = 0

Next ==
    \/ Tick
    \/ \E a \in Actors : \/ BeginDecide(a) \/ BeginConsume(a) \/ Load(a)
                         \/ Decide(a) \/ Consume(a) \/ Crash(a)

Spec == Init /\ [][Next]_vars

-----------------------------------------------------------------------------
(***************************************************************************)
(* Properties.                                                             *)
(***************************************************************************)

TypeOK ==
    /\ request \in [Requests -> Request]
    /\ log \in [Requests -> Seq(LogEvent)]
    /\ lock \in Actors \cup {None}
    /\ call \in [Actors -> Call \cup {NoCall}]
    /\ granted \in [Requests -> Nat] /\ clock \in 0..MaxTime
    /\ \A r \in Requests :
         request[r].decision = "approve_with_conditions"
             => request[r].conditions # None

\* One approval starts at most one execution, whoever races for it and
\* whatever dies in between, and the stored request says that it was used.
GrantedOnce ==
    \A r \in Requests : /\ granted[r] <= 1
                        /\ granted[r] = 1 <=> request[r].status = "consumed"

\* Nobody approves or uses an approval of a request that they made: every
\* event after the first is another actor's.
MakerIsNotChecker ==
    \A r \in Requests : \A i \in 2..Len(log[r]) :
        log[r][i].actor # RequestedBy[r]

Last(r) == log[r][Len(log[r])]

\* The log explains the request: its last event is what the status came from,
\* and nothing is logged after a final status.
LogExplainsStatus ==
    \A r \in Requests :
        /\ Last(r).type = "requested" => request[r].status = "pending"
        /\ Last(r).type \in {"expired", "consumed"} => request[r].status = Last(r).type
        /\ Last(r).type \in Decision =>
             /\ request[r].status = StatusAfter(Last(r).type)
             /\ request[r].decision = Last(r).type
             /\ request[r].decidedBy = Last(r).actor
        /\ \A i \in 1..Len(log[r]) - 1 : log[r][i].type \notin {"expired", "consumed", "deny"}

\* The plan a conditional approval was used for keeps within the condition
\* the approver set, and within the action's own limit where that is lower.
UsedWithinConditions ==
    \A r \in Requests :
        /\ request[r].status = "consumed"
        /\ request[r].decision = "approve_with_conditions"
        => /\ request[r].budget <= request[r].conditions
           /\ request[r].budget <= ManifestLimit

\* What a human granted is what happens: an approval starts one execution at
\* most, and a conditional one only an execution within its limits.
UsedAsGranted == GrantedOnce /\ UsedWithinConditions

\* A step keeps who decided, the conditions, and an outcome once it is final.
DecisionKept ==
    \A r \in Requests : request[r].status \in FINAL \cup {"approved"} =>
        /\ request'[r].decidedBy = request[r].decidedBy
        /\ request'[r].conditions = request[r].conditions
        /\ request'[r].status \in
             IF request[r].status = "approved"
               THEN {"approved", "expired", "consumed"} ELSE {request[r].status}

\* A decision that approves or denies is final: it is neither taken back nor
\* given to somebody else, and an approval only ever expires or is used.
DecisionStays == [][DecisionKept]_vars
=============================================================================
