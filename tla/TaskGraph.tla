----------------------------- MODULE TaskGraph -----------------------------
(***************************************************************************)
(* The persistent task graph of vulnhunter/taskgraph: nodes with a status, *)
(* an attempt budget and at most one worker lease, kept in one file that   *)
(* every process reads and writes under an exclusive flock.                *)
(*                                                                         *)
(* A locked section is one atomic step.  What is not atomic is a call:     *)
(* every operation reads the wall clock (timestamp = now or utc_now()) and *)
(* its caller chooses expected_revision before the lock is taken, so both  *)
(* may be stale when the section runs.  A call is therefore two steps:     *)
(* Begin... records the arguments, and the operation itself applies or     *)
(* rejects them.                                                           *)
(***************************************************************************)
EXTENDS Naturals, FiniteSets

CONSTANTS Nodes,          \* node identifiers of the graph
          Workers,        \* processes that call the store
          MaximumAttempts,\* MaximumAttempts[n]: the node's attempt budget
          InitialStatus,  \* statuses a node may have when the graph is saved
          RequestedStatus,\* statuses the callers ask for
          TTLs,           \* lease lifetimes a caller may ask for, in ticks
          MaximumRenewals,\* renewals one lease allows
          MaxTime,        \* bound: the clock stops here
          MaxRevision,    \* bound: no call starts at this revision
          None            \* Python's None

NodeStatus == {"pending", "ready", "running", "waiting_for_human_approval",
               "paused", "blocked", "failed", "completed", "cancelled"}

TERMINAL_STATUSES == {"blocked", "failed", "completed", "cancelled"}

Lease == [owner : Workers, token : Nat, acquired : Nat, heartbeat : Nat,
          expires : Nat, renewals : Nat]

Node == [status : NodeStatus, attempts : Nat, updated : Nat,
         lease : Lease \cup {None}]

Call == [op : {"update", "acquire", "renew", "release", "recover"},
         node : Nodes, status : NodeStatus, ttl : Nat, timestamp : Nat,
         expected : Nat \cup {None}]

Held == [node : Nodes, token : Nat, expires : Nat]

ASSUME TaskGraphAssumption ==
    /\ MaximumAttempts \in [Nodes -> Nat \ {0}]
    /\ InitialStatus \subseteq NodeStatus \ {"running"}
    /\ RequestedStatus \subseteq NodeStatus
    /\ TTLs \subseteq Nat \ {0}
    /\ MaximumRenewals \in Nat
    /\ MaxTime \in Nat
    /\ MaxRevision \in Nat
    /\ None \notin Lease
    /\ None \notin Nat
    /\ None \notin Call
    /\ None \notin Held

VARIABLES graph,  \* the stored graph: revision, updated (at), nodes
          clock,  \* wall clock shared by all processes
          call,   \* call[w]: the operation w is about to run under the lock
          held    \* held[w]: the lease w was last granted, as w knows it

vars == <<graph, clock, call, held>>

AllowedTransitions ==
    [pending   |-> {"pending", "ready", "running", "blocked", "cancelled"},
     ready     |-> {"ready", "running", "paused", "cancelled"},
     running   |-> NodeStatus \ {"pending"},
     waiting_for_human_approval |->
        {"waiting_for_human_approval", "running", "paused", "cancelled"},
     paused    |-> {"paused", "ready", "running", "cancelled"},
     blocked   |-> {},
     failed    |-> {},
     completed |-> {},
     cancelled |-> {}]

\* Mutant: a lease is taken away one tick early.
MutIsExpired(lease, now) == now + 1 >= lease.expires

IsExpired(lease, now) == now >= lease.expires

(***************************************************************************)
(* Validation of an update, exactly as the models check it before a write. *)
(***************************************************************************)

\* WorkerLease.validate_times and GraphNode.validate_lease_state.
ValidNode(node) ==
    node.lease # None =>
        /\ node.status = "running"
        /\ node.lease.acquired <= node.lease.heartbeat
        /\ node.lease.heartbeat < node.lease.expires
        /\ node.lease.renewals <= MaximumRenewals

ValidLeaseUpdate(old, new) ==
    /\ new.owner = old.owner
    /\ new.token = old.token
    /\ new.acquired = old.acquired
    /\ new.heartbeat >= old.heartbeat
    /\ new.expires >= old.expires
    /\ new.renewals >= old.renewals

\* Mutant: no attempt limit.
MutUnlimitedNodeUpdate(n, old, new) ==
    \/ new = old
    \/ /\ new.status \in AllowedTransitions[old.status]
       /\ new.updated >= old.updated
       /\ old.lease # None /\ new.lease # None
            => ValidLeaseUpdate(old.lease, new.lease)

\* GraphNode.validate_update_from, for node n.
ValidNodeUpdate(n, old, new) ==
    \/ new = old
    \/ /\ new.status \in AllowedTransitions[old.status]
       /\ new.attempts >= old.attempts
       /\ new.attempts <= MaximumAttempts[n]
       /\ new.updated >= old.updated
       /\ old.status \notin TERMINAL_STATUSES
       /\ old.lease # None /\ new.lease # None
            => ValidLeaseUpdate(old.lease, new.lease)

\* TaskGraph.validate_update_from for the graph _next_graph builds: its
\* revision is the next one by construction, its nodes are the same nodes.
ValidUpdate(nodes, timestamp) ==
    /\ timestamp >= graph.updated
    /\ \A n \in Nodes : /\ ValidNode(nodes[n])
                        /\ ValidNodeUpdate(n, graph.nodes[n], nodes[n])

ExpectedRevision(c) == c.expected \in {None, graph.revision}

\* The end of every locked section: write the next revision, or raise and
\* leave the file as it was.
Commit(w, admitted, nodes) ==
    /\ IF admitted
         THEN graph' = [revision |-> graph.revision + 1,
                        updated  |-> call[w].timestamp,
                        nodes    |-> nodes]
         ELSE UNCHANGED graph
    /\ call' = [call EXCEPT ![w] = None]
    /\ UNCHANGED clock

-----------------------------------------------------------------------------
(***************************************************************************)
(* Calls.  expected_revision is None or the revision the caller read.      *)
(***************************************************************************)

Begin(w, op, n, status, ttl) ==
    /\ call[w] = None
    /\ graph.revision < MaxRevision
    /\ \E expected \in {None, graph.revision} :
         call' = [call EXCEPT ![w] =
                    [op |-> op, node |-> n, status |-> status, ttl |-> ttl,
                     timestamp |-> clock, expected |-> expected]]
    /\ UNCHANGED <<graph, clock, held>>

BeginUpdateStatus(w) ==
    \E n \in Nodes, status \in RequestedStatus : Begin(w, "update", n, status, 0)

BeginAcquire(w) ==
    \E n \in Nodes, ttl \in TTLs : Begin(w, "acquire", n, "running", ttl)

BeginRenew(w) ==
    /\ held[w] # None
    /\ \E ttl \in TTLs : Begin(w, "renew", held[w].node, "running", ttl)

\* release_lease refuses next_status = RUNNING before it takes the lock.
BeginRelease(w) ==
    /\ held[w] # None
    /\ \E status \in RequestedStatus \ {"running"} :
         Begin(w, "release", held[w].node, status, 0)

BeginRecover(w) == \E n \in Nodes : Begin(w, "recover", n, "ready", 0)

InCall(w, op) == call[w] # None /\ call[w].op = op

-----------------------------------------------------------------------------
(***************************************************************************)
(* The locked sections.                                                    *)
(***************************************************************************)

UpdatedNode(node, c) ==
    [status   |-> c.status,
     attempts |-> IF c.status = "running" /\ node.status # "running"
                    THEN node.attempts + 1 ELSE node.attempts,
     updated  |-> c.timestamp,
     lease    |-> node.lease]

UpdateStatus(w) ==
    /\ InCall(w, "update")
    /\ LET c     == call[w]
           node  == graph.nodes[c.node]
           nodes == [graph.nodes EXCEPT ![c.node] = UpdatedNode(node, c)]
       IN Commit(w, /\ ExpectedRevision(c)
                    /\ node.lease = None \/ c.status = "running"
                    /\ ValidUpdate(nodes, c.timestamp), nodes)
    /\ UNCHANGED held

\* The raw token is 256 random bits: the revision that stores it stands for it.
NewLease(w, c) ==
    [owner |-> w, token |-> graph.revision + 1, acquired |-> c.timestamp,
     heartbeat |-> c.timestamp, expires |-> c.timestamp + c.ttl,
     renewals |-> 0]

\* Mutant: the node is stamped with the lease's expiry.
MutLeasedNode(node, lease) ==
    [status   |-> "running",
     attempts |-> IF node.status # "running" THEN node.attempts + 1
                                             ELSE node.attempts,
     updated  |-> lease.expires,
     lease    |-> lease]

LeasedNode(node, lease) ==
    [status   |-> "running",
     attempts |-> IF node.status # "running" THEN node.attempts + 1
                                             ELSE node.attempts,
     updated  |-> lease.heartbeat,
     lease    |-> lease]

\* An expired lease passes the first test but not ValidUpdate: it can only be
\* cleared by RecoverExpiredLeases.
CanAcquire(node, c) ==
    /\ node.status \in {"ready", "running"}
    /\ node.lease = None \/ IsExpired(node.lease, c.timestamp)

AcquireLease(w) ==
    /\ InCall(w, "acquire")
    /\ LET c     == call[w]
           node  == graph.nodes[c.node]
           lease == NewLease(w, c)
           nodes == [graph.nodes EXCEPT ![c.node] = LeasedNode(node, lease)]
           admitted == /\ ExpectedRevision(c)
                       /\ CanAcquire(node, c)
                       /\ ValidUpdate(nodes, c.timestamp)
       IN /\ Commit(w, admitted, nodes)
          /\ held' = IF admitted
                       THEN [held EXCEPT ![w] = [node    |-> c.node,
                                                 token   |-> lease.token,
                                                 expires |-> lease.expires]]
                       ELSE held

\* _validate_lease: the caller presents its identity and its raw token.
ValidLease(w, node, timestamp) ==
    /\ node.lease # None
    /\ node.lease.owner = w
    /\ node.lease.token = held[w].token
    /\ ~IsExpired(node.lease, timestamp)

RenewedLease(lease, c) ==
    [owner |-> lease.owner, token |-> lease.token, acquired |-> lease.acquired,
     heartbeat |-> c.timestamp, expires |-> c.timestamp + c.ttl,
     renewals |-> lease.renewals + 1]

RenewedNode(node, lease) ==
    [status |-> node.status, attempts |-> node.attempts,
     updated |-> lease.heartbeat, lease |-> lease]

RenewLease(w) ==
    /\ InCall(w, "renew")
    /\ LET c     == call[w]
           node  == graph.nodes[c.node]
           lease == RenewedLease(node.lease, c)
           nodes == [graph.nodes EXCEPT ![c.node] = RenewedNode(node, lease)]
           admitted == /\ ExpectedRevision(c)
                       /\ ValidLease(w, node, c.timestamp)
                       /\ node.lease.renewals < MaximumRenewals
                       /\ ValidUpdate(nodes, c.timestamp)
       IN /\ Commit(w, admitted, nodes)
          /\ held' = IF admitted
                       THEN [held EXCEPT ![w].expires = lease.expires]
                       ELSE held

\* The node release_lease and recover_expired_leases write.
UnleasedNode(node, status, timestamp) ==
    [status |-> status, attempts |-> node.attempts, updated |-> timestamp,
     lease |-> None]

ReleaseLease(w) ==
    /\ InCall(w, "release")
    /\ LET c     == call[w]
           node  == graph.nodes[c.node]
           nodes == [graph.nodes EXCEPT
                       ![c.node] = UnleasedNode(node, c.status, c.timestamp)]
           admitted == /\ ExpectedRevision(c)
                       /\ ValidLease(w, node, c.timestamp)
                       /\ ValidUpdate(nodes, c.timestamp)
       IN /\ Commit(w, admitted, nodes)
          /\ held' = IF admitted THEN [held EXCEPT ![w] = None] ELSE held

ExpiredNodes(timestamp) ==
    {n \in Nodes : /\ graph.nodes[n].lease # None
                   /\ IsExpired(graph.nodes[n].lease, timestamp)}

RecoverExpiredLeases(w) ==
    /\ InCall(w, "recover")
    /\ LET c       == call[w]
           expired == ExpiredNodes(c.timestamp)
           nodes   == [n \in Nodes |->
                         IF n \in expired
                           THEN UnleasedNode(graph.nodes[n], "ready", c.timestamp)
                           ELSE graph.nodes[n]]
       IN Commit(w, /\ ExpectedRevision(c)
                    /\ expired # {}
                    /\ ValidUpdate(nodes, c.timestamp), nodes)
    /\ UNCHANGED held

\* A worker process dies and comes back: its call and its token are gone,
\* its lease stays in the file until it expires.
Crash(w) ==
    /\ call[w] # None \/ held[w] # None
    /\ call' = [call EXCEPT ![w] = None]
    /\ held' = [held EXCEPT ![w] = None]
    /\ UNCHANGED <<graph, clock>>

Tick == /\ clock < MaxTime
        /\ clock' = clock + 1
        /\ UNCHANGED <<graph, call, held>>

-----------------------------------------------------------------------------

Init ==
    /\ graph \in [revision : {0}, updated : {0},
                  nodes : [Nodes -> [status : InitialStatus, attempts : {0},
                                     updated : {0}, lease : {None}]]]
    /\ clock = 0
    /\ call = [w \in Workers |-> None]
    /\ held = [w \in Workers |-> None]

Next ==
    \/ Tick
    \/ \E w \in Workers :
         \/ BeginUpdateStatus(w) \/ UpdateStatus(w)
         \/ BeginAcquire(w)      \/ AcquireLease(w)
         \/ BeginRenew(w)        \/ RenewLease(w)
         \/ BeginRelease(w)      \/ ReleaseLease(w)
         \/ BeginRecover(w)      \/ RecoverExpiredLeases(w)
         \/ Crash(w)

Spec == Init /\ [][Next]_vars

-----------------------------------------------------------------------------
(***************************************************************************)
(* Properties.                                                             *)
(***************************************************************************)

\* Every stored node is one GraphNode accepts, and no timestamp in the file
\* or in a call under way is ahead of the clock.
TypeOK ==
    /\ graph \in [revision : Nat, updated : Nat, nodes : [Nodes -> Node]]
    /\ clock \in Nat
    /\ call \in [Workers -> Call \cup {None}]
    /\ held \in [Workers -> Held \cup {None}]
    /\ \A n \in Nodes : ValidNode(graph.nodes[n]) /\ graph.nodes[n].updated <= clock
    /\ \A w \in Workers : call[w] # None => call[w].timestamp <= clock

\* A worker believes it holds n: it was granted a lease that, by the clock,
\* has not run out.
BelievesHolding(w, n) ==
    /\ held[w] # None
    /\ held[w].node = n
    /\ clock < held[w].expires

\* Two workers never both believe they own a node, whatever the delay between
\* reading the clock and taking the lock in acquire, renew and recover.
NoTwoHolders ==
    \A n \in Nodes, v, w \in Workers :
        BelievesHolding(v, n) /\ BelievesHolding(w, n) => v = w

\* While a worker believes it holds a node, nobody else moves that node out of
\* running: update_status cannot, recovery waits for the expiry.
HolderKeepsNode ==
    \A w \in Workers, n \in Nodes :
        BelievesHolding(w, n) => graph.nodes[n].status = "running"

\* What a worker's belief means for the file: while its lease has not run out
\* by the clock, the file still holds that lease, in its name, and will hold
\* it at least as long as the worker believes.
BeliefStored ==
    \A w \in Workers :
        held[w] # None /\ clock < held[w].expires =>
            LET lease == graph.nodes[held[w].node].lease
            IN /\ lease # None
               /\ lease.owner = w
               /\ lease.token = held[w].token
               /\ lease.expires >= held[w].expires

\* No node consumes more than its attempt budget, through any sequence of
\* leases, recoveries, pauses and resumptions.
AttemptBudget ==
    \A n \in Nodes : graph.nodes[n].attempts <= MaximumAttempts[n]

\* A node that ended never runs again and keeps its outcome.
TerminalStays ==
    [][\A n \in Nodes : graph.nodes[n].status \in TERMINAL_STATUSES
         => graph'.nodes[n] = graph.nodes[n]]_vars

\* The graph keeps what its leases promise: mapped to who believes to hold a
\* node and to how far the node is, every step of every stale call, recovery
\* and crash is a grant, a release or a change that ExclusiveLease allows.
Phase(status) == IF status \in TERMINAL_STATUSES THEN "ended"
                 ELSE IF status = "running" THEN "running" ELSE "open"

Owners == [n \in Nodes |-> {w \in Workers : BelievesHolding(w, n)}]
NodePhase == [n \in Nodes |-> Phase(graph.nodes[n].status)]

Leases == INSTANCE ExclusiveLease WITH owners <- Owners, phase <- NodePhase

ImplementsLeases == Leases!Spec
=============================================================================
