---------------------------- MODULE GraphProofs ----------------------------
(***************************************************************************)
(* The task graph store for any number of leased workers (TaskGraph, first *)
(* part), and the graph that remediation keeps in it, projected from the   *)
(* finding's row by one revision-checked write after another (Remediation, *)
(* second part).                                                           *)
(***************************************************************************)
EXTENDS TaskGraph, Remediation, SequenceTheorems, FiniteSetTheorems, TLAPS

(***************************************************************************)
(* TaskGraph's invariants, and that it implements ExclusiveLease, for      *)
(* every graph, worker set, lease lifetime and bound.                      *)
(***************************************************************************)

\* A renewal or release under way is about the lease its caller was granted,
\* and a release does not leave the node running.
CallAboutHeld ==
    \A w \in Workers :
        call[w] # None /\ call[w].op \in {"renew", "release"} =>
            /\ held[w] # None /\ held[w].node = call[w].node
            /\ call[w].op = "release" => call[w].status # "running"

IInv == TypeOK /\ AttemptBudget /\ BeliefStored /\ CallAboutHeld

-----------------------------------------------------------------------------

\* The initial graph satisfies the invariant: nobody has called or holds.
LEMMA InitIInv == Init => IInv
  <1> SUFFICES ASSUME Init PROVE IInv
    OBVIOUS
  <1>1. TypeOK
    BY TaskGraphAssumption DEF Init, TypeOK, Node, ValidNode
  <1>2. AttemptBudget
    BY TaskGraphAssumption DEF Init, AttemptBudget
  <1>3. BeliefStored /\ CallAboutHeld
    BY DEF Init, BeliefStored, CallAboutHeld
  <1> QED BY <1>1, <1>2, <1>3 DEF IInv

\* A write that ValidUpdate admits keeps the stored graph well formed and
\* within its budgets.
LEMMA CommitOK ==
    ASSUME IInv, NEW w \in Workers, call[w] # None,
           NEW nodes \in [Nodes -> Node], NEW admitted \in BOOLEAN,
           Commit(w, admitted, nodes),
           admitted => ValidUpdate(nodes, call[w].timestamp),
           admitted => \A n \in Nodes : nodes[n].updated <= clock,
           held' \in [Workers -> Held \cup {None}]
    PROVE  TypeOK' /\ AttemptBudget'
  <1>1. call[w] \in Call /\ call[w].timestamp \in Nat
    BY DEF IInv, TypeOK, Call
  <1>2. graph' \in [revision : Nat, updated : Nat, nodes : [Nodes -> Node]]
    BY <1>1 DEF IInv, TypeOK, Commit
  <1>3. call' \in [Workers -> Call \cup {None}] /\ clock' \in Nat
    BY DEF IInv, TypeOK, Commit
  <1>4. ASSUME NEW n \in Nodes
        PROVE  ValidNode(graph'.nodes[n]) /\ graph'.nodes[n].updated <= clock'
    BY DEF IInv, TypeOK, Commit, ValidUpdate
  <1>5. ASSUME NEW v \in Workers, call'[v] # None
        PROVE  call'[v].timestamp <= clock'
    BY <1>5 DEF IInv, TypeOK, Commit
  <1>6. ASSUME NEW n \in Nodes
        PROVE  graph'.nodes[n].attempts <= MaximumAttempts[n]
    BY DEF IInv, AttemptBudget, Commit, ValidUpdate, ValidNodeUpdate
  <1>7. AttemptBudget'
    BY <1>6 DEF AttemptBudget
  <1>8. TypeOK'
    BY <1>2, <1>3, <1>4, <1>5 DEF TypeOK, ValidNode
  <1> QED BY <1>7, <1>8

\* Starting a call disturbs only the caller's own call record.
LEMMA BeginOK ==
    ASSUME IInv, NEW w \in Workers, NEW n \in Nodes, NEW status \in NodeStatus,
           NEW ttl \in Nat,
           NEW op \in {"update", "acquire", "renew", "release", "recover"},
           op \in {"renew", "release"} => held[w] # None /\ held[w].node = n,
           op = "release" => status # "running",
           Begin(w, op, n, status, ttl)
    PROVE  IInv'
  <1>1. PICK expected \in {None, graph.revision} :
          call' = [call EXCEPT ![w] =
                     [op |-> op, node |-> n, status |-> status, ttl |-> ttl,
                      timestamp |-> clock, expected |-> expected]]
    BY DEF Begin
  <1>2. UNCHANGED <<graph, clock, held>>
    BY DEF Begin
  <1>3. call' \in [Workers -> Call \cup {None}]
    BY <1>1 DEF IInv, TypeOK, Call
  <1>4. \A v \in Workers : call'[v] # None => call'[v].timestamp <= clock
    BY <1>1 DEF IInv, TypeOK
  <1>5. TypeOK'
    BY <1>2, <1>3, <1>4 DEF IInv, TypeOK, ValidNode
  <1>6. AttemptBudget' /\ BeliefStored'
    BY <1>2 DEF IInv, AttemptBudget, BeliefStored
  <1>7. CallAboutHeld'
    BY <1>1, <1>2 DEF IInv, TypeOK, CallAboutHeld
  <1> QED BY <1>5, <1>6, <1>7 DEF IInv

\* After a locked section that keeps held, the caller has no call and every
\* other call still matches what its caller holds.
LEMMA CommitCalls ==
    ASSUME IInv, NEW w \in Workers, NEW nodes, NEW admitted,
           Commit(w, admitted, nodes),
           \A v \in Workers \ {w} : held'[v] = held[v]
    PROVE  CallAboutHeld'
  BY DEF IInv, TypeOK, CallAboutHeld, Commit

\* What a locked section leaves in the file.
LEMMA CommitNodes ==
    ASSUME NEW w \in Workers, NEW nodes, NEW admitted \in BOOLEAN,
           Commit(w, admitted, nodes)
    PROVE  /\ clock' = clock
           /\ admitted => graph'.nodes = nodes
           /\ ~admitted => graph'.nodes = graph.nodes
  BY DEF Commit

\* A worker's belief survives a locked section that leaves alone every lease
\* somebody believes in.
LEMMA BeliefKept ==
    ASSUME IInv, clock' = clock, held' = held,
           \A w \in Workers :
             held[w] # None /\ clock < held[w].expires =>
               graph'.nodes[held[w].node].lease = graph.nodes[held[w].node].lease
    PROVE  BeliefStored'
  BY DEF IInv, BeliefStored

\* update_status touches no lease.
LEMMA UpdateStatusOK ==
    ASSUME IInv, NEW w \in Workers, UpdateStatus(w) PROVE IInv'
  <1> DEFINE c     == call[w]
             node  == graph.nodes[c.node]
             nodes == [graph.nodes EXCEPT ![c.node] = UpdatedNode(node, c)]
             admitted == /\ ExpectedRevision(c)
                         /\ node.lease = None \/ c.status = "running"
                         /\ ValidUpdate(nodes, c.timestamp)
  <1>1. c # None /\ c \in Call /\ c.timestamp <= clock
    BY DEF IInv, TypeOK, UpdateStatus, InCall
  <1>2. node \in Node
    BY <1>1 DEF IInv, TypeOK, Call
  <1>3. UpdatedNode(node, c) \in Node
    BY <1>1, <1>2 DEF UpdatedNode, Node, Call
  <1>4. nodes \in [Nodes -> Node]
    BY <1>3 DEF IInv, TypeOK
  <1>5. \A n \in Nodes : /\ nodes[n].updated <= clock
                         /\ nodes[n].lease = graph.nodes[n].lease
    BY <1>1, <1>2 DEF IInv, TypeOK, UpdatedNode, Node, Call
  <1>6. Commit(w, admitted, nodes) /\ held' = held
    BY DEF UpdateStatus
  <1>7. TypeOK' /\ AttemptBudget'
    <2>1. held' \in [Workers -> Held \cup {None}]
      BY <1>6 DEF IInv, TypeOK
    <2> HIDE DEF nodes, c
    <2> QED BY <1>1, <1>4, <1>5, <1>6, <2>1, CommitOK DEF c
  <1>8. CallAboutHeld'
    BY <1>6, CommitCalls
  <1>9. BeliefStored'
    <2>1. \A v \in Workers : held[v] # None => held[v].node \in Nodes
      BY DEF IInv, TypeOK, Held
    <2> HIDE DEF nodes, admitted
    <2>2. admitted \in BOOLEAN
      BY DEF admitted
    <2>3. /\ clock' = clock
          /\ admitted => graph'.nodes = nodes
          /\ ~admitted => graph'.nodes = graph.nodes
      BY <1>6, <2>2, CommitNodes
    <2> QED BY <1>5, <1>6, <2>1, <2>3, BeliefKept
  <1> QED BY <1>7, <1>8, <1>9 DEF IInv

\* acquire_lease: a node somebody believes in cannot be leased again, for its
\* stored lease is not expired at any timestamp the clock has shown.
LEMMA AcquireLeaseOK ==
    ASSUME IInv, NEW w \in Workers, AcquireLease(w) PROVE IInv'
  <1> DEFINE c     == call[w]
             node  == graph.nodes[c.node]
             lease == NewLease(w, c)
             nodes == [graph.nodes EXCEPT ![c.node] = LeasedNode(node, lease)]
             admitted == /\ ExpectedRevision(c)
                         /\ CanAcquire(node, c)
                         /\ ValidUpdate(nodes, c.timestamp)
  <1>1. c # None /\ c \in Call /\ c.timestamp <= clock
    BY DEF IInv, TypeOK, AcquireLease, InCall
  <1>2. node \in Node /\ c.node \in Nodes
    BY <1>1 DEF IInv, TypeOK, Call
  <1>3. lease \in Lease
    BY <1>1 DEF NewLease, Lease, Call, IInv, TypeOK
  <1>4. LeasedNode(node, lease) \in Node
    BY <1>1, <1>2, <1>3 DEF LeasedNode, NewLease, Node, Call, NodeStatus, Lease
  <1>5. nodes \in [Nodes -> Node]
    BY <1>4 DEF IInv, TypeOK
  <1>6. \A n \in Nodes : nodes[n].updated <= clock
    BY <1>1, <1>2 DEF IInv, TypeOK, LeasedNode, NewLease, Node, Call
  <1>7. \A n \in Nodes \ {c.node} : nodes[n] = graph.nodes[n]
    BY DEF IInv, TypeOK
  <1>8. /\ Commit(w, admitted, nodes)
        /\ held' = IF admitted
                     THEN [held EXCEPT ![w] = [node    |-> c.node,
                                               token   |-> lease.token,
                                               expires |-> lease.expires]]
                     ELSE held
    BY DEF AcquireLease
  <1>9. nodes[c.node].lease = lease /\ lease # None
    BY <1>2, <1>3, TaskGraphAssumption DEF IInv, TypeOK, LeasedNode
  <1>10. admitted \in BOOLEAN
    BY DEF admitted
  <1>11. held' \in [Workers -> Held \cup {None}]
    BY <1>2, <1>3, <1>8 DEF IInv, TypeOK, Held, Lease
  <1>12. TypeOK' /\ AttemptBudget'
    <2> HIDE DEF nodes, c, lease
    <2>1. admitted => ValidUpdate(nodes, c.timestamp)
      BY DEF admitted
    <2> HIDE DEF admitted
    <2> QED BY <1>1, <1>5, <1>6, <1>8, <1>10, <1>11, <2>1, CommitOK DEF c
  <1>13. \A v \in Workers \ {w} : held'[v] = held[v]
    BY <1>8 DEF IInv, TypeOK
  <1>14. CallAboutHeld'
    BY <1>8, <1>13, CommitCalls
  <1>15. BeliefStored'
    <2>1. admitted =>
            \A v \in Workers : held[v] # None /\ clock < held[v].expires
                                => held[v].node # c.node
      <3> SUFFICES ASSUME admitted, NEW v \in Workers, held[v] # None,
                          clock < held[v].expires, held[v].node = c.node
                   PROVE  FALSE
        OBVIOUS
      <3>1. node.lease # None /\ node.lease.expires >= held[v].expires
        BY DEF IInv, BeliefStored
      <3>2. IsExpired(node.lease, c.timestamp)
        BY <3>1 DEF CanAcquire
      <3>3. node.lease.expires \in Nat /\ held[v].expires \in Nat /\ clock \in Nat
        BY <1>2, <3>1 DEF IInv, TypeOK, Node, Lease, Held
      <3> QED BY <1>1, <3>1, <3>2, <3>3 DEF IsExpired, Call
    <2>2. \A v \in Workers : held[v] # None => held[v].node \in Nodes
      BY DEF IInv, TypeOK, Held
    <2>3. lease.owner = w
      BY DEF NewLease
    <2>4. lease.expires \in Nat
      BY <1>3 DEF Lease
    <2> HIDE DEF nodes, admitted, lease
    <2>5. /\ clock' = clock
          /\ admitted => graph'.nodes = nodes
          /\ ~admitted => graph'.nodes = graph.nodes
      BY <1>8, <1>10, CommitNodes
    <2>6. CASE ~admitted
      BY <1>8, <2>5, <2>6, BeliefKept
    <2>7. CASE admitted
      <3> SUFFICES ASSUME NEW v \in Workers, held'[v] # None,
                          clock < held'[v].expires
                   PROVE  LET l == graph'.nodes[held'[v].node].lease
                          IN /\ l # None
                             /\ l.owner = v
                             /\ l.token = held'[v].token
                             /\ l.expires >= held'[v].expires
        BY <2>5 DEF BeliefStored
      <3>1. CASE v = w
        <4>1. held'[w] = [node |-> c.node, token |-> lease.token,
                          expires |-> lease.expires]
          BY <1>8, <2>7 DEF IInv, TypeOK
        <4>2. graph'.nodes[held'[w].node].lease = lease
          BY <1>9, <2>5, <2>7, <4>1
        <4> QED BY <1>9, <2>3, <2>4, <3>1, <4>1, <4>2
      <3>2. CASE v # w
        <4>1. held'[v] = held[v]
          BY <1>13, <3>2
        <4>2. held[v].node \in Nodes \ {c.node}
          BY <2>1, <2>2, <2>7, <4>1
        <4>3. graph'.nodes[held[v].node] = graph.nodes[held[v].node]
          BY <1>7, <2>5, <2>7, <4>2
        <4> QED BY <4>1, <4>3 DEF IInv, BeliefStored
      <3> QED BY <3>1, <3>2
    <2> QED BY <2>6, <2>7
  <1> QED BY <1>12, <1>14, <1>15 DEF IInv

\* renew_lease extends the lease its caller presents, and only that one.
LEMMA RenewLeaseOK ==
    ASSUME IInv, NEW w \in Workers, RenewLease(w) PROVE IInv'
  <1> DEFINE c     == call[w]
             node  == graph.nodes[c.node]
             lease == RenewedLease(node.lease, c)
             nodes == [graph.nodes EXCEPT ![c.node] = RenewedNode(node, lease)]
             admitted == /\ ExpectedRevision(c)
                         /\ ValidLease(w, node, c.timestamp)
                         /\ node.lease.renewals < MaximumRenewals
                         /\ ValidUpdate(nodes, c.timestamp)
  <1>1. /\ c # None /\ c \in Call /\ c.timestamp <= clock
        /\ held[w] # None /\ held[w].node = c.node
    BY DEF IInv, TypeOK, CallAboutHeld, RenewLease, InCall
  <1>2. node \in Node /\ c.node \in Nodes /\ held[w] \in Held
    BY <1>1 DEF IInv, TypeOK, Call
  <1>3. /\ Commit(w, admitted, nodes)
        /\ held' = IF admitted
                     THEN [held EXCEPT ![w].expires = lease.expires]
                     ELSE held
    BY DEF RenewLease
  <1>4. admitted \in BOOLEAN
    BY DEF admitted
  <1>5. CASE ~admitted
    <2> HIDE DEF nodes, admitted
    <2>1. graph' = graph /\ clock' = clock /\ held' = held
      BY <1>3, <1>5 DEF Commit
    <2>2. call' = [call EXCEPT ![w] = None]
      BY <1>3 DEF Commit
    <2> QED BY <2>1, <2>2
        DEF IInv, TypeOK, AttemptBudget, BeliefStored, CallAboutHeld, ValidNode
  <1>6. CASE admitted
    <2>1. /\ node.lease # None /\ node.lease \in Lease /\ node.lease.owner = w
          /\ node.lease.token = held[w].token
      BY <1>2, <1>6 DEF ValidLease, Node
    <2>2. lease \in Lease
      BY <1>1, <2>1 DEF RenewedLease, Lease, Call
    <2>3. /\ lease # None /\ lease.owner = w /\ lease.token = held[w].token
          /\ lease.expires \in Nat /\ lease.heartbeat = c.timestamp
      BY <2>1, <2>2, TaskGraphAssumption DEF RenewedLease, Lease
    <2>4. RenewedNode(node, lease) \in Node
      BY <1>1, <1>2, <2>2, <2>3 DEF RenewedNode, Node, Call
    <2>5. nodes \in [Nodes -> Node]
      BY <2>4 DEF IInv, TypeOK
    <2>6. \A n \in Nodes : nodes[n].updated <= clock
      BY <1>1, <1>2, <2>3 DEF IInv, TypeOK, RenewedNode
    <2>7. nodes[c.node].lease = lease
      BY <1>2 DEF IInv, TypeOK, RenewedNode
    <2>8. \A n \in Nodes \ {c.node} : nodes[n] = graph.nodes[n]
      BY DEF IInv, TypeOK
    <2>9. /\ held'[w] = [held[w] EXCEPT !.expires = lease.expires]
          /\ \A v \in Workers \ {w} : held'[v] = held[v]
      BY <1>3, <1>6 DEF IInv, TypeOK
    <2>10. /\ held'[w].node = c.node /\ held'[w].token = held[w].token
           /\ held'[w].expires = lease.expires
      BY <1>1, <1>2, <2>9 DEF Held
    <2>11. held' \in [Workers -> Held \cup {None}]
      <3>1. [held[w] EXCEPT !.expires = lease.expires] \in Held
        BY <1>2, <2>3 DEF Held
      <3>2. held' = [held EXCEPT ![w] = [held[w] EXCEPT !.expires = lease.expires]]
        BY <1>3, <1>6 DEF IInv, TypeOK
      <3> QED BY <3>1, <3>2 DEF IInv, TypeOK
    <2>12. ValidUpdate(nodes, c.timestamp)
      BY <1>6
    <2> HIDE DEF nodes, c, lease
    <2>13. TypeOK' /\ AttemptBudget'
      BY <1>1, <1>3, <1>4, <2>5, <2>6, <2>11, <2>12, CommitOK DEF c
    <2>14. CallAboutHeld'
      BY <1>3, <2>9, CommitCalls
    <2>15. graph'.nodes = nodes /\ clock' = clock
      BY <1>3, <1>4, <1>6, CommitNodes
    <2>16. ASSUME NEW v \in Workers, held'[v] # None, clock < held'[v].expires
           PROVE  LET l == graph'.nodes[held'[v].node].lease
                  IN /\ l # None
                     /\ l.owner = v
                     /\ l.token = held'[v].token
                     /\ l.expires >= held'[v].expires
      <3>1. CASE v = w
        BY <2>3, <2>7, <2>10, <2>15, <3>1
      <3>2. CASE v # w
        <4>1. held'[v] = held[v] /\ held[v].node \in Nodes
          BY <2>9, <2>16, <3>2 DEF IInv, TypeOK, Held
        <4>2. LET l == graph.nodes[held[v].node].lease
              IN /\ l # None
                 /\ l.owner = v
                 /\ l.token = held[v].token
                 /\ l.expires >= held[v].expires
          BY <2>16, <4>1 DEF IInv, BeliefStored
        <4>3. held[v].node # c.node
          BY <2>1, <3>2, <4>2
        <4> QED BY <2>8, <2>15, <4>1, <4>2, <4>3
      <3> QED BY <3>1, <3>2
    <2>17. BeliefStored'
      BY <2>15, <2>16 DEF BeliefStored
    <2> QED BY <2>13, <2>14, <2>17 DEF IInv
  <1> QED BY <1>5, <1>6

\* release_lease drops the lease its caller presents, and the caller's belief
\* with it.
LEMMA ReleaseLeaseOK ==
    ASSUME IInv, NEW w \in Workers, ReleaseLease(w) PROVE IInv'
  <1> DEFINE c     == call[w]
             node  == graph.nodes[c.node]
             nodes == [graph.nodes EXCEPT
                         ![c.node] = UnleasedNode(node, c.status, c.timestamp)]
             admitted == /\ ExpectedRevision(c)
                         /\ ValidLease(w, node, c.timestamp)
                         /\ ValidUpdate(nodes, c.timestamp)
  <1>1. /\ c # None /\ c \in Call /\ c.timestamp <= clock
        /\ held[w] # None /\ held[w].node = c.node
    BY DEF IInv, TypeOK, CallAboutHeld, ReleaseLease, InCall
  <1>2. node \in Node /\ c.node \in Nodes
    BY <1>1 DEF IInv, TypeOK, Call
  <1>3. UnleasedNode(node, c.status, c.timestamp) \in Node
    BY <1>1, <1>2 DEF UnleasedNode, Node, Call
  <1>4. nodes \in [Nodes -> Node]
    BY <1>3 DEF IInv, TypeOK
  <1>5. \A n \in Nodes : nodes[n].updated <= clock
    BY <1>1, <1>2 DEF IInv, TypeOK, UnleasedNode
  <1>6. \A n \in Nodes \ {c.node} : nodes[n] = graph.nodes[n]
    BY DEF IInv, TypeOK
  <1>7. /\ Commit(w, admitted, nodes)
        /\ held' = IF admitted THEN [held EXCEPT ![w] = None] ELSE held
    BY DEF ReleaseLease
  <1>8. admitted \in BOOLEAN
    BY DEF admitted
  <1>9. /\ held' \in [Workers -> Held \cup {None}]
        /\ \A v \in Workers \ {w} : held'[v] = held[v]
        /\ admitted => held'[w] = None
    BY <1>7 DEF IInv, TypeOK
  <1>10. admitted => node.lease # None /\ node.lease.owner = w
    BY DEF ValidLease
  <1>11. admitted => ValidUpdate(nodes, c.timestamp)
    BY DEF admitted
  <1> HIDE DEF nodes, c, admitted
  <1>12. TypeOK' /\ AttemptBudget'
    BY <1>1, <1>4, <1>5, <1>7, <1>8, <1>9, <1>11, CommitOK DEF c
  <1>13. CallAboutHeld'
    BY <1>7, <1>9, CommitCalls
  <1>14. /\ clock' = clock
         /\ admitted => graph'.nodes = nodes
         /\ ~admitted => graph'.nodes = graph.nodes
    BY <1>7, <1>8, CommitNodes
  <1>15. BeliefStored'
    <2>1. CASE ~admitted
      BY <1>7, <1>14, <2>1, BeliefKept
    <2>2. CASE admitted
      <3> SUFFICES ASSUME NEW v \in Workers, held'[v] # None,
                          clock < held'[v].expires
                   PROVE  LET l == graph'.nodes[held'[v].node].lease
                          IN /\ l # None
                             /\ l.owner = v
                             /\ l.token = held'[v].token
                             /\ l.expires >= held'[v].expires
        BY <1>14 DEF BeliefStored
      <3>1. v # w /\ held'[v] = held[v]
        BY <1>9, <2>2
      <3>2. held[v].node \in Nodes
        BY <3>1 DEF IInv, TypeOK, Held
      <3>3. LET l == graph.nodes[held[v].node].lease
            IN /\ l # None
               /\ l.owner = v
               /\ l.token = held[v].token
               /\ l.expires >= held[v].expires
        BY <3>1 DEF IInv, BeliefStored
      <3>4. held[v].node # c.node
        BY <1>10, <2>2, <3>1, <3>3
      <3> QED BY <1>6, <1>14, <2>2, <3>1, <3>2, <3>3, <3>4
    <2> QED BY <2>1, <2>2
  <1> QED BY <1>12, <1>13, <1>15 DEF IInv

\* recover_expired_leases clears only leases that had expired at a time the
\* clock has shown, so nobody believes in them any more.
LEMMA RecoverExpiredLeasesOK ==
    ASSUME IInv, NEW w \in Workers, RecoverExpiredLeases(w) PROVE IInv'
  <1> DEFINE c       == call[w]
             expired == ExpiredNodes(c.timestamp)
             nodes   == [n \in Nodes |->
                           IF n \in expired
                             THEN UnleasedNode(graph.nodes[n], "ready", c.timestamp)
                             ELSE graph.nodes[n]]
             admitted == /\ ExpectedRevision(c)
                         /\ expired # {}
                         /\ ValidUpdate(nodes, c.timestamp)
  <1>1. c # None /\ c \in Call /\ c.timestamp <= clock
    BY DEF IInv, TypeOK, RecoverExpiredLeases, InCall
  <1>2. c.timestamp \in Nat /\ clock \in Nat
    BY <1>1 DEF Call, IInv, TypeOK
  <1>3. \A n \in Nodes : graph.nodes[n] \in Node
    BY DEF IInv, TypeOK
  <1>4. ASSUME NEW n \in Nodes
        PROVE  /\ UnleasedNode(graph.nodes[n], "ready", c.timestamp) \in Node
               /\ UnleasedNode(graph.nodes[n], "ready", c.timestamp).updated
                    = c.timestamp
    BY <1>2, <1>3 DEF UnleasedNode, Node, NodeStatus
  <1>5. nodes \in [Nodes -> Node]
    BY <1>3, <1>4
  <1>6. \A n \in Nodes : nodes[n].updated <= clock
    BY <1>1, <1>4 DEF IInv, TypeOK
  <1>7. \A n \in Nodes \ expired : nodes[n] = graph.nodes[n]
    OBVIOUS
  <1>8. Commit(w, admitted, nodes) /\ held' = held
    BY DEF RecoverExpiredLeases
  <1>9. admitted \in BOOLEAN
    BY DEF admitted
  <1>10. admitted => ValidUpdate(nodes, c.timestamp)
    BY DEF admitted
  <1>11. ASSUME NEW v \in Workers, held[v] # None, clock < held[v].expires
         PROVE  held[v].node \in Nodes \ expired
    <2>1. held[v] \in Held /\ held[v].node \in Nodes /\ held[v].expires \in Nat
      BY <1>11 DEF IInv, TypeOK, Held
    <2>2. /\ graph.nodes[held[v].node].lease # None
          /\ graph.nodes[held[v].node].lease.expires >= held[v].expires
      BY <1>11 DEF IInv, BeliefStored
    <2>3. graph.nodes[held[v].node].lease.expires \in Nat
      BY <1>3, <2>1, <2>2 DEF Node, Lease
    <2> QED BY <1>1, <1>2, <1>11, <2>1, <2>2, <2>3 DEF ExpiredNodes, IsExpired
  <1> HIDE DEF nodes, c, admitted, expired
  <1>12. held' \in [Workers -> Held \cup {None}]
    BY <1>8 DEF IInv, TypeOK
  <1>13. TypeOK' /\ AttemptBudget'
    BY <1>1, <1>5, <1>6, <1>8, <1>9, <1>10, <1>12, CommitOK DEF c
  <1>14. CallAboutHeld'
    BY <1>8, CommitCalls
  <1>15. /\ clock' = clock
         /\ admitted => graph'.nodes = nodes
         /\ ~admitted => graph'.nodes = graph.nodes
    BY <1>8, <1>9, CommitNodes
  <1>16. BeliefStored'
    BY <1>7, <1>8, <1>9, <1>11, <1>15, BeliefKept
  <1> QED BY <1>13, <1>14, <1>16 DEF IInv

\* The invariant is inductive.
LEMMA NextIInv == IInv /\ [Next]_vars => IInv'
  <1> SUFFICES ASSUME IInv, [Next]_vars PROVE IInv'
    OBVIOUS
  <1> USE DEF IInv
  <1>1. CASE UNCHANGED vars
    BY <1>1 DEF vars, TypeOK, AttemptBudget, BeliefStored, CallAboutHeld, ValidNode
  <1>2. CASE Tick
    <2>1. clock' \in Nat /\ clock' > clock /\ graph' = graph /\ call' = call /\ held' = held
      BY <1>2 DEF Tick, TypeOK
    <2>2. \A n \in Nodes : graph.nodes[n].updated \in Nat
      BY DEF TypeOK, Node
    <2>3. \A w \in Workers : call[w] # None => call[w].timestamp \in Nat
      BY DEF TypeOK, Call
    <2>4. \A w \in Workers : held[w] # None => held[w].expires \in Nat
      BY DEF TypeOK, Held
    <2>5. TypeOK'
      BY <2>1, <2>2, <2>3 DEF TypeOK, ValidNode
    <2>6. BeliefStored'
      BY <2>1, <2>4 DEF TypeOK, BeliefStored
    <2> QED BY <2>1, <2>5, <2>6 DEF AttemptBudget, CallAboutHeld
  <1>3. ASSUME NEW w \in Workers, Crash(w) PROVE IInv'
    BY <1>3 DEF Crash, TypeOK, AttemptBudget, BeliefStored, CallAboutHeld, ValidNode
  <1>4. ASSUME NEW w \in Workers, BeginUpdateStatus(w) PROVE IInv'
    BY <1>4, BeginOK, TaskGraphAssumption DEF BeginUpdateStatus
  <1>5. ASSUME NEW w \in Workers, BeginAcquire(w) PROVE IInv'
    BY <1>5, BeginOK, TaskGraphAssumption DEF BeginAcquire, NodeStatus
  <1>6. ASSUME NEW w \in Workers, BeginRenew(w) PROVE IInv'
    BY <1>6, BeginOK, TaskGraphAssumption DEF BeginRenew, NodeStatus, TypeOK, Held
  <1>7. ASSUME NEW w \in Workers, BeginRelease(w) PROVE IInv'
    BY <1>7, BeginOK, TaskGraphAssumption DEF BeginRelease, TypeOK, Held
  <1>8. ASSUME NEW w \in Workers, BeginRecover(w) PROVE IInv'
    BY <1>8, BeginOK DEF BeginRecover, NodeStatus
  <1> QED
    BY <1>1, <1>2, <1>3, <1>4, <1>5, <1>6, <1>7, <1>8, UpdateStatusOK,
       AcquireLeaseOK, RenewLeaseOK, ReleaseLeaseOK, RecoverExpiredLeasesOK
       DEF Next

-----------------------------------------------------------------------------

\* The inductive invariant holds in every reachable state.
THEOREM Inductive == Spec => []IInv
  BY InitIInv, NextIInv, PTL DEF Spec

\* Every stored node is one GraphNode accepts, and no timestamp is ahead of
\* the clock.
THEOREM TypeCorrect == Spec => []TypeOK
  <1>1. IInv => TypeOK
    BY DEF IInv
  <1> QED BY <1>1, Inductive, PTL

\* While a worker's lease has not run out by the clock, the file holds it.
THEOREM BeliefsAreStored == Spec => []BeliefStored
  <1>1. IInv => BeliefStored
    BY DEF IInv
  <1> QED BY <1>1, Inductive, PTL

\* No two workers believe they own the same node, whatever the number of
\* workers, the lease lifetimes and the delays before the lock.
THEOREM LeaseExclusive == Spec => []NoTwoHolders
  <1>1. IInv => NoTwoHolders
    BY DEF IInv, BeliefStored, NoTwoHolders, BelievesHolding
  <1> QED BY <1>1, Inductive, PTL

\* While a worker believes it holds a node, the node is running.
THEOREM HolderKeeps == Spec => []HolderKeepsNode
  <1>1. IInv => HolderKeepsNode
    BY DEF IInv, TypeOK, ValidNode, BeliefStored, HolderKeepsNode, BelievesHolding
  <1> QED BY <1>1, Inductive, PTL

\* No sequence of leases, recoveries and resumptions exceeds a node's budget.
THEOREM BudgetKept == Spec => []AttemptBudget
  <1>1. IInv => AttemptBudget
    BY DEF IInv
  <1> QED BY <1>1, Inductive, PTL

\* Every step leaves the stored nodes alone or replaces each of them by an
\* update GraphNode.validate_update_from accepts.
LEMMA StepsAreValidUpdates ==
    ASSUME [Next]_vars, NEW n \in Nodes
    PROVE  \/ graph'.nodes[n] = graph.nodes[n]
           \/ ValidNodeUpdate(n, graph.nodes[n], graph'.nodes[n])
  <1>1. ASSUME NEW w \in Workers, NEW nodes, NEW admitted \in BOOLEAN,
               Commit(w, admitted, nodes),
               admitted => ValidUpdate(nodes, call[w].timestamp)
        PROVE  \/ graph'.nodes[n] = graph.nodes[n]
               \/ ValidNodeUpdate(n, graph.nodes[n], graph'.nodes[n])
    BY <1>1, CommitNodes DEF ValidUpdate
  <1>2. CASE \E w \in Workers : UpdateStatus(w)
    BY <1>1, <1>2 DEF UpdateStatus
  <1>3. CASE \E w \in Workers : AcquireLease(w)
    BY <1>1, <1>3 DEF AcquireLease
  <1>4. CASE \E w \in Workers : RenewLease(w)
    BY <1>1, <1>4 DEF RenewLease
  <1>5. CASE \E w \in Workers : ReleaseLease(w)
    BY <1>1, <1>5 DEF ReleaseLease
  <1>6. CASE \E w \in Workers : RecoverExpiredLeases(w)
    BY <1>1, <1>6 DEF RecoverExpiredLeases
  <1>7. CASE graph' = graph
    BY <1>7
  <1> QED
    BY <1>2, <1>3, <1>4, <1>5, <1>6, <1>7
       DEF Next, vars, Tick, Crash, BeginUpdateStatus, BeginAcquire, BeginRenew,
           BeginRelease, BeginRecover, Begin

\* A node that ended keeps its outcome, whatever is called afterwards.
THEOREM TerminalKept == Spec => TerminalStays
  <1>1. [Next]_vars => [\A n \in Nodes : graph.nodes[n].status \in TERMINAL_STATUSES
                          => graph'.nodes[n] = graph.nodes[n]]_vars
    BY StepsAreValidUpdates DEF ValidNodeUpdate
  <1> QED BY <1>1, PTL DEF Spec, TerminalStays

-----------------------------------------------------------------------------
(***************************************************************************)
(* The task graph implements ExclusiveLease: each step of a locked section *)
(* is a grant, a release or a change of who believes to own a node and of  *)
(* how far the node is.                                                    *)
(***************************************************************************)

\* A worker that believes to hold n has its lease in the file, and n runs.
LEMMA OwnerStored ==
    ASSUME IInv, NEW n \in Nodes, NEW w \in Owners[n]
    PROVE  /\ w \in Workers /\ held[w] # None /\ held[w].node = n
           /\ clock < held[w].expires
           /\ graph.nodes[n].lease # None
           /\ graph.nodes[n].lease.owner = w
           /\ graph.nodes[n].lease.expires >= held[w].expires
           /\ graph.nodes[n].status = "running"
  <1>1. w \in Workers /\ BelievesHolding(w, n)
    BY DEF Owners
  <1> QED BY <1>1 DEF IInv, TypeOK, BeliefStored, ValidNode, BelievesHolding

\* One worker owns a node at most.
LEMMA OneOwner ==
    ASSUME IInv, NEW n \in Nodes, NEW v \in Owners[n], NEW w \in Owners[n]
    PROVE  v = w
  BY OwnerStored

\* A step that gives nobody a node and moves nodes only that nobody owned, or
\* that somebody owns before and after, is a change.
LEMMA ChangeStep ==
    ASSUME IInv, IInv', [Next]_vars,
           \A n \in Nodes : Owners'[n] \subseteq Owners[n],
           \A n \in Nodes : NodePhase'[n] # NodePhase[n] => Owners[n] = {}
    PROVE  Leases!Change
  <1>1. Owners' \in [Nodes -> SUBSET Workers]
    BY DEF Owners
  <1>2. NodePhase' \in [Nodes -> Leases!Phases]
    BY DEF NodePhase, Phase, Leases!Phases
  <1>3. ASSUME NEW n \in Nodes, NodePhase'[n] # NodePhase[n]
        PROVE  NodePhase[n] # "ended"
    <2>1. graph'.nodes[n] # graph.nodes[n]
      BY <1>3 DEF NodePhase
    <2>2. graph.nodes[n].status \notin TERMINAL_STATUSES
      BY <2>1, StepsAreValidUpdates DEF ValidNodeUpdate
    <2> QED BY <2>2 DEF NodePhase, Phase
  <1> QED BY <1>1, <1>2, <1>3 DEF Leases!Change

\* A step that leaves held and the clock alone, or only lets go, is a change:
\* whoever owns a node afterwards owned it before, and it runs in both states.
LEMMA QuietStep ==
    ASSUME IInv, IInv', [Next]_vars, clock' = clock, held' = held
    PROVE  Leases!Change
  <1>1. \A n \in Nodes : Owners'[n] = Owners[n]
    BY DEF Owners, BelievesHolding
  <1>2. ASSUME NEW n \in Nodes, NodePhase'[n] # NodePhase[n], Owners[n] # {}
        PROVE  FALSE
    <2>1. PICK w \in Owners[n] : TRUE
      BY <1>2
    <2>2. graph.nodes[n].status = "running"
      BY <2>1, OwnerStored
    <2>3. w \in Workers /\ BelievesHolding(w, n)'
      BY <1>1, <2>1 DEF Owners
    <2>4. graph'.nodes[n].status = "running"
      BY <2>3 DEF IInv, TypeOK, BeliefStored, ValidNode, BelievesHolding
    <2> QED BY <1>2, <2>2, <2>4 DEF NodePhase
  <1> QED BY <1>1, <1>2, ChangeStep

\* A step that leaves the file alone and grants nothing is a change.
LEMMA LapseStep ==
    ASSUME IInv, IInv', [Next]_vars, graph' = graph, clock' >= clock,
           clock' \in Nat,
           \A w \in Workers : held'[w] \in {held[w], None}
    PROVE  Leases!Change
  <1>1. ASSUME NEW n \in Nodes PROVE Owners'[n] \subseteq Owners[n]
    <2> SUFFICES ASSUME NEW w \in Owners'[n] PROVE w \in Owners[n]
      OBVIOUS
    <2>1. w \in Workers /\ held'[w] # None /\ held'[w].node = n /\ clock' < held'[w].expires
      BY DEF Owners, BelievesHolding
    <2>2. held'[w] = held[w] /\ held[w] \in Held /\ clock \in Nat
      BY <2>1 DEF IInv, TypeOK
    <2>3. clock < held[w].expires
      BY <2>1, <2>2 DEF Held
    <2> QED BY <2>1, <2>2, <2>3 DEF Owners, BelievesHolding
  <1>2. \A n \in Nodes : NodePhase'[n] = NodePhase[n]
    BY DEF NodePhase
  <1> QED BY <1>1, <1>2, ChangeStep

\* acquire_lease grants a node that nobody owned, or a lease that has run out
\* before it was written.
LEMMA AcquireStep ==
    ASSUME IInv, IInv', NEW w \in Workers, AcquireLease(w)
    PROVE  Leases!Next
  <1> DEFINE c     == call[w]
             node  == graph.nodes[c.node]
             lease == NewLease(w, c)
             nodes == [graph.nodes EXCEPT ![c.node] = LeasedNode(node, lease)]
             admitted == /\ ExpectedRevision(c)
                         /\ CanAcquire(node, c)
                         /\ ValidUpdate(nodes, c.timestamp)
  <1>0. PICK n \in Nodes : n = c.node
    BY DEF IInv, TypeOK, AcquireLease, InCall, Call
  <1>1. /\ [Next]_vars
        /\ c # None /\ c \in Call /\ c.timestamp \in Nat
        /\ c.timestamp <= clock /\ clock \in Nat
    BY DEF Next, IInv, TypeOK, AcquireLease, InCall, Call
  <1>2. Commit(w, admitted, nodes) /\ admitted \in BOOLEAN
    BY DEF AcquireLease
  <1>3. held' = IF admitted THEN [held EXCEPT ![w] = [node    |-> n,
                                                      token   |-> lease.token,
                                                      expires |-> lease.expires]]
                ELSE held
    BY <1>0 DEF AcquireLease
  <1>4. clock' = clock
    BY <1>2 DEF Commit
  <1>5. CASE ~ admitted
    <2>1. held' = held
      BY <1>3, <1>5
    <2> QED BY <1>1, <1>4, <2>1, QuietStep DEF Leases!Next
  <1>6. CASE admitted
    <2>1. graph'.nodes = nodes
      BY <1>2, <1>6, CommitNodes
    <2>2. node.lease = None \/ c.timestamp >= node.lease.expires
      BY <1>6 DEF CanAcquire, IsExpired
    <2>3. node.status \in {"ready", "running"}
      BY <1>6 DEF CanAcquire
    <2>4. Owners[n] = {}
      <3> SUFFICES ASSUME NEW v \in Owners[n] PROVE FALSE
        OBVIOUS
      <3>1. /\ node.lease # None /\ clock < held[v].expires
            /\ node.lease.expires >= held[v].expires /\ v \in Workers /\ held[v] # None
        BY <1>0, <1>1, OwnerStored
      <3>2. node.lease.expires \in Nat /\ held[v].expires \in Nat
        BY <1>0, <1>1, <3>1 DEF IInv, TypeOK, Node, Lease, Held
      <3> QED BY <1>1, <2>2, <3>1, <3>2
    <2>5. \A m \in Nodes \ {n} : nodes[m] = graph.nodes[m]
      BY <1>0, <1>1 DEF IInv, TypeOK
    <2>6. nodes[n].status = "running"
      BY <1>0, <1>1 DEF IInv, TypeOK, LeasedNode
    <2>7. \A v \in Workers \ {w} : held'[v] = held[v]
      BY <1>3, <1>6 DEF IInv, TypeOK
    <2>8. held'[w] # None /\ held'[w].node = n
      <3>1. held' \in [Workers -> Held \cup {None}]
        BY DEF IInv, TypeOK
      <3>2. held'[w] = [node |-> n, token |-> lease.token, expires |-> lease.expires]
        BY <1>3, <1>6 DEF IInv, TypeOK
      <3>3. lease.token \in Nat /\ lease.expires \in Nat
        BY <1>1 DEF IInv, TypeOK, Call, NewLease
      <3>4. held'[w] \in Held
        BY <3>2, <3>3 DEF Held
      <3> QED BY <3>2, <3>4, TaskGraphAssumption
    <2> HIDE DEF nodes, c, admitted
    <2>9. \A m \in Nodes \ {n} : Owners'[m] = Owners[m] \ {w}
      BY <1>4, <2>7, <2>8 DEF Owners, BelievesHolding
    <2>10. Owners'[n] \subseteq {w}
      <3> SUFFICES ASSUME NEW v \in Owners'[n], v # w PROVE FALSE
        OBVIOUS
      <3>1. v \in Workers /\ BelievesHolding(v, n)'
        BY <1>1 DEF Owners
      <3>2. v \in Owners[n]
        BY <1>1, <1>4, <2>7, <3>1 DEF Owners, BelievesHolding
      <3> QED BY <2>4, <3>2
    <2>11. NodePhase' = [NodePhase EXCEPT ![n] = "running"]
      BY <1>1, <2>1, <2>5, <2>6 DEF NodePhase, Phase, TERMINAL_STATUSES
    <2>12. NodePhase[n] # "ended"
      BY <1>0, <1>1, <2>3 DEF NodePhase, Phase, TERMINAL_STATUSES
    <2>13. CASE w \in Owners'[n]
      <3>1. Owners' = [m \in Nodes |-> IF m = n THEN {w} ELSE Owners[m] \ {w}]
        BY <2>9, <2>10, <2>13 DEF Owners
      <3>2. Leases!Grant(w, n)
        BY <2>4, <2>11, <2>12, <3>1 DEF Leases!Grant
      <3> QED BY <1>1, <3>2 DEF Leases!Next
    <2>14. CASE w \notin Owners'[n]
      <3>1. \A m \in Nodes : Owners'[m] \subseteq Owners[m]
        BY <2>9, <2>10, <2>14
      <3>2. \A m \in Nodes : NodePhase'[m] # NodePhase[m] => Owners[m] = {}
        BY <2>4, <2>11 DEF NodePhase
      <3>3. Leases!Change
        BY <1>1, <3>1, <3>2, ChangeStep
      <3> QED BY <3>3 DEF Leases!Next
    <2> QED BY <2>13, <2>14
  <1> QED BY <1>5, <1>6

\* renew_lease leaves every node running; by a stale instant it may bring back
\* a lease that had run out, which nobody else has got meanwhile.
LEMMA RenewStep ==
    ASSUME IInv, IInv', NEW w \in Workers, RenewLease(w)
    PROVE  Leases!Next
  <1> DEFINE c     == call[w]
             node  == graph.nodes[c.node]
             lease == RenewedLease(node.lease, c)
             nodes == [graph.nodes EXCEPT ![c.node] = RenewedNode(node, lease)]
             admitted == /\ ExpectedRevision(c)
                         /\ ValidLease(w, node, c.timestamp)
                         /\ node.lease.renewals < MaximumRenewals
                         /\ ValidUpdate(nodes, c.timestamp)
  <1>0. PICK n \in Nodes : n = c.node
    BY DEF IInv, TypeOK, RenewLease, InCall, Call
  <1>1. [Next]_vars /\ held[w] # None /\ held[w].node = n
    BY <1>0 DEF Next, IInv, CallAboutHeld, RenewLease, InCall
  <1>2. Commit(w, admitted, nodes) /\ admitted \in BOOLEAN
    BY DEF RenewLease
  <1>3. held' = IF admitted THEN [held EXCEPT ![w].expires = lease.expires] ELSE held
    BY DEF RenewLease
  <1>4. clock' = clock
    BY <1>2 DEF Commit
  <1>5. CASE ~ admitted
    <2>1. held' = held
      BY <1>3, <1>5
    <2> QED BY <1>1, <1>4, <2>1, QuietStep DEF Leases!Next
  <1>6. CASE admitted
    <2>1. graph'.nodes = nodes
      BY <1>2, <1>6, CommitNodes
    <2>2. node.lease # None /\ node.lease.owner = w
      BY <1>6 DEF ValidLease
    <2>3. node.status = "running" /\ nodes[n].status = "running"
      BY <1>0, <2>2 DEF IInv, TypeOK, ValidNode, RenewedNode
    <2>4. \A m \in Nodes \ {n} : nodes[m] = graph.nodes[m]
      BY <1>0 DEF IInv, TypeOK
    <2>5. \A v \in Workers \ {w} : held'[v] = held[v]
      BY <1>3, <1>6 DEF IInv, TypeOK
    <2>6. held'[w] # None => held'[w].node = n
      BY <1>1, <1>3, <1>6 DEF IInv, TypeOK, Held
    <2>7. Owners[n] \subseteq {w}
      BY <1>0, <2>2, OwnerStored
    <2> HIDE DEF nodes, c, admitted
    <2>8. \A m \in Nodes \ {n} : Owners'[m] \subseteq Owners[m] /\ Owners[m] \subseteq Owners'[m]
      BY <1>1, <1>4, <2>5, <2>6 DEF Owners, BelievesHolding
    <2>9. Owners'[n] \subseteq {w}
      <3> SUFFICES ASSUME NEW v \in Owners'[n], v # w PROVE FALSE
        OBVIOUS
      <3>1. v \in Workers /\ BelievesHolding(v, n)'
        BY DEF Owners
      <3>2. v \in Owners[n]
        BY <1>4, <2>5, <3>1 DEF Owners, BelievesHolding
      <3> QED BY <2>7, <3>2
    <2>10. NodePhase' = NodePhase /\ NodePhase[n] = "running"
      BY <2>1, <2>3, <2>4, <1>0 DEF NodePhase, Phase, TERMINAL_STATUSES
    <2>11. CASE \A m \in Nodes : Owners'[m] \subseteq Owners[m]
      BY <1>1, <2>10, <2>11, ChangeStep DEF Leases!Next
    <2>12. CASE Owners[n] = {} /\ Owners'[n] = {w}
      <3>1. ASSUME NEW m \in Nodes, m # n PROVE Owners'[m] = Owners[m] \ {w}
        <4>1. w \notin Owners[m]
          BY <1>1, <3>1, OwnerStored
        <4> QED BY <2>8, <3>1, <4>1
      <3>2. Owners' = [m \in Nodes |-> IF m = n THEN {w} ELSE Owners[m] \ {w}]
        BY <2>12, <3>1 DEF Owners
      <3>3. NodePhase' = [NodePhase EXCEPT ![n] = "running"]
        BY <2>10 DEF NodePhase
      <3>4. Leases!Grant(w, n)
        BY <2>10, <2>12, <3>2, <3>3 DEF Leases!Grant
      <3> QED BY <3>4 DEF Leases!Next
    <2> QED BY <2>7, <2>8, <2>9, <2>11, <2>12
  <1> QED BY <1>5, <1>6

\* release_lease: its caller owned the node, or nobody did any more.
LEMMA ReleaseStep ==
    ASSUME IInv, IInv', NEW w \in Workers, ReleaseLease(w)
    PROVE  Leases!Next
  <1> DEFINE c     == call[w]
             node  == graph.nodes[c.node]
             nodes == [graph.nodes EXCEPT
                         ![c.node] = UnleasedNode(node, c.status, c.timestamp)]
             admitted == /\ ExpectedRevision(c)
                         /\ ValidLease(w, node, c.timestamp)
                         /\ ValidUpdate(nodes, c.timestamp)
  <1>0. PICK n \in Nodes : n = c.node
    BY DEF IInv, TypeOK, ReleaseLease, InCall, Call
  <1>1. /\ [Next]_vars /\ held[w] # None /\ held[w].node = n
        /\ c.status \in NodeStatus \ {"running"}
    BY <1>0 DEF Next, IInv, TypeOK, Call, CallAboutHeld, ReleaseLease, InCall
  <1>2. Commit(w, admitted, nodes) /\ admitted \in BOOLEAN
    BY DEF ReleaseLease
  <1>3. held' = IF admitted THEN [held EXCEPT ![w] = None] ELSE held
    BY DEF ReleaseLease
  <1>4. clock' = clock
    BY <1>2 DEF Commit
  <1>5. CASE ~ admitted
    <2>1. held' = held
      BY <1>3, <1>5
    <2> QED BY <1>1, <1>4, <2>1, QuietStep DEF Leases!Next
  <1>6. CASE admitted
    <2>1. graph'.nodes = nodes
      BY <1>2, <1>6, CommitNodes
    <2>2. node.lease # None /\ node.lease.owner = w
      BY <1>6 DEF ValidLease
    <2>3. nodes[n].status = c.status
      BY <1>0 DEF IInv, TypeOK, UnleasedNode
    <2>4. \A m \in Nodes \ {n} : nodes[m] = graph.nodes[m]
      BY <1>0 DEF IInv, TypeOK
    <2>5. /\ \A v \in Workers \ {w} : held'[v] = held[v]
          /\ held'[w] = None
      BY <1>3, <1>6 DEF IInv, TypeOK
    <2>6. Owners[n] \subseteq {w}
      BY <1>0, <2>2, OwnerStored
    <2>7. PICK p \in {"open", "ended"} : p = Phase(c.status)
      BY <1>1 DEF Phase
    <2> HIDE DEF nodes, c, admitted
    <2>8. \A m \in Nodes : Owners'[m] = Owners[m] \ {w}
      BY <1>4, <2>5 DEF Owners, BelievesHolding
    <2>9. \A m \in Nodes \ {n} : w \notin Owners[m]
      BY <1>1, OwnerStored
    <2>10. NodePhase' = [NodePhase EXCEPT ![n] = p]
      BY <2>1, <2>3, <2>4, <2>7 DEF NodePhase
    <2>11. CASE w \in Owners[n]
      <3>1. Owners[n] = {w}
        BY <2>6, <2>11
      <3>2. \A m \in Nodes : Owners'[m] = (IF m = n THEN {} ELSE Owners[m])
        <4>1. Owners'[n] = {}
          BY <2>8, <3>1
        <4>2. ASSUME NEW m \in Nodes \ {n} PROVE Owners'[m] = Owners[m]
          <5>1. w \notin Owners[m]
            BY <2>9
          <5>2. Owners[m] \ {w} = Owners[m]
            BY <5>1, Zenon
          <5> QED BY <2>8, <5>2
        <4> QED BY <4>1, <4>2
      <3>3. Owners' = [Owners EXCEPT ![n] = {}]
        BY <3>2 DEF Owners
      <3>4. p \in Leases!Phases \ {"running"}
        BY DEF Leases!Phases
      <3>5. Leases!Release(w, n)
        BY <2>10, <3>1, <3>3, <3>4 DEF Leases!Release
      <3> QED BY <3>5 DEF Leases!Next
    <2>12. CASE w \notin Owners[n]
      <3>1. \A m \in Nodes : NodePhase'[m] # NodePhase[m] => Owners[m] = {}
        BY <2>6, <2>10, <2>12 DEF NodePhase
      <3> QED BY <1>1, <2>8, <3>1, ChangeStep DEF Leases!Next
    <2> QED BY <2>11, <2>12
  <1> QED BY <1>5, <1>6

\* Every step implements a step of ExclusiveLease, or a stutter.
LEMMA NextImplements ==
    ASSUME IInv, IInv', [Next]_vars
    PROVE  [Leases!Next]_(Leases!vars)
  <1>1. CASE UNCHANGED vars
    <2>1. Owners' = Owners /\ NodePhase' = NodePhase
      BY <1>1 DEF vars, Owners, NodePhase, BelievesHolding
    <2> QED BY <2>1 DEF Leases!vars
  <1>2. ASSUME graph' = graph, clock' >= clock, clock' \in Nat,
               \A w \in Workers : held'[w] \in {held[w], None}
        PROVE  Leases!Next
    BY <1>2, LapseStep DEF Leases!Next
  <1>3. ASSUME clock' = clock, held' = held PROVE Leases!Next
    BY <1>3, QuietStep DEF Leases!Next
  <1>4. CASE Tick
    BY <1>2, <1>4 DEF Tick, IInv, TypeOK
  <1>5. ASSUME NEW w \in Workers, Crash(w) PROVE Leases!Next
    BY <1>2, <1>5 DEF Crash, IInv, TypeOK
  <1>6. ASSUME NEW w \in Workers,
               \/ BeginUpdateStatus(w) \/ BeginAcquire(w) \/ BeginRenew(w)
               \/ BeginRelease(w) \/ BeginRecover(w)
        PROVE  Leases!Next
    BY <1>3, <1>6 DEF BeginUpdateStatus, BeginAcquire, BeginRenew, BeginRelease,
                      BeginRecover, Begin
  <1>7. ASSUME NEW w \in Workers, UpdateStatus(w) \/ RecoverExpiredLeases(w)
        PROVE  Leases!Next
    BY <1>3, <1>7 DEF UpdateStatus, RecoverExpiredLeases, Commit
  <1> QED
    BY <1>1, <1>4, <1>5, <1>6, <1>7, AcquireStep, RenewStep, ReleaseStep DEF Next

\* The task graph implements ExclusiveLease: whatever the delays between the
\* clock and the lock, the crashes and the expiries, workers own nodes one at a
\* time, only an owner moves a node it owns, and a node that ended stays.
THEOREM LeasesImplemented == Spec => ImplementsLeases
  <1>1. Init => Leases!Init
    <2> SUFFICES ASSUME Init PROVE Leases!Init
      OBVIOUS
    <2>1. Owners = [n \in Nodes |-> {}]
      BY DEF Init, Owners, BelievesHolding
    <2>2. NodePhase \in [Nodes -> Leases!Phases]
      BY DEF NodePhase, Phase, Leases!Phases
    <2> QED BY <2>1, <2>2 DEF Leases!Init
  <1>2. IInv /\ IInv' /\ [Next]_vars => [Leases!Next]_(Leases!vars)
    BY NextImplements
  <1> QED BY <1>1, <1>2, Inductive, PTL DEF Spec, ImplementsLeases, Leases!Spec

-----------------------------------------------------------------------------
(***************************************************************************)
(* Remediation's invariants for every number of people, processes, calls,  *)
(* lost races and deaths.                                                  *)
(*                                                                         *)
(* A call loads the row, proposes a new one, and only later writes its     *)
(* receipt, saves the row if nobody saved in between, and projects it into *)
(* the graph.  So the invariant says what a call under way carries:        *)
(* a proposal that its guard allowed on the row it loaded (SaveOK), the    *)
(* only reference to its receipt (ReceiptOK), and, while it projects, a    *)
(* row that the stored one has grown from (ProjectOK).  Rows only grow, so *)
(* that what an old projection writes is still true of the new row.        *)
(***************************************************************************)
Row == [revision : Nat, verified : BOOLEAN, status : Statuses, plan : Nat \cup {Null},
        state : PlanStates \cup {Null}, owner : Developers \cup {Null},
        fixes : Seq(Fixes), plans : Seq(Plans), results : Seq(Results),
        reviews : Seq(Reviews), reports : Seq(Reports)]

\* States that no call leaves.
Dead == {"cancelled", "retest_needs_rework"}

Extends(s, t) == Len(s) <= Len(t) /\ \A i \in DOMAIN s : t[i] = s[i]

\* Row g is row f, or came after it.
Grows(f, g) ==
    /\ f.revision <= g.revision
    /\ Extends(f.fixes, g.fixes) /\ Extends(f.plans, g.plans)
    /\ Extends(f.results, g.results) /\ Extends(f.reviews, g.reviews)
    /\ Extends(f.reports, g.reports)
    /\ f.plan # Null => g.plan = f.plan /\ g.owner = f.owner
    /\ f.state \in Dead => g.state = f.state

NoHistory(f) == /\ f.fixes = <<>> /\ f.plans = <<>> /\ f.results = <<>>
                /\ f.reviews = <<>> /\ f.reports = <<>>

\* The last retest was planned for the last fix, which is one.
Chained(f) ==
    /\ LastFixed(f) /\ f.plans # <<>>
    /\ Last(f.plans).fix = Last(f.fixes).id /\ Last(f.plans).fixed = Last(f.fixes).fixed

Passed(f) ==
    /\ f.results # <<>> /\ Last(f.results).outcome = "passed"
    /\ Last(f.results).fixed = Last(f.plans).fixed

Independent(f, x) == x \notin {f.owner, Last(f.fixes).builder, Last(f.plans).operator}

RowOK(f) ==
    /\ f \in Row /\ Valid(f)
    /\ f.plan = Null => f.state = Null /\ NoHistory(f)
    /\ f.plan # Null => f.plan < f.revision
    /\ Len(f.results) <= Len(f.plans)
    /\ Active(f) => f.state = "ready_for_retest" /\ Chained(f)
    /\ f.state \in {"awaiting_review", "review_approved", "report_generated"} =>
          Chained(f) /\ Passed(f)
    /\ f.state \in {"review_approved", "report_generated"} =>
          Independent(f, Last(f.reviews).reviewer)
    /\ f.results # <<>> /\ Last(f.results).outcome = "failed" =>
          f.state = "retest_needs_rework"
    /\ \A r \in Range(f.reports) : EarnedReport(r, f)

-----------------------------------------------------------------------------
\* What a call c makes of the row f that it loaded.
StartOf(f, c) == \E owner \in Developers :
    /\ MayStart(f) /\ c.new = Started(f, owner) /\ c.receipt = Null /\ c.after = "bind"
FixOf(f, c) == \E builder \in Developers, verdict \in Verdicts, r \in Revisions :
    /\ MayVerifyFix(f) /\ c.receipt \in Nat /\ c.after = "project"
    /\ c.new = FixVerified(f, c.receipt, builder, verdict, r)
PlanOf(f, c) == \E operator \in Operators :
    /\ MayStartRetest(f) /\ c.new = RetestStarted(f, operator)
    /\ c.receipt = Null /\ c.after = "project"
ResultOf(f, c) == \E outcome \in DOMAIN AfterRetest :
    /\ MayRecordRetest(f) /\ c.receipt \in Nat /\ c.after = "project"
    /\ c.new = RetestRecorded(f, c.receipt, outcome)
ReviewOf(f, c) == \E reviewer \in Reviewers, outcome \in {"approved", "changes_requested"} :
    /\ f.state = "awaiting_review" /\ Independent(f, reviewer)
    /\ c.receipt \in Nat /\ c.after = "project"
    /\ c.new = Reviewed(f, c.receipt, reviewer, outcome)
ReportOf(f, c) == \E writer \in Writers :
    /\ f.state = "review_approved" /\ Independent(f, writer)
    /\ writer # Last(f.reviews).reviewer
    /\ c.receipt \in Nat /\ c.after = "project"
    /\ c.new = Reported(f, c.receipt, writer)
CancelOf(f, c) ==
    MayCancel(f) /\ c.new = Cancelled(f) /\ c.receipt = Null /\ c.after = "project"
OlderOf(f, c) ==
    /\ \/ \E v \in BOOLEAN : c.new = [Next1(f) EXCEPT !.verified = v]
       \/ \E status \in Statuses : c.new = [Next1(f) EXCEPT !.status = status]
    /\ c.receipt = Null /\ c.after = "end"

Proposed(f, c) ==
    \/ StartOf(f, c) \/ FixOf(f, c) \/ PlanOf(f, c) \/ ResultOf(f, c)
    \/ ReviewOf(f, c) \/ ReportOf(f, c) \/ CancelOf(f, c) \/ OlderOf(f, c)

\* What a stage of the graph may say of a row.
Shows(s, cell, f) ==
    /\ s = "verification" /\ cell.status = "completed" =>
          \E fix \in Range(f.fixes) : fix.verdict = "fixed"
    /\ s = "review" /\ cell.status = "completed" =>
          \E v \in Range(f.reviews) : v.outcome = "approved" /\ cell.mark = Mark("review", v.id)
    /\ s = "report" /\ cell.status = "completed" =>
          \E r \in Range(f.reports) : cell.mark = Mark("report", r.id)
    /\ cell.status = "cancelled" => f.state \in Dead

StageWrite == [stage : Range(Stages), status : StageStatuses, mark : Marks]
Refusal == Write("none", "refuse", NoMark)
GoodWrites(f) == {Refusal} \cup {w \in StageWrite : Shows(w.stage, w, f)}

Calls == {"state", "fix", "retest", "review", "report"}
Due(f) == {c \in Calls :
    /\ c = "state" => f.state \in {"ready_for_implementation", "cancelled"}
    /\ c = "fix" => f.fixes # <<>>
    /\ c = "retest" => f.results # <<>>
    /\ c = "review" => f.reviews # <<>>
    /\ c = "report" => f.reports # <<>>}

RunRecord == [pc : {"idle", "receipt", "save", "withdraw", "bind", "unbind", "project"},
              old : Nat \cup {Null}, new : Row \cup {Null}, receipt : Nat \cup {Null},
              after : {"end", "bind", "project"}, todo : Seq(Calls),
              writes : Seq(StageWrite \cup {Refusal}), rev : Nat]

\* A call that is to save has a receipt of its own, or none, and if the row is
\* still the one it loaded then it makes of that what its guard allowed.
ReceiptOK(c) ==
    /\ c.receipt # Null =>
          /\ c.receipt \in 1..calls /\ c.receipt \notin References(finding)
          /\ c.pc \in {"receipt", "save", "withdraw"}
          /\ c.pc # "receipt" => c.receipt \in receipts
    /\ c.pc \in {"receipt", "withdraw"} => c.receipt # Null

SaveOK(c) ==
    c.pc \in {"receipt", "save"} =>
        /\ c.old \in Nat /\ c.old <= finding.revision
        /\ c.old = finding.revision => Proposed(finding, c)

BindOK(c) ==
    c.pc \in {"bind", "unbind"} =>
        /\ c.new \in Row /\ c.new.revision <= finding.revision
        /\ c.new.revision = finding.revision => finding.state = "ready_for_implementation"

ProjectOK(c) ==
    IF c.pc = "project"
      THEN /\ RowOK(c.new) /\ Grows(c.new, finding)
           /\ c.todo \in Seq(Due(c.new)) /\ c.writes \in Seq(GoodWrites(finding))
           /\ c.writes # <<>> => stageGraph # Null
      ELSE c.todo = <<>> /\ c.writes = <<>>

GraphOK ==
    /\ stageGraph \in Graphs \cup {Null}
    /\ stageGraph # Null => \A s \in Range(Stages) :
          /\ stageGraph.stage[s].attempts <= Budget(s)
          /\ Shows(s, stageGraph.stage[s], finding)

Counted ==
    /\ calls \in 0..MaxCalls /\ views \in 0..MaxViews
    /\ {races, crashes, races + crashes} \subseteq 0..MaxFaults

CallOK(p) == ReceiptOK(run[p]) /\ SaveOK(run[p]) /\ BindOK(run[p]) /\ ProjectOK(run[p])

RunsOK ==
    /\ run \in [Procs -> RunRecord] /\ \A p \in Procs : CallOK(p)
    /\ \A p, q \in Procs : run[p].receipt # Null /\ run[p].receipt = run[q].receipt => p = q

RemediationInv ==
    /\ RowOK(finding) /\ RunsOK /\ GraphOK /\ Counted
    /\ receipts \subseteq 1..calls /\ References(finding) \subseteq receipts
    /\ Cardinality(Stray) <= crashes

-----------------------------------------------------------------------------
(***************************************************************************)
(* Sequences that grow.                                                    *)
(***************************************************************************)
LEMMA SequenceFacts ==
    ASSUME NEW S, NEW s \in Seq(S)
    PROVE  /\ Len(s) \in Nat /\ DOMAIN s = 1..Len(s)
           /\ s # <<>> <=> Len(s) > 0
           /\ \A i \in DOMAIN s : s[i] \in S
           /\ s # <<>> => Last(s) \in S /\ Last(s) \in Range(s) /\ Len(s) \in DOMAIN s
BY DEF Last, Range

LEMMA AppendFacts ==
    ASSUME NEW S, NEW s \in Seq(S), NEW e \in S
    PROVE  /\ Append(s, e) \in Seq(S) /\ Append(s, e) # <<>>
           /\ Len(Append(s, e)) = Len(s) + 1 /\ Last(Append(s, e)) = e
           /\ Extends(s, Append(s, e))
           /\ Range(Append(s, e)) = Range(s) \cup {e}
           /\ Ids(Append(s, e)) = Ids(s) \cup {e.id}
<1> DEFINE t == Append(s, e)
<1>1. /\ t \in Seq(S) /\ t # <<>> /\ Len(t) = Len(s) + 1
      /\ \A i \in 1..Len(s) : t[i] = s[i]
      /\ t[Len(s) + 1] = e
  BY AppendProperties
<1>2. Len(s) \in Nat /\ DOMAIN s = 1..Len(s) /\ DOMAIN t = 1..(Len(s) + 1)
  BY <1>1, LenProperties
<1> HIDE DEF t
<1>3. Last(t) = e BY <1>1 DEF Last
<1>4. Extends(s, t) BY <1>1, <1>2 DEF Extends
<1>5. DOMAIN t = DOMAIN s \cup {Len(s) + 1} BY <1>2
<1>6. Range(t) = Range(s) \cup {e} BY <1>1, <1>2, <1>5 DEF Range
<1>7. Ids(t) = Ids(s) \cup {e.id} BY <1>1, <1>2, <1>5 DEF Ids
<1> QED BY <1>1, <1>3, <1>4, <1>6, <1>7 DEF t

LEMMA ExtendsSelf == ASSUME NEW S, NEW s \in Seq(S) PROVE Extends(s, s)
BY DEF Extends

LEMMA ExtendsRange ==
    ASSUME NEW S, NEW s \in Seq(S), NEW t \in Seq(S), Extends(s, t)
    PROVE  Range(s) \subseteq Range(t) /\ DOMAIN s \subseteq DOMAIN t
BY DEF Extends, Range

LEMMA ExtendsTwice ==
    ASSUME NEW S, NEW s \in Seq(S), NEW t \in Seq(S), NEW u \in Seq(S),
           Extends(s, t), Extends(t, u)
    PROVE  Extends(s, u)
BY DEF Extends

LEMMA ExtendsEmpty ==
    ASSUME NEW S, NEW t \in Seq(S) PROVE Extends(<<>>, t)
BY EmptySeq, LenProperties DEF Extends

-----------------------------------------------------------------------------
(***************************************************************************)
(* Rows that grow.                                                         *)
(***************************************************************************)
LEMMA RowFields ==
    ASSUME NEW f \in Row
    PROVE  /\ f.revision \in Nat /\ f.verified \in BOOLEAN /\ f.status \in Statuses
           /\ f.plan \in Nat \cup {Null} /\ f.state \in PlanStates \cup {Null}
           /\ f.owner \in Developers \cup {Null}
           /\ f.fixes \in Seq(Fixes) /\ f.plans \in Seq(Plans) /\ f.results \in Seq(Results)
           /\ f.reviews \in Seq(Reviews) /\ f.reports \in Seq(Reports)
BY DEF Row

LEMMA RowExtends ==
    ASSUME NEW f \in Row
    PROVE  /\ Extends(f.fixes, f.fixes) /\ Extends(f.plans, f.plans)
           /\ Extends(f.results, f.results) /\ Extends(f.reviews, f.reviews)
           /\ Extends(f.reports, f.reports)
           /\ Extends(<<>>, f.fixes) /\ Extends(<<>>, f.plans) /\ Extends(<<>>, f.results)
           /\ Extends(<<>>, f.reviews) /\ Extends(<<>>, f.reports)
           /\ f.revision <= f.revision + 1
<1>1. \A S : \A s \in Seq(S) : Extends(s, s) /\ Extends(<<>>, s)
  BY ExtendsSelf, ExtendsEmpty
<1> QED BY <1>1, RowFields

LEMMA GrowsSelf == ASSUME NEW f \in Row PROVE Grows(f, f)
BY RowFields, RowExtends DEF Grows

LEMMA GrowsTwice ==
    ASSUME NEW f \in Row, NEW g \in Row, NEW h \in Row, Grows(f, g), Grows(g, h)
    PROVE  Grows(f, h)
<1>1. ASSUME NEW S, NEW s \in Seq(S), NEW t \in Seq(S), NEW u \in Seq(S),
             Extends(s, t), Extends(t, u)
      PROVE  Extends(s, u)
  BY <1>1, ExtendsTwice
<1>2. Extends(f.fixes, h.fixes) BY <1>1, RowFields DEF Grows
<1>3. Extends(f.plans, h.plans) BY <1>1, RowFields DEF Grows
<1>4. Extends(f.results, h.results) BY <1>1, RowFields DEF Grows
<1>5. Extends(f.reviews, h.reviews) BY <1>1, RowFields DEF Grows
<1>6. Extends(f.reports, h.reports) BY <1>1, RowFields DEF Grows
<1>7. f.revision <= h.revision
  <2>1. f.revision \in Nat /\ g.revision \in Nat /\ h.revision \in Nat BY RowFields
  <2>2. f.revision <= g.revision /\ g.revision <= h.revision BY DEF Grows
  <2> QED BY <2>1, <2>2
<1>8. f.plan # Null => h.plan = f.plan /\ h.owner = f.owner BY DEF Grows
<1>9. f.state \in Dead => h.state = f.state BY DEF Grows
<1> QED BY <1>2, <1>3, <1>4, <1>5, <1>6, <1>7, <1>8, <1>9 DEF Grows

LEMMA EarnedStays ==
    ASSUME NEW f \in Row, NEW g \in Row, Grows(f, g), f.plan # Null,
           Len(f.results) <= Len(f.plans), NEW r, EarnedReport(r, f)
    PROVE  EarnedReport(r, g)
<1>1. /\ Range(f.fixes) \subseteq Range(g.fixes) /\ Range(f.reviews) \subseteq Range(g.reviews)
      /\ DOMAIN f.results \subseteq DOMAIN g.results
  BY RowFields, ExtendsRange DEF Grows
<1>2. \A k \in DOMAIN f.results :
          k \in DOMAIN f.plans /\ g.results[k] = f.results[k] /\ g.plans[k] = f.plans[k]
  <2>1. DOMAIN f.results = 1..Len(f.results) /\ DOMAIN f.plans = 1..Len(f.plans)
        /\ Len(f.results) \in Nat /\ Len(f.plans) \in Nat
    BY RowFields, SequenceFacts
  <2> QED BY <2>1 DEF Grows, Extends
<1>3. g.owner = f.owner BY DEF Grows
<1>4. PICK fix \in Range(f.fixes), k \in DOMAIN f.results, v \in Range(f.reviews) :
        /\ fix.verdict = "fixed" /\ f.plans[k].fix = fix.id
        /\ f.results[k].outcome = "passed"
        /\ v.outcome = "approved" /\ v.retest = f.results[k].id /\ r.review = v.id
        /\ \A revision \in {fix.fixed, f.plans[k].fixed, f.results[k].fixed, v.fixed} :
              revision = r.fixed
        /\ v.reviewer \notin {f.owner, fix.builder, f.plans[k].operator}
        /\ r.writer \notin {f.owner, fix.builder, f.plans[k].operator, v.reviewer}
  BY DEF EarnedReport
<1>5. /\ fix \in Range(g.fixes) /\ k \in DOMAIN g.results /\ v \in Range(g.reviews)
      /\ g.plans[k] = f.plans[k] /\ g.results[k] = f.results[k]
  BY <1>1, <1>2
<1>6. /\ fix.verdict = "fixed" /\ g.plans[k].fix = fix.id
      /\ g.results[k].outcome = "passed"
      /\ v.outcome = "approved" /\ v.retest = g.results[k].id /\ r.review = v.id
      /\ \A revision \in {fix.fixed, g.plans[k].fixed, g.results[k].fixed, v.fixed} :
            revision = r.fixed
      /\ v.reviewer \notin {g.owner, fix.builder, g.plans[k].operator}
      /\ r.writer \notin {g.owner, fix.builder, g.plans[k].operator, v.reviewer}
  BY <1>3, <1>4, <1>5
<1> QED BY <1>5, <1>6, Zenon DEF EarnedReport

LEMMA ShowsStays ==
    ASSUME NEW f \in Row, NEW g \in Row, Grows(f, g), NEW s, NEW cell, Shows(s, cell, f)
    PROVE  Shows(s, cell, g)
<1>1. /\ Range(f.fixes) \subseteq Range(g.fixes) /\ Range(f.reviews) \subseteq Range(g.reviews)
      /\ Range(f.reports) \subseteq Range(g.reports)
  BY RowFields, ExtendsRange DEF Grows
<1>2. f.state \in Dead => g.state \in Dead BY DEF Grows
<1> QED BY <1>1, <1>2 DEF Shows

LEMMA GoodWritesStay ==
    ASSUME NEW f \in Row, NEW g \in Row, Grows(f, g), NEW ws \in Seq(GoodWrites(f))
    PROVE  ws \in Seq(GoodWrites(g))
<1>1. GoodWrites(f) \subseteq GoodWrites(g) BY ShowsStays DEF GoodWrites
<1> QED BY <1>1, SeqMonotonic

\* The reports of a row stay earned.
LEMMA ReportsStay ==
    ASSUME NEW f, RowOK(f), NEW g \in Row, Grows(f, g)
    PROVE  \A r \in Range(f.reports) : EarnedReport(r, g)
<1> SUFFICES ASSUME NEW r \in Range(f.reports) PROVE EarnedReport(r, g) OBVIOUS
<1>1. f \in Row /\ Len(f.results) <= Len(f.plans) /\ EarnedReport(r, f) BY DEF RowOK
<1>2. f.plan # Null
  <2>1. f.reports # <<>> BY DEF Range
  <2> QED BY <2>1 DEF RowOK, NoHistory
<1> QED BY <1>1, <1>2, EarnedStays

-----------------------------------------------------------------------------
(***************************************************************************)
(* What each call makes of the row: a row that is right, that continues    *)
(* the old one and that refers to the call's receipt besides.              *)
(***************************************************************************)
LEMMA NextRow ==
    ASSUME NEW f \in Row
    PROVE  /\ Next1(f) \in Row /\ Next1(f).revision = f.revision + 1
           /\ Next1(f).verified = f.verified /\ Next1(f).status = f.status
           /\ Next1(f).plan = f.plan /\ Next1(f).state = f.state /\ Next1(f).owner = f.owner
           /\ Next1(f).fixes = f.fixes /\ Next1(f).plans = f.plans
           /\ Next1(f).results = f.results /\ Next1(f).reviews = f.reviews
           /\ Next1(f).reports = f.reports
<1>1. f.revision + 1 \in Nat BY RowFields
<1> QED BY <1>1 DEF Row, Next1

Follows(f, c) ==
    /\ RowOK(c.new) /\ Grows(f, c.new) /\ c.new.revision = f.revision + 1
    /\ References(c.new) = References(f) \cup ({c.receipt} \ {Null})

LEMMA OlderFollows ==
    ASSUME NEW f, NEW c, RowOK(f), OlderOf(f, c)
    PROVE  c.new \in Row /\ (Valid(c.new) => Follows(f, c))
<1> DEFINE g == c.new
<1>1. f \in Row BY DEF RowOK
<1>2. /\ g \in Row /\ g.revision = f.revision + 1
      /\ g.plan = f.plan /\ g.owner = f.owner /\ g.state = f.state
      /\ g.fixes = f.fixes /\ g.plans = f.plans /\ g.results = f.results
      /\ g.reviews = f.reviews /\ g.reports = f.reports
      /\ c.receipt = Null
  <2> DEFINE h == Next1(f)
  <2>1. /\ h \in Row /\ h.revision = f.revision + 1
        /\ h.plan = f.plan /\ h.owner = f.owner /\ h.state = f.state
        /\ h.fixes = f.fixes /\ h.plans = f.plans /\ h.results = f.results
        /\ h.reviews = f.reviews /\ h.reports = f.reports
    BY <1>1, NextRow
  <2>2. /\ \/ \E v \in BOOLEAN : g = [h EXCEPT !.verified = v]
           \/ \E status \in Statuses : g = [h EXCEPT !.status = status]
        /\ c.receipt = Null
    BY DEF OlderOf
  <2> HIDE DEF h, g
  <2>3. CASE \E v \in BOOLEAN : g = [h EXCEPT !.verified = v]
    BY <2>1, <2>2, <2>3 DEF Row
  <2>4. CASE \E status \in Statuses : g = [h EXCEPT !.status = status]
    BY <2>1, <2>2, <2>4 DEF Row
  <2> QED BY <2>2, <2>3, <2>4
<1> HIDE DEF g
<1>3. Grows(f, g) BY <1>1, <1>2, RowExtends DEF Grows
<1>4. \A r \in Range(g.reports) : EarnedReport(r, g) BY <1>2, <1>3, ReportsStay
<1>5. References(g) = References(f) BY <1>2 DEF References
<1>6. ASSUME Valid(g) PROVE RowOK(g)
  <2>1. g.plan # Null => g.plan < g.revision
    BY <1>1, <1>2, RowFields DEF RowOK
  <2>2. Active(g) <=> Active(f) BY <1>2 DEF Active
  <2>3. (Chained(g) <=> Chained(f)) /\ (Passed(g) <=> Passed(f))
    BY <1>2 DEF Chained, Passed, LastFixed
  <2>4. Independent(f, Last(f.reviews).reviewer) => Independent(g, Last(g.reviews).reviewer)
    BY <1>2 DEF Independent
  <2> QED BY <1>2, <1>4, <1>6, <2>1, <2>2, <2>3, <2>4 DEF RowOK, NoHistory
<1> QED BY <1>2, <1>3, <1>5, <1>6 DEF g, Follows

LEMMA StartFollows ==
    ASSUME NEW f, NEW c, RowOK(f), StartOf(f, c)
    PROVE  /\ c.new \in Row /\ c.new.state = "ready_for_implementation"
           /\ Valid(c.new) /\ ValidSuccessor(c.new, f) => Follows(f, c)
<1> DEFINE g == c.new
<1>1. f \in Row BY DEF RowOK
<1>2. PICK owner \in Developers : g = Started(f, owner) /\ c.receipt = Null
  BY DEF StartOf
<1>3. /\ <<>> \in Seq(Fixes) /\ <<>> \in Seq(Reviews) /\ <<>> \in Seq(Reports)
      /\ "in_remediation" \in Statuses /\ "ready_for_implementation" \in PlanStates
  BY EmptySeq DEF Statuses, PlanStates
<1>4. /\ g \in Row /\ g.revision = f.revision + 1
      /\ g.plan = f.revision /\ g.state = "ready_for_implementation"
      /\ g.fixes = <<>> /\ g.plans = f.plans /\ g.results = f.results
      /\ g.reviews = <<>> /\ g.reports = <<>>
  <2> DEFINE h == Next1(f)
  <2>1. /\ h \in Row /\ h.revision = f.revision + 1
        /\ h.plans = f.plans /\ h.results = f.results
    BY <1>1, NextRow
  <2>2. g = [h EXCEPT !.status = "in_remediation", !.plan = f.revision, !.owner = owner,
                      !.state = "ready_for_implementation",
                      !.fixes = <<>>, !.reviews = <<>>, !.reports = <<>>]
    BY <1>2 DEF Started
  <2>3. f.revision \in Nat BY <1>1, RowFields
  <2> HIDE DEF h, g
  <2> QED BY <1>3, <2>1, <2>2, <2>3 DEF Row
<1> HIDE DEF g
<1>5. ASSUME Valid(g), ValidSuccessor(g, f) PROVE Follows(f, c)
  <2>1. f.plan = Null
    <3>1. f.plan # Null => f.plan < f.revision /\ g.plan = f.plan
      BY <1>5 DEF RowOK, ValidSuccessor
    <3> QED BY <3>1, <1>1, <1>4, RowFields
  <2>2. NoHistory(f) /\ f.state = Null /\ NoHistory(g)
    BY <1>4, <2>1 DEF RowOK, NoHistory
  <2>3. Grows(f, g)
    <3>1. f.state \notin Dead BY <2>2, NullAssumption DEF Dead, PlanStates
    <3> QED BY <1>1, <1>4, <2>1, <2>2, <3>1, RowExtends DEF Grows, NoHistory
  <2>4. References(g) = References(f)
    BY <2>2 DEF References, NoHistory
  <2>5. Range(g.reports) = {} /\ Len(g.results) = 0 /\ Len(g.plans) = 0
    <3>1. Len(<<>>) = 0 /\ DOMAIN <<>> = {} OBVIOUS
    <3> QED BY <2>2, <3>1 DEF NoHistory, Range
  <2>6. RowOK(g)
    <3>1. g.plan # Null /\ g.plan < g.revision
      BY <1>1, <1>4, RowFields, NullAssumption
    <3> QED BY <1>4, <1>5, <2>2, <2>5, <3>1 DEF RowOK, Active, NoHistory
  <2> QED BY <1>2, <1>4, <2>3, <2>4, <2>6 DEF Follows, g
<1> QED BY <1>4, <1>5 DEF g

LEMMA CancelIsFollowed ==
    ASSUME NEW f, RowOK(f), f.state \in {"ready_for_implementation", "needs_rework"},
           NEW c, c.new = Cancelled(f), c.receipt = Null
    PROVE  c.new \in Row /\ Valid(c.new) /\ Follows(f, c) /\ c.new.state = "cancelled"
<1> DEFINE g == c.new
<1>1. f \in Row BY DEF RowOK
<1>2. "triaged" \in Statuses /\ "cancelled" \in PlanStates BY DEF Statuses, PlanStates
<1>3. /\ g \in Row /\ g.revision = f.revision + 1
      /\ g.plan = f.plan /\ g.owner = f.owner /\ g.state = "cancelled" /\ g.status = "triaged"
      /\ g.fixes = f.fixes /\ g.plans = f.plans /\ g.results = f.results
      /\ g.reviews = f.reviews /\ g.reports = f.reports
  <2> DEFINE h == Next1(f)
  <2>1. /\ h \in Row /\ h.revision = f.revision + 1
        /\ h.plan = f.plan /\ h.owner = f.owner
        /\ h.fixes = f.fixes /\ h.plans = f.plans /\ h.results = f.results
        /\ h.reviews = f.reviews /\ h.reports = f.reports
    BY <1>1, NextRow
  <2>2. g = [h EXCEPT !.status = "triaged", !.state = "cancelled"] BY DEF Cancelled
  <2> HIDE DEF h, g
  <2> QED BY <1>2, <2>1, <2>2 DEF Row
<1> HIDE DEF g
<1>4. f.state \notin Dead BY DEF Dead
<1>5. Grows(f, g) BY <1>1, <1>3, <1>4, RowExtends DEF Grows
<1>6. Valid(g)
  <2>1. ValidState(g) BY <1>3 DEF ValidState
  <2>2. ValidStatus(g) BY <1>3 DEF ValidStatus
  <2> QED BY <1>3, <2>1, <2>2 DEF Valid, RowOK
<1>7. RowOK(g)
  <2>1. f.plan # Null /\ f.plan < f.revision BY NullAssumption DEF RowOK, PlanStates
  <2>2. g.plan # Null /\ g.plan < g.revision BY <1>1, <1>3, <2>1, RowFields
  <2>3. ~Active(g) BY <1>3 DEF RowOK, Active
  <2>4. ~(g.results # <<>> /\ Last(g.results).outcome = "failed") BY <1>3 DEF RowOK
  <2>5. \A r \in Range(g.reports) : EarnedReport(r, g) BY <1>3, <1>5, ReportsStay
  <2> QED BY <1>3, <1>6, <2>2, <2>3, <2>4, <2>5 DEF RowOK
<1>8. References(g) = References(f) BY <1>3 DEF References
<1> QED BY <1>3, <1>5, <1>6, <1>7, <1>8 DEF g, Follows

LEMMA FixFollows ==
    ASSUME NEW f, NEW c, RowOK(f), FixOf(f, c)
    PROVE  c.new \in Row /\ (Valid(c.new) => Follows(f, c))
<1> DEFINE g == c.new
<1>1. f \in Row BY DEF RowOK
<1>2. PICK builder \in Developers, verdict \in Verdicts, r \in Revisions :
        MayVerifyFix(f) /\ c.receipt \in Nat
        /\ g = FixVerified(f, c.receipt, builder, verdict, r)
  BY DEF FixOf
<1> DEFINE fix == [id |-> c.receipt, builder |-> builder, verdict |-> verdict, fixed |-> r]
           state == IF verdict = "fixed" THEN "ready_for_retest" ELSE "needs_rework"
           status == IF verdict = "fixed" THEN "ready_for_retest" ELSE "in_remediation"
           h == Next1(f)
<1>3. fix \in Fixes /\ fix.id = c.receipt BY <1>2 DEF Fixes
<1>4. /\ f.state \in {"ready_for_implementation", "needs_rework"}
      /\ state \in {"ready_for_retest", "needs_rework"} /\ status \in Statuses
      /\ state \in PlanStates
  BY <1>2 DEF MayVerifyFix, Statuses, PlanStates
<1>5. /\ h \in Row /\ h.revision = f.revision + 1 /\ h.plan = f.plan /\ h.owner = f.owner
      /\ h.fixes = f.fixes /\ h.plans = f.plans /\ h.results = f.results
      /\ h.reviews = f.reviews /\ h.reports = f.reports
  BY <1>1, NextRow
<1>6. g = [h EXCEPT !.status = status, !.state = state, !.fixes = Append(@, fix)]
  BY <1>2 DEF FixVerified
<1> HIDE DEF g, h, fix, state, status
<1>7. /\ Append(f.fixes, fix) \in Seq(Fixes) /\ Extends(f.fixes, Append(f.fixes, fix))
      /\ Ids(Append(f.fixes, fix)) = Ids(f.fixes) \cup {c.receipt}
  BY <1>1, <1>3, RowFields, AppendFacts
<1>8. /\ g \in Row /\ g.revision = f.revision + 1
      /\ g.plan = f.plan /\ g.owner = f.owner /\ g.state = state
      /\ g.fixes = Append(f.fixes, fix) /\ g.plans = f.plans /\ g.results = f.results
      /\ g.reviews = f.reviews /\ g.reports = f.reports
  BY <1>4, <1>5, <1>6, <1>7 DEF Row
<1>9. Grows(f, g)
  <2>1. f.state \notin Dead BY <1>4 DEF Dead
  <2> QED BY <1>1, <1>7, <1>8, <2>1, RowExtends DEF Grows
<1>10. References(g) = References(f) \cup ({c.receipt} \ {Null})
  <2>1. c.receipt # Null BY <1>2, NullAssumption
  <2> QED BY <1>7, <1>8, <2>1 DEF References
<1>11. ASSUME Valid(g) PROVE RowOK(g)
  <2>1. f.plan # Null /\ f.plan < f.revision BY <1>4, NullAssumption DEF RowOK, PlanStates
  <2>2. g.plan # Null /\ g.plan < g.revision BY <1>1, <1>8, <2>1, RowFields
  <2>3. ~Active(g) BY <1>4, <1>8 DEF RowOK, Active
  <2>4. ~(g.results # <<>> /\ Last(g.results).outcome = "failed") BY <1>4, <1>8 DEF RowOK
  <2>5. \A x \in Range(g.reports) : EarnedReport(x, g) BY <1>8, <1>9, ReportsStay
  <2>6. Len(g.results) <= Len(g.plans) BY <1>8 DEF RowOK
  <2> QED BY <1>4, <1>8, <1>11, <2>2, <2>3, <2>4, <2>5, <2>6 DEF RowOK
<1> QED BY <1>8, <1>9, <1>10, <1>11 DEF g, Follows

LEMMA PlanFollows ==
    ASSUME NEW f, NEW c, RowOK(f), PlanOf(f, c)
    PROVE  c.new \in Row /\ (Valid(c.new) => Follows(f, c))
<1> DEFINE g == c.new
<1>1. f \in Row BY DEF RowOK
<1>2. PICK operator \in Operators :
        MayStartRetest(f) /\ g = RetestStarted(f, operator) /\ c.receipt = Null
  BY DEF PlanOf
<1> DEFINE plan == [fix |-> Last(f.fixes).id, fixed |-> Last(f.fixes).fixed,
                    operator |-> operator]
           h == Next1(f)
<1>3. f.state = "ready_for_retest" /\ LastFixed(f) /\ ~Active(f)
  BY <1>2 DEF MayStartRetest
<1>4. plan \in Plans /\ plan.fix = Last(f.fixes).id /\ plan.fixed = Last(f.fixes).fixed
  <2>1. f.fixes # <<>> /\ f.fixes \in Seq(Fixes) BY <1>1, <1>3, RowFields DEF LastFixed
  <2>2. Last(f.fixes) \in Fixes BY <2>1, SequenceFacts
  <2> QED BY <1>2, <2>2 DEF Fixes, Plans
<1>5. /\ h \in Row /\ h.revision = f.revision + 1 /\ h.plan = f.plan /\ h.owner = f.owner
      /\ h.state = f.state
      /\ h.fixes = f.fixes /\ h.plans = f.plans /\ h.results = f.results
      /\ h.reviews = f.reviews /\ h.reports = f.reports
  BY <1>1, NextRow
<1>6. g = [h EXCEPT !.status = "retesting", !.plans = Append(@, plan)]
  BY <1>2 DEF RetestStarted
<1> HIDE DEF g, h, plan
<1>7. /\ Append(f.plans, plan) \in Seq(Plans) /\ Extends(f.plans, Append(f.plans, plan))
      /\ Append(f.plans, plan) # <<>> /\ Last(Append(f.plans, plan)) = plan
      /\ Len(Append(f.plans, plan)) = Len(f.plans) + 1
  BY <1>1, <1>4, RowFields, AppendFacts
<1>8. /\ g \in Row /\ g.revision = f.revision + 1
      /\ g.plan = f.plan /\ g.owner = f.owner /\ g.state = "ready_for_retest"
      /\ g.fixes = f.fixes /\ g.plans = Append(f.plans, plan) /\ g.results = f.results
      /\ g.reviews = f.reviews /\ g.reports = f.reports
  BY <1>3, <1>5, <1>6, <1>7 DEF Row, Statuses
<1>9. Grows(f, g) BY <1>1, <1>3, <1>7, <1>8, RowExtends DEF Grows
<1>10. References(g) = References(f) BY <1>8 DEF References
<1>11. ASSUME Valid(g) PROVE RowOK(g)
  <2>1. f.plan # Null /\ f.plan < f.revision BY <1>3, NullAssumption DEF RowOK, PlanStates
  <2>2. g.plan # Null /\ g.plan < g.revision BY <1>1, <1>8, <2>1, RowFields
  <2>3. Chained(g) BY <1>3, <1>4, <1>7, <1>8 DEF Chained, LastFixed
  <2>4. ~(g.results # <<>> /\ Last(g.results).outcome = "failed") BY <1>3, <1>8 DEF RowOK
  <2>5. \A x \in Range(g.reports) : EarnedReport(x, g) BY <1>8, <1>9, ReportsStay
  <2>6. Len(g.results) <= Len(g.plans)
    <3>1. Len(f.results) \in Nat /\ Len(f.plans) \in Nat /\ Len(f.results) <= Len(f.plans)
      BY <1>1, RowFields, SequenceFacts DEF RowOK
    <3> QED BY <3>1, <1>7, <1>8
  <2> QED BY <1>8, <1>11, <2>2, <2>3, <2>4, <2>5, <2>6 DEF RowOK
<1> QED BY <1>2, <1>8, <1>9, <1>10, <1>11 DEF g, Follows

LEMMA ResultFollows ==
    ASSUME NEW f, NEW c, RowOK(f), ResultOf(f, c)
    PROVE  c.new \in Row /\ (Valid(c.new) => Follows(f, c))
<1> DEFINE g == c.new
<1>1. f \in Row BY DEF RowOK
<1>2. PICK outcome \in DOMAIN AfterRetest :
        MayRecordRetest(f) /\ c.receipt \in Nat /\ g = RetestRecorded(f, c.receipt, outcome)
  BY DEF ResultOf
<1> DEFINE result == [id |-> c.receipt, outcome |-> outcome, fixed |-> Last(f.plans).fixed]
           status == AfterRetest[outcome][1]
           state == AfterRetest[outcome][2]
           h == Next1(f)
<1>3. f.state = "ready_for_retest" /\ Active(f) /\ Chained(f)
  BY <1>2 DEF MayRecordRetest, RowOK
<1>4. result \in Results /\ result.id = c.receipt /\ result.outcome = outcome
      /\ result.fixed = Last(f.plans).fixed
  <2>1. f.plans # <<>> /\ f.plans \in Seq(Plans) BY <1>1, <1>3, RowFields DEF Chained
  <2>2. Last(f.plans) \in Plans BY <2>1, SequenceFacts
  <2> QED BY <1>2, <2>2 DEF Plans, Results
<1>5. /\ status \in Statuses /\ state \in PlanStates
      /\ \/ outcome = "passed" /\ state = "awaiting_review"
         \/ outcome = "cancelled" /\ state = "ready_for_retest"
         \/ outcome = "failed" /\ state = "retest_needs_rework"
  <2>1. outcome \in {"passed", "cancelled", "failed"} BY <1>2 DEF AfterRetest
  <2>2. CASE outcome = "passed" BY <2>2 DEF AfterRetest, Statuses, PlanStates
  <2>3. CASE outcome = "cancelled" BY <2>3 DEF AfterRetest, Statuses, PlanStates
  <2>4. CASE outcome = "failed" BY <2>4 DEF AfterRetest, Statuses, PlanStates
  <2> QED BY <2>1, <2>2, <2>3, <2>4
<1>6. /\ h \in Row /\ h.revision = f.revision + 1 /\ h.plan = f.plan /\ h.owner = f.owner
      /\ h.fixes = f.fixes /\ h.plans = f.plans /\ h.results = f.results
      /\ h.reviews = f.reviews /\ h.reports = f.reports
  BY <1>1, NextRow
<1>7. g = [h EXCEPT !.status = status, !.state = state, !.results = Append(@, result)]
  BY <1>2 DEF RetestRecorded
<1> HIDE DEF g, h, result, status, state
<1>8. /\ Append(f.results, result) \in Seq(Results)
      /\ Extends(f.results, Append(f.results, result))
      /\ Append(f.results, result) # <<>> /\ Last(Append(f.results, result)) = result
      /\ Len(Append(f.results, result)) = Len(f.results) + 1
      /\ Ids(Append(f.results, result)) = Ids(f.results) \cup {c.receipt}
  BY <1>1, <1>4, RowFields, AppendFacts
<1>9. /\ g \in Row /\ g.revision = f.revision + 1
      /\ g.plan = f.plan /\ g.owner = f.owner /\ g.state = state
      /\ g.fixes = f.fixes /\ g.plans = f.plans /\ g.results = Append(f.results, result)
      /\ g.reviews = f.reviews /\ g.reports = f.reports
  BY <1>5, <1>6, <1>7, <1>8 DEF Row
<1>10. Grows(f, g)
  <2>1. f.state \notin Dead BY <1>3 DEF Dead
  <2> QED BY <1>1, <1>8, <1>9, <2>1, RowExtends DEF Grows
<1>11. References(g) = References(f) \cup ({c.receipt} \ {Null})
  <2>1. c.receipt # Null BY <1>2, NullAssumption
  <2> QED BY <1>8, <1>9, <2>1 DEF References
<1>12. ASSUME Valid(g) PROVE RowOK(g)
  <2>1. f.plan # Null /\ f.plan < f.revision BY <1>3, NullAssumption DEF RowOK, PlanStates
  <2>2. g.plan # Null /\ g.plan < g.revision BY <1>1, <1>9, <2>1, RowFields
  <2>3. Len(g.results) = Len(g.plans)
    <3>1. /\ Len(f.results) \in Nat /\ Len(f.plans) \in Nat
          /\ Len(f.plans) > Len(f.results) /\ Len(f.plans) <= Len(f.results) + 1
      BY <1>1, <1>3, RowFields, SequenceFacts DEF RowOK, Active, Valid
    <3> QED BY <3>1, <1>8, <1>9
  <2>4. ~Active(g) /\ Len(g.results) <= Len(g.plans)
    <3>1. Len(g.plans) \in Nat BY <1>9, RowFields, SequenceFacts
    <3> QED BY <2>3, <3>1 DEF Active
  <2>5. Chained(g) BY <1>3, <1>9 DEF Chained, LastFixed
  <2>6. outcome = "passed" => Passed(g) BY <1>4, <1>8, <1>9 DEF Passed
  <2>7. Last(g.results).outcome = outcome BY <1>4, <1>8, <1>9
  <2>8. \A x \in Range(g.reports) : EarnedReport(x, g) BY <1>9, <1>10, ReportsStay
  <2> QED BY <1>5, <1>9, <1>12, <2>2, <2>4, <2>5, <2>6, <2>7, <2>8 DEF RowOK
<1> QED BY <1>9, <1>10, <1>11, <1>12 DEF g, Follows

LEMMA ReviewFollows ==
    ASSUME NEW f, NEW c, RowOK(f), ReviewOf(f, c)
    PROVE  c.new \in Row /\ (Valid(c.new) => Follows(f, c))
<1> DEFINE g == c.new
<1>1. f \in Row BY DEF RowOK
<1>2. PICK reviewer \in Reviewers, outcome \in {"approved", "changes_requested"} :
        /\ f.state = "awaiting_review" /\ Independent(f, reviewer)
        /\ c.receipt \in Nat /\ g = Reviewed(f, c.receipt, reviewer, outcome)
  BY DEF ReviewOf
<1> DEFINE review == [id |-> c.receipt, reviewer |-> reviewer, outcome |-> outcome,
                      fixed |-> Last(f.fixes).fixed, retest |-> Last(f.results).id]
           status == IF outcome = "approved" THEN "ready_for_report" ELSE "in_remediation"
           state == IF outcome = "approved" THEN "review_approved" ELSE "review_needs_rework"
           h == Next1(f)
<1>3. Chained(f) /\ Passed(f) /\ ~Active(f) BY <1>2 DEF RowOK
<1>4. review \in Reviews /\ review.id = c.receipt /\ review.reviewer = reviewer
  <2>1. f.fixes # <<>> /\ f.results # <<>> BY <1>3 DEF Chained, LastFixed, Passed
  <2>2. Last(f.fixes) \in Fixes /\ Last(f.results) \in Results
    BY <1>1, <2>1, RowFields, SequenceFacts
  <2> QED BY <1>2, <2>2 DEF Fixes, Results, Reviews
<1>5. /\ status \in Statuses /\ state \in PlanStates
      /\ state \in {"review_approved", "review_needs_rework"}
  BY DEF Statuses, PlanStates
<1>6. /\ h \in Row /\ h.revision = f.revision + 1 /\ h.plan = f.plan /\ h.owner = f.owner
      /\ h.fixes = f.fixes /\ h.plans = f.plans /\ h.results = f.results
      /\ h.reviews = f.reviews /\ h.reports = f.reports
  BY <1>1, NextRow
<1>7. g = [h EXCEPT !.status = status, !.state = state, !.reviews = Append(@, review)]
  BY <1>2 DEF Reviewed
<1> HIDE DEF g, h, review, status, state
<1>8. /\ Append(f.reviews, review) \in Seq(Reviews)
      /\ Extends(f.reviews, Append(f.reviews, review))
      /\ Last(Append(f.reviews, review)) = review
      /\ Ids(Append(f.reviews, review)) = Ids(f.reviews) \cup {c.receipt}
  BY <1>1, <1>4, RowFields, AppendFacts
<1>9. /\ g \in Row /\ g.revision = f.revision + 1
      /\ g.plan = f.plan /\ g.owner = f.owner /\ g.state = state
      /\ g.fixes = f.fixes /\ g.plans = f.plans /\ g.results = f.results
      /\ g.reviews = Append(f.reviews, review) /\ g.reports = f.reports
  BY <1>5, <1>6, <1>7, <1>8 DEF Row
<1>10. Grows(f, g)
  <2>1. f.state \notin Dead BY <1>2 DEF Dead
  <2> QED BY <1>1, <1>8, <1>9, <2>1, RowExtends DEF Grows
<1>11. References(g) = References(f) \cup ({c.receipt} \ {Null})
  <2>1. c.receipt # Null BY <1>2, NullAssumption
  <2> QED BY <1>8, <1>9, <2>1 DEF References
<1>12. ASSUME Valid(g) PROVE RowOK(g)
  <2>1. f.plan # Null /\ f.plan < f.revision BY <1>2, NullAssumption DEF RowOK, PlanStates
  <2>2. g.plan # Null /\ g.plan < g.revision BY <1>1, <1>9, <2>1, RowFields
  <2>3. ~Active(g) /\ Len(g.results) <= Len(g.plans) BY <1>3, <1>9 DEF Active, RowOK
  <2>4. Chained(g) /\ Passed(g) BY <1>3, <1>9 DEF Chained, LastFixed, Passed
  <2>5. Independent(g, Last(g.reviews).reviewer)
    BY <1>2, <1>4, <1>8, <1>9 DEF Independent
  <2>6. Last(g.results).outcome # "failed" BY <2>4 DEF Passed
  <2>7. \A x \in Range(g.reports) : EarnedReport(x, g) BY <1>9, <1>10, ReportsStay
  <2> QED BY <1>9, <1>12, <2>2, <2>3, <2>4, <2>5, <2>6, <2>7 DEF RowOK
<1> QED BY <1>9, <1>10, <1>11, <1>12 DEF g, Follows

LEMMA ReportFollows ==
    ASSUME NEW f, NEW c, RowOK(f), ReportOf(f, c)
    PROVE  c.new \in Row /\ (Valid(c.new) => Follows(f, c))
<1> DEFINE g == c.new
<1>1. f \in Row BY DEF RowOK
<1>2. PICK writer \in Writers :
        /\ f.state = "review_approved" /\ Independent(f, writer)
        /\ writer # Last(f.reviews).reviewer
        /\ c.receipt \in Nat /\ g = Reported(f, c.receipt, writer)
  BY DEF ReportOf
<1> DEFINE report == [id |-> c.receipt, writer |-> writer, fixed |-> Last(f.fixes).fixed,
                      review |-> Last(f.reviews).id]
           h == Next1(f)
<1>3. /\ Chained(f) /\ Passed(f) /\ ~Active(f) /\ Independent(f, Last(f.reviews).reviewer)
  BY <1>2 DEF RowOK
<1>4. LastReview(f, "approved")
  <2>1. ValidState(f) BY DEF RowOK, Valid
  <2> QED BY <1>2, <2>1 DEF ValidState
<1>5. /\ Last(f.fixes) \in Fixes /\ Last(f.fixes) \in Range(f.fixes)
      /\ Len(f.results) \in DOMAIN f.results
      /\ Last(f.reviews) \in Reviews /\ Last(f.reviews) \in Range(f.reviews)
  <2>1. f.fixes # <<>> /\ f.results # <<>> /\ f.reviews # <<>>
    BY <1>4 DEF LastReview, LastRetest
  <2> QED BY <1>1, <2>1, RowFields, SequenceFacts
<1>6. report \in Reports /\ report.id = c.receipt /\ report.writer = writer
      /\ report.fixed = Last(f.fixes).fixed /\ report.review = Last(f.reviews).id
  BY <1>2, <1>5 DEF Fixes, Reviews, Reports
<1>7. /\ h \in Row /\ h.revision = f.revision + 1 /\ h.plan = f.plan /\ h.owner = f.owner
      /\ h.fixes = f.fixes /\ h.plans = f.plans /\ h.results = f.results
      /\ h.reviews = f.reviews /\ h.reports = f.reports
  BY <1>1, NextRow
<1>8. g = [h EXCEPT !.status = "report_generated", !.state = "report_generated",
                    !.reports = Append(@, report)]
  BY <1>2 DEF Reported
<1> HIDE DEF g, h, report
<1>9. /\ Append(f.reports, report) \in Seq(Reports)
      /\ Extends(f.reports, Append(f.reports, report))
      /\ Range(Append(f.reports, report)) = Range(f.reports) \cup {report}
      /\ Ids(Append(f.reports, report)) = Ids(f.reports) \cup {c.receipt}
  BY <1>1, <1>6, RowFields, AppendFacts
<1>10. /\ g \in Row /\ g.revision = f.revision + 1
       /\ g.plan = f.plan /\ g.owner = f.owner /\ g.state = "report_generated"
       /\ g.fixes = f.fixes /\ g.plans = f.plans /\ g.results = f.results
       /\ g.reviews = f.reviews /\ g.reports = Append(f.reports, report)
  BY <1>7, <1>8, <1>9 DEF Row, Statuses, PlanStates
<1>11. Grows(f, g)
  <2>1. f.state \notin Dead BY <1>2 DEF Dead
  <2> QED BY <1>1, <1>9, <1>10, <2>1, RowExtends DEF Grows
<1>12. References(g) = References(f) \cup ({c.receipt} \ {Null})
  <2>1. c.receipt # Null BY <1>2, NullAssumption
  <2> QED BY <1>9, <1>10, <2>1 DEF References
<1>13. EarnedReport(report, g)
  <2> DEFINE fix == Last(f.fixes)
             k == Len(f.results)
             v == Last(f.reviews)
  <2>1. Len(f.plans) = k
    <3>1. /\ Len(f.results) \in Nat /\ Len(f.plans) \in Nat
          /\ ~(Len(f.plans) > Len(f.results)) /\ Len(f.results) <= Len(f.plans)
      BY <1>1, <1>3, RowFields, SequenceFacts DEF RowOK, Active
    <3> QED BY <3>1
  <2>2. /\ fix \in Range(g.fixes) /\ k \in DOMAIN g.results /\ v \in Range(g.reviews)
        /\ g.plans[k] = Last(f.plans) /\ g.results[k] = Last(f.results)
    BY <1>5, <1>10, <2>1 DEF Last
  <2>3. /\ fix.verdict = "fixed" /\ Last(f.plans).fix = fix.id
        /\ Last(f.plans).fixed = fix.fixed
    BY <1>3 DEF Chained, LastFixed
  <2>4. /\ Last(f.results).outcome = "passed" /\ Last(f.results).fixed = fix.fixed
        /\ v.outcome = "approved" /\ v.fixed = fix.fixed /\ v.retest = Last(f.results).id
    BY <1>3, <1>4 DEF LastReview, LastRetest, Passed
  <2>5. /\ v.reviewer \notin {f.owner, fix.builder, Last(f.plans).operator}
        /\ writer \notin {f.owner, fix.builder, Last(f.plans).operator, v.reviewer}
    BY <1>2, <1>3 DEF Independent
  <2> HIDE DEF fix, k, v
  <2>6. /\ fix.verdict = "fixed" /\ g.plans[k].fix = fix.id
        /\ g.results[k].outcome = "passed"
        /\ v.outcome = "approved" /\ v.retest = g.results[k].id /\ report.review = v.id
        /\ \A revision \in {fix.fixed, g.plans[k].fixed, g.results[k].fixed, v.fixed} :
              revision = report.fixed
        /\ v.reviewer \notin {g.owner, fix.builder, g.plans[k].operator}
        /\ report.writer \notin {g.owner, fix.builder, g.plans[k].operator, v.reviewer}
    BY <1>6, <1>10, <2>2, <2>3, <2>4, <2>5 DEF fix, v
  <2> QED BY <2>2, <2>6, Zenon DEF EarnedReport
<1>14. ASSUME Valid(g) PROVE RowOK(g)
  <2>1. f.plan # Null /\ f.plan < f.revision BY <1>2, NullAssumption DEF RowOK, PlanStates
  <2>2. g.plan # Null /\ g.plan < g.revision BY <1>1, <1>10, <2>1, RowFields
  <2>3. ~Active(g) /\ Len(g.results) <= Len(g.plans) BY <1>3, <1>10 DEF Active, RowOK
  <2>4. Chained(g) /\ Passed(g) BY <1>3, <1>10 DEF Chained, LastFixed, Passed
  <2>5. Independent(g, Last(g.reviews).reviewer) BY <1>3, <1>10 DEF Independent
  <2>6. Last(g.results).outcome # "failed" BY <2>4 DEF Passed
  <2>7. \A x \in Range(f.reports) : EarnedReport(x, g) BY <1>10, <1>11, ReportsStay
  <2>8. \A x \in Range(g.reports) : EarnedReport(x, g) BY <1>9, <1>10, <1>13, <2>7
  <2> QED BY <1>10, <1>14, <2>2, <2>3, <2>4, <2>5, <2>6, <2>8 DEF RowOK
<1> QED BY <1>10, <1>11, <1>12, <1>14 DEF g, Follows

LEMMA ProposalFollows ==
    ASSUME NEW f, NEW c, RowOK(f), Proposed(f, c)
    PROVE  /\ c.new \in Row
           /\ Valid(c.new) /\ ValidSuccessor(c.new, f) => Follows(f, c)
<1>1. CASE CancelOf(f, c)
  BY <1>1, CancelIsFollowed DEF CancelOf, MayCancel
<1> QED BY <1>1, StartFollows, FixFollows, PlanFollows, ResultFollows, ReviewFollows,
           ReportFollows, OlderFollows DEF Proposed

-----------------------------------------------------------------------------
(***************************************************************************)
(* What a projection writes, the row supports.                             *)
(***************************************************************************)
LEMMA StagesAre ==
    /\ Range(Stages) = {"execution", "evidence", "verification", "review", "report"}
    /\ Stages[1] = "execution" /\ Stages[2] = "evidence" /\ Stages[3] = "verification"
<1>1. DOMAIN Stages = 1..5 BY DEF Stages
<1> QED BY <1>1 DEF Stages, Range

LEMMA ShortSequences ==
    ASSUME NEW S
    PROVE  /\ <<>> \in Seq(S)
           /\ \A x \in S : <<x>> \in Seq(S)
           /\ \A x, y \in S : <<x, y>> \in Seq(S)
           /\ \A s, t \in Seq(S) : s \o t \in Seq(S)
BY ConcatProperties

LEMMA WriteGood ==
    ASSUME NEW f, NEW s \in Range(Stages), NEW status \in StageStatuses, NEW mark \in Marks,
           Shows(s, Write(s, status, mark), f)
    PROVE  Write(s, status, mark) \in GoodWrites(f)
BY DEF Write, GoodWrites, StageWrite

LEMMA RefuseGood == \A f : Refuse \in Seq(GoodWrites(f))
BY ShortSequences DEF Refuse, GoodWrites, Refusal

LEMMA MarksAre ==
    /\ NoMark \in Marks
    /\ \A kind \in {"cancelled", "rework", "retest", "review", "report"}, id \in Nat :
          Mark(kind, id) \in Marks
BY DEF NoMark, Mark, Marks

LEMMA AttemptGood ==
    ASSUME NEW f, NEW g, NEW s \in Range(Stages), NEW status \in StageStatuses,
           NEW mark \in Marks, Shows(s, Write(s, status, mark), f)
    PROVE  Attempt(g, s, status, mark) \in Seq(GoodWrites(f))
<1> DEFINE G == GoodWrites(f)
<1>1. Write(s, status, mark) \in G BY WriteGood
<1>2. Write(s, "running", NoMark) \in G
  <2>1. Shows(s, Write(s, "running", NoMark), f) BY DEF Shows, Write
  <2>2. "running" \in StageStatuses BY DEF StageStatuses
  <2> QED BY <2>1, <2>2, WriteGood, MarksAre
<1>3. Refuse \in Seq(G) BY RefuseGood
<1> HIDE DEF G
<1>4. Attempt(g, s, status, mark) \in Seq(G)
  BY <1>1, <1>2, <1>3, ShortSequences DEF Attempt
<1> QED BY <1>4 DEF G

\* A write that makes a stage ready says nothing of the row.
LEMMA ReadyShows ==
    ASSUME NEW f, NEW s, NEW mark PROVE Shows(s, Write(s, "ready", mark), f)
BY DEF Shows, Write

LEMMA StatusesAre ==
    "ready" \in StageStatuses /\ "completed" \in StageStatuses /\ "cancelled" \in StageStatuses
BY DEF StageStatuses, Terminal

LEMMA CancelGood ==
    ASSUME NEW f, NEW g, f.state \in Dead, NEW from, NEW mark \in Marks
    PROVE  CancelWrites(g, from, mark) \in Seq(GoodWrites(f))
<1> DEFINE G == GoodWrites(f)
           One(s) == When(g.stage[s].status \notin Terminal, <<Write(s, "cancelled", mark)>>)
<1>1. ASSUME NEW s \in Range(Stages) PROVE One(s) \in Seq(G)
  <2>1. Shows(s, Write(s, "cancelled", mark), f) BY DEF Shows, Write
  <2>2. Write(s, "cancelled", mark) \in G BY <2>1, StatusesAre, WriteGood
  <2> HIDE DEF G
  <2> QED BY <2>2, ShortSequences DEF When
<1>2. /\ One("execution") \in Seq(G) /\ One("evidence") \in Seq(G)
      /\ One("verification") \in Seq(G) /\ One("review") \in Seq(G)
      /\ One("report") \in Seq(G)
  BY <1>1, StagesAre
<1>3. CancelWrites(g, from, mark) =
        When(from = 1, One("execution") \o One("evidence") \o One("verification"))
          \o One("review") \o One("report")
  BY DEF CancelWrites
<1> HIDE DEF G, One
<1>4. When(from = 1, One("execution") \o One("evidence") \o One("verification")) \in Seq(G)
  BY <1>2, ShortSequences DEF When
<1>5. CancelWrites(g, from, mark) \in Seq(G) BY <1>2, <1>3, <1>4, ShortSequences
<1> QED BY <1>5 DEF G

LEMMA StateGood ==
    ASSUME NEW f, NEW g, RowOK(f), f.state \in {"ready_for_implementation", "cancelled"}
    PROVE  StateWrites(g, f.state) \in Seq(GoodWrites(f))
<1>1. CASE f.state = "cancelled"
  <2>1. Mark("cancelled", 0) \in Marks /\ f.state \in Dead BY <1>1, MarksAre DEF Dead
  <2> QED BY <1>1, <2>1, CancelGood DEF StateWrites
<1>2. CASE f.state = "ready_for_implementation"
  <2>1. Write("execution", "ready", NoMark) \in GoodWrites(f)
    BY ReadyShows, WriteGood, StagesAre, StatusesAre, MarksAre
  <2> QED BY <1>2, <2>1, ShortSequences DEF StateWrites
<1> QED BY <1>1, <1>2

InTurn(a, b, c) ==
    IF a = Refuse THEN Refuse ELSE IF b = Refuse THEN a \o Refuse ELSE a \o b \o c

LEMMA FixGood ==
    ASSUME NEW f, NEW g, RowOK(f), f.fixes # <<>>
    PROVE  FixWrites(g, Last(f.fixes)) \in Seq(GoodWrites(f))
<1> DEFINE G == GoodWrites(f)
           fix == Last(f.fixes)
           mark == Mark("rework", fix.id)
           Complete(s) == IF g.stage[s].status = "completed" THEN <<>>
                          ELSE Attempt(g, s, "completed", NoMark)
           Again(s) == Attempt(g, s, "ready", mark)
           first == {"execution", "evidence", "verification"}
<1>1. f.fixes \in Seq(Fixes) /\ fix \in Fixes /\ fix \in Range(f.fixes)
  BY RowFields, SequenceFacts DEF RowOK
<1>2. mark \in Marks BY <1>1, MarksAre DEF Fixes
<1>3. \A s \in first : Again(s) \in Seq(G)
  BY <1>2, ReadyShows, AttemptGood, StatusesAre, StagesAre
<1>4. ASSUME fix.verdict = "fixed" PROVE \A s \in first : Complete(s) \in Seq(G)
  <2> SUFFICES ASSUME NEW s \in first PROVE Complete(s) \in Seq(G) OBVIOUS
  <2>1. Shows(s, Write(s, "completed", NoMark), f) BY <1>1, <1>4 DEF Shows, Write
  <2>2. Attempt(g, s, "completed", NoMark) \in Seq(G)
    BY <2>1, AttemptGood, StatusesAre, StagesAre, MarksAre
  <2> QED BY <2>2, ShortSequences
<1>5. Refuse \in Seq(G) BY RefuseGood
<1> HIDE DEF G
<1>7. FixWrites(g, fix) =
        IF fix.verdict = "fixed"
          THEN IF g.stage["verification"].status = "completed" THEN <<>>
               ELSE InTurn(Complete("execution"), Complete("evidence"), Complete("verification"))
          ELSE IF /\ g.stage["verification"].status = "ready"
                  /\ g.stage["verification"].mark = mark
               THEN <<>>
               ELSE InTurn(Again("execution"), Again("evidence"), Again("verification"))
  BY StagesAre DEF FixWrites, Attempts, InTurn
<1>8. \A a, b, c \in Seq(G) : InTurn(a, b, c) \in Seq(G)
  BY <1>5, ShortSequences DEF InTurn
<1> HIDE DEF Complete, Again
<1>9. FixWrites(g, fix) \in Seq(G)
  BY <1>3, <1>4, <1>7, <1>8, ShortSequences
<1> QED BY <1>9 DEF G

LEMMA RetestGood ==
    ASSUME NEW f, NEW g, RowOK(f), f.results # <<>>
    PROVE  RetestWrites(g, Last(f.results)) \in Seq(GoodWrites(f))
<1> DEFINE G == GoodWrites(f)
           result == Last(f.results)
           mark == Mark("retest", result.id)
<1>1. f.results \in Seq(Results) BY RowFields DEF RowOK
<1>2. result \in Results BY <1>1, SequenceFacts
<1>3. mark \in Marks /\ result.outcome \in {"passed", "cancelled", "failed"}
  BY <1>2, MarksAre DEF Results, AfterRetest
<1>4. /\ Refuse \in Seq(G) /\ <<>> \in Seq(G)
      /\ Attempt(g, "review", "ready", NoMark) \in Seq(G)
      /\ <<Write("review", "ready", NoMark)>> \in Seq(G)
  <2>1. Write("review", "ready", NoMark) \in G
    BY ReadyShows, WriteGood, StagesAre, StatusesAre, MarksAre
  <2>2. Attempt(g, "review", "ready", NoMark) \in Seq(G)
    BY ReadyShows, AttemptGood, StagesAre, StatusesAre, MarksAre
  <2>3. Refuse \in Seq(G) BY RefuseGood
  <2> HIDE DEF G
  <2> QED BY <2>1, <2>2, <2>3, ShortSequences
<1>5. result.outcome = "failed" => CancelWrites(g, 4, mark) \in Seq(G)
  <2>1. result.outcome = "failed" => f.state \in Dead BY DEF RowOK, Dead
  <2> QED BY <1>3, <2>1, CancelGood
<1> HIDE DEF G
<1>6. CASE result.outcome = "cancelled" BY <1>4, <1>6 DEF RetestWrites, G
<1>7. CASE result.outcome = "passed" BY <1>4, <1>7 DEF RetestWrites, G
<1>8. CASE result.outcome = "failed" BY <1>4, <1>5, <1>8 DEF RetestWrites, G
<1> QED BY <1>3, <1>6, <1>7, <1>8

LEMMA ReviewGood ==
    ASSUME NEW f, NEW g, RowOK(f), f.reviews # <<>>
    PROVE  ReviewWrites(g, Last(f.reviews)) \in Seq(GoodWrites(f))
<1> DEFINE G == GoodWrites(f)
           v == Last(f.reviews)
           mark == Mark("review", v.id)
<1>1. f.reviews \in Seq(Reviews) BY RowFields DEF RowOK
<1>2. v \in Reviews /\ v \in Range(f.reviews) BY <1>1, SequenceFacts
<1>3. mark \in Marks BY <1>2, MarksAre DEF Reviews
<1>4. Refuse \in Seq(G) BY RefuseGood
<1>5. Attempt(g, "review", "ready", mark) \in Seq(G)
  BY <1>3, ReadyShows, AttemptGood, StagesAre, StatusesAre
<1>6. Write("report", "ready", NoMark) \in G
  BY ReadyShows, WriteGood, StagesAre, StatusesAre, MarksAre
<1>7. v.outcome = "approved" => Attempt(g, "review", "completed", mark) \in Seq(G)
  <2>1. v.outcome = "approved" => Shows("review", Write("review", "completed", mark), f)
    BY <1>2 DEF Shows, Write
  <2> QED BY <1>3, <2>1, AttemptGood, StagesAre, StatusesAre
<1> HIDE DEF G, v
<1>8. ReviewWrites(g, v) \in Seq(G)
  BY <1>4, <1>5, <1>6, <1>7, ShortSequences DEF ReviewWrites
<1> QED BY <1>8 DEF G, v

LEMMA ReportGood ==
    ASSUME NEW f, NEW g, RowOK(f), f.reports # <<>>
    PROVE  ReportWrites(g, Last(f.reports)) \in Seq(GoodWrites(f))
<1> DEFINE G == GoodWrites(f)
           r == Last(f.reports)
           mark == Mark("report", r.id)
<1>1. f.reports \in Seq(Reports) BY RowFields DEF RowOK
<1>2. r \in Reports /\ r \in Range(f.reports) BY <1>1, SequenceFacts
<1>3. mark \in Marks BY <1>2, MarksAre DEF Reports
<1>4. Refuse \in Seq(G) BY RefuseGood
<1>5. Attempt(g, "report", "completed", mark) \in Seq(G)
  <2>1. Shows("report", Write("report", "completed", mark), f) BY <1>2 DEF Shows, Write
  <2> QED BY <1>3, <2>1, AttemptGood, StagesAre, StatusesAre
<1> HIDE DEF G, r
<1>6. ReportWrites(g, r) \in Seq(G)
  BY <1>4, <1>5, ShortSequences DEF ReportWrites
<1> QED BY <1>6 DEF G, r

LEMMA WritesGood ==
    ASSUME NEW f, NEW g, RowOK(f), NEW name \in Due(f)
    PROVE  Writes(g, f, name) \in Seq(GoodWrites(f))
<1>1. CASE name = "state" BY <1>1, StateGood DEF Writes, Due
<1>2. CASE name = "fix" BY <1>2, FixGood DEF Writes, Due
<1>3. CASE name = "retest" BY <1>3, RetestGood DEF Writes, Due
<1>4. CASE name = "review" BY <1>4, ReviewGood DEF Writes, Due
<1>5. CASE name = "report" BY <1>5, ReportGood DEF Writes, Due
<1> QED BY <1>1, <1>2, <1>3, <1>4, <1>5 DEF Due, Calls

LEMMA ProjectionDue == ASSUME NEW f PROVE Projection(f) \in Seq(Due(f))
<1> DEFINE D == Due(f)
<1>1. /\ f.state \in {"ready_for_implementation", "cancelled"} => "state" \in D
      /\ f.fixes # <<>> => "fix" \in D
      /\ f.results # <<>> => "retest" \in D
      /\ f.reviews # <<>> => "review" \in D
      /\ f.reports # <<>> => "report" \in D
  BY DEF Due, Calls
<1> HIDE DEF D
<1>2. ASSUME NEW b, NEW x, b => x \in D PROVE When(b, <<x>>) \in Seq(D)
  BY <1>2, ShortSequences DEF When
<1>3. Projection(f) \in Seq(D)
  BY <1>1, <1>2, ShortSequences DEF Projection
<1> QED BY <1>3 DEF D

-----------------------------------------------------------------------------
(***************************************************************************)
(* Steps.  What a step of p has to respect, so that the calls of others    *)
(* stay right: the row continues, and only p's own receipt comes or goes.  *)
(***************************************************************************)
Considerate(p) ==
    /\ run' = [run EXCEPT ![p] = run'[p]] /\ run'[p] \in RunRecord
    /\ RowOK(finding') /\ Grows(finding, finding')
    /\ finding' = finding \/ finding.revision < finding'.revision
    /\ stageGraph # Null => stageGraph' # Null
    /\ calls \in Nat /\ calls' \in Nat /\ calls <= calls'
    /\ receipts \ {run[p].receipt} \subseteq receipts'
    /\ References(finding') \subseteq References(finding) \cup {run[p].receipt}
    /\ run'[p].receipt # Null =>
          run'[p].receipt = run[p].receipt \/ run'[p].receipt \notin 1..calls

LEMMA OthersKept ==
    ASSUME RemediationInv, NEW p \in Procs, Considerate(p), NEW q \in Procs, q # p
    PROVE  CallOK(q)'
<1>1. /\ run[q] \in RunRecord /\ ReceiptOK(run[q]) /\ SaveOK(run[q])
      /\ BindOK(run[q]) /\ ProjectOK(run[q])
  BY DEF RemediationInv, RunsOK, CallOK
<1>2. run'[q] = run[q] BY DEF Considerate, RemediationInv, RunsOK
<1>3. run[q].receipt # Null => run[q].receipt # run[p].receipt
  BY DEF RemediationInv, RunsOK
<1>4. ReceiptOK(run[q])'
  <2>1. run[q].receipt \in 1..calls => run[q].receipt \in 1..calls' BY DEF Considerate
  <2> QED BY <1>1, <1>2, <1>3, <2>1 DEF ReceiptOK, Considerate
<1>5. finding \in Row /\ finding' \in Row BY DEF RemediationInv, RowOK, Considerate
<1>6. /\ finding.revision \in Nat /\ finding'.revision \in Nat
      /\ finding.revision <= finding'.revision
  BY <1>5, RowFields DEF Considerate, Grows
<1>7. SaveOK(run[q])'
  <2>1. CASE finding' = finding BY <1>1, <1>2, <2>1 DEF SaveOK
  <2>2. CASE finding.revision < finding'.revision
    <3> SUFFICES ASSUME run[q].pc \in {"receipt", "save"}
                 PROVE  /\ run[q].old \in Nat /\ run[q].old <= finding'.revision
                        /\ run[q].old # finding'.revision
      BY <1>2 DEF SaveOK
    <3>1. run[q].old \in Nat /\ run[q].old <= finding.revision BY <1>1 DEF SaveOK
    <3> QED BY <1>6, <2>2, <3>1
  <2> QED BY <2>1, <2>2 DEF Considerate
<1>8. BindOK(run[q])'
  <2>1. CASE finding' = finding BY <1>1, <1>2, <2>1 DEF BindOK
  <2>2. CASE finding.revision < finding'.revision
    <3> SUFFICES ASSUME run[q].pc \in {"bind", "unbind"}
                 PROVE  /\ run[q].new \in Row /\ run[q].new.revision <= finding'.revision
                        /\ run[q].new.revision # finding'.revision
      BY <1>2 DEF BindOK
    <3>1. run[q].new \in Row /\ run[q].new.revision <= finding.revision BY <1>1 DEF BindOK
    <3>2. run[q].new.revision \in Nat BY <3>1, RowFields
    <3> QED BY <1>6, <2>2, <3>1, <3>2
  <2> QED BY <2>1, <2>2 DEF Considerate
<1>9. ProjectOK(run[q])'
  <2>1. CASE run[q].pc # "project" BY <1>1, <1>2, <2>1 DEF ProjectOK
  <2>2. CASE run[q].pc = "project"
    <3>1. /\ RowOK(run[q].new) /\ Grows(run[q].new, finding)
          /\ run[q].todo \in Seq(Due(run[q].new)) /\ run[q].writes \in Seq(GoodWrites(finding))
          /\ run[q].writes # <<>> => stageGraph' # Null
      BY <1>1, <2>2 DEF ProjectOK, Considerate
    <3>2. Grows(finding, finding') BY DEF Considerate
    <3>3. Grows(run[q].new, finding') BY <1>5, <3>1, <3>2, GrowsTwice DEF RowOK
    <3>4. run[q].writes \in Seq(GoodWrites(finding')) BY <1>5, <3>1, <3>2, GoodWritesStay
    <3> QED BY <1>2, <2>2, <3>1, <3>3, <3>4 DEF ProjectOK
  <2> QED BY <2>1, <2>2
<1> QED BY <1>4, <1>7, <1>8, <1>9 DEF CallOK

LEMMA StepKeeps ==
    ASSUME RemediationInv, NEW p \in Procs, Considerate(p), CallOK(p)', GraphOK', Counted',
           receipts' \subseteq 1..calls', References(finding') \subseteq receipts',
           (Cardinality(Stray) <= crashes)'
    PROVE  RemediationInv'
<1>1. RowOK(finding)' BY DEF Considerate
<1>2. run' \in [Procs -> RunRecord] BY DEF RemediationInv, RunsOK, Considerate
<1>3. \A q \in Procs : CallOK(q)' BY OthersKept
<1>4. \A q \in Procs : q # p => run'[q] = run[q] BY DEF Considerate, RemediationInv, RunsOK
<1>5. ASSUME NEW q \in Procs, NEW r \in Procs,
             run'[q].receipt # Null, run'[q].receipt = run'[r].receipt, q # r
      PROVE  FALSE
  <2>1. \A x \in Procs : run[x].receipt # Null => run[x].receipt \in 1..calls
    BY DEF RemediationInv, RunsOK, CallOK, ReceiptOK
  <2>2. \A x \in Procs : x # p => run'[x].receipt # run'[p].receipt \/ run'[x].receipt = Null
    <3> SUFFICES ASSUME NEW x \in Procs, x # p, run'[x].receipt = run'[p].receipt,
                        run'[x].receipt # Null
                 PROVE  FALSE
      OBVIOUS
    <3>1. run[x].receipt \in 1..calls /\ run[x].receipt = run'[p].receipt BY <1>4, <2>1
    <3>2. run'[p].receipt = run[p].receipt BY <3>1 DEF Considerate
    <3> QED BY <1>4, <3>1, <3>2 DEF RemediationInv, RunsOK
  <2> QED BY <1>4, <1>5, <2>2 DEF RemediationInv, RunsOK
<1>6. RunsOK' BY <1>2, <1>3, <1>5 DEF RunsOK
<1> QED BY <1>1, <1>6 DEF RemediationInv

LEMMA StrayKept ==
    ASSUME RemediationInv, NEW p \in Procs, run' = [run EXCEPT ![p] = run'[p]],
           crashes' = crashes, References(finding) \subseteq References(finding'),
           receipts' \subseteq 1..calls', Null \notin 1..calls',
           receipts' \subseteq receipts \cup {run'[p].receipt},
           run[p].receipt \in receipts' =>
              run[p].receipt = run'[p].receipt \/ run[p].receipt \in References(finding')
    PROVE  (Cardinality(Stray) <= crashes)'
<1>1. ASSUME NEW x \in Stray' PROVE x \in Stray
  <2>1. /\ x \in receipts' /\ x \notin References(finding')
        /\ \A q \in Procs : x # run'[q].receipt
    BY <1>1 DEF Stray
  <2>2. x \in receipts /\ x \notin References(finding) BY <2>1
  <2>3. \A q \in Procs : x # run[q].receipt
    BY <2>1 DEF RemediationInv, RunsOK
  <2> QED BY <2>2, <2>3 DEF Stray
<1>2. IsFiniteSet(Stray) /\ Cardinality(Stray) \in Nat
  <2>1. IsFiniteSet(1..calls)
    <3>1. 1 \in Int /\ calls \in Int BY RemediationAssumption DEF RemediationInv, Counted
    <3> QED BY <3>1, FS_Interval
  <2>2. Stray \subseteq 1..calls BY DEF Stray, RemediationInv
  <2> QED BY <2>1, <2>2, FS_Subset, FS_CardinalityType
<1>3. /\ Cardinality(Stray') <= Cardinality(Stray) /\ Cardinality(Stray') \in Nat
  <2>1. Stray' \subseteq Stray BY <1>1
  <2> QED BY <1>2, <2>1, FS_Subset, FS_CardinalityType
<1>4. Cardinality(Stray) <= crashes /\ crashes \in Nat
  BY RemediationAssumption DEF RemediationInv, Counted
<1> QED BY <1>2, <1>3, <1>4

LEMMA Constants ==
    /\ MaxCalls \in Nat /\ MaxViews \in Nat /\ MaxFaults \in Nat
    /\ \A n \in Nat : Null \notin 1..n
BY RemediationAssumption, NullAssumption

LEMMA IdleIs ==
    /\ Idle \in RunRecord
    /\ Idle.pc = "idle" /\ Idle.old = Null /\ Idle.new = Null /\ Idle.receipt = Null
    /\ Idle.after = "end" /\ Idle.todo = <<>> /\ Idle.writes = <<>> /\ Idle.rev = 0
BY EmptySeq DEF Idle, RunRecord

LEMMA IdleOK == ASSUME NEW p, run[p] = Idle PROVE CallOK(p)
BY IdleIs DEF CallOK, ReceiptOK, SaveOK, BindOK, ProjectOK

\* A step that leaves the row, the receipts and the number of calls alone.
LEMMA LocalStep ==
    ASSUME RemediationInv, NEW p \in Procs, run' = [run EXCEPT ![p] = run'[p]],
           run'[p] \in RunRecord, UNCHANGED <<finding, receipts, calls>>,
           run'[p].receipt = run[p].receipt,
           CallOK(p)', GraphOK', Counted', crashes' = crashes,
           stageGraph # Null => stageGraph' # Null
    PROVE  RemediationInv'
<1>1. /\ RowOK(finding) /\ finding \in Row /\ calls \in Nat
      /\ receipts \subseteq 1..calls /\ References(finding) \subseteq receipts
  BY DEF RemediationInv, RowOK, Counted
<1>2. Considerate(p) BY <1>1, GrowsSelf DEF Considerate
<1>3. (Cardinality(Stray) <= crashes)' BY <1>1, Constants, StrayKept
<1> QED BY <1>1, <1>2, <1>3, StepKeeps

\* What the invariant says of the state apart from the calls.
LEMMA InvFacts ==
    ASSUME RemediationInv
    PROVE  /\ RowOK(finding) /\ finding \in Row /\ finding.revision \in Nat
           /\ calls \in 0..MaxCalls /\ calls \in Nat /\ GraphOK /\ Counted
           /\ receipts \subseteq 1..calls /\ References(finding) \subseteq receipts
           /\ run \in [Procs -> RunRecord]
           /\ \A p \in Procs : CallOK(p) /\ run[p] \in RunRecord
           /\ Cardinality(Stray) <= crashes
<1>1. RowOK(finding) /\ finding \in Row BY DEF RemediationInv, RowOK
<1>2. finding.revision \in Nat BY <1>1, RowFields
<1> QED BY <1>1, <1>2, Constants DEF RemediationInv, Counted, RunsOK

LEMMA EnterCounted ==
    ASSUME NEW p \in Procs, Counted, Enter(p), calls' \in 0..MaxCalls, views' \in 0..MaxViews,
           crashes' = crashes
    PROVE  Counted'
BY Constants DEF Enter, Counted

LEMMA ProposalOK ==
    ASSUME RemediationInv, NEW p \in Procs, NEW new, NEW pc \in {"receipt", "save"}, NEW after,
           BeginCall(p, new, pc, after), after \in {"bind", "project", "end"},
           Proposed(finding, run'[p])
    PROVE  RemediationInv'
<1> DEFINE receipt == IF pc = "receipt" THEN calls + 1 ELSE Null
<1>1. /\ run[p].pc = "idle" /\ calls < MaxCalls /\ Enter(p) /\ calls' = calls + 1
      /\ UNCHANGED <<finding, receipts, stageGraph, views, crashes>>
      /\ run' = [run EXCEPT ![p] = [Idle EXCEPT !.pc = pc, !.new = new,
                                       !.old = finding.revision, !.after = after,
                                       !.receipt = receipt]]
  BY DEF BeginCall, Enter, At, Become
<1>2. run[p].receipt = Null
  BY <1>1, InvFacts DEF CallOK, ReceiptOK
<1>3. /\ run' = [run EXCEPT ![p] = run'[p]]
      /\ run'[p] = [Idle EXCEPT !.pc = pc, !.new = new, !.old = finding.revision,
                                !.after = after, !.receipt = receipt]
  BY <1>1, InvFacts
<1>4. /\ run'[p].pc = pc /\ run'[p].new = new /\ run'[p].old = finding.revision
      /\ run'[p].after = after /\ run'[p].receipt = receipt
      /\ run'[p].todo = <<>> /\ run'[p].writes = <<>>
  BY <1>3, IdleIs DEF RunRecord
<1>5. calls' \in Nat /\ calls' \in 0..MaxCalls /\ calls <= calls' /\ receipt \in Nat \cup {Null}
      /\ (receipt # Null => receipt = calls + 1 /\ pc = "receipt")
      /\ (pc = "receipt" => receipt # Null)
  BY <1>1, InvFacts, Constants, NullAssumption
<1>6. new \in Row BY <1>4, InvFacts, ProposalFollows
<1>7. run'[p] \in RunRecord
  BY <1>3, <1>5, <1>6, IdleIs, InvFacts DEF RunRecord
<1>8. Considerate(p)
  <2>1. calls + 1 \notin 1..calls BY InvFacts
  <2> QED BY <1>1, <1>2, <1>3, <1>4, <1>5, <1>7, <2>1, GrowsSelf, InvFacts DEF Considerate
<1>9. CallOK(p)'
  <2>1. calls + 1 \in 1..calls' /\ calls + 1 \notin References(finding)
    BY <1>1, InvFacts
  <2>2. ReceiptOK(run[p])' BY <1>1, <1>4, <1>5, <2>1 DEF ReceiptOK
  <2>3. SaveOK(run[p])' BY <1>1, <1>4, InvFacts DEF SaveOK
  <2>4. BindOK(run[p])' BY <1>4 DEF BindOK
  <2>5. ProjectOK(run[p])' BY <1>4 DEF ProjectOK
  <2> QED BY <2>2, <2>3, <2>4, <2>5 DEF CallOK
<1>10. GraphOK' BY <1>1, InvFacts DEF GraphOK
<1>11. Counted' BY <1>1, <1>5, InvFacts, EnterCounted DEF Counted
<1>12. receipts' \subseteq 1..calls' /\ References(finding') \subseteq receipts'
  BY <1>1, <1>5, InvFacts
<1>13. (Cardinality(Stray) <= crashes)'
  BY <1>1, <1>2, <1>3, <1>5, <1>12, Constants, StrayKept
<1> QED BY <1>8, <1>9, <1>10, <1>11, <1>12, <1>13, StepKeeps

LEMMA BeginFields ==
    ASSUME RemediationInv, NEW p \in Procs, NEW new, NEW pc, NEW after,
           BeginCall(p, new, pc, after)
    PROVE  /\ run'[p].new = new /\ run'[p].after = after
           /\ pc = "receipt" => run'[p].receipt = calls + 1
           /\ pc # "receipt" => run'[p].receipt = Null
<1>1. run'[p] = [Idle EXCEPT !.pc = pc, !.new = new, !.old = finding.revision, !.after = after,
                             !.receipt = IF pc = "receipt" THEN calls + 1 ELSE Null]
  BY InvFacts DEF BeginCall, Become
<1> QED BY <1>1, IdleIs DEF RunRecord

LEMMA OperationOK == ASSUME RemediationInv, NEW p \in Procs, Operation(p) PROVE RemediationInv'
<1>0. calls + 1 \in Nat BY InvFacts
<1>1. CASE Start(p)
  <2>1. PICK owner \in Developers :
          MayStart(finding) /\ BeginCall(p, Started(finding, owner), "save", "bind")
    BY <1>1 DEF Start
  <2>2. StartOf(finding, run'[p]) BY <2>1, BeginFields DEF StartOf
  <2> QED BY <2>1, <2>2, ProposalOK DEF Proposed
<1>2. CASE VerifyFix(p)
  <2>1. PICK builder \in Developers, verdict \in Verdicts, r \in Revisions :
          /\ MayVerifyFix(finding)
          /\ BeginCall(p, FixVerified(finding, calls + 1, builder, verdict, r),
                       "receipt", "project")
    BY <1>2 DEF VerifyFix, Verdicts
  <2>2. FixOf(finding, run'[p]) BY <1>0, <2>1, BeginFields DEF FixOf
  <2> QED BY <2>1, <2>2, ProposalOK DEF Proposed
<1>3. CASE StartRetest(p)
  <2>1. PICK operator \in Operators :
          /\ MayStartRetest(finding)
          /\ BeginCall(p, RetestStarted(finding, operator), "save", "project")
    BY <1>3 DEF StartRetest
  <2>2. PlanOf(finding, run'[p]) BY <2>1, BeginFields DEF PlanOf
  <2> QED BY <2>1, <2>2, ProposalOK DEF Proposed
<1>4. CASE RecordRetest(p)
  <2>1. PICK outcome \in DOMAIN AfterRetest :
          /\ MayRecordRetest(finding)
          /\ BeginCall(p, RetestRecorded(finding, calls + 1, outcome), "receipt", "project")
    BY <1>4 DEF RecordRetest, AfterRetest
  <2>2. ResultOf(finding, run'[p]) BY <1>0, <2>1, BeginFields DEF ResultOf
  <2> QED BY <2>1, <2>2, ProposalOK DEF Proposed
<1>5. CASE Review(p)
  <2>1. PICK reviewer \in Reviewers, outcome \in {"approved", "changes_requested"} :
          /\ MayReview(finding, reviewer)
          /\ BeginCall(p, Reviewed(finding, calls + 1, reviewer, outcome), "receipt", "project")
    BY <1>5 DEF Review
  <2>2. finding.state = "awaiting_review" /\ Independent(finding, reviewer)
    BY <2>1 DEF MayReview, Independent
  <2>3. ReviewOf(finding, run'[p]) BY <1>0, <2>1, <2>2, BeginFields DEF ReviewOf
  <2> QED BY <2>1, <2>3, ProposalOK DEF Proposed
<1>6. CASE Report(p)
  <2>1. PICK writer \in Writers :
          /\ MayReport(finding, writer)
          /\ BeginCall(p, Reported(finding, calls + 1, writer), "receipt", "project")
    BY <1>6 DEF Report
  <2>2. /\ finding.state = "review_approved" /\ Independent(finding, writer)
        /\ writer # Last(finding.reviews).reviewer
    BY <2>1 DEF MayReport, Independent
  <2>3. ReportOf(finding, run'[p]) BY <1>0, <2>1, <2>2, BeginFields DEF ReportOf
  <2> QED BY <2>1, <2>3, ProposalOK DEF Proposed
<1>7. CASE Cancel(p)
  <2>1. MayCancel(finding) /\ BeginCall(p, Cancelled(finding), "save", "project")
    BY <1>7 DEF Cancel
  <2>2. CancelOf(finding, run'[p]) BY <2>1, BeginFields DEF CancelOf
  <2> QED BY <2>1, <2>2, ProposalOK DEF Proposed
<1>8. CASE UpdateVerification(p)
  <2>1. PICK v \in BOOLEAN :
          BeginCall(p, [Next1(finding) EXCEPT !.verified = v], "save", "end")
    BY <1>8 DEF UpdateVerification
  <2>2. OlderOf(finding, run'[p]) BY <2>1, BeginFields DEF OlderOf
  <2> QED BY <2>1, <2>2, ProposalOK DEF Proposed
<1>9. CASE AppendRetest(p)
  <2>1. PICK status \in Statuses :
          BeginCall(p, [Next1(finding) EXCEPT !.status = status], "save", "end")
    BY <1>9 DEF AppendRetest, Statuses
  <2>2. OlderOf(finding, run'[p]) BY <2>1, BeginFields DEF OlderOf
  <2> QED BY <2>1, <2>2, ProposalOK DEF Proposed
<1> QED BY <1>1, <1>2, <1>3, <1>4, <1>5, <1>6, <1>7, <1>8, <1>9 DEF Operation

LEMMA ViewOK == ASSUME RemediationInv, NEW p \in Procs, View(p) PROVE RemediationInv'
<1> DEFINE r == [Idle EXCEPT !.pc = "project", !.new = finding, !.todo = Projection(finding)]
<1>1. /\ run[p].pc = "idle" /\ Enter(p) /\ views < MaxViews /\ views' = views + 1
      /\ UNCHANGED <<finding, receipts, stageGraph, calls, crashes>>
      /\ run' = [run EXCEPT ![p] = r]
  BY DEF View, Enter, At, Become
<1>2. run[p].receipt = Null BY <1>1, InvFacts DEF CallOK, ReceiptOK
<1>3. Projection(finding) \in Seq(Due(finding)) /\ Projection(finding) \in Seq(Calls)
  <2>1. Due(finding) \subseteq Calls BY DEF Due
  <2> QED BY <2>1, ProjectionDue, SeqMonotonic
<1>4. r \in RunRecord /\ r.pc = "project" /\ r.new = finding /\ r.todo = Projection(finding)
      /\ r.writes = <<>> /\ r.receipt = Null
  BY <1>3, IdleIs, InvFacts DEF RunRecord
<1> HIDE DEF r
<1>5. run'[p] = r /\ run' = [run EXCEPT ![p] = run'[p]] BY <1>1, InvFacts
<1>6. CallOK(p)'
  <2>1. ReceiptOK(run[p])' /\ SaveOK(run[p])' /\ BindOK(run[p])'
    BY <1>4, <1>5 DEF ReceiptOK, SaveOK, BindOK
  <2>2. <<>> \in Seq(GoodWrites(finding)) BY EmptySeq
  <2>3. ProjectOK(run[p])'
    BY <1>1, <1>3, <1>4, <1>5, <2>2, InvFacts, GrowsSelf DEF ProjectOK
  <2> QED BY <2>1, <2>3 DEF CallOK
<1>7. GraphOK' BY <1>1, InvFacts DEF GraphOK
<1>8. Counted'
  <2>1. views' \in 0..MaxViews BY <1>1, InvFacts, Constants DEF Counted
  <2> QED BY <1>1, <2>1, InvFacts, EnterCounted
<1> QED BY <1>1, <1>2, <1>4, <1>5, <1>6, <1>7, <1>8, LocalStep

LEMMA GraphKept ==
    ASSUME RemediationInv, stageGraph' = stageGraph, finding' \in Row, Grows(finding, finding')
    PROVE  GraphOK'
<1>1. stageGraph # Null => \A s \in Range(Stages) :
         /\ stageGraph.stage[s].attempts <= Budget(s)
         /\ Shows(s, stageGraph.stage[s], finding')
  BY InvFacts, ShowsStays DEF GraphOK
<1> QED BY <1>1, InvFacts DEF GraphOK

LEMMA CountedKept == ASSUME RemediationInv, UNCHANGED bounds PROVE Counted'
BY InvFacts DEF Counted, bounds

LEMMA WriteReceiptOK ==
    ASSUME RemediationInv, NEW p \in Procs, WriteReceipt(p) PROVE RemediationInv'
<1> DEFINE r == [run[p] EXCEPT !.pc = "save"]
<1>1. /\ run[p].pc = "receipt" /\ receipts' = receipts \cup {run[p].receipt}
      /\ run' = [run EXCEPT ![p] = r] /\ UNCHANGED <<finding, stageGraph, bounds>>
  BY DEF WriteReceipt, At, Become
<1>2. /\ run[p] \in RunRecord /\ ReceiptOK(run[p]) /\ SaveOK(run[p]) /\ ProjectOK(run[p])
  BY InvFacts DEF CallOK
<1>3. /\ r \in RunRecord /\ r.pc = "save" /\ r.old = run[p].old /\ r.new = run[p].new
      /\ r.receipt = run[p].receipt /\ r.after = run[p].after
      /\ r.todo = run[p].todo /\ r.writes = run[p].writes
  BY <1>2 DEF RunRecord
<1> HIDE DEF r
<1>4. run'[p] = r /\ run' = [run EXCEPT ![p] = run'[p]] /\ calls' = calls /\ crashes' = crashes
  BY <1>1, InvFacts DEF bounds
<1>5. run[p].receipt \in 1..calls BY <1>1, <1>2 DEF ReceiptOK
<1>6. Considerate(p)
  BY <1>1, <1>3, <1>4, GrowsSelf, InvFacts DEF Considerate
<1>7. CallOK(p)'
  <2>1. ReceiptOK(run[p])' BY <1>1, <1>2, <1>3, <1>4 DEF ReceiptOK
  <2>2. SaveOK(run[p])'
    <3>1. Proposed(finding, run[p]) => Proposed(finding, r)
      BY <1>3 DEF Proposed, StartOf, FixOf, PlanOf, ResultOf, ReviewOf, ReportOf,
                  CancelOf, OlderOf
    <3> QED BY <1>1, <1>2, <1>3, <1>4, <3>1 DEF SaveOK
  <2>3. BindOK(run[p])' BY <1>3, <1>4 DEF BindOK
  <2>4. ProjectOK(run[p])' BY <1>1, <1>2, <1>3, <1>4 DEF ProjectOK
  <2> QED BY <2>1, <2>2, <2>3, <2>4 DEF CallOK
<1>8. GraphOK' BY <1>1, InvFacts, GrowsSelf, GraphKept
<1>9. Counted' BY <1>1, CountedKept
<1>10. receipts' \subseteq 1..calls' /\ References(finding') \subseteq receipts'
  BY <1>1, <1>4, <1>5, InvFacts
<1>11. (Cardinality(Stray) <= crashes)'
  BY <1>1, <1>3, <1>4, <1>10, InvFacts, Constants, StrayKept
<1> QED BY <1>6, <1>7, <1>8, <1>9, <1>10, <1>11, StepKeeps

LEMMA WithdrawOK == ASSUME RemediationInv, NEW p \in Procs, Withdraw(p) PROVE RemediationInv'
<1>1. /\ run[p].pc = "withdraw" /\ receipts' = receipts \ {run[p].receipt}
      /\ run' = [run EXCEPT ![p] = Idle] /\ UNCHANGED <<finding, stageGraph, bounds>>
  BY DEF Withdraw, At, Become, Finish
<1>2. run[p].receipt \in 1..calls /\ run[p].receipt \notin References(finding)
  BY <1>1, InvFacts DEF CallOK, ReceiptOK
<1>3. /\ run'[p] = Idle /\ run' = [run EXCEPT ![p] = run'[p]]
      /\ calls' = calls /\ crashes' = crashes
  BY <1>1, InvFacts DEF bounds
<1>4. Considerate(p) BY <1>1, <1>3, IdleIs, GrowsSelf, InvFacts DEF Considerate
<1>5. CallOK(p)' BY <1>3, IdleIs DEF CallOK, ReceiptOK, SaveOK, BindOK, ProjectOK
<1>6. GraphOK' BY <1>1, InvFacts, GrowsSelf, GraphKept
<1>7. Counted' BY <1>1, CountedKept
<1>8. receipts' \subseteq 1..calls' /\ References(finding') \subseteq receipts'
  BY <1>1, <1>2, <1>3, InvFacts
<1>9. (Cardinality(Stray) <= crashes)'
  BY <1>1, <1>3, <1>8, InvFacts, Constants, StrayKept
<1> QED BY <1>4, <1>5, <1>6, <1>7, <1>8, <1>9, StepKeeps

LEMMA DieOK == ASSUME RemediationInv, NEW p \in Procs, Die(p) PROVE RemediationInv'
<1>1. /\ races + crashes < MaxFaults /\ crashes' = crashes + 1
      /\ run' = [run EXCEPT ![p] = Idle]
      /\ UNCHANGED <<finding, receipts, stageGraph, calls, views, races>>
  BY DEF Die, Become, Finish
<1>2. run'[p] = Idle /\ run' = [run EXCEPT ![p] = run'[p]] BY <1>1, InvFacts
<1>3. Considerate(p) BY <1>1, <1>2, IdleIs, GrowsSelf, InvFacts DEF Considerate
<1>4. CallOK(p)' BY <1>2, IdleIs DEF CallOK, ReceiptOK, SaveOK, BindOK, ProjectOK
<1>5. GraphOK' BY <1>1, InvFacts, GrowsSelf, GraphKept
<1>6. Counted' BY <1>1, InvFacts, Constants DEF Counted
<1>7. receipts' \subseteq 1..calls' /\ References(finding') \subseteq receipts'
  BY <1>1, InvFacts
<1>8. (Cardinality(Stray) <= crashes)'
  <2>1. Stray' \subseteq Stray \cup {run[p].receipt}
    <3> SUFFICES ASSUME NEW x \in Stray', x # run[p].receipt PROVE x \in Stray OBVIOUS
    <3>1. x \in receipts /\ x \notin References(finding) BY <1>1 DEF Stray
    <3>2. \A q \in Procs : x # run[q].receipt
      <4>1. \A q \in Procs : x # run'[q].receipt BY DEF Stray
      <4> QED BY <1>1, <4>1, InvFacts
    <3> QED BY <3>1, <3>2 DEF Stray
  <2> DEFINE more == Stray \cup {run[p].receipt}
  <2>2. IsFiniteSet(Stray) /\ Cardinality(Stray) \in Nat
    <3>1. IsFiniteSet(1..calls) BY InvFacts, FS_Interval
    <3>2. Stray \subseteq 1..calls BY InvFacts DEF Stray
    <3> QED BY <3>1, <3>2, FS_Subset, FS_CardinalityType
  <2>3. /\ IsFiniteSet(more) /\ Cardinality(more) \in Nat
        /\ Cardinality(more) <= Cardinality(Stray) + 1
    <3>1. IsFiniteSet(more) /\ Cardinality(more) \in Nat
      BY <2>2, FS_AddElement, FS_CardinalityType
    <3>2. CASE run[p].receipt \in Stray
      <4>1. more = Stray BY <3>2
      <4> HIDE DEF more
      <4>2. Cardinality(more) = Cardinality(Stray) BY <4>1
      <4> QED BY <2>2, <3>1, <4>2
    <3>3. CASE run[p].receipt \notin Stray
      <4>1. Cardinality(more) = Cardinality(Stray) + 1 BY <2>2, <3>3, FS_AddElement
      <4> HIDE DEF more
      <4> QED BY <2>2, <3>1, <4>1
    <3> QED BY <3>2, <3>3
  <2>4. Cardinality(Stray') <= Cardinality(more) /\ Cardinality(Stray') \in Nat
    <3> HIDE DEF more
    <3> QED BY <2>1, <2>3, FS_Subset, FS_CardinalityType DEF more
  <2>5. Cardinality(Stray) <= crashes /\ crashes \in Nat
    BY InvFacts, Constants DEF Counted
  <2> HIDE DEF more
  <2> QED BY <1>1, <2>2, <2>3, <2>4, <2>5
<1> QED BY <1>3, <1>4, <1>5, <1>6, <1>7, <1>8, StepKeeps

LEMMA SavesOK == ASSUME RemediationInv, NEW p \in Procs, Save(p) PROVE RemediationInv'
<1> DEFINE new == run[p].new
<1>1. run[p].pc = "save" /\ UNCHANGED <<receipts, stageGraph, bounds>> BY DEF Save, At
<1>2. /\ run[p] \in RunRecord /\ ReceiptOK(run[p]) /\ SaveOK(run[p]) /\ ProjectOK(run[p])
  BY InvFacts DEF CallOK
<1>3. run[p].todo = <<>> /\ run[p].writes = <<>> BY <1>1, <1>2 DEF ProjectOK
<1>4. calls' = calls /\ crashes' = crashes BY <1>1 DEF bounds
<1>5. CASE /\ finding.revision = run[p].old /\ Valid(new) /\ ValidSuccessor(new, finding)
           /\ finding' = new /\ Become(p, Saved(p, new))
  <2>1. Proposed(finding, run[p]) BY <1>1, <1>2, <1>5 DEF SaveOK
  <2>2. Follows(finding, run[p]) BY <1>5, <2>1, ProposalFollows, InvFacts
  <2>3. /\ RowOK(new) /\ new \in Row /\ Grows(finding, new)
        /\ new.revision = finding.revision + 1
        /\ References(new) = References(finding) \cup ({run[p].receipt} \ {Null})
    BY <2>2 DEF Follows, RowOK
  <2> DEFINE r == Saved(p, new)
  <2>4. /\ run[p].after = "end" => run[p].receipt = Null
        /\ run[p].after = "bind" =>
              run[p].receipt = Null /\ new.state = "ready_for_implementation"
    BY <2>1, InvFacts, StartFollows DEF Proposed, StartOf, FixOf, PlanOf, ResultOf, ReviewOf,
                                        ReportOf, CancelOf, OlderOf
  <2>5. /\ Projection(new) \in Seq(Due(new)) /\ Projection(new) \in Seq(Calls)
        /\ <<>> \in Seq(GoodWrites(new))
    <3>1. Due(new) \subseteq Calls BY DEF Due
    <3> QED BY <3>1, ProjectionDue, SeqMonotonic, EmptySeq
  <2>6. /\ r \in RunRecord /\ r.receipt = Null /\ r.writes = <<>>
        /\ \/ r.pc = "idle" /\ r.todo = <<>>
           \/ /\ r.pc = "bind" /\ r.new = new /\ r.todo = <<>>
              /\ new.state = "ready_for_implementation"
           \/ r.pc = "project" /\ r.new = new /\ r.todo = Projection(new)
    <3>1. CASE run[p].after = "end" BY <3>1, IdleIs DEF Saved
    <3>2. CASE run[p].after = "bind"
      <4>1. r = [run[p] EXCEPT !.pc = "bind"] BY <3>2 DEF Saved
      <4> HIDE DEF r
      <4> QED BY <1>2, <1>3, <2>4, <3>2, <4>1 DEF RunRecord
    <3>3. CASE run[p].after = "project"
      <4>1. r = [run[p] EXCEPT !.pc = "project", !.todo = Projection(new), !.receipt = Null]
        BY <3>3 DEF Saved
      <4> HIDE DEF r
      <4> QED BY <1>2, <1>3, <2>5, <4>1 DEF RunRecord
    <3>4. run[p].after \in {"end", "bind", "project"} BY <1>2 DEF RunRecord
    <3> QED BY <3>1, <3>2, <3>3, <3>4
  <2> HIDE DEF r
  <2>7. run' = [run EXCEPT ![p] = r] BY <1>5 DEF Become, r
  <2>8. run'[p] = r /\ run' = [run EXCEPT ![p] = run'[p]] BY <2>7, InvFacts
  <2>9. finding.revision \in Nat /\ finding.revision < new.revision BY <2>3, InvFacts
  <2>10. Considerate(p)
    BY <1>1, <1>4, <1>5, <2>3, <2>6, <2>8, <2>9, InvFacts DEF Considerate
  <2>11. CallOK(p)'
    <3>1. ReceiptOK(run[p])' /\ SaveOK(run[p])' BY <2>6, <2>8 DEF ReceiptOK, SaveOK
    <3>2. BindOK(run[p])'
      <4>1. new.revision <= new.revision BY <2>3, RowFields
      <4> QED BY <1>5, <2>3, <2>6, <2>8, <4>1 DEF BindOK
    <3>3. ProjectOK(run[p])'
      <4>1. Grows(new, new) BY <2>3, GrowsSelf
      <4> QED BY <1>5, <2>3, <2>5, <2>6, <2>8, <4>1 DEF ProjectOK
    <3> QED BY <3>1, <3>2, <3>3 DEF CallOK
  <2>12. GraphOK' BY <1>1, <1>5, <2>3, GraphKept
  <2>13. Counted' BY <1>1, CountedKept
  <2>14. receipts' \subseteq 1..calls' /\ References(finding') \subseteq receipts'
    BY <1>1, <1>2, <1>4, <1>5, <2>3, InvFacts DEF ReceiptOK
  <2>15. (Cardinality(Stray) <= crashes)'
    <3>1. run[p].receipt \in receipts' => run[p].receipt \in References(finding')
      BY <1>1, <1>5, <2>3, InvFacts, Constants
    <3>2. References(finding) \subseteq References(finding') BY <1>5, <2>3
    <3> QED BY <1>1, <1>4, <2>8, <2>14, <3>1, <3>2, InvFacts, Constants, StrayKept
  <2> QED BY <2>10, <2>11, <2>12, <2>13, <2>14, <2>15, StepKeeps
<1>6. CASE /\ Become(p, IF run[p].receipt = Null THEN Idle
                        ELSE [run[p] EXCEPT !.pc = "withdraw"])
           /\ UNCHANGED finding
  <2> DEFINE r == IF run[p].receipt = Null THEN Idle ELSE [run[p] EXCEPT !.pc = "withdraw"]
  <2>1. /\ r \in RunRecord /\ r.receipt = run[p].receipt
        /\ (r.pc = "idle" /\ run[p].receipt = Null) \/ (r.pc = "withdraw" /\ run[p].receipt # Null)
        /\ r.todo = <<>> /\ r.writes = <<>>
    BY <1>2, <1>3, IdleIs DEF RunRecord
  <2> HIDE DEF r
  <2>2. run' = [run EXCEPT ![p] = r] BY <1>6 DEF Become, r
  <2>3. run'[p] = r /\ run' = [run EXCEPT ![p] = run'[p]] BY <2>2, InvFacts
  <2>4. CallOK(p)'
    <3>1. ReceiptOK(run[p])' BY <1>1, <1>2, <1>4, <1>6, <2>1, <2>3 DEF ReceiptOK
    <3>2. SaveOK(run[p])' /\ BindOK(run[p])' /\ ProjectOK(run[p])'
      BY <2>1, <2>3 DEF SaveOK, BindOK, ProjectOK
    <3> QED BY <3>1, <3>2 DEF CallOK
  <2>5. GraphOK' BY <1>1, <1>6, InvFacts, GrowsSelf, GraphKept
  <2>6. Counted' BY <1>1, CountedKept
  <2>7. /\ UNCHANGED <<finding, receipts, calls>> /\ crashes' = crashes
        /\ stageGraph' = stageGraph /\ run'[p] \in RunRecord
        /\ run'[p].receipt = run[p].receipt
    BY <1>1, <1>4, <1>6, <2>1, <2>3
  <2> QED BY <2>3, <2>4, <2>5, <2>6, <2>7, LocalStep
<1> QED BY <1>5, <1>6 DEF Save

LEMMA NewGraphOK ==
    NewGraph \in Graphs /\ \A f : \A s \in Range(Stages) :
        NewGraph.stage[s].attempts <= Budget(s) /\ Shows(s, NewGraph.stage[s], f)
<1>1. NoMark \in Marks /\ {"ready", "pending"} \subseteq StageStatuses
  BY MarksAre DEF StageStatuses
<1>2. NewGraph \in Graphs BY <1>1 DEF NewGraph, Graphs
<1>3. \A s \in Range(Stages) : /\ NewGraph.stage[s].attempts = 0
                               /\ NewGraph.stage[s].status \in {"ready", "pending"}
  BY DEF NewGraph
<1>4. \A s \in Range(Stages) : Budget(s) >= 0 BY RemediationAssumption DEF Budget
<1> QED BY <1>2, <1>3, <1>4 DEF Shows

LEMMA BindStepOK == ASSUME RemediationInv, NEW p \in Procs, Bind(p) PROVE RemediationInv'
<1> DEFINE r == [run[p] EXCEPT !.pc = "unbind"]
<1>1. /\ run[p].pc = "bind" /\ UNCHANGED <<finding, receipts, bounds>>
      /\ stageGraph' \in {stageGraph, NewGraph}
      /\ run' = [run EXCEPT ![p] = Idle] \/ run' = [run EXCEPT ![p] = r]
  BY DEF Bind, At, Become, Finish
<1>2. run[p] \in RunRecord /\ ReceiptOK(run[p]) /\ BindOK(run[p]) /\ ProjectOK(run[p])
  BY InvFacts DEF CallOK
<1>3. run[p].receipt = Null /\ run[p].todo = <<>> /\ run[p].writes = <<>>
  BY <1>1, <1>2 DEF ReceiptOK, ProjectOK
<1>4. /\ r \in RunRecord /\ r.pc = "unbind" /\ r.receipt = Null /\ r.new = run[p].new
      /\ r.todo = <<>> /\ r.writes = <<>>
  BY <1>2, <1>3 DEF RunRecord
<1> HIDE DEF r
<1>5. /\ run' = [run EXCEPT ![p] = run'[p]] /\ run'[p] \in RunRecord
      /\ run'[p] \in {Idle, r} /\ run'[p].receipt = Null
  BY <1>1, <1>4, IdleIs, InvFacts
<1>6. CallOK(p)'
  <2>1. CASE run'[p] = Idle
    BY <2>1, IdleIs DEF CallOK, ReceiptOK, SaveOK, BindOK, ProjectOK
  <2>2. CASE run'[p] = r
    BY <1>1, <1>2, <1>4, <2>2 DEF CallOK, ReceiptOK, SaveOK, BindOK, ProjectOK
  <2> QED BY <1>5, <2>1, <2>2
<1>7. GraphOK'
  <2>1. CASE stageGraph' = stageGraph BY <1>1, <2>1, InvFacts, GrowsSelf, GraphKept
  <2>2. CASE stageGraph' = NewGraph BY <2>2, NewGraphOK DEF GraphOK
  <2> QED BY <1>1, <2>1, <2>2
<1>8. Counted' BY <1>1, CountedKept
<1>9. stageGraph # Null => stageGraph' # Null BY <1>1, NewGraphOK, NullAssumption
<1>10. /\ UNCHANGED <<finding, receipts, calls>> /\ crashes' = crashes
       /\ run'[p].receipt = run[p].receipt
  BY <1>1, <1>3, <1>5 DEF bounds
<1> QED BY <1>5, <1>6, <1>7, <1>8, <1>9, <1>10, LocalStep

LEMMA UnbindOK == ASSUME RemediationInv, NEW p \in Procs, Unbind(p) PROVE RemediationInv'
<1> DEFINE new == Cancelled(finding)
           r == [run[p] EXCEPT !.pc = "project", !.new = new, !.todo = <<"state">>]
<1>1. run[p].pc = "unbind" /\ UNCHANGED <<receipts, stageGraph, bounds>> BY DEF Unbind, At
<1>2. run[p] \in RunRecord /\ ReceiptOK(run[p]) /\ BindOK(run[p]) /\ ProjectOK(run[p])
  BY InvFacts DEF CallOK
<1>3. run[p].receipt = Null /\ run[p].todo = <<>> /\ run[p].writes = <<>>
  BY <1>1, <1>2 DEF ReceiptOK, ProjectOK
<1>4. calls' = calls /\ crashes' = crashes BY <1>1 DEF bounds
<1>5. CASE /\ finding.revision = run[p].new.revision /\ finding' = new
           /\ run' = [run EXCEPT ![p] = r]
  <2>1. finding.state = "ready_for_implementation" BY <1>1, <1>2, <1>5 DEF BindOK
  <2>2. /\ RowOK(new) /\ new \in Row /\ Grows(finding, new) /\ new.state = "cancelled"
        /\ new.revision = finding.revision + 1 /\ References(new) = References(finding)
    <3> DEFINE c == [new |-> new, receipt |-> Null]
    <3>1. c.new = Cancelled(finding) /\ c.receipt = Null OBVIOUS
    <3> HIDE DEF c
    <3>2. c.new \in Row /\ Follows(finding, c) /\ c.new.state = "cancelled"
      BY <2>1, <3>1, InvFacts, CancelIsFollowed
    <3> QED BY <3>1, <3>2 DEF Follows
  <2> HIDE DEF new
  <2>3. <<"state">> \in Seq(Due(new)) /\ <<"state">> \in Seq(Calls)
        /\ <<>> \in Seq(GoodWrites(new))
    <3>1. "state" \in Due(new) /\ "state" \in Calls BY <2>2 DEF Due, Calls
    <3> QED BY <3>1, ShortSequences
  <2>4. /\ r \in RunRecord /\ r.pc = "project" /\ r.receipt = Null /\ r.new = new
        /\ r.todo = <<"state">> /\ r.writes = <<>>
    BY <1>2, <1>3, <2>2, <2>3 DEF RunRecord
  <2> HIDE DEF r
  <2>5. run'[p] = r /\ run' = [run EXCEPT ![p] = run'[p]] BY <1>5, InvFacts
  <2>6. finding.revision < new.revision BY <2>2, InvFacts
  <2>7. Considerate(p)
    BY <1>1, <1>4, <1>5, <2>2, <2>4, <2>5, <2>6, InvFacts DEF Considerate
  <2>8. CallOK(p)'
    <3>1. ReceiptOK(run[p])' /\ SaveOK(run[p])' /\ BindOK(run[p])'
      BY <2>4, <2>5 DEF ReceiptOK, SaveOK, BindOK
    <3>2. ProjectOK(run[p])'
      <4>1. Grows(new, new) BY <2>2, GrowsSelf
      <4> QED BY <1>5, <2>2, <2>3, <2>4, <2>5, <4>1 DEF ProjectOK
    <3> QED BY <3>1, <3>2 DEF CallOK
  <2>9. GraphOK' BY <1>1, <1>5, <2>2, GraphKept
  <2>10. Counted' BY <1>1, CountedKept
  <2>11. receipts' \subseteq 1..calls' /\ References(finding') \subseteq receipts'
    BY <1>1, <1>4, <1>5, <2>2, InvFacts
  <2>12. (Cardinality(Stray) <= crashes)'
    BY <1>1, <1>3, <1>4, <1>5, <2>2, <2>4, <2>5, <2>11, InvFacts, Constants, StrayKept
  <2> QED BY <2>7, <2>8, <2>9, <2>10, <2>11, <2>12, StepKeeps
<1>6. CASE finding' = finding /\ run' = [run EXCEPT ![p] = Idle]
  <2>1. run'[p] = Idle /\ run' = [run EXCEPT ![p] = run'[p]] BY <1>6, InvFacts
  <2>2. CallOK(p)' BY <2>1, IdleIs DEF CallOK, ReceiptOK, SaveOK, BindOK, ProjectOK
  <2>3. GraphOK' BY <1>1, <1>6, InvFacts, GrowsSelf, GraphKept
  <2>4. Counted' BY <1>1, CountedKept
  <2>5. /\ UNCHANGED <<finding, receipts, calls>> /\ crashes' = crashes
        /\ stageGraph' = stageGraph /\ run'[p] \in RunRecord
        /\ run'[p].receipt = run[p].receipt
    BY <1>1, <1>3, <1>4, <1>6, <2>1, IdleIs
  <2> QED BY <2>1, <2>2, <2>3, <2>4, <2>5, LocalStep
<1> QED BY <1>5, <1>6 DEF Unbind, Become, Finish

\* A projection that goes on with r, or has nothing left to do.
LEMMA ContinueOK ==
    ASSUME NEW p \in Procs, run \in [Procs -> RunRecord], NEW r \in RunRecord, Continue(p, r)
    PROVE  run' = [run EXCEPT ![p] = run'[p]] /\ run'[p] \in {Idle, r}
BY DEF Continue, Become

LEMMA LoadOK == ASSUME RemediationInv, NEW p \in Procs, Load(p) PROVE RemediationInv'
<1> DEFINE ws == Writes(stageGraph, run[p].new, Head(run[p].todo))
           r == [run[p] EXCEPT !.todo = Tail(@), !.rev = stageGraph.rev, !.writes = ws]
<1>1. /\ run[p].pc = "project" /\ UNCHANGED <<finding, receipts, stageGraph, bounds>>
      /\ \/ run' = [run EXCEPT ![p] = Idle]
         \/ stageGraph # Null /\ run[p].todo # <<>> /\ Continue(p, r)
  BY DEF Load, At, Become, Finish
<1>2. run[p] \in RunRecord /\ ReceiptOK(run[p]) /\ ProjectOK(run[p])
  BY InvFacts DEF CallOK
<1>3. /\ RowOK(run[p].new) /\ Grows(run[p].new, finding) /\ run[p].receipt = Null
      /\ run[p].todo \in Seq(Due(run[p].new))
  BY <1>1, <1>2 DEF ReceiptOK, ProjectOK
<1>4. ASSUME stageGraph # Null, run[p].todo # <<>>
      PROVE  /\ r \in RunRecord /\ r.pc = "project" /\ r.receipt = Null /\ r.new = run[p].new
             /\ r.todo \in Seq(Due(run[p].new)) /\ r.writes \in Seq(GoodWrites(finding))
  <2>1. Head(run[p].todo) \in Due(run[p].new) /\ Tail(run[p].todo) \in Seq(Due(run[p].new))
    BY <1>3, <1>4, HeadTailProperties
  <2>2. ws \in Seq(GoodWrites(run[p].new)) BY <1>3, <2>1, WritesGood
  <2>3. ws \in Seq(GoodWrites(finding)) BY <1>3, <2>2, GoodWritesStay, InvFacts DEF RowOK
  <2>4. ws \in Seq(StageWrite \cup {Refusal})
    <3>1. GoodWrites(finding) \subseteq StageWrite \cup {Refusal} BY DEF GoodWrites
    <3> QED BY <2>3, <3>1, SeqMonotonic
  <2>5. Tail(run[p].todo) \in Seq(Calls)
    <3>1. Due(run[p].new) \subseteq Calls BY DEF Due
    <3> QED BY <2>1, <3>1, SeqMonotonic
  <2>6. stageGraph.rev \in Nat BY <1>4, InvFacts DEF GraphOK, Graphs
  <2> HIDE DEF ws
  <2> QED BY <1>1, <1>2, <1>3, <2>1, <2>3, <2>4, <2>5, <2>6 DEF RunRecord
<1> HIDE DEF r
<1>5. /\ run' = [run EXCEPT ![p] = run'[p]]
      /\ \/ run'[p] = Idle
         \/ stageGraph # Null /\ run[p].todo # <<>> /\ run'[p] = r
  BY <1>1, <1>4, ContinueOK, InvFacts
<1>6. run'[p] \in RunRecord /\ run'[p].receipt = Null BY <1>4, <1>5, IdleIs
<1>7. CallOK(p)'
  <2>1. CASE run'[p] = Idle
    BY <2>1, IdleIs DEF CallOK, ReceiptOK, SaveOK, BindOK, ProjectOK
  <2>2. CASE stageGraph # Null /\ run[p].todo # <<>> /\ run'[p] = r
    <3>1. ReceiptOK(run[p])' /\ SaveOK(run[p])' /\ BindOK(run[p])'
      BY <1>4, <2>2 DEF ReceiptOK, SaveOK, BindOK
    <3>2. ProjectOK(run[p])' BY <1>1, <1>3, <1>4, <2>2 DEF ProjectOK
    <3> QED BY <3>1, <3>2 DEF CallOK
  <2> QED BY <1>5, <2>1, <2>2
<1>8. GraphOK' BY <1>1, InvFacts, GrowsSelf, GraphKept
<1>9. Counted' BY <1>1, CountedKept
<1>10. /\ UNCHANGED <<finding, receipts, calls>> /\ crashes' = crashes
       /\ stageGraph' = stageGraph /\ run'[p].receipt = run[p].receipt
  BY <1>1, <1>3, <1>6 DEF bounds
<1> QED BY <1>5, <1>6, <1>7, <1>8, <1>9, <1>10, LocalStep

\* A write that the row supports leaves a graph that it supports.
LEMMA WrittenOK ==
    ASSUME NEW g \in Graphs, NEW f, NEW w \in GoodWrites(f), CanWrite(g, w),
           \A s \in Range(Stages) : g.stage[s].attempts <= Budget(s) /\ Shows(s, g.stage[s], f)
    PROVE  LET h == Written(g, w)
           IN /\ h \in Graphs
              /\ \A s \in Range(Stages) :
                    h.stage[s].attempts <= Budget(s) /\ Shows(s, h.stage[s], f)
<1>1. w \in StageWrite /\ Shows(w.stage, w, f)
  BY DEF CanWrite, GoodWrites, Refusal, Write
<1> DEFINE n == AttemptsAfter(g, w)
           cell == [status |-> w.status, attempts |-> n, mark |-> w.mark]
<1>2. n \in Nat /\ n <= Budget(w.stage)
  BY <1>1 DEF CanWrite, AttemptsAfter, Graphs, StageWrite
<1>3. Shows(w.stage, cell, f) BY <1>1 DEF Shows
<1> HIDE DEF n
<1>4. Written(g, w) = [rev |-> g.rev + 1, stage |-> [g.stage EXCEPT ![w.stage] = cell]]
  BY DEF Written, n
<1>5. cell \in [status : StageStatuses, attempts : Nat, mark : Marks] /\ cell.attempts = n
  BY <1>1, <1>2 DEF StageWrite
<1> HIDE DEF cell
<1>6. [g.stage EXCEPT ![w.stage] = cell]
         \in [Range(Stages) -> [status : StageStatuses, attempts : Nat, mark : Marks]]
  BY <1>5 DEF Graphs
<1>7. ASSUME NEW s \in Range(Stages)
      PROVE  [g.stage EXCEPT ![w.stage] = cell][s] = IF s = w.stage THEN cell ELSE g.stage[s]
  BY DEF Graphs
<1>8. g.rev + 1 \in Nat BY DEF Graphs
<1>9. Written(g, w) \in Graphs BY <1>4, <1>6, <1>8 DEF Graphs
<1>10. \A s \in Range(Stages) : /\ Written(g, w).stage[s].attempts <= Budget(s)
                                /\ Shows(s, Written(g, w).stage[s], f)
  BY <1>2, <1>3, <1>4, <1>5, <1>7
<1> QED BY <1>9, <1>10

LEMMA PutOK == ASSUME RemediationInv, NEW p \in Procs, Put(p) PROVE RemediationInv'
<1> DEFINE w == Head(run[p].writes)
           r == [run[p] EXCEPT !.writes = Tail(@), !.rev = @ + 1]
<1>1. /\ run[p].pc = "project" /\ run[p].writes # <<>>
      /\ UNCHANGED <<finding, receipts, bounds>>
      /\ \/ /\ CanWrite(stageGraph, w) /\ stageGraph' = Written(stageGraph, w)
            /\ Continue(p, r)
         \/ stageGraph' = stageGraph /\ run' = [run EXCEPT ![p] = Idle]
  BY DEF Put, At, Become, Finish
<1>2. run[p] \in RunRecord /\ ReceiptOK(run[p]) /\ ProjectOK(run[p])
  BY InvFacts DEF CallOK
<1>3. /\ RowOK(run[p].new) /\ Grows(run[p].new, finding) /\ run[p].receipt = Null
      /\ run[p].todo \in Seq(Due(run[p].new)) /\ run[p].writes \in Seq(GoodWrites(finding))
      /\ stageGraph # Null
  BY <1>1, <1>2 DEF ReceiptOK, ProjectOK
<1>4. w \in GoodWrites(finding) /\ Tail(run[p].writes) \in Seq(GoodWrites(finding))
  BY <1>1, <1>3, HeadTailProperties
<1>5. /\ r \in RunRecord /\ r.pc = "project" /\ r.receipt = Null /\ r.new = run[p].new
      /\ r.todo = run[p].todo /\ r.writes = Tail(run[p].writes)
  <2>1. GoodWrites(finding) \subseteq StageWrite \cup {Refusal} BY DEF GoodWrites
  <2>2. Tail(run[p].writes) \in Seq(StageWrite \cup {Refusal}) BY <1>4, <2>1, SeqMonotonic
  <2>3. run[p].rev \in Nat BY <1>2 DEF RunRecord
  <2>4. run[p].rev + 1 \in Nat BY <2>3
  <2> HIDE DEF w
  <2>5. r = [run[p] EXCEPT !.writes = Tail(run[p].writes), !.rev = run[p].rev + 1]
    BY <1>2 DEF RunRecord
  <2> HIDE DEF r
  <2>6. r \in RunRecord BY <1>2, <2>2, <2>4, <2>5 DEF RunRecord
  <2>7. /\ r.pc = run[p].pc /\ r.receipt = run[p].receipt /\ r.new = run[p].new
        /\ r.todo = run[p].todo /\ r.writes = Tail(run[p].writes)
    BY <1>2, <2>5 DEF RunRecord
  <2> QED BY <1>1, <1>3, <2>6, <2>7
<1> HIDE DEF w, r
<1>6. /\ run' = [run EXCEPT ![p] = run'[p]] /\ run'[p] \in {Idle, r}
  BY <1>1, <1>5, ContinueOK, InvFacts
<1>7. run'[p] \in RunRecord /\ run'[p].receipt = Null BY <1>5, <1>6, IdleIs
<1>8. GraphOK' /\ stageGraph' # Null
  <2>1. CASE stageGraph' = stageGraph
    BY <1>1, <1>3, <2>1, InvFacts, GrowsSelf, GraphKept
  <2>2. CASE CanWrite(stageGraph, w) /\ stageGraph' = Written(stageGraph, w)
    <3>1. stageGraph \in Graphs /\ \A s \in Range(Stages) :
              stageGraph.stage[s].attempts <= Budget(s) /\ Shows(s, stageGraph.stage[s], finding)
      BY <1>3, InvFacts DEF GraphOK
    <3>2. /\ stageGraph' \in Graphs
          /\ \A s \in Range(Stages) : /\ stageGraph'.stage[s].attempts <= Budget(s)
                                      /\ Shows(s, stageGraph'.stage[s], finding)
      BY <1>4, <2>2, <3>1, WrittenOK
    <3>3. stageGraph' # Null BY <3>2, NullAssumption
    <3> QED BY <1>1, <3>2, <3>3 DEF GraphOK
  <2> QED BY <1>1, <2>1, <2>2
<1>9. CallOK(p)'
  <2>1. CASE run'[p] = Idle
    BY <2>1, IdleIs DEF CallOK, ReceiptOK, SaveOK, BindOK, ProjectOK
  <2>2. CASE run'[p] = r
    <3>1. ReceiptOK(run[p])' /\ SaveOK(run[p])' /\ BindOK(run[p])'
      BY <1>5, <2>2 DEF ReceiptOK, SaveOK, BindOK
    <3>2. ProjectOK(run[p])' BY <1>1, <1>3, <1>4, <1>5, <1>8, <2>2 DEF ProjectOK
    <3> QED BY <3>1, <3>2 DEF CallOK
  <2> QED BY <1>6, <2>1, <2>2
<1>10. Counted' BY <1>1, CountedKept
<1>11. /\ UNCHANGED <<finding, receipts, calls>> /\ crashes' = crashes
       /\ run'[p].receipt = run[p].receipt
  BY <1>1, <1>3, <1>7 DEF bounds
<1> QED BY <1>6, <1>7, <1>8, <1>9, <1>10, <1>11, LocalStep

-----------------------------------------------------------------------------
(***************************************************************************)
(* The theorems.                                                           *)
(***************************************************************************)
LEMMA InitRemediationInv == RemediationInit => RemediationInv
<1> SUFFICES ASSUME RemediationInit PROVE RemediationInv OBVIOUS
<1> USE DEF RemediationInit
<1>1. /\ NewFinding \in Row /\ NewFinding.plan = Null /\ NewFinding.state = Null
      /\ NewFinding.status = "open" /\ NoHistory(NewFinding)
  BY EmptySeq DEF NewFinding, Row, NoHistory, Statuses
<1>2. Len(<<>>) = 0 /\ DOMAIN <<>> = {} OBVIOUS
<1>3. Valid(NewFinding)
  <2>1. ValidState(NewFinding) BY <1>1, NullAssumption DEF ValidState, PlanStates
  <2>2. ValidStatus(NewFinding) BY <1>1 DEF ValidStatus
  <2> QED BY <1>1, <1>2, <2>1, <2>2 DEF Valid, NoHistory
<1>4. RowOK(NewFinding)
  <2>1. Range(NewFinding.reports) = {} BY <1>1, <1>2 DEF NoHistory, Range
  <2>2. /\ ~Active(NewFinding) /\ Len(NewFinding.results) <= Len(NewFinding.plans)
    BY <1>1, <1>2 DEF NoHistory, Active
  <2>3. NewFinding.state \notin PlanStates BY <1>1, NullAssumption
  <2> QED BY <1>1, <1>3, <2>1, <2>2, <2>3 DEF RowOK, NoHistory, PlanStates
<1>5. References(NewFinding) = {}
  BY <1>1, <1>2 DEF References, Ids, NoHistory
<1>6. /\ run \in [Procs -> RunRecord]
      /\ \A p \in Procs : CallOK(p) /\ run[p].receipt = Null
  BY IdleIs, IdleOK
<1>7. RunsOK BY <1>6 DEF RunsOK
<1>8. GraphOK BY DEF GraphOK
<1>9. Counted BY Constants DEF Counted
<1>10. Cardinality(Stray) <= crashes
  <2>1. Stray = {} BY DEF Stray
  <2> QED BY <2>1, FS_EmptySet
<1> QED BY <1>4, <1>5, <1>7, <1>8, <1>9, <1>10 DEF RemediationInv

LEMMA NextRemediationInv ==
    RemediationInv /\ [RemediationNext]_remediationVars => RemediationInv'
<1> SUFFICES ASSUME RemediationInv, [RemediationNext]_remediationVars PROVE RemediationInv'
  OBVIOUS
<1>1. CASE UNCHANGED remediationVars
  BY <1>1 DEF remediationVars, bounds, RemediationInv, RunsOK, CallOK, ReceiptOK, SaveOK,
              BindOK, ProjectOK, GraphOK, Counted, Stray
<1>2. ASSUME NEW p \in Procs, Operation(p) \/ View(p) \/ Step(p) \/ Die(p)
      PROVE  RemediationInv'
  BY <1>2, OperationOK, ViewOK, WriteReceiptOK, SavesOK, WithdrawOK, BindStepOK, UnbindOK,
     LoadOK, PutOK, DieOK
     DEF Step
<1> QED BY <1>1, <1>2 DEF RemediationNext

LEMMA RemediationInvMeans ==
    RemediationInv => ReportIsEarned /\ ReceiptsMatch /\ GraphNeverAhead
<1> SUFFICES ASSUME RemediationInv PROVE ReportIsEarned /\ ReceiptsMatch /\ GraphNeverAhead
  OBVIOUS
<1>1. ReportIsEarned BY InvFacts DEF ReportIsEarned, RowOK
<1>2. RemediationTypeOK
  <2>1. receipts \subseteq 1..MaxCalls
    <3>1. calls <= MaxCalls /\ calls \in Nat BY InvFacts, Constants
    <3> QED BY <3>1, InvFacts, Constants
  <2>2. Valid(finding) BY InvFacts DEF RowOK
  <2> QED BY <2>1, <2>2, InvFacts, RowFields DEF RemediationTypeOK, GraphOK, Counted
<1>3. ReceiptsMatch BY <1>2, InvFacts DEF ReceiptsMatch
<1>4. GraphNeverAhead
  <2>1. \A s \in Range(Stages) : stageGraph # Null => Shows(s, stageGraph.stage[s], finding)
    BY InvFacts DEF GraphOK
  <2> QED BY <2>1, StagesAre DEF GraphNeverAhead, Shows, Dead
<1> QED BY <1>1, <1>3, <1>4

LEMMA RemediationInvariance == RemediationSpec => []RemediationInv
BY InitRemediationInv, NextRemediationInv, PTL DEF RemediationSpec

\* However calls overlap, lose the race for the row or die: a final report
\* rests on one unbroken chain of receipts about one fixed revision, by a
\* reviewer and a writer who took no other part (findings/service.py).
THEOREM ReportsAreEarned == RemediationSpec => []ReportIsEarned
BY RemediationInvariance, RemediationInvMeans, PTL

\* Every receipt that the row refers to is on file, and what else is on file
\* belongs to a call under way or to one that died (the stores' clean-up).
THEOREM ReceiptsAreKept == RemediationSpec => []ReceiptsMatch
BY RemediationInvariance, RemediationInvMeans, PTL

\* The remediation's task graph never shows a fix, a review, a report or an end
\* that the row does not have, for any number of projections of old and new
\* rows (web/remediation_assessment_graph.py).
THEOREM ProjectionsFollow == RemediationSpec => []GraphNeverAhead
BY RemediationInvariance, RemediationInvMeans, PTL
=============================================================================
