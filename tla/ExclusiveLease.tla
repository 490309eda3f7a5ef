--------------------------- MODULE ExclusiveLease ---------------------------
(***************************************************************************)
(* What the task graph's leases promise to the workers, without files,     *)
(* clocks, tokens, attempts or stale calls: at most one worker owns a node *)
(* at a time, a node that ended stays so, and while a node is owned only   *)
(* its owner moves it.                                                     *)
(***************************************************************************)
CONSTANTS Nodes, Workers

VARIABLES owners, \* owners[n]: the workers that may take n for theirs
          phase   \* phase[n]: where n stands

vars == <<owners, phase>>

Phases == {"open", "running", "ended"}

\* A worker gets a free node.  It works on one node at a time.
Grant(w, n) ==
    /\ owners[n] = {} /\ phase[n] # "ended"
    /\ owners' = [m \in Nodes |-> IF m = n THEN {w} ELSE owners[m] \ {w}]
    /\ phase' = [phase EXCEPT ![n] = "running"]

\* The owner gives its node back, ended or open.
Release(w, n) ==
    /\ owners[n] = {w}
    /\ owners' = [owners EXCEPT ![n] = {}]
    /\ \E p \in Phases \ {"running"} : phase' = [phase EXCEPT ![n] = p]

\* Leases run out and workers die, and nodes that nobody owns are moved.
Change ==
    /\ owners' \in [Nodes -> SUBSET Workers]
    /\ \A n \in Nodes : owners'[n] \subseteq owners[n]
    /\ phase' \in [Nodes -> Phases]
    /\ \A n \in Nodes : phase'[n] # phase[n] => owners[n] = {} /\ phase[n] # "ended"

Init ==
    /\ owners = [n \in Nodes |-> {}]
    /\ phase \in [Nodes -> Phases]

Next == (\E w \in Workers, n \in Nodes : Grant(w, n) \/ Release(w, n)) \/ Change

Spec == Init /\ [][Next]_vars
=============================================================================
