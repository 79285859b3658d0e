---------------------------- MODULE VmPlacement -----------------------------
(***************************************************************************)
(* What the scheduler promises of a VM's placement, with no passes, copies *)
(* or mutex: a VM is placed in one step that sees where its peers are and  *)
(* what has been requested of it.  VmScheduling implements this            *)
(* specification.                                                          *)
(***************************************************************************)
CONSTANTS Vm, Node, None, AntiAffinity, Pinned, Cordoned

VARIABLES
  node,        \* the node each VM is placed on, or None
  request,     \* the node each VM is asked to leave, or None
  pending,     \* whether each VM's placement is announced as a migration
  overridden   \* the VMs whose placement was exempt from anti-affinity

vars == <<node, request, pending, overridden>>

Peers(v) ==
  {w \in Vm \ {v} : AntiAffinity[v] # None /\ AntiAffinity[w] = AntiAffinity[v]}

\* The VM is asked to leave the node it is on.
Leaving(v) == request[v] # None /\ request[v] = node[v]

\* A VM is asked to leave the node it is on, never another one.
Request(v) ==
  /\ node[v] # None
  /\ request' = [request EXCEPT ![v] = node[v]]
  /\ UNCHANGED <<node, pending, overridden>>

\* Onto a node that no peer is on and that it was not asked to leave.
Admissible(v, n) ==
  /\ Pinned[v] = None
  /\ n \notin Cordoned
  /\ n # request[v]
  /\ \A w \in Peers(v) : node[w] # n

\* Exempt: the node of its spec, or any other while it is asked to leave.
Exempt(v, n) ==
  \/ Pinned[v] = n
  \/ Pinned[v] = None /\ n \notin Cordoned /\ n # request[v] /\ Leaving(v)

Place(v, n) ==
  /\ node' = [node EXCEPT ![v] = n]
  /\ pending' = [pending EXCEPT ![v] = @ \/ Leaving(v)]
  /\ \/ Admissible(v, n) /\ overridden' = overridden \ {v}
     \/ Exempt(v, n) /\ overridden' = overridden \cup {v}
  /\ UNCHANGED request

\* A request that no longer names the VM's node is withdrawn.
Withdraw(v) ==
  /\ request[v] # None
  /\ ~Leaving(v)
  /\ request' = [request EXCEPT ![v] = None]
  /\ UNCHANGED <<node, pending, overridden>>

\* The migration is reported done.
Complete(v) ==
  /\ pending[v]
  /\ pending' = [pending EXCEPT ![v] = FALSE]
  /\ UNCHANGED <<node, request, overridden>>

Init ==
  /\ node = [v \in Vm |-> None]
  /\ request = [v \in Vm |-> None]
  /\ pending = [v \in Vm |-> FALSE]
  /\ overridden = {}

Next == \E v \in Vm :
  \/ Request(v) \/ Withdraw(v) \/ Complete(v)
  \/ \E n \in Node : Place(v, n)

Spec == Init /\ [][Next]_vars
=============================================================================
