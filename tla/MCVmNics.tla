------------------------------ MODULE MCVmNics -------------------------------
(***************************************************************************)
(* An instance of VmNics for TLC: an OVN network, one on an EVPN bridge,   *)
(* and that bridge itself.                                                 *)
(***************************************************************************)
EXTENDS VmNics

CONSTANTS v1, v2, ovn, evpn, br, m1, m2

Bridges == evpn :> br
A == Nic(ovn, None, None, None)
B == Nic(evpn, None, None, None)
Bare == Nic(None, br, m1, None)
Plain == Nic(None, br, None, None)

\* One NIC; after another one; twice on one network; an EVPN network and its
\* bridge, with an address of its own; that bridge alone.
Lists == {<<A>>, <<B, A>>, <<A, A>>, <<B, Bare>>, <<Plain>>}

\* What the controller of v1beta2 had written, and a VM it had not seen.
OldCrd == [versions |-> {Old}, storage |-> Old, stored |-> {Old}]
Filled == [encoding |-> Old, spec |-> <<Nic(ovn, None, m2, 1)>>, status |-> <<>>]
Unseen == [encoding |-> Old, spec |-> <<A>>, status |-> None]

Events(change, delete, trouble, network) ==
  "change" :> change @@ "delete" :> delete @@ "trouble" :> trouble @@ "network" :> network

NewCluster == [crd |-> None, vms |-> [v \in {v1, v2} |-> None],
               events |-> Events(3, 0, 1, 0)]
OldCluster == [crd |-> OldCrd, vms |-> v1 :> Filled @@ v2 :> None,
               events |-> Events(1, 1, 2, 0)]
Unready == [crd |-> OldCrd, vms |-> v1 :> Filled @@ v2 :> Unseen,
            events |-> Events(1, 1, 1, 0)]
Renewed == [crd |-> OldCrd, vms |-> v1 :> Filled @@ v2 :> None,
            events |-> Events(2, 0, 0, 2)]
Clusters == {NewCluster, OldCluster, Unready, Renewed}
=============================================================================
