-------------------------- MODULE MCVmScheduling ----------------------------
(***************************************************************************)
(* Instances of VmScheduling for TLC.                                      *)
(***************************************************************************)
EXTENDS VmScheduling, TLC

CONSTANTS v1, v2, n1, n2, n3, Label

\* Both VMs in one anti-affinity group, neither pinned to a node.
BothInGroup == [v \in Vm |-> Label]
NoPins == [v \in Vm |-> None]

\* VMs are alike, and nodes that are not cordoned, as long as only safety is
\* checked.
Alike == Permutations(Vm) \cup Permutations(Node \ Cordoned)

SafetyBudget == [toggle |-> 2, fault |-> 1, foreign |-> 1]
LivenessBudget == [toggle |-> 2, fault |-> 1, foreign |-> 0]
BypassBudget == [toggle |-> 4, fault |-> 0, foreign |-> 0]

=============================================================================
