---------------------------- MODULE VmScheduling ----------------------------
(***************************************************************************)
(* The placement of virtual machines: the `vm` controller, whose           *)
(* reconcile passes prepare a VirtualMachine object and place it on a node *)
(* (cluster/controllers/virtualmachine/{vm,scheduling,utils}.rs), and the  *)
(* `node` controller, which asks the VMs of a node in maintenance to leave *)
(* it (cluster/controllers/node.rs).                                       *)
(*                                                                         *)
(* A reconcile pass works on the copy of the object the watch cache handed *)
(* to it, and every step of this module is one call of the pass to the API *)
(* server.  The server's optimistic concurrency is abstracted from version *)
(* numbers to the one bit the program can observe: a copy is FRESH while   *)
(* the stored object still has its resourceVersion.  A write from a fresh  *)
(* copy is accepted; a write from a stale one is a 409 Conflict, the `?`   *)
(* ends the pass, and the controller calls it again 15 seconds later.  An  *)
(* accepted write that changes the object makes the writer's own copy      *)
(* stale as well, since `commit` and `set_vm_status` discard the version   *)
(* the server returns; a write that changes nothing leaves the version     *)
(* alone.  A pass that starts from a lagging cache entry is refused at its *)
(* first write, before it has decided anything, so passes start here from  *)
(* the stored object.                                                      *)
(*                                                                         *)
(* The environment: administrators put nodes into and out of maintenance,  *)
(* other controllers and the host agents write the same objects, calls to  *)
(* the API server fail, and the controller process restarts.               *)
(***************************************************************************)
EXTENDS Naturals, FiniteSets

CONSTANTS
  Vm,             \* the VirtualMachine objects
  Node,           \* the cluster nodes
  None,           \* Option::None; also the owner of a free mutex
  AntiAffinity,   \* the antiAffinity label of each VM, or None
  Pinned,         \* spec.node of each VM, or None
  Cordoned,       \* the nodes with the no-schedule annotation
  Prepared,       \* the VMs that already have status, NICs and uuid at the start
  Budget          \* how often each kind of environment event may happen

EnvEvent == {"toggle", "fault", "foreign"}

ASSUME LabelAssumption == DOMAIN AntiAffinity = Vm
ASSUME PinnedAssumption == Pinned \in [Vm -> Node \cup {None}]
ASSUME CordonedAssumption == Cordoned \subseteq Node
ASSUME PreparedAssumption == Prepared \subseteq Vm
ASSUME BudgetAssumption == Budget \in [EnvEvent -> Nat]

VARIABLES
  vmObj,        \* the stored VirtualMachine objects
  pass,         \* the reconcile pass of each VM: its next call and its copy
  mutex,        \* SCHEDULE_MUTEX: its owner, or None
  eviction,     \* the reconcile pass of each node in the node controller
  maintenance,  \* the nodes with the maintenance annotation
  overridden,   \* history: VMs whose placement was exempt from anti-affinity
  budget        \* the environment events still to come

vars == <<vmObj, pass, mutex, eviction, maintenance, overridden, budget>>

-----------------------------------------------------------------------------
(* Objects                                                                 *)

Status == [nics: BOOLEAN, scheduled: BOOLEAN, node: Node \cup {None},
           pending: BOOLEAN]
ASSUME NoneAssumption == None \notin Vm \cup Node \cup Status

Object == [uuid: BOOLEAN, request: Node \cup {None},
           status: Status \cup {None}]

\* The status initialize_status writes first.
BlankStatus == [nics |-> FALSE, scheduled |-> FALSE, node |-> None,
                pending |-> FALSE]

\* get_vm_node: the node in the status, if there is one.
NodeOf(o) == IF o.status = None THEN None ELSE o.status.node

\* migration_pending of the status, if there is one.
Announced(o) == IF o.status = None THEN FALSE ELSE o.status.pending

\* migration_requested: the annotation names the node the VM is on.
MigrationRequested(o) == o.request # None /\ NodeOf(o) = o.request

\* clear_successful_migration: the annotation names some other node.
ClearDue(o) == o.request # None /\ NodeOf(o) # o.request

\* The VMs with the same antiAffinity label, itself included.
Group(v) == {w \in Vm : AntiAffinity[v] # None /\ AntiAffinity[w] = AntiAffinity[v]}

\* get_others_in_affinity_group
Peers(v) == Group(v) \ {v}

\* is_uncompliant: a listed peer has the node of the pass's copy.
Uncompliant(v, o) ==
  /\ o.status.scheduled
  /\ NodeOf(o) # None
  /\ \E w \in Peers(v) : NodeOf(vmObj[w]) = NodeOf(o)

\* get_nodes_with_label_scheduled: the group's nodes, the VM's own included.
Blocked(v) == {NodeOf(vmObj[w]) : w \in Group(v)}

\* Mutant: the group's nodes are not removed.
CandidatesIgnoringGroup(v, o, ignoreAffinity) ==
  IF Pinned[v] # None
    THEN {Pinned[v]} \ maintenance
    ELSE {n \in Node \ (maintenance \cup Cordoned) : n # o.request}

\* schedule: the nodes it may return for the copy o.
Candidates(v, o, ignoreAffinity) ==
  IF Pinned[v] # None
    THEN {Pinned[v]} \ maintenance
    ELSE {n \in Node \ (maintenance \cup Cordoned) :
            /\ n # o.request
            /\ ignoreAffinity \/ n \notin Blocked(v)}

-----------------------------------------------------------------------------
(* Passes and writes                                                       *)

\* The next call a pass makes; `idle` between passes.
Stage == {"idle", "status", "nics", "commit", "uuid", "check", "lock",
          "schedule", "bypass", "place", "clear"}

\* The stages at which the pass holds SCHEDULE_MUTEX.
Locked == {"schedule", "bypass", "place"}

Pass == [at: Stage, copy: Object \cup {None}, fresh: BOOLEAN,
         choice: Node \cup {None}, bypassed: BOOLEAN]
Idle == [at |-> "idle", copy |-> None, fresh |-> FALSE, choice |-> None,
         bypassed |-> FALSE]

Eviction == [at: {"idle", "list", "request"}, todo: SUBSET Vm, fresh: SUBSET Vm]
NoEviction == [at |-> "idle", todo |-> {}, fresh |-> {}]

\* The evictions after object v has changed: their copies of v are stale.
Outdated(v) == [n \in Node |-> [eviction[n] EXCEPT !.fresh = @ \ {v}]]

\* The pass returns; the mutex guard, if held, is dropped with its scope.
EndPass(v) ==
  /\ pass' = [pass EXCEPT ![v] = Idle]
  /\ mutex' = IF mutex = v THEN None ELSE mutex

\* Mutant: the object is replaced whatever its version.
WriteUnconditionally(v, new, next) ==
  /\ vmObj' = [vmObj EXCEPT ![v] = new]
  /\ pass' = [pass EXCEPT ![v] =
                IF next = "idle" THEN Idle ELSE [@ EXCEPT !.at = next]]
  /\ mutex' = IF mutex = v THEN None ELSE mutex
  /\ UNCHANGED eviction

\* The pass of v stores `new` from its copy and goes on to `next`; a stale
\* copy ends the pass.  The only write made under the mutex is its last call.
Write(v, new, next) ==
  \/ /\ pass[v].fresh
     /\ vmObj' = [vmObj EXCEPT ![v] = new]
     /\ pass' = [pass EXCEPT ![v] =
                   IF next = "idle" THEN Idle
                   ELSE [@ EXCEPT !.at = next, !.fresh = (new = vmObj[v])]]
     /\ eviction' = IF new = vmObj[v] THEN eviction ELSE Outdated(v)
     /\ mutex' = IF mutex = v THEN None ELSE mutex
  \/ /\ ~pass[v].fresh
     /\ EndPass(v)
     /\ UNCHANGED <<vmObj, eviction>>

\* set_vm_status: replaces the status subresource only.
WriteStatus(v, status, next) ==
  Write(v, [vmObj[v] EXCEPT !.status = status], next)

\* commit: replaces everything but the status subresource.
Commit(v, o, next) ==
  Write(v, [o EXCEPT !.status = vmObj[v].status], next)

\* A writer other than the pass of v has changed object v.
Disturb(v) ==
  /\ pass' = [pass EXCEPT ![v].fresh = FALSE]
  /\ eviction' = Outdated(v)

At(v, stage) == pass[v].at = stage
Continue(v, next) == pass' = [pass EXCEPT ![v].at = next]

-----------------------------------------------------------------------------
(* The vm controller                                                       *)

\* Mutant: addresses are filled in anew by every pass.
FirstCallRefilling(o) == IF o.status = None THEN "status" ELSE "nics"

\* The first call that a pass starting from object o makes.
FirstCall(o) ==
  IF o.status = None THEN "status"
  ELSE IF o.status.nics THEN "commit" ELSE "nics"

\* The call after scheduling: clearing the annotation, if it is due.
LastCall(o) == IF ClearDue(o) THEN "clear" ELSE "idle"

\* The controller starts a pass: a watch event, or the 15 s or 600 s requeue.
Begin(v) ==
  /\ At(v, "idle")
  /\ pass' = [pass EXCEPT ![v] =
                [Idle EXCEPT !.at = FirstCall(vmObj[v]), !.copy = vmObj[v],
                             !.fresh = TRUE]]
  /\ UNCHANGED <<vmObj, mutex, eviction, maintenance, overridden, budget>>

\* The local copy keeps its empty status, so fill_nics ends the pass.
InitializeStatus(v) ==
  /\ At(v, "status")
  /\ WriteStatus(v, BlankStatus, "idle")
  /\ UNCHANGED <<maintenance, overridden, budget>>

\* The status write makes the copy stale, so the commit after it ends the pass.
FillNics(v) ==
  /\ At(v, "nics")
  /\ WriteStatus(v, [pass[v].copy.status EXCEPT !.nics = TRUE], "idle")
  /\ UNCHANGED <<maintenance, overridden, budget>>

\* The commit at the end of fill_nics changes nothing in the object.
CommitNics(v) ==
  /\ At(v, "commit")
  /\ Commit(v, pass[v].copy, IF pass[v].copy.uuid THEN "check" ELSE "uuid")
  /\ UNCHANGED <<maintenance, overridden, budget>>

FillUuid(v) ==
  /\ At(v, "uuid")
  /\ Commit(v, [pass[v].copy EXCEPT !.uuid = TRUE], "check")
  /\ UNCHANGED <<maintenance, overridden, budget>>

\* The condition for scheduling is evaluated before the mutex is taken.
CheckPlacement(v) ==
  LET o == pass[v].copy
      due == ~o.status.scheduled \/ MigrationRequested(o) \/ Uncompliant(v, o)
      next == IF due THEN "lock" ELSE LastCall(o)
  IN /\ At(v, "check")
     /\ pass' = [pass EXCEPT ![v] =
                   IF next = "idle" THEN Idle ELSE [@ EXCEPT !.at = next]]
     /\ UNCHANGED <<vmObj, mutex, eviction, maintenance, overridden, budget>>

\* Mutant: a mutex of the pass instead of the process.
AcquireOwnMutex(v) ==
  /\ At(v, "lock")
  /\ mutex' = v
  /\ Continue(v, "schedule")
  /\ UNCHANGED <<vmObj, eviction, maintenance, overridden, budget>>

AcquireMutex(v) ==
  /\ At(v, "lock")
  /\ mutex = None
  /\ mutex' = v
  /\ Continue(v, "schedule")
  /\ UNCHANGED <<vmObj, eviction, maintenance, overridden, budget>>

\* One call of schedule: it picks any candidate.
Pick(v, ignoreAffinity) ==
  \E n \in Candidates(v, pass[v].copy, ignoreAffinity) :
    /\ pass' = [pass EXCEPT ![v] =
                  [@ EXCEPT !.at = "place", !.choice = n,
                            !.bypassed = ignoreAffinity]]
    /\ UNCHANGED mutex

\* Mutant: anti-affinity is never bypassed.
ScheduleFailedForGood(v) == EndPass(v)

\* Mutant: anti-affinity is bypassed for every VM that finds no node.
ScheduleFailedBypassing(v) == Continue(v, "bypass") /\ UNCHANGED mutex

\* schedule failed: a requested migration tries again without anti-affinity.
ScheduleFailed(v) ==
  \/ /\ MigrationRequested(pass[v].copy)
     /\ Continue(v, "bypass")
     /\ UNCHANGED mutex
  \/ ~MigrationRequested(pass[v].copy) /\ EndPass(v)

Schedule(v) ==
  /\ At(v, "schedule")
  /\ \/ Pick(v, FALSE)
     \/ Candidates(v, pass[v].copy, FALSE) = {} /\ ScheduleFailed(v)
  /\ UNCHANGED <<vmObj, eviction, maintenance, overridden, budget>>

ScheduleIgnoringAffinity(v) ==
  /\ At(v, "bypass")
  /\ \/ Pick(v, TRUE)
     \/ Candidates(v, pass[v].copy, TRUE) = {} /\ EndPass(v)
  /\ UNCHANGED <<vmObj, eviction, maintenance, overridden, budget>>

\* The status the pass writes: placed, and announced as a migration only when
\* one was requested.
PlacedStatus(p) ==
  [p.copy.status EXCEPT !.scheduled = TRUE, !.node = p.choice,
                        !.pending = @ \/ MigrationRequested(p.copy)]

Place(v) ==
  /\ At(v, "place")
  /\ WriteStatus(v, PlacedStatus(pass[v]), LastCall(pass[v].copy))
  /\ overridden' =
       IF ~pass[v].fresh THEN overridden
       ELSE IF pass[v].bypassed \/ Pinned[v] # None
              THEN overridden \cup {v} ELSE overridden \ {v}
  /\ UNCHANGED <<maintenance, budget>>

ClearRequest(v) ==
  /\ At(v, "clear")
  /\ Commit(v, [pass[v].copy EXCEPT !.request = None], "idle")
  /\ UNCHANGED <<maintenance, overridden, budget>>

\* What the runtime always gets round to; taking the mutex is apart.
PassStep(v) ==
  \/ Begin(v) \/ InitializeStatus(v) \/ FillNics(v) \/ CommitNics(v)
  \/ FillUuid(v) \/ CheckPlacement(v) \/ Schedule(v)
  \/ ScheduleIgnoringAffinity(v) \/ Place(v) \/ ClearRequest(v)

-----------------------------------------------------------------------------
(* The node controller                                                     *)

\* update_fn of a node whose maintenance annotation is set.
ReconcileNode(n) ==
  /\ eviction[n].at = "idle"
  /\ n \in maintenance
  /\ eviction' = [eviction EXCEPT ![n].at = "list"]
  /\ UNCHANGED <<vmObj, pass, mutex, maintenance, overridden, budget>>

\* All VMs are listed; the loop over them stops with an error at the first
\* one that has no status, so then only those listed before it are asked.
ListVms(n) ==
  LET onNode == {v \in Vm : NodeOf(vmObj[v]) = n}
      complete == \A v \in Vm : vmObj[v].status # None
  IN /\ eviction[n].at = "list"
     /\ \E todo \in SUBSET onNode :
          /\ complete => todo = onNode
          /\ eviction' = [eviction EXCEPT ![n] =
                            IF todo = {} THEN NoEviction
                            ELSE [at |-> "request", todo |-> todo, fresh |-> todo]]
     /\ UNCHANGED <<vmObj, pass, mutex, maintenance, overridden, budget>>

\* The rest of the loop once v is done with.
Remaining(e, v) ==
  IF e.todo = {v} THEN NoEviction
  ELSE [e EXCEPT !.todo = @ \ {v}, !.fresh = @ \ {v}]

\* request_migration_away_from: annotate v; a conflict ends loop and pass.
Ask(n, v) ==
  LET new == [vmObj[v] EXCEPT !.request = n]
  IN \/ /\ v \in eviction[n].fresh
        /\ vmObj' = [vmObj EXCEPT ![v] = new]
        /\ pass' = [pass EXCEPT ![v].fresh = @ /\ new = vmObj[v]]
        /\ eviction' = [IF new = vmObj[v] THEN eviction ELSE Outdated(v)
                          EXCEPT ![n] = Remaining(eviction[n], v)]
     \/ /\ v \notin eviction[n].fresh
        /\ eviction' = [eviction EXCEPT ![n] = NoEviction]
        /\ UNCHANGED <<vmObj, pass>>

\* The next of the listed VMs, in whatever order the server listed them.
RequestMigration(n) ==
  /\ eviction[n].at = "request"
  /\ \E v \in eviction[n].todo : Ask(n, v)
  /\ UNCHANGED <<mutex, maintenance, overridden, budget>>

NodeStep(n) == ReconcileNode(n) \/ ListVms(n) \/ RequestMigration(n)

-----------------------------------------------------------------------------
(* The environment                                                         *)

\* One more event of this kind, while the budget lasts.
Spend(event) ==
  /\ budget[event] > 0
  /\ budget' = [budget EXCEPT ![event] = @ - 1]

\* An administrator sets or removes the maintenance annotation.
ToggleMaintenance(n) ==
  /\ Spend("toggle")
  /\ maintenance' = IF n \in maintenance THEN maintenance \ {n}
                    ELSE maintenance \cup {n}
  /\ UNCHANGED <<vmObj, pass, mutex, eviction, overridden>>

\* The host agent of the VM's node reports the migration done.
CompleteMigration(v) ==
  /\ vmObj[v].status # None
  /\ vmObj[v].status.pending
  /\ vmObj' = [vmObj EXCEPT ![v].status.pending = FALSE]
  /\ Disturb(v)
  /\ UNCHANGED <<mutex, maintenance, overridden, budget>>

\* Another controller or a host agent writes the object's finalizers, or
\* fields of the status this module leaves out.
ForeignWrite(v) ==
  /\ Spend("foreign")
  /\ Disturb(v)
  /\ UNCHANGED <<vmObj, mutex, maintenance, overridden>>

\* A call of the pass to the API server fails.  A call that failed after it
\* took effect is the call followed by this: the copy is stale by then.
Fault(v) ==
  /\ Spend("fault")
  /\ pass[v].at \notin {"idle", "lock"}
  /\ IF At(v, "schedule") THEN ScheduleFailed(v) ELSE EndPass(v)
  /\ UNCHANGED <<vmObj, eviction, maintenance, overridden>>

\* A call of a node's pass fails.
EvictionFault(n) ==
  /\ Spend("fault")
  /\ eviction[n].at # "idle"
  /\ eviction' = [eviction EXCEPT ![n] = NoEviction]
  /\ UNCHANGED <<vmObj, pass, mutex, maintenance, overridden>>

\* The controller process restarts: every pass and the mutex are gone.
Restart ==
  /\ Spend("fault")
  /\ pass' = [v \in Vm |-> Idle]
  /\ mutex' = None
  /\ eviction' = [n \in Node |-> NoEviction]
  /\ UNCHANGED <<vmObj, maintenance, overridden>>

Environment ==
  \/ \E n \in Node : ToggleMaintenance(n) \/ EvictionFault(n)
  \/ \E v \in Vm : CompleteMigration(v) \/ ForeignWrite(v) \/ Fault(v)
  \/ Restart

-----------------------------------------------------------------------------
(* The specification                                                       *)

\* The objects as their users created them.
Init ==
  /\ vmObj \in [Vm -> [uuid: BOOLEAN, request: {None}, status: {None,
                       [BlankStatus EXCEPT !.nics = TRUE]}]]
  /\ \A v \in Vm : IF v \in Prepared THEN vmObj[v].uuid /\ vmObj[v].status # None
                   ELSE vmObj[v].status = None
  /\ pass = [v \in Vm |-> Idle]
  /\ mutex = None
  /\ eviction = [n \in Node |-> NoEviction]
  /\ maintenance = {}
  /\ overridden = {}
  /\ budget = Budget

Next ==
  \/ \E v \in Vm : PassStep(v) \/ AcquireMutex(v)
  \/ \E n \in Node : NodeStep(n)
  \/ Environment

Spec == Init /\ [][Next]_vars

\* Passes are always requeued and the runtime polls every future; the tokio
\* mutex is first come, first served.  Nothing is assumed of the environment.
Fairness ==
  /\ \A v \in Vm : WF_vars(PassStep(v)) /\ SF_vars(AcquireMutex(v))
  /\ \A n \in Node : WF_vars(NodeStep(n))

FairSpec == Spec /\ Fairness

-----------------------------------------------------------------------------
(* Properties                                                              *)

TypeOK ==
  /\ vmObj \in [Vm -> Object]
  /\ pass \in [Vm -> Pass]
  /\ mutex \in Vm \cup {None}
  /\ eviction \in [Node -> Eviction]
  /\ maintenance \subseteq Node
  /\ overridden \subseteq Vm
  /\ budget \in [EnvEvent -> Nat]

\* A fresh copy is the stored object: what a successful write was computed
\* from is what it replaces (kube.rs commit, shortcuts.rs set_status).
CopyInv ==
  \A v \in Vm :
    /\ pass[v].at # "idle" => pass[v].copy \in Object
    /\ pass[v].at = "status" => pass[v].copy.status = None
    /\ pass[v].at \notin {"idle", "status"} => pass[v].copy.status # None
    /\ pass[v].fresh => pass[v].at # "idle" /\ pass[v].copy = vmObj[v]

\* Exactly the pass between schedule and its status write holds the mutex.
MutexInv == \A v \in Vm : pass[v].at \in Locked <=> mutex = v

\* A chosen node is still free of peers when the status write is made.
ChoiceInv ==
  \A v \in Vm : pass[v].at = "place" =>
    /\ pass[v].choice # None
    /\ \/ pass[v].bypassed \/ Pinned[v] # None
       \/ \A w \in Peers(v) : NodeOf(vmObj[w]) # pass[v].choice

\* Two VMs of one anti-affinity group are on one node only if one of them was
\* put there by spec.node or by the bypass for a requested migration
\* (vm.rs 89-113: scheduling is serialised by SCHEDULE_MUTEX).
AffinityInv ==
  \A v \in Vm : \A w \in Peers(v) :
    NodeOf(vmObj[v]) # None /\ NodeOf(vmObj[v]) = NodeOf(vmObj[w])
      => v \in overridden \/ w \in overridden

\* What a pass is about to write is what its copy asks for, and an eviction
\* that still holds a current copy of a VM asks it to leave the node it is on:
\* however old the decision, it is carried out only while its grounds are
\* (vm.rs 75-128, node.rs 25-42).
InformedInv ==
  /\ \A v \in Vm :
       /\ At(v, "bypass") => MigrationRequested(pass[v].copy)
       /\ At(v, "clear") => ClearDue(pass[v].copy)
       /\ At(v, "place") =>
            IF Pinned[v] # None THEN pass[v].choice = Pinned[v]
            ELSE /\ pass[v].choice \notin Cordoned
                 /\ pass[v].choice # pass[v].copy.request
                 /\ pass[v].bypassed => MigrationRequested(pass[v].copy)
  /\ \A n \in Node : \A v \in eviction[n].fresh : NodeOf(vmObj[v]) = n

\* The placement promised by VmPlacement is the one this specification makes:
\* each accepted status write is one atomic, informed placement, requests name
\* the VM's own node and are withdrawn only once it is placed elsewhere.
Placement == INSTANCE VmPlacement WITH
  node <- [v \in Vm |-> NodeOf(vmObj[v])],
  request <- [v \in Vm |-> vmObj[v].request],
  pending <- [v \in Vm |-> Announced(vmObj[v])]

PlacementSpec == Placement!Spec

\* The induction invariant of the theorems in VmSchedulingProofs.
IInv == TypeOK /\ CopyInv /\ MutexInv /\ ChoiceInv /\ AffinityInv

\* Every VM is placed in the end, once no node stays in maintenance: first
\* passes cut short by their own writes, conflicts, faults and restarts are
\* all made up for by the requeue (resource_controller.rs 59-71, vm.rs 30-46).
Provisioned ==
  <>[](maintenance = {}) => \A v \in Vm : <>[](NodeOf(vmObj[v]) # None)

\* A node that stays in maintenance is left by every VM not pinned anywhere,
\* as long as some other node stays available (node.rs 25-42; vm.rs 97-103:
\* anti-affinity must not keep a VM on the node).
Evacuated ==
  \A n \in Node :
    (/\ <>[](n \in maintenance)
     /\ \E m \in Node \ Cordoned : <>[](m \notin maintenance))
    => \A v \in Vm : Pinned[v] = None => <>[](NodeOf(vmObj[v]) # n)

\* The bypass of anti-affinity is temporary: once every node is back, no two
\* VMs of a group stay together (scheduling.rs 141: "temporarily").
BypassIsTemporary ==
  <>[](maintenance = {}) =>
    <>[](\A v \in Vm : \A w \in Peers(v) :
           NodeOf(vmObj[v]) # None => NodeOf(vmObj[v]) # NodeOf(vmObj[w]))

=============================================================================
