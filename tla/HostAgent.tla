------------------------------ MODULE HostAgent --------------------------------
(***************************************************************************)
(* The host agents (host/libvirt/{controller,handlers,lowlevel}.rs): one   *)
(* on every node, each turning the VirtualMachine objects placed on its    *)
(* node into libvirt domains, sending away the domains of VMs placed       *)
(* elsewhere, and destroying those of deleted VMs.  Agents never talk to   *)
(* each other: all they share is the object and the lock on its volume.    *)
(*                                                                         *)
(* The module follows ONE VirtualMachine, since no step of an agent relates *)
(* two of them.  Its volume is a Ceph image, for which volumes_locked asks *)
(* Ceph (a file volume has no lock).                                       *)
(*                                                                         *)
(* Each agent acts on its cache of the object, which lags behind the       *)
(* stored one: a copy is FRESH while it is the stored version.  Only writes *)
(* to the API server notice that a copy is not fresh (409 Conflict, the    *)
(* pass ends and is repeated after 15 s); libvirt does what it is told.    *)
(*                                                                         *)
(* The environment: the scheduler places and moves the VM (VmScheduling),  *)
(* users delete it, other controllers write the object, guests shut down,  *)
(* migrations and API calls fail, agents restart and nodes crash.          *)
(***************************************************************************)
EXTENDS Naturals, FiniteSets

CONSTANTS
  Node,      \* the nodes, each with its agent
  None,      \* no node, no object, no migration
  Prompt,    \* whether within the time a migration takes the destination's
             \* watch delivers and its pass on an older copy ends
  Budget     \* how often each kind of environment event may happen

EnvEvent == {"move", "rebalance", "delete", "foreign", "fault", "stop", "crash"}

ASSUME PromptAssumption == Prompt \in BOOLEAN
ASSUME BudgetAssumption == Budget \in [EnvEvent -> Nat]

VARIABLES
  obj,        \* the stored VirtualMachine, or None
  cache,      \* each agent's cached object, and whether it is still current
  due,        \* the agents that have a reconcile pass queued
  pass,       \* each agent's reconcile pass: its next call and its copy
  domain,     \* the libvirt domain of the VM on each node
  locks,      \* the nodes whose domain holds the lock on the volume
  migration,  \* the live migration under way, or None
  budget      \* the environment events still to come

vars == <<obj, cache, due, pass, domain, locks, migration, budget>>

-----------------------------------------------------------------------------
(* Objects and copies                                                      *)

\* No node: the object has no status, is unscheduled or has no node; powerOn:
\* the power action of the spec is PowerOn.
Object == [node: Node \cup {None}, pending: BOOLEAN, running: BOOLEAN,
           finalizer: BOOLEAN, deleted: BOOLEAN, powerOn: BOOLEAN]
ASSUME NoneAssumption == None \notin Node \cup Object \cup [from: Node, to: Node]

NewObject(on) == [node |-> None, pending |-> FALSE, running |-> FALSE,
                  finalizer |-> FALSE, deleted |-> FALSE, powerOn |-> on]

Domain == {"none", "incoming", "running"}

\* The next call a pass makes; `idle` between passes.
Stage == {"idle", "finalizer", "check", "create", "report", "migrate",
          "migrating", "active", "clear", "destroy", "unfinalize"}

Pass == [at: Stage, copy: Object \cup {None}, fresh: BOOLEAN]
Idle == [at |-> "idle", copy |-> None, fresh |-> FALSE]

\* has_domain: libvirt lists the domain, an incoming one too.
HasDomain(n) == domain[n] # "none"

\* Mutant: a deletion is only handled where the domain is.
FirstCallOnlyIfPresent(n, o) ==
  IF o.node = None THEN "idle"
  ELSE IF o.node = n /\ o.pending THEN "active"
  ELSE IF o.node # n THEN (IF HasDomain(n) THEN "migrate" ELSE "idle")
  ELSE IF HasDomain(n) THEN (IF o.deleted THEN "destroy" ELSE "idle")
  ELSE IF o.deleted THEN "idle" ELSE "finalizer"

\* get_event_type: the first call of the handler of the event that n makes of
\* its copy; `idle` for the events that have none.
FirstCall(n, o) ==
  IF o.node = None THEN "idle"
  ELSE IF o.node = n /\ o.pending THEN "active"
  ELSE IF o.node # n THEN (IF HasDomain(n) THEN "migrate" ELSE "idle")
  ELSE IF o.deleted THEN "destroy"
  ELSE IF HasDomain(n) THEN "idle" ELSE "finalizer"

-----------------------------------------------------------------------------
(* Passes and writes                                                       *)

At(n, stage) == pass[n].at = stage
Continue(n, next) == pass' = [pass EXCEPT ![n].at = next]

\* The pass returns Action::await_change.
EndPass(n) ==
  /\ pass' = [pass EXCEPT ![n] = Idle]
  /\ UNCHANGED due

\* Mutant: the pass is not repeated.
RequeueNothing(n) == EndPass(n)

\* The pass returns Action::requeue, or an error: it is repeated later.
Requeue(n) ==
  /\ pass' = [pass EXCEPT ![n] = Idle]
  /\ due' = due \cup {n}

\* The object changes: every copy of it is out of date.
Replace(new) ==
  /\ obj' = new
  /\ cache' = [n \in Node |-> [cache[n] EXCEPT !.fresh = FALSE]]

Outdated == [n \in Node |-> [pass[n] EXCEPT !.fresh = FALSE]]

\* The pass of n stores `new` from its copy and goes on to `next`; a stale copy
\* ends it.  A write that changes nothing leaves the version alone.
Write(n, new, next) ==
  \/ /\ pass[n].fresh
     /\ IF new = obj THEN UNCHANGED <<obj, cache>> ELSE Replace(new)
     /\ pass' = [IF new = obj THEN pass ELSE Outdated EXCEPT
                   ![n] = IF next = "idle" THEN Idle
                          ELSE [@ EXCEPT !.at = next, !.copy = new]]
  \/ /\ ~pass[n].fresh
     /\ pass' = [pass EXCEPT ![n] = Idle]
     /\ UNCHANGED <<obj, cache>>

-----------------------------------------------------------------------------
(* The agent                                                               *)

\* The watch brings the cache up to date and queues a pass.
Sync(n) ==
  /\ ~cache[n].fresh
  /\ cache' = [cache EXCEPT ![n] = [copy |-> obj, fresh |-> TRUE]]
  /\ due' = IF obj = None THEN due \ {n} ELSE due \cup {n}
  /\ UNCHANGED <<obj, pass, domain, locks, migration, budget>>

\* reconcile: classify the cached object by what libvirt lists right now.
Begin(n) ==
  /\ n \in due
  /\ At(n, "idle")
  /\ due' = due \ {n}
  /\ LET o == cache[n].copy
         first == IF o = None THEN "idle" ELSE FirstCall(n, o)
     IN pass' = IF first = "idle" THEN pass
                ELSE [pass EXCEPT ![n] =
                        [at |-> first, copy |-> o, fresh |-> cache[n].fresh]]
  /\ UNCHANGED <<obj, cache, domain, locks, migration, budget>>

\* Mutant: the domain is created without the finalizer.
SkipFinalizer(n) ==
  /\ At(n, "finalizer")
  /\ IF pass[n].copy.powerOn THEN Continue(n, "check") /\ UNCHANGED due ELSE Requeue(n)
  /\ UNCHANGED <<obj, cache, domain, locks, migration, budget>>

\* handle_add: ensure_finalizer, then stop if the VM is not to be powered on.
EnsureFinalizer(n) ==
  LET new == [pass[n].copy EXCEPT !.finalizer = TRUE]
  IN /\ At(n, "finalizer")
     /\ \/ /\ pass[n].copy.finalizer
           /\ IF pass[n].copy.powerOn THEN Continue(n, "check") /\ UNCHANGED due ELSE Requeue(n)
           /\ UNCHANGED <<obj, cache>>
        \/ /\ ~pass[n].copy.finalizer
           /\ Write(n, new, IF new.powerOn THEN "check" ELSE "idle")
           /\ due' = IF pass[n].fresh /\ new.powerOn THEN due ELSE due \cup {n}
     /\ UNCHANGED <<domain, locks, migration, budget>>

\* Mutant: the locks are not looked at.
CreateRegardless(n) ==
  /\ At(n, "check")
  /\ Continue(n, "create") /\ UNCHANGED due
  /\ UNCHANGED <<obj, cache, domain, locks, migration, budget>>

\* create_domain, first half: volumes_locked is an error.
CheckVolumes(n) ==
  /\ At(n, "check")
  /\ IF locks = {} THEN Continue(n, "create") /\ UNCHANGED due ELSE Requeue(n)
  /\ UNCHANGED <<obj, cache, domain, locks, migration, budget>>

\* Mutant: a domain that is there already is replaced.
CreateDomainAgain(n) ==
  /\ At(n, "create")
  /\ domain' = [domain EXCEPT ![n] = "running"]
  /\ locks' = locks \cup {n}
  /\ Continue(n, "report")
  /\ UNCHANGED <<obj, cache, due, migration, budget>>

\* create_domain, second half: libvirt refuses a second domain of the name.
CreateDomain(n) ==
  /\ At(n, "create")
  /\ IF HasDomain(n)
       THEN Requeue(n) /\ UNCHANGED <<domain, locks>>
       ELSE /\ domain' = [domain EXCEPT ![n] = "running"]
            /\ locks' = locks \cup {n}
            /\ Continue(n, "report")
            /\ UNCHANGED due
  /\ UNCHANGED <<obj, cache, migration, budget>>

\* The status write of handle_add; in a pass that has set the finalizer it is
\* refused, because ensure_finalizer drops the new version.
ReportRunning(n) ==
  /\ At(n, "report")
  /\ Write(n, [pass[n].copy EXCEPT !.running = TRUE], "idle")
  /\ due' = due \cup {n}
  /\ UNCHANGED <<domain, locks, migration, budget>>

\* The agent's process ends and starts again, with a new listing.
StartAgain(n) ==
  /\ pass' = [pass EXCEPT ![n] = Idle]
  /\ cache' = [cache EXCEPT ![n] = [copy |-> obj, fresh |-> TRUE]]
  /\ due' = IF obj = None THEN due \ {n} ELSE due \cup {n}

\* handle_outbound_migration: a domain that is gone by now is a panic; libvirt
\* refuses to migrate an incoming domain, one that is already migrating, and
\* to a node that has the domain.
StartMigration(n) ==
  LET to == pass[n].copy.node
      accepted == domain[n] = "running" /\ migration = None /\ ~HasDomain(to)
  IN /\ At(n, "migrate")
     /\ \/ /\ ~HasDomain(n)
           /\ StartAgain(n)
           /\ UNCHANGED <<domain, migration>>
        \/ /\ accepted
           /\ domain' = [domain EXCEPT ![to] = "incoming"]
           /\ migration' = [from |-> n, to |-> to]
           /\ Continue(n, "migrating")
           /\ UNCHANGED <<cache, due>>
        \/ /\ HasDomain(n) /\ ~accepted
           /\ Requeue(n)
           /\ UNCHANGED <<cache, domain, migration>>
     /\ UNCHANGED <<obj, locks, budget>>

Sending(n) == migration # None /\ migration.from = n

\* migrate_to_uri returns, with an error or without: both are a requeue.
AwaitMigration(n) ==
  /\ At(n, "migrating")
  /\ ~Sending(n)
  /\ Requeue(n)
  /\ UNCHANGED <<obj, cache, domain, locks, migration, budget>>

\* Mutant: a domain that has not arrived yet is not looked for again.
CheckActiveOnce(n) ==
  /\ At(n, "active")
  /\ IF HasDomain(n) THEN Continue(n, "clear") /\ UNCHANGED due ELSE EndPass(n)
  /\ UNCHANGED <<obj, cache, domain, locks, migration, budget>>

\* handle_inbound_migration: is_active is true of an incoming domain as well.
CheckActive(n) ==
  /\ At(n, "active")
  /\ IF HasDomain(n) THEN Continue(n, "clear") /\ UNCHANGED due ELSE Requeue(n)
  /\ UNCHANGED <<obj, cache, domain, locks, migration, budget>>

ClearPending(n) ==
  /\ At(n, "clear")
  /\ Write(n, [pass[n].copy EXCEPT !.pending = FALSE], "idle")
  /\ due' = due \cup {n}
  /\ UNCHANGED <<domain, locks, migration, budget>>

\* The domain on n ends, and a migration from or to n with it.
Lose(n) ==
  LET broken == migration # None /\ n \in {migration.from, migration.to}
  IN /\ domain' = [m \in Node |->
           IF m = n \/ (broken /\ m = migration.to) THEN "none" ELSE domain[m]]
     /\ migration' = IF broken THEN None ELSE migration

\* handle_delete: destroy the domain if there is one.
Destroy(n) ==
  /\ At(n, "destroy")
  /\ Lose(n)
  /\ locks' = locks \ (IF HasDomain(n) THEN {n} ELSE {})
  /\ Continue(n, "unfinalize")
  /\ UNCHANGED <<obj, cache, due, budget>>

\* handle_delete: remove_finalizer.
RemoveFinalizer(n) ==
  LET new == [pass[n].copy EXCEPT !.finalizer = FALSE]
  IN /\ At(n, "unfinalize")
     /\ \/ /\ ~pass[n].copy.finalizer
           /\ EndPass(n)
           /\ UNCHANGED <<obj, cache>>
        \/ /\ pass[n].copy.finalizer
           /\ Write(n, new, "idle")
           /\ due' = IF pass[n].fresh THEN due ELSE due \cup {n}
     /\ UNCHANGED <<domain, locks, migration, budget>>

AgentStep(n) ==
  \/ Begin(n) \/ EnsureFinalizer(n) \/ CheckVolumes(n) \/ CreateDomain(n)
  \/ ReportRunning(n) \/ StartMigration(n) \/ AwaitMigration(n)
  \/ CheckActive(n) \/ ClearPending(n) \/ Destroy(n) \/ RemoveFinalizer(n)

-----------------------------------------------------------------------------
(* The environment                                                         *)

Spend(event) ==
  /\ budget[event] > 0
  /\ budget' = [budget EXCEPT ![event] = @ - 1]

\* A write to the object by someone other than an agent.
ForeignReplace(new) ==
  /\ Replace(new)
  /\ pass' = Outdated
  /\ UNCHANGED <<due, domain, locks, migration>>

\* The scheduler's first placement.
Place(n) ==
  /\ obj # None /\ ~obj.deleted /\ obj.node = None
  /\ ForeignReplace([obj EXCEPT !.node = n])
  /\ UNCHANGED budget

\* A later placement is a migration, for a pinned VM to the node it is on.
MoveVm(n) ==
  /\ Spend("move")
  /\ obj # None /\ ~obj.deleted /\ obj.node # None
  /\ ForeignReplace([obj EXCEPT !.node = n, !.pending = TRUE])

\* One that restores anti-affinity is not announced as a migration.
RebalanceVm(n) ==
  /\ Spend("rebalance")
  /\ obj # None /\ ~obj.deleted /\ obj.node \notin {None, n}
  /\ ForeignReplace([obj EXCEPT !.node = n])

DeleteVm ==
  /\ Spend("delete")
  /\ obj # None /\ ~obj.deleted
  /\ ForeignReplace([obj EXCEPT !.deleted = TRUE])

\* The API server removes a deleted object without finalizers.
Reap ==
  /\ obj # None /\ obj.deleted /\ ~obj.finalizer
  /\ ForeignReplace(None)
  /\ UNCHANGED budget

\* Another controller writes parts of the object left out here.
ForeignWrite ==
  /\ Spend("foreign")
  /\ obj # None
  /\ ForeignReplace(obj)

\* The guest pauses on one node and resumes on the other, and its lock follows.
MigrationSucceeds ==
  /\ migration # None
  /\ Prompt => /\ cache[migration.to].fresh
               /\ pass[migration.to].fresh \/ At(migration.to, "idle")
  /\ domain' = [domain EXCEPT ![migration.from] = "none",
                              ![migration.to] = "running"]
  /\ locks' = (locks \ {migration.from}) \cup {migration.to}
  /\ migration' = None
  /\ UNCHANGED <<obj, cache, due, pass, budget>>

MigrationFails ==
  /\ Spend("fault")
  /\ migration # None
  /\ domain' = [domain EXCEPT ![migration.to] = "none"]
  /\ migration' = None
  /\ UNCHANGED <<obj, cache, due, pass, locks>>

\* A call of the pass to the API server or libvirt fails.
Fault(n) ==
  /\ Spend("fault")
  /\ pass[n].at \notin {"idle", "migrating"}
  /\ Requeue(n)
  /\ UNCHANGED <<obj, cache, domain, locks, migration>>

AgentRestart(n) ==
  /\ Spend("fault")
  /\ StartAgain(n)
  /\ UNCHANGED <<obj, domain, locks, migration>>

\* The guest shuts itself down; its domain is transient and disappears.
GuestStops(n) ==
  /\ Spend("stop")
  /\ domain[n] = "running"
  /\ Lose(n)
  /\ locks' = locks \ {n}
  /\ UNCHANGED <<obj, cache, due, pass>>

\* The node goes down; Ceph keeps the lock of the domain that ran there.
NodeCrash(n) ==
  /\ Spend("crash")
  /\ Lose(n)
  /\ StartAgain(n)
  /\ UNCHANGED <<obj, locks>>

Environment ==
  \/ \E n \in Node : \/ Place(n) \/ MoveVm(n) \/ RebalanceVm(n) \/ Fault(n)
                     \/ AgentRestart(n) \/ GuestStops(n) \/ NodeCrash(n)
  \/ DeleteVm \/ Reap \/ ForeignWrite \/ MigrationSucceeds \/ MigrationFails

-----------------------------------------------------------------------------
(* The specification                                                       *)

Init ==
  /\ \E on \in BOOLEAN : obj = NewObject(on)
  /\ cache = [n \in Node |-> [copy |-> obj, fresh |-> TRUE]]
  /\ due = {}
  /\ pass = [n \in Node |-> Idle]
  /\ domain = [n \in Node |-> "none"]
  /\ locks = {}
  /\ migration = None
  /\ budget = Budget

Next ==
  \/ \E n \in Node : Sync(n) \/ AgentStep(n)
  \/ Environment

Spec == Init /\ [][Next]_vars

\* Watches deliver, queued passes run, migrations end unless they fail, and
\* the scheduler places the VM.
Fairness ==
  /\ \A n \in Node : WF_vars(Sync(n)) /\ WF_vars(AgentStep(n))
  /\ WF_vars(MigrationSucceeds) /\ WF_vars(Reap)
  /\ WF_vars(\E n \in Node : Place(n))

FairSpec == Spec /\ Fairness

-----------------------------------------------------------------------------
(* Properties                                                              *)

TypeOK ==
  /\ obj \in Object \cup {None}
  /\ cache \in [Node -> [copy: Object \cup {None}, fresh: BOOLEAN]]
  /\ due \subseteq Node
  /\ pass \in [Node -> Pass]
  /\ domain \in [Node -> Domain]
  /\ locks \subseteq Node
  /\ migration \in [from: Node, to: Node] \cup {None}
  /\ budget \in [EnvEvent -> Nat]
  /\ \A e \in EnvEvent : budget[e] <= Budget[e]

\* The object and every copy of it, of whatever age.
Copies ==
  ({obj} \cup {cache[n].copy : n \in Node} \cup {pass[n].copy : n \in Node}) \ {None}

\* A fresh copy is the stored object, in the cache and in a pass.  What an older
\* one says still holds in part: an object is never taken off the nodes again,
\* nor is its deletion revoked.
CopyInv ==
  /\ \A n \in Node : /\ cache[n].fresh => cache[n].copy = obj
                     /\ pass[n].fresh => pass[n].at # "idle" /\ pass[n].copy = obj
  /\ obj # None => \A o \in Copies : /\ o.node # None => obj.node # None
                                     /\ o.deleted => obj.deleted

\* A pass is of the kind that its copy calls for (get_event_type).
StageAt(n) ==
  LET o == pass[n].copy
  IN  /\ pass[n].at # "idle" => o \in Object
      /\ pass[n].at \in {"finalizer", "check", "create", "report"}
           => o.node = n /\ ~o.pending /\ ~o.deleted
      /\ At(n, "migrate") => o.node \in Node \ {n}
      /\ pass[n].at \in {"destroy", "unfinalize"} => o.node = n /\ o.deleted

StageInv == \A n \in Node : StageAt(n)

\* The VM is running at the source of a migration and incoming at its
\* destination, and incoming nowhere else; running domains hold the lock.
DomainInv ==
  /\ migration # None => /\ domain[migration.from] = "running"
                         /\ domain[migration.to] = "incoming"
  /\ \A n \in Node :
       /\ domain[n] = "incoming" => migration # None /\ migration.to = n
       /\ domain[n] = "running" => n \in locks

\* None of these events has happened.
Without(events) == \A e \in events : budget[e] = Budget[e]

\* The two copies do not place the VM on two nodes.
SamePlace(o, q) == o.node = None \/ q.node = None \/ o.node = q.node

\* An agent that acts on this copy takes the finalizer for set.
Claims(n, o) == o # None /\ o.node = n /\ o.finalizer /\ ~o.deleted

\* Until the VM is moved: its domain, and an agent about to create it, are where
\* the object says, which has the finalizer; and what makes an agent sure of the
\* finalizer is no copy from before its removal.
UnmovedAt(n) ==
  /\ ~At(n, "migrate")
  /\ HasDomain(n) \/ pass[n].at \in {"check", "create"}
       => obj # None /\ obj.node = n /\ obj.finalizer
  /\ Claims(n, cache[n].copy) \/ (At(n, "finalizer") /\ Claims(n, pass[n].copy))
       => obj # None /\ obj.finalizer
  /\ pass[n].at \in {"destroy", "unfinalize"}
       => cache[n].copy = None \/ cache[n].copy.deleted
  /\ At(n, "unfinalize") => ~HasDomain(n)

UnmovedInv ==
  /\ migration = None
  /\ \A o, q \in Copies : SamePlace(o, q)
  /\ \A n \in Node : UnmovedAt(n)

\* Until a rebalancing, a stop of the guest or a deletion: the volume, once
\* locked, stays locked; before that the VM has been placed once, and no
\* migration has been taken for done; after that nobody is about to create a
\* domain; and there is one instance.
AnnouncedInv ==
  /\ obj # None /\ ~obj.deleted
  /\ locks = {} =>
       /\ \A o, q \in Copies : ~o.pending /\ ~q.pending => SamePlace(o, q)
       /\ \A n \in Node : ~At(n, "clear")
  /\ \A n \in Node : At(n, "create") => locks = {}
  /\ \A m, n \in Node : domain[m] = "running" /\ domain[n] = "running" => m = n

\* The induction invariant.
HostInv ==
  /\ TypeOK /\ CopyInv /\ StageInv /\ DomainInv
  /\ Without({"move", "rebalance"}) => UnmovedInv
  /\ Without({"rebalance", "stop", "delete"}) => AnnouncedInv

\* Domains come and go as VmInstance says: every start was permitted by a look
\* at the volume's locks while no instance was running (lowlevel.rs 96-98).
Instance == INSTANCE VmInstance WITH
  where <- {n \in Node : domain[n] = "running"},
  permitted <- {n \in Node : At(n, "create")}

InstanceSpec == Instance!Spec

\* Announced moves never leave the VM running twice, as long as its guest does
\* not stop by itself and it is not deleted, although a migration may be taken
\* for done too early and fail after that (handlers.rs 102-129, lowlevel.rs 96-98).
SingleInstance ==
  Without({"rebalance", "stop", "delete"})
    => Cardinality({n \in Node : domain[n] = "running"}) <= 1

\* While the VM stays where it was placed, its object outlives its domain: the
\* finalizer is there before the domain and goes after it (handlers.rs 42-66).
KeptWhileRunning ==
  Without({"move", "rebalance"}) /\ (\E n \in Node : domain[n] = "running")
    => obj # None /\ obj.finalizer

\* The VM stays placed on n, to be run there.
Stays(n) ==
  obj # None /\ obj.node = n /\ ~obj.pending /\ ~obj.deleted /\ obj.powerOn

\* A VM that stays placed on a node, with no migration pending, runs there at
\* some time, whatever domain of it was left on another node
\* (handlers.rs 50-76).
Started == \A n \in Node : <>[]Stays(n) => <>(domain[n] = "running")

\* With prompt watches, the migration of a VM that is moved once does not stay
\* pending while the VM is running (handlers.rs 89-97, 110-128: both agents
\* retry).
MigrationCompletes ==
  ~<>[](obj # None /\ obj.pending /\ \E n \in Node : domain[n] = "running")

\* A deleted VM that has no migration pending goes away, whether it ever had a
\* domain or not (controller.rs 79-84).
DeletionCompletes ==
  ~<>[](obj # None /\ obj.deleted /\ ~obj.pending)

\* A deleted VM always goes away, also one whose domain "might not exist"
\* (controller.rs 83).
DeletedVmsGo == ~<>[](obj # None /\ obj.deleted)

\* A VM to be powered on that stays on its node is started again whenever it
\* has stopped (crd/virtualmachine.rs 134).
RestartedAfterStop == \A n \in Node : <>[]Stays(n) => []<>(domain[n] = "running")

=============================================================================
