# A verification development for cluster-controller

cluster-controller runs virtual machines on a Kubernetes cluster. Users create
`VirtualMachine`, `Network`, `Router`, `Volume` and `Image` objects; one
controller process turns them into placements, OVN rows and Ceph images, an
agent on every node turns placements into libvirt domains, and a small service
per router hands out instance metadata. This directory holds TLA+ models of its
controllers, agents and services, TLC runs that check them on small instances, and
proofs about them.

Paths below are relative to the repository's `src/`.

## 1. Inventory

### Parts, their state and their operations

| Part | Source | State it keeps | Operations |
|---|---|---|---|
| VM scheduling: `vm` controller | `cluster/controllers/virtualmachine/{vm,scheduling,utils}.rs` | the VM's status (scheduled, node, migration_pending, NICs), spec.uuid, the migration-request annotation; in memory `SCHEDULE_MUTEX` | one reconcile pass: initialize status, fill NICs, fill uuid, check compliance, schedule, place, clear the request |
| `node` controller | `cluster/controllers/node.rs`, `utils/traits/{node,virtualmachine}.rs` | none | ask every VM of a node in maintenance to leave it |
| Object access | `utils/traits/kube.rs`, `utils/shortcuts.rs`, `utils/resource_controller.rs` | none; the API server's version of each object | commit, set status, ensure and remove finalizer, requeue after an error |
| Host agent | `host/libvirt/{controller,handlers,lowlevel}.rs` | libvirt domains, the lock on a Ceph volume, the `libvirt-host` finalizer, status.running and migration_pending | classify an event; add, delete, migrate out, receive a migration |
| OVN controllers of networks, routers and VM ports | `cluster/controllers/{network,router}.rs`, `virtualmachine/ovn.rs` | northbound rows: switches, routers, ports, DHCP options, routes; `ovn` finalizers; IPs in the VM's status | create if missing, connect, set address and options, diff routes, delete |
| OVN client | `interfaces/ovn/*` | one TCP connection per pass | insert, update, mutate, delete, select; decode rows |
| Volumes and images | `cluster/controllers/{volumes,images}.rs`, `shared/ceph/*` | Ceph images, `ceph` finalizer, the keyring secret | ensure exists (create or clone), ensure removed |
| Metadata service | `metadataservice/*` | a channel of 16 requests between the proxy thread and the backend task | ask, look up port and VM, answer; the supervisor ends the process with either side |
| Custom resources | `crd/*` | stored versions of the VirtualMachine resource | convert v1beta2 to v1beta3, apply CRDs |
| OVN services, host daemonset, start-up | `cluster/controllers/ovn_services/*`, `host/daemonset.rs`, `cluster/mod.rs` | manifests | apply; end the process when any controller ends |

### How they interact

Nothing calls anything else across processes. The parts meet in the objects of
the API server, in the OVN database, and in Ceph:

* the scheduler writes `status.node` and `migration_pending`; the host agent of
  that node starts a domain or waits for one; the agent of the old node sends it;
* the `node` controller annotates VMs, the `vm` controller obeys and clears;
* `vm`, `node`, `vm.ovn` and the host agents all replace the same VirtualMachine
  object from copies of different ages. Optimistic concurrency (a 409 Conflict
  for a copy that is not the stored version) is the only thing between them;
* within the controller process, `SCHEDULE_MUTEX` serialises placements;
* between host agents, only the lock on the VM's volume.

### What is hard here

Every reconcile pass is a sequence of calls with other writers between any two
of them; any call may fail, the pass is repeated 15 s (after an error), 600 s or
one watch event later; its own write makes its own copy stale because `commit`
and `set_vm_status` discard the version the server returns; the mutex is taken
after the condition for taking it was evaluated; host agents act on libvirt from
cached objects and find out only later, if at all; live migrations overlap all
of this and can fail. `PROJECT.json` lists each of these hazards at its line.

### What makes each part correct

* Scheduling: VMs of an anti-affinity group on different nodes unless a pin or
  the documented bypass put them together; no lost placement or request; every
  VM placed in the end; a node in maintenance left in the end.
* Host agents: one running instance of a VM; a domain only while its object and
  finalizer exist; placed VMs start, migrations end, deleted VMs go.
* OVN: one row per name; rows and ports only while the finalizer of their object
  is set; what stays is connected, also after its neighbours were recreated;
  every finalizer released once the rows are gone.
* Volumes, images, networks, routers: the external thing exists between the
  setting and the removal of the finalizer, and neither leaks nor blocks.
* Metadata: every request is answered or the process is restarted; an answer is
  the asker's own metadata.
* CRDs and NICs: migration keeps every stored object readable and completes; a
  NIC keeps its MAC address and port id through it and through every later edit.

## 2. Modules

| Module | What it is |
|---|---|
| `VmPlacement` | what the scheduler promises: placements as single informed steps |
| `VmScheduling` | the `vm` and `node` controllers, call by call |
| `VmSchedulingProofs` | theorems about `VmScheduling`: types, mutex, anti-affinity |
| `VmPlacementProofs` | theorem: `VmScheduling` implements `VmPlacement` |
| `MCVmScheduling` | instances of `VmScheduling` for TLC |
| `VmInstance` | what the host agents promise about the running instances of a VM |
| `HostAgent` | the host agents of one VM, call by call |
| `HostAgentProofs` | theorems about `HostAgent`, and that it implements `VmInstance` |
| `MCHostAgent` | instances of `HostAgent` for TLC |
| `Reconciler` | passes of `ResourceController` over API objects: copies, writes, finalizers, faults; shared by the modules below |
| `ReconcilerProofs` | lemmas: what each call of a pass does to objects and passes, for any controller |
| `FinalizedResource` | what a controller promises about the things it makes for objects: only under its finalizer, gone before the finalizer is |
| `OvnNorthbound` | the northbound tables and one operator per transaction of the client |
| `OvnControllers` | the `network`, `router` and `vm.ovn` controllers over both |
| `OvnControllersProofs` | theorems about `OvnControllers`: unique names, covered ports, `FinalizedResource` |
| `CephStorage` | the `volumes` and `images` controllers and librbd |
| `CephStorageProofs` | theorems about `CephStorage`: templates of clones are kept, `FinalizedResource` |
| `VmCrd` | the migration of the VirtualMachine definition and its stored objects |
| `VmNics` | `fill_nics` on top of `VmCrd`: addresses of NICs from the migration on |
| `VmNicsProofs` | theorem: VMs stay readable through the migration |
| `MetadataService` | proxy, channel, backend and supervisor of a router's metadata service |
| `MetadataServiceProofs` | theorems about `MetadataService`: own metadata, no lost request |
| `MCOvnControllers`, `MCCephStorage`, `MCVmNics`, `MCMetadataService` | their instances for TLC |

### VmScheduling and the code

`vmObj` holds the stored objects: `uuid` (spec.uuid is set), `request` (the
migration-request annotation) and `status`, whose NIC list is the bit `nics`
(VMs have at least one NIC). `pass[v]` is the pass of one VM: the call it makes
next, its copy of the object, whether that copy is still the stored version, and
inside the mutex the chosen node. Each action is one call: `InitializeStatus`,
`FillNics`, `CommitNics`, `FillUuid` and `CheckPlacement` are the head of
`create_fn` and `scheduling_and_migrations`; `AcquireMutex`, `Schedule`,
`ScheduleIgnoringAffinity` and `Place` the part under the mutex; `ClearRequest`
is `clear_successful_migration`. `Write` is the server's answer to a replace: an
accepted write that changes the object makes the writer's copy stale too, which
is what aborts a first pass after each of its writes, and a write that changes
nothing does not. `EndPass` drops the mutex with its guard. `ReconcileNode`,
`ListVms` and `RequestMigration` are the `node` controller, whose loop holds the
listed copies and stops at the first error.

The environment toggles the maintenance annotation, completes migrations, writes
objects as other controllers do, fails single calls, and restarts the process.
`overridden` is history: the VMs whose last placement was exempt from
anti-affinity. A pass that starts from a lagging cache entry is refused at its
first write, before it has decided anything, so passes start from the stored
object here. (The controllers of `Reconciler` act before they write, so there passes
start from the cache.)

### HostAgent and the code

The module follows one VirtualMachine through all agents, since no step of an
agent relates two VMs. `obj` is the stored object, `cache[n]` what agent n's
watch has delivered, `due` the queued passes, `pass[n]` the running pass with
its copy, `domain[n]` libvirt's domain on n (an incoming migration is a domain
too, and libvirt lists it as active), `locks` who has the volume locked,
`migration` the live migration. `FirstCall` is `get_event_type` together with
the `match` in `reconcile`. The further actions are the calls of the handlers:
`EnsureFinalizer`, `CheckVolumes`, `CreateDomain`, `ReportRunning` for
`handle_add`; `StartMigration`, `AwaitMigration` for the outbound and
`CheckActive`, `ClearPending` for the inbound handler; `Destroy`,
`RemoveFinalizer` for `handle_delete`. Agents act on stale copies as long as
they only talk to libvirt; here staleness matters, unlike in `VmScheduling`.

`MoveVm` is the scheduler as `VmScheduling` shows it: a requested migration is
announced (`pending`), for a pinned VM to its own node; a move that restores
anti-affinity (`RebalanceVm`) is not.

Assumptions about what is outside the repository: a running guest holds the
exclusive lock on its Ceph image from its start, and the lock follows a live
migration and survives a crash of the node; libvirt refuses a second domain of a
name and a second migration of a domain; a listing after a restart is current.
Where `Prompt` says so (the liveness runs), a migration takes longer than the
destination's watch and than a pass its agent has begun from an older copy: without
that a domain can arrive behind its agent's back even when the VM moves only once.

### Reconciler, and the controllers built on it

`Reconciler` is `utils/resource_controller.rs` and the writes of
`utils/traits/kube.rs`. `obj` holds the stored objects, `pass[x]` the pass of
object x (its next call, its copy, whether the copy is current, what an earlier
call returned), `budget` the environment events still to come. `cache[x]` is the
reflector store of kube's `Controller`, from which every pass starts (`Take`): it has
the stored version, or it is behind (`FallBehind`) with an older copy until the watch
delivers the latest (`CatchUp`); it never goes back, and a restarted process lists
the objects again. This matters because remove passes, and update passes of an
object that has its finalizer, call OVN or Ceph before a first write could be refused:
a second remove pass may work on an object it has already released. `Start` chooses
the update or the remove pass by the deletion timestamp of the copy;
`EnsureFinalizer`, `RemoveFinalizer` and `Write` are the calls that every
controller makes. `Fault` ends a pass as `?` does, `Crash` ends all of them.

`OvnControllers` puts three controllers on it. A network's pass is `finalizer`,
`row` (create_if_missing, its lookup and its insertion as two transactions),
`dhcp`, `subnet`, `router`, `routerPort`, `peer`, `status`; a router's `row`,
`routes`, `deploy`, the metadata switch and its ports, `status`; a VM's `switch`,
`port`, `address`, `setAddress`, `network`, `options`, `lease`, `status`; remove
passes are `delete` or `disconnect`, `owner`, `deletePort`, then `unfinalize`. What a
pass read in one transaction and uses in a later one is its `handle`; rows found
by name again are looked up again in the model as well. `OvnNorthbound` is the
server as the client uses it: a port goes with the row that refers to it, a
condition that matches nothing is no error. A port is read back after it was
inserted, and the pass ends if its row was gone and the port was not kept. Routes
are counted per row, since `set_routes` adds a row for every mention of a missing
route and keeps duplicates it finds.

`CephStorage` has the same passes over two pools. `Overflow` is the fixed buffer
of `get_images`, `Clonable` and `Busy` are what librbd accepts and refuses, `Boot`
is `ensure_keyring`, which only the volumes controller waits for. Nothing in
`remove_fn` of an image looks for clones or snapshots: the image must not give up its
finalizer as long as Ceph refuses to remove the template (`TemplatesGuarded`).

### VmCrd, VmNics and the code

`crd` is the definition (served versions, storage version, `storedVersions`),
`boot` where `create` of `crd/virtualmachine.rs` is, `obj` the stored VMs with the
version each is encoded in. `GetCrd`, `MergeVersions`, `RunMigrations`,
`PatchStatus`, `RemoveStored`, `RereadCrd`, `RemoveVersion` and `ApplyLatest` are
its calls in order; any failure ends the process and `boot` starts over. The
controller that had written v1beta2 is taken to have stopped: the deployment has
one replica. `FillNic` is the body of the loop of `fill_nics`, `FindMatchingNetwork`
its lookup, `FilledNics` the loop with the final `retain`; MAC addresses are values
that depend on the VM, the target and the index, as the hash does, and port ids
are distinct from all others. The passes start from the cache of `Reconciler`.

### MetadataService and the code

`proxy` steps through `create_ns` and `create_interface` to `serving`; `veth` and
`plugged` are what these commands leave on the host, which is all that survives
the process. `open` is the channel for the reply that each guest waits on, `sending`
the requests that wait in `send().await`, `queue` the channel, `backend` the one
request in `main`. Every request has a channel of its own, so a guest that hung up
may ask again while its old request is still on its way. `Exit` is the supervisor: a
failed send to a guest that has hung up, the failed assertion on the number of VMs,
the unwrap of a uuid that is not there (`backend.rs:114`), or an interface that
cannot be created ends the process. The other controllers are seen through what they
do to a VM's port, uuid and status (`Arrive`, `Leave`, `Gone`).

The proxy serves whatever address a request comes from (`proxy.rs:44`, `:56`):
`Source` is the leased address, or one that the guest was set up with by hand
(`static`), as on a network without DHCP. `get_by_ip` looks at dynamic addresses only, on all
switches (`logicalswitchport.rs:158`). So a guest with a hand-set address **is given
the metadata of another VM** if exactly one VM, in any network, leases that address,
and the model has these behaviours. No document or test speaks of such guests.
`OwnMetadata` states what the code keeps: in full for guests that use the address
they were leased; for others, only that it is the metadata of the VM that leases the
same address.

Assumptions about the host: the network namespace lives as long as the container,
and the kernel removes a veth pair with the namespace one end of it is in, some
time later.

## 3. Runs

Events of the environment are bounded (the constant `Budget` of each module says
how often each kind may happen); nothing else is. Two VMs suffice for every
relation between VMs in the code (peers are looked at one at a time), and two
nodes give one to leave and one to go to; `Placement` has a third, cordoned one.
VMs and nodes are permuted (`SYMMETRY`) only where safety alone is checked.

| Run | Instance | Shows |
|---|---|---|
| `Placement` | 2 VMs in one group, 2 nodes and a cordoned one; 2 toggles, 1 fault, 1 foreign write | `IInv` (types, copies, mutex, choices), `AffinityInv`, `InformedInv`, and that every step is a step of `VmPlacement` |
| `SchedulingLiveness` | objects as created, 2 nodes; 2 toggles, 1 fault | every VM is placed in the end; a node that stays in maintenance is left in the end |
| `BypassIsTemporary` | 4 toggles | refuted, see below |
| `Agents` | 1 VM, 2 hosts; 2 announced moves, 1 unannounced, 1 deletion, 1 fault, 1 stop, 1 crash | `HostInv`; every start was permitted by a look that found no instance (`VmInstance`); announced moves alone never start a second one while the VM is not deleted; without moves a domain never outlives its object or finalizer |
| `AgentLiveness` | 1 announced move, 1 fault, 1 deletion, 1 foreign write; powered on or not | placed VMs start, a migration completes, deleted VMs go unless a migration is pending |
| `DeletedVmsGo`, `RestartedAfterStop` | 1 or 2 events each | refuted |
| `Wiring` | a network with a VM on it, a network with its router, a router with a metadata service; 2 deletions, 1 recreation or edit, 1 of: conflict, failed call, restart, late watch | `WiringInv` (what passes know of rows between two transactions), `UniqueRows`, `PortsAreCovered`, networks and routers implement `FinalizedResource` (`ManagedRows`), deletions complete (`NetworksAndVmsGo`, `RouterDeletion`), ports, routers and routes follow the objects that stay (`PortsConnected`, `RoutersAttached`, `RoutesFollow`) |
| `Storage` | a volume and its template; 2 volumes where the listing holds 1; a malformed volume; 2 deletions, 1 recreation, 1 trouble, 3 administrator events, 1 guest | `StorageInv`, volumes implement `FinalizedResource` (`ManagedVolumes`), images are released after their clones (`TemplatesGuarded`), volumes are made and deleted ones go |
| `Nics` | a new cluster and three to be migrated, 2 VMs, NICs alone, behind others, twice on one network, on a network, its bridge, or both; edits, deletions, network changes, faults, late watches | `UpgradeInv`, `EncodingsReadable`, `UpgradeCompletes`, `NicsKept`, `NicsFilled` |
| `Metadata` | 2 guests in networks that share 2 addresses, one of them perhaps with a hand-set address, a channel for 1 request; 2 kills, 1 hang-up, 1 leaving | `MetadataInv`, `Accounted`, `OwnMetadata`, `RequestsEnd`, `ServiceReturns`, `GuestsAnswered` |
| `AddressIsSet` | a network with DHCP and a VM, created together, and no other event | refuted |

Where a bound matters. `SingleInstance` holds for announced moves of a VM that is
not deleted and whose guest does not stop on its own. With a stop between two moves,
or an unannounced move, the two steps of `create_domain` (look at the locks, create)
can overlap on two hosts, and the VM runs twice. A deletion does the same on three
nodes: two migrations are reported done and then fail, which leaves two agents with
copies that place the VM with them; the third destroys the domain, no lock is left,
and both create it. The proof attempt found that one, which two nodes do not show.
This is why the unconditional promise, `InstanceSpec`, has permission and start as
separate steps. `MigrationCompletes`
is checked for a VM that moves once: moved twice in quick succession, it can
arrive at a node whose agent has just handled its last event as not its own.
`Started` is checked without crashes, because nothing ever breaks the lock a
crashed node leaves behind. The `HostAgent` runs do not check deadlock: once the
VM is deleted, or runs undisturbed, the system rests.

`Wiring` and `Storage` start from several *worlds* of objects, one at a time.
Networks, routers and VMs meet in pairs in the code: a VM reads its network's
switch, a network its router's row, and no code relates a VM and a router, so every
interaction is in one world while the product of all of them is not needed. Two
deletions and a recreation delete both neighbours, or one of them twice, in both
orders. One trouble (a conflict, a failed call, a restart, a watch that falls
behind) cuts off any pass after any of its calls, or lets passes start from an old
copy as long as it lasts; that any number of them does no harm is proved (section
4). In the VM's world the router that its network lists does not exist, so that the
network's pass ends there and the VM's works with what it has done. `Capacity = 1`
stands for the 32 kB of `get_images`, `Buffer = 1` for the 16 requests of the
channel: both limits are then reached by two actors. None of these runs checks
deadlock: a world whose objects are all deleted rests.

Some properties exclude what the code does not promise, and say so:

* A router whose row was deleted by a pass that could not write its finalizer stays
  for ever (`router.rs:104`): `RouterDeletion` only asks that the row is gone.
* A pool that has outgrown the buffer of `get_images` can neither be added to nor
  removed from (`lowlevel.rs:143`): `VolumesCreated`, `VolumesAndImagesGo`.
* A VM that the v1beta2 controller never reconciled has no status to patch, and
  every start ends at it (`UpgradeCompletes`).
* Two NICs with one target, or a bridge next to an EVPN network on it, find each
  other's status entry, so the second pass gives both the same MAC address; and a
  NIC on a bridge that replaces one on an EVPN network of that bridge finds the
  entry of the old one, which `retain` drops after the loop has filled it
  (`utils.rs:38`, `:110`), so that it gets a new entry a pass later (`NicsKept`).
* A metadata service stopped between creating its veth pair and moving it never
  comes back on that host (`ServiceReturns`).
* A port whose NIC was dropped from the VM, or whose VM has no uuid, ends the
  service with each request from its address (`GuestsAnswered`).
* A guest with an address set by hand may be told another VM's metadata, as above
  (`OwnMetadata`).

Operators commented `Mutant:` are plausible bugs in one definition. For every
property of a passing run one of them, put in place of the definition, makes
that run fail; they are not used otherwise.

### What the refuted runs say

* **BypassIsTemporary.** Two VMs of a group on two nodes; each node is in
  maintenance once. The second evacuation fails to find a node free of peers and
  bypasses anti-affinity, as documented for a time. Afterwards both VMs carry a
  request naming the node the group left: no pass finds a candidate, the `?`
  returns before the request is cleared, and they stay together for ever.
* **DeletedVmsGo.** A VM without a domain and with a pending migration (powered
  off, or moved before it started) is answered "wait for the domain" for ever,
  its deletion too.
* **RestartedAfterStop.** A guest that stops on its own is not restarted: its
  last event ended in `await_change`.
* **AddressIsSet.** A network and a VM on it are created together. The VM's pass
  finds the switch before the network's pass has set its subnet, and gives the
  port its MAC address without `dynamic`. Every later pass finds the MAC address
  there and leaves the port alone: the VM never gets an address by DHCP.

Two more disagreements with comments were met, which the properties above work
around. A VM moved to restore anti-affinity is not announced as migrating
(`vm.rs:107`, `handlers.rs:100`): `RebalanceVm` of `HostAgent`. And the destination
of a migration reports it done as soon as libvirt lists the incoming domain
(`handlers.rs:114`); if it fails after that, only the volume's lock stops a second
instance: `CheckActive`, `SingleInstance`.

### Fairness

Passes are always queued again and the runtime polls every future, hence weak
fairness of the start of every pass and of its next call. The mutex is tokio's,
first come first served, hence strong fairness of `AcquireMutex`. Watches deliver,
late ones in the end (`Watch`). Migrations end; the API server removes deleted
objects without finalizers. A process that ended is started again by its deployment;
ovn-northd leases addresses; the kernel cleans up namespaces; a guest without
metadata asks again, and waiting senders of a tokio channel are served in order.
Nothing is assumed of administrators, users, faults, crashes or of guests otherwise.

## 4. Proofs

Every invariant that a run checks, and every refinement, is a theorem for all
values of the constants: any objects, nodes, guests, networks, capacities, and
any number of environment events. The runs check the same induction invariants
on their instances.

| Theorem | States | Rests on |
|---|---|---|
| `Inductive`, `TypeCorrect`, `AffinityKept` | `IInv`, `TypeOK`, `AffinityInv` of `VmScheduling` | `IInv` |
| `Informed`, `Implements` | `InformedInv`; `VmScheduling` implements `VmPlacement` | `IInv`, `InformedInv` |
| `HostInductive`, `OneInstance`, `ObjectOutlivesDomain` | `HostInv`, `SingleInstance`, `KeptWhileRunning` | `HostInv` |
| `ImplementsVmInstance` | `HostAgent` implements `VmInstance` | `HostInv` |
| `WiringInductive`, `RowsUnique`, `PortsCovered` | `WiringInv`, `UniqueRows`, `PortsAreCovered` | `WiringInv` |
| `RowsManaged` | switches and routers implement `FinalizedResource` | `WiringInv` |
| `StorageInductive`, `TemplatesKept` | `StorageInv`, `TemplatesGuarded` | `StorageInv` |
| `VolumesManaged` | volumes implement `FinalizedResource` | `StorageInv` |
| `MetadataInductive`, `NobodyElsesMetadata`, `NoRequestSwallowed` | `MetadataInv`, `OwnMetadata`, `Accounted` | `MetadataInv` |
| `UpgradeInductive`, `VmsStayReadable` | `UpgradeInv`, `EncodingsReadable` | `UpgradeInv` |

### Scheduling

`AffinityInv` is not inductive. A placement preserves it because the chosen node
was free of peers *when it is written*, which is `ChoiceInv`; a peer cannot have
been placed since the choice because placing needs the mutex, which is
`MutexInv` (exactly the passes between schedule and status write hold it); and
what is written is the stored object with only the placement changed because a
fresh copy is the stored object, which is `CopyInv`. `IInv` is their
conjunction. The preservation proof has one lemma per conjunct for the write that
all actions share and one step per action.

The refinement needs one invariant more. A pass chooses a node, bypasses
anti-affinity or decides to clear a request several calls before it writes, and
an eviction lists VMs long before it annotates the last of them. `InformedInv`
says that what is about to be written fits the copy it will be written on top
of, and that an eviction's current copies are of VMs on its node; together with
`CopyInv` an accepted write is right in the state it is made in. Then each
accepted `Place` is a `Place` of `VmPlacement` (admissible or exempt), each
accepted `ClearRequest` a `Withdraw`, each annotation a `Request`, each
completed migration a `Complete`, and every other step, refused writes
included, a stutter.

### Host agents

`HostInv` has a part for every state (`CopyInv`, `StageInv`, `DomainInv`: fresh
copies, what a stage says of its copy, a live migration has both its ends and
running domains their lock) and two parts that last until certain events.

Until the VM is moved (`UnmovedInv`), all copies place it on one node and only
that node's agent may have a domain or be about to make one. `KeptWhileRunning`
also needs that an agent which skips `ensure_finalizer` (its copy has the finalizer
already) is right. The copy might be older than a removal of the finalizer; but a
removal comes after a deletion, which the agent that removes has seen in its
cache, and its cache never goes back.

Until a rebalancing, a stop or a deletion (`AnnouncedInv`), the lock is what
matters. The volume, once locked, stays locked: a migration moves the lock, a
crash leaves it behind. Before the first lock nothing has run, so no migration can
have been reported done, and all copies that are not waiting for a migration agree
on one node: only its agent can be past the look at the locks. After it no agent
passes that look. Hence one instance, however many stale agents there are, and
however many migrations fail after they have been reported done.

The refinement maps `where` to the nodes with a running domain and `permitted` to
the agents between the look and the creation. `DomainInv` is what makes the end of
a live migration a move of an instance, and the look a permission: no lock, hence
no running domain.

### Controllers with finalizers

`ReconcilerProofs` proves what every call of a pass and every event around it does
(`Start`, `EnsureFinalizer`, `RemoveFinalizer`, `Write`, the environment), and
that each of them preserves `PassInv`, for any stages and fields; both
controllers below cite these lemmas. `PassInv` says what a pass may rely on
although its copy may be old: behind `ensure_finalizer` the object is claimed, and so
it is before it if the copy has the finalizer; in `remove_fn` it is being deleted if it
is claimed at all. A pass that starts from the cache starts with what `CacheInv`
says of a copy, however old: one without a deletion timestamp still tells the truth
about its finalizer, because only a remove pass takes that away, and one with a
deletion timestamp may be of an object that has been released since. That a
finalizer the copy has is still there would be too much to ask: a remove pass that
starts from a late cache may find it gone, and its last write is then refused.

`StorageInv` adds that images belong to claimed volumes and that a volume about to
be released has none; the same of an image about to be released, as long as its
write can still be accepted. With Ceph's rule that a template with clones stays,
`TemplatesKept` follows: what could go wrong is that the controller releases the image
although it was refused. `VolumesManaged` maps each action to one of
`FinalizedResource`.

`WiringInv` has to say what passes of *different* objects know of each other's rows,
since any of them may insert or delete between two transactions of another:

* `SoughtInv`: a row that `create_if_missing` did not find is still missing when it is
  inserted, for each of the seven places that insert. `UniqueRows` follows. Every name is
  inserted by the passes of one object alone, because names are told apart;
* `NicInv` and `NicRowInv`: the switch a VM's pass has at hand by its uuid is the one of
  its network or is gone (a recreated switch gets another uuid), and the VM's
  port is on it. Without this the delete in `disconnect_vm_nic` could miss the
  port and the finalizer would go before it;
* `CoveredInv`: an object that has a row is claimed and not about to be released.
  `PortsAreCovered` and `RowsManaged` follow.

### Metadata service

`OwnMetadata` is not inductive: the reply is sent several calls after the address
was looked up. `AddressInv` says that a request on its way carries the address its
asker still has, or that the asker's port is gone for good, and `Found` that the VM
the backend has found leases the address of the request or is gone. `get_by_ip`
accepts an address only if exactly one port has it: that port is the asker's while
the asker has the address from OVN, and an asker without a port can no longer be told
anything. `RequestInv`, that no two requests on their way have one channel and that
every guest waits on that of a request of its own, gives `Accounted` for every size of
the channel, also for guests that hung up and asked again.

### Migration of the definition

`EncodingsReadable` needs that `storedVersions` never forgets a version some VM is
in. `UpgradeInv` follows `create` call by call: from the merge on nothing is
written in v1beta2, so the VMs listed are the last that are in it; when
v1beta2 leaves `storedVersions` none is left; the controllers, whose writes the
server encodes, run only once v1beta3 is the only version. A restart at any call
starts from a definition and objects for which all this holds.

### Assumptions

They are the named `ASSUME`s of the modules: constants have their types, `None` is
none of the other values, budgets are numbers. Those that say something
about a deployment are:

* `ObjectAssumption` of `OvnControllers`: networks, routers and VMs are different
  things and finitely many;
* `NameAssumption`: the names of rows are told apart. Networks and routers are
  called `<namespace>-<name>`, a metadata switch and its port `mds-<router>`, the
  ports between a switch and a router `ls_.._lr_..` and `lr_.._ls_..`, and a VM's port
  is a random uuid. A namespace called `mds` could break it, and so could
  names with dashes in two namespaces;
* `WorldAssumption` of `VmNics`: at the start, too, the definition remembers the
  versions its VMs are in, as the API server sees to.

### Only model-checked

* Liveness: temporal logic with fairness is out of the prover's reach.
* `NicsKept` of `VmNics`: what `retain` leaves of a list (`SelectSeq`) is defined by
  recursion over the list, and the prover has no induction over data. For the same
  reason no theorem says what `RouteDiff` or `FilledNics` compute.

## 5. Not modelled, and the plan

* `VmScheduling`: deletion of VMs (`delete_fn` does nothing), changes of labels,
  pins and cordons, a second controller process (the mutex is local to a
  process), writes applied by the server after the client gave up.
* `HostAgent`: the domain XML, file volumes, more than one VM, the `vm.ovn`
  finalizer, hosts joining and leaving.
* `OvnControllers`: more than one NIC per VM and one router per network; the values
  of DHCP options, addresses and route targets; names that collide because
  namespace and name are joined with a dash. What a deleted router leaves behind
  (its metadata switch, the ports towards it on networks, the deployment) is never
  deleted by the code, so no property speaks of it. Networks that share a cidr
  share a DHCP row.
* `CephStorage`: Ceph handles left open on error paths, sizes, a changed key.
* `VmCrd`: namespaces one by one, the definition of LibvirtNode (the same steps with
  one version) and those applied in a single call.
* `MetadataService`: paths that need no lookup, several services on one host.
* The OVN northbound framing and decoding (`jsonrpc.rs`, `deserialization.rs`): one
  request at a time per connection, so what could go wrong is in the data, not in
  an interleaving.
* Not at all: manifests of OVN services and of the host daemon set, secrets, EVPN
  bridges, the node inventory, domain templates, logging.

Planned, in this order:

1. lemmas about `RouteDiff` and `FillNic`, and from them what of `NicsKept` does not
   need induction over the list of NICs;
2. the properties of single steps that the liveness of `Wiring`, `Storage` and
   `Metadata` rests on, as action properties with proofs;
3. an instance of `VmScheduling` with two controller processes, and the
   composition of `VmScheduling` and `HostAgent` over one object.
