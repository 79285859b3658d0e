---------------------------- MODULE OvnControllers ----------------------------
(***************************************************************************)
(* The three controllers that keep the OVN northbound database in step     *)
(* with the API objects: `network` (cluster/controllers/network.rs),       *)
(* `router` (router.rs) and the port controller of VMs                     *)
(* (virtualmachine/ovn.rs).  They run in one process, on the objects of    *)
(* every namespace, one reconcile pass per object at a time and the passes *)
(* of different objects interleaved; each step below is one call to the    *)
(* API server or one transaction.  The rows share nothing with the objects *)
(* but their names, and one controller's rows refer to another's.          *)
(*                                                                         *)
(* A pass that cannot reach any OVN central does nothing and is repeated   *)
(* 15 s later.  A row that was just inserted is read back, and the pass    *)
(* ends if it is not there; that is part of the insertion.                 *)
(*                                                                         *)
(* The environment: users delete and recreate objects and edit routes,     *)
(* other writers change the objects, calls to the API server fail, and the *)
(* process restarts, which a failed transaction or a lost OVN connection   *)
(* makes it do (both panic).                                               *)
(***************************************************************************)
EXTENDS OvnNorthbound, Reconciler

CONSTANTS
  Network,       \* the Network objects of type Ovn; passes of others return at once
  Router,        \* the Router objects
  Vm,            \* the VirtualMachine objects, each with one OVN NIC
  NicNetwork,    \* the network of each VM's NIC
  Mac,           \* the MAC address of each VM's NIC
  Cidr,          \* spec.dhcp.cidr of each network, or None
  Attachment,    \* spec.routers of each network: a router, or None
  MdsSwitch,     \* the name of the metadata switch of each router that has one
  RouteSpec,     \* the values of spec.routes: how often each route is listed
  FirstRoutes,   \* the spec.routes each router is created with
  Budget,        \* how often each kind of environment event may happen
  World          \* the sets of objects that users may have at the start

\* Kinds of objects are told apart, and those of a cluster are finitely many.
ASSUME ObjectAssumption ==
  /\ Object = Network \cup Router \cup Vm
  /\ Network \cap Router = {} /\ Network \cap Vm = {} /\ Router \cap Vm = {}
  /\ IsFiniteSet(Object)
ASSUME NicAssumption == NicNetwork \in [Vm -> Network]
ASSUME MacAssumption == DOMAIN Mac = Vm
ASSUME CidrAssumption == DOMAIN Cidr = Network
ASSUME AttachmentAssumption == Attachment \in [Network -> Router \cup {None}]
ASSUME MdsAssumption == DOMAIN MdsSwitch \subseteq Router
ASSUME RouteAssumption ==
  /\ FirstRoutes \in [Router -> RouteSpec]
  /\ \E none \in RouteSpec : \A r \in DOMAIN none : none[r] = 0
  /\ \A a, b \in RouteSpec : a \in [DOMAIN b -> Nat]
ASSUME BudgetAssumption == \A event \in DOMAIN Budget : Budget[event] \in Nat
ASSUME WorldAssumption == World \subseteq SUBSET Object

\* The names of rows: those of networks and of metadata switches; of VMs' NICs,
\* metadata ports and pairs of a switch and a router.
SwitchName == Network \cup {MdsSwitch[r] : r \in DOMAIN MdsSwitch}
PortName == Vm \cup SwitchName \cup (SwitchName \X Router)

\* They are told apart, too: no namespace is such that a prefix makes one name
\* into another.
ASSUME NameAssumption ==
  /\ \A r \in DOMAIN MdsSwitch :
       /\ MdsSwitch[r] \notin Network \cup Vm
       /\ \A q \in DOMAIN MdsSwitch : MdsSwitch[q] = MdsSwitch[r] => q = r
  /\ (Vm \cup SwitchName) \cap (SwitchName \X Router) = {}
  /\ None \notin Router

VARIABLES
  world,     \* the objects that users have, and may recreate
  deployed   \* the routers whose metadata service has been deployed

vars == <<switches, routers, ports, routerPorts, dhcp, obj, cache, pass, world,
          deployed, budget>>

-----------------------------------------------------------------------------
(* Objects and passes                                                      *)

\* reported: is_created of a network or router; of a VM, that the status has
\* the address of its port.  Networks and VMs list no routes.
Fields == [finalizer: BOOLEAN, deleted: BOOLEAN, reported: BOOLEAN, routes: RouteSpec]
NoRoutes == CHOOSE spec \in RouteSpec : \A r \in DOMAIN spec : spec[r] = 0
NewObject(x) == [finalizer |-> FALSE, deleted |-> FALSE, reported |-> FALSE,
                 routes |-> IF x \in Router THEN FirstRoutes[x] ELSE NoRoutes]

\* The next call a pass makes, in update_fn behind ensure_finalizer and in
\* remove_fn; `idle` between passes.
Updating == {"row", "dhcp", "subnet", "router", "routerPort", "peer", "routes", "deploy",
             "mdsSwitch", "mdsPort", "mdsAddress", "switch", "port", "address",
             "setAddress", "network", "options", "lease", "status"}
Removing == {"delete", "disconnect", "owner", "deletePort", "unfinalize"}
Stage == {"idle", "finalizer"} \cup Updating \cup Removing

\* The uuids that passes still hold.
Handles == {pass[x].handle.id : x \in {y \in Object : pass[y].handle # None}}

\* Mutant: no lookup.
CreateAlways(x, table, name, Insert, kept, next) ==
  /\ Insert
  /\ IF kept THEN Continue(x, next) ELSE End(x)

\* create_if_missing: look the name up; in a later transaction, insert it, an
\* error if it is not kept: the row it belongs to is gone.
CreateIfMissing(x, table, name, Insert, kept, next) ==
  \/ /\ ~pass[x].missing
     /\ pass' = [pass EXCEPT ![x].missing = ~Exists(table, name),
                             ![x].at = IF Exists(table, name) THEN next ELSE @]
     /\ UNCHANGED tables
  \/ /\ pass[x].missing
     /\ Insert
     /\ pass' = [pass EXCEPT ![x] = IF kept THEN [@ EXCEPT !.missing = FALSE, !.at = next]
                                           ELSE Idle]

-----------------------------------------------------------------------------
(* Networks                                                                *)

\* LogicalSwitch::create_if_missing
NetworkSwitch(n) ==
  /\ At(n, "row")
  /\ CreateIfMissing(n, switches, n, InsertSwitch(n, Handles), TRUE,
                     IF Cidr[n] = None THEN "router" ELSE "dhcp")
  /\ UNCHANGED <<obj, cache, world, deployed, budget>>

\* ensure_dhcp: the options of the cidr,
NetworkDhcp(n) ==
  /\ At(n, "dhcp")
  /\ \/ Cidr[n] \in dhcp /\ UNCHANGED tables
     \/ Cidr[n] \notin dhcp /\ InsertDhcp(Cidr[n])
  /\ Continue(n, "subnet")
  /\ UNCHANGED <<obj, cache, world, deployed, budget>>

\* ... and the subnet of the switch.
NetworkSubnet(n) ==
  /\ At(n, "subnet")
  /\ Exists(switches, n)
  /\ SetCidr(GetByName(switches, n).id)
  /\ Continue(n, "router")
  /\ UNCHANGED <<obj, cache, world, deployed, budget>>

\* Mutant: a network that has been created is not looked at again.
RouterOfNewNetwork(n) ==
  /\ At(n, "router")
  /\ LET r == Attachment[n]
     IN  IF r = None \/ pass[n].copy.reported THEN Continue(n, "status")
         ELSE IF Exists(routers, r) THEN Hold(n, GetByName(routers, r), "routerPort")
         ELSE End(n)
  /\ UNCHANGED <<tables, obj, cache, world, deployed, budget>>

\* ensure_router_attachment: an attached router without a row is an error.
NetworkRouter(n) ==
  /\ At(n, "router")
  /\ LET r == Attachment[n]
     IN  IF r = None THEN Continue(n, "status")
         ELSE IF Exists(routers, r) THEN Hold(n, GetByName(routers, r), "routerPort")
         ELSE End(n)
  /\ UNCHANGED <<tables, obj, cache, world, deployed, budget>>

\* connect_router_to_ls: the router's port, found by name anywhere; its
\* address is written again if it was there,
ConnectRouterPort(x, r, s, router) ==
  /\ At(x, "routerPort")
  /\ CreateIfMissing(x, routerPorts, <<r, s>>, InsertRouterPort(router, <<r, s>>),
                     IsRow(routers, router.id), "peer")
  /\ UNCHANGED <<obj, cache, world, deployed, budget>>

\* ... and the switch's port, which names the router's.
ConnectPeer(x, r, s, next) ==
  /\ At(x, "peer")
  /\ CreateIfMissing(x, ports, <<s, r>>,
                     InsertPort(GetByName(switches, s), <<s, r>>, "router"), TRUE, next)
  /\ UNCHANGED <<obj, cache, world, deployed, budget>>

\* set_network_status and set_router_status
ReportCreated(x) ==
  /\ At(x, "status")
  /\ Write(x, [pass[x].copy EXCEPT !.reported = TRUE], "idle")
  /\ UNCHANGED <<tables, world, deployed, budget>>

\* Mutant: no row is an error, as in remove_router.
RemoveNetworkRow(n) ==
  /\ At(n, "delete")
  /\ \/ /\ Exists(switches, n)
        /\ DeleteSwitch(GetByName(switches, n).id)
        /\ Continue(n, "unfinalize")
     \/ ~Exists(switches, n) /\ End(n) /\ UNCHANGED tables
  /\ UNCHANGED <<obj, cache, world, deployed, budget>>

\* Mutant: a switch in use is left, but the finalizer is not.
ReleaseUsedNetwork(n) ==
  /\ At(n, "delete")
  /\ LET free == Exists(switches, n)
                   /\ \A p \in ports : p.owner # GetByName(switches, n).id
     IN  \/ free /\ DeleteSwitch(GetByName(switches, n).id)
         \/ ~free /\ UNCHANGED tables
  /\ Continue(n, "unfinalize")
  /\ UNCHANGED <<obj, cache, world, deployed, budget>>

\* remove_network: no row is nothing to delete.
RemoveNetwork(n) ==
  /\ At(n, "delete")
  /\ \/ Exists(switches, n) /\ DeleteSwitch(GetByName(switches, n).id)
     \/ ~Exists(switches, n) /\ UNCHANGED tables
  /\ Continue(n, "unfinalize")
  /\ UNCHANGED <<obj, cache, world, deployed, budget>>

NetworkStep(n) ==
  \/ NetworkSwitch(n) \/ NetworkDhcp(n) \/ NetworkSubnet(n) \/ NetworkRouter(n)
  \/ ConnectRouterPort(n, Attachment[n], n, pass[n].handle)
  \/ ConnectPeer(n, Attachment[n], n, "status")
  \/ ReportCreated(n) \/ RemoveNetwork(n)

-----------------------------------------------------------------------------
(* Routers                                                                 *)

\* LogicalRouter::create_if_missing
RouterRow(r) ==
  /\ At(r, "row")
  /\ CreateIfMissing(r, routers, r, InsertRouter(r, NoRoutes, Handles), TRUE, "routes")
  /\ UNCHANGED <<obj, cache, world, deployed, budget>>

\* get_by_name and set_routes, with the routes of the copy.
RouterRoutes(r) ==
  /\ At(r, "routes")
  /\ Exists(routers, r)
  /\ SetRoutes(r, pass[r].copy.routes)
  /\ Continue(r, IF r \in DOMAIN MdsSwitch THEN "deploy" ELSE "status")
  /\ UNCHANGED <<obj, cache, world, deployed, budget>>

\* deploy_mds: server-side apply of the account, its role and the deployment.
RouterDeploy(r) ==
  /\ At(r, "deploy")
  /\ deployed' = deployed \cup {r}
  /\ Continue(r, "mdsSwitch")
  /\ UNCHANGED <<tables, obj, cache, world, budget>>

\* connect_metadataservice
RouterMds(r) ==
  LET s == MdsSwitch[r]
  IN  \/ /\ At(r, "mdsSwitch")
         /\ CreateIfMissing(r, switches, s, InsertSwitch(s, Handles), TRUE, "routerPort")
         /\ UNCHANGED <<obj, cache, world, deployed, budget>>
      \/ ConnectRouterPort(r, r, s, GetByName(routers, r))
      \/ ConnectPeer(r, r, s, "mdsPort")
      \/ /\ At(r, "mdsPort")
         /\ CreateIfMissing(r, ports, s, InsertPort(GetByName(switches, s), s, "none"),
                            TRUE, "mdsAddress")
         /\ UNCHANGED <<obj, cache, world, deployed, budget>>
      \/ /\ At(r, "mdsAddress")
         /\ IF GetByName(ports, s).mac = s THEN UNCHANGED tables
                                           ELSE SetAddress(s, s, "fixed")
         /\ Continue(r, "status")
         /\ UNCHANGED <<obj, cache, world, deployed, budget>>

\* Mutant: the finalizer is released first.
ReleaseRouterFirst(r) ==
  /\ At(r, "delete")
  /\ Write(r, [pass[r].copy EXCEPT !.finalizer = FALSE], "idle")
  /\ UNCHANGED <<tables, world, deployed, budget>>

\* remove_router: no row is an error, the finalizer stays.
RemoveRouter(r) ==
  /\ At(r, "delete")
  /\ \/ /\ Exists(routers, r)
        /\ DeleteRouter(GetByName(routers, r).id)
        /\ Continue(r, "unfinalize")
     \/ ~Exists(routers, r) /\ End(r) /\ UNCHANGED tables
  /\ UNCHANGED <<obj, cache, world, deployed, budget>>

RouterStep(r) ==
  \/ RouterRow(r) \/ RouterRoutes(r) \/ RouterDeploy(r)
  \/ r \in DOMAIN MdsSwitch /\ RouterMds(r)
  \/ ReportCreated(r) \/ RemoveRouter(r)

-----------------------------------------------------------------------------
(* Ports of VMs                                                            *)

\* Mutant: a VM whose address has been reported is not looked at again.
SwitchOfNewVm(v) ==
  /\ At(v, "switch")
  /\ IF Exists(switches, NicNetwork[v]) /\ ~pass[v].copy.reported
       THEN Hold(v, GetByName(switches, NicNetwork[v]), "port")
       ELSE End(v)
  /\ UNCHANGED <<tables, obj, cache, world, deployed, budget>>

\* connect_vm_nic: the switch of the network, read once,
VmSwitch(v) ==
  /\ At(v, "switch")
  /\ IF Exists(switches, NicNetwork[v])
       THEN Hold(v, GetByName(switches, NicNetwork[v]), "port")
       ELSE End(v)
  /\ UNCHANGED <<tables, obj, cache, world, deployed, budget>>

\* ... the port, found by name on whatever switch,
VmPort(v) ==
  /\ At(v, "port")
  /\ CreateIfMissing(v, ports, v, InsertPort(pass[v].handle, v, "none"),
                     IsRow(switches, pass[v].handle.id), "address")
  /\ UNCHANGED <<obj, cache, world, deployed, budget>>

\* ... set_address: nothing to do, an error (the port is gone with its switch,
\* or the MAC address is taken), or the update in a later transaction.
VmAddress(v) ==
  /\ At(v, "address")
  /\ IF ~Exists(ports, v) THEN End(v)
     ELSE LET port == GetByName(ports, v)
          IN  IF port.mac = Mac[v] THEN Continue(v, "network")
              ELSE IF ~HasOwner(port) \/ MacInUse(port, Mac[v]) THEN End(v)
              ELSE Continue(v, "setAddress")
  /\ UNCHANGED <<tables, obj, cache, world, deployed, budget>>

\* Dynamic if the switch had a subnet when it was read.
VmSetAddress(v) ==
  /\ At(v, "setAddress")
  /\ SetAddress(v, Mac[v], IF pass[v].handle.subnet THEN "dynamic" ELSE "none")
  /\ Continue(v, "network")
  /\ UNCHANGED <<obj, cache, world, deployed, budget>>

\* ... the Network object, for its cidr,
VmNetwork(v) ==
  /\ At(v, "network")
  /\ LET n == NicNetwork[v]
     IN  IF obj[n] = None THEN End(v)
         ELSE Continue(v, IF Cidr[n] = None THEN "lease" ELSE "options")
  /\ UNCHANGED <<tables, obj, cache, world, deployed, budget>>

\* ... and the options of that cidr, an error if they are not there yet.
VmOptions(v) ==
  /\ At(v, "options")
  /\ \/ Cidr[NicNetwork[v]] \in dhcp /\ SetDhcpOptions(v) /\ Continue(v, "lease")
     \/ Cidr[NicNetwork[v]] \notin dhcp /\ End(v) /\ UNCHANGED tables
  /\ UNCHANGED <<obj, cache, world, deployed, budget>>

\* update_vm: the port is read again for its leased address,
VmLease(v) ==
  /\ At(v, "lease")
  /\ IF Exists(ports, v) THEN Hold(v, GetByName(ports, v), "status") ELSE End(v)
  /\ UNCHANGED <<tables, obj, cache, world, deployed, budget>>

\* ... which is written to the status.
VmStatus(v) ==
  /\ At(v, "status")
  /\ Write(v, [pass[v].copy EXCEPT !.reported = (pass[v].handle.ip = "leased")], "idle")
  /\ UNCHANGED <<tables, world, deployed, budget>>

\* disconnect_vm_nic: no port is nothing to do; else the switch is looked up,
VmDisconnect(v) ==
  \/ /\ At(v, "disconnect")
     /\ Continue(v, IF Exists(ports, v) THEN "owner" ELSE "unfinalize")
     /\ UNCHANGED <<tables, obj, cache, world, deployed, budget>>
  \/ /\ At(v, "owner")
     /\ IF Exists(switches, NicNetwork[v])
          THEN Hold(v, GetByName(switches, NicNetwork[v]), "deletePort")
          ELSE End(v)
     /\ UNCHANGED <<tables, obj, cache, world, deployed, budget>>

\* ... and del_lsp finds the port again, or fails.
VmDeletePort(v) ==
  /\ At(v, "deletePort")
  /\ \/ /\ Exists(ports, v)
        /\ DeletePort(pass[v].handle, GetByName(ports, v))
        /\ Continue(v, "unfinalize")
     \/ ~Exists(ports, v) /\ End(v) /\ UNCHANGED tables
  /\ UNCHANGED <<obj, cache, world, deployed, budget>>

VmStep(v) ==
  \/ VmSwitch(v) \/ VmPort(v) \/ VmAddress(v) \/ VmSetAddress(v) \/ VmNetwork(v)
  \/ VmOptions(v) \/ VmLease(v) \/ VmStatus(v) \/ VmDisconnect(v) \/ VmDeletePort(v)

-----------------------------------------------------------------------------
(* The environment                                                         *)

Edit(r) ==
  /\ Spend("change")
  /\ Alive(r)
  /\ \E spec \in RouteSpec \ {obj[r].routes} : Change(r, [obj[r] EXCEPT !.routes = spec])

\* The calls to the API server.  A failed transaction or a lost connection to
\* OVN is not an error but a panic: request and transact end the process.
ApiCalls == {"finalizer", "deploy", "network", "status", "unfinalize"}

Environment ==
  /\ \/ \E x \in world : \/ Delete(x) \/ Create(x, NewObject(x))
                        \/ Foreign(x) \/ Fault(x, ApiCalls) \/ FallBehind(x)
     \/ \E r \in Router : Edit(r)
     \/ Crash
  /\ UNCHANGED <<tables, world, deployed>>

\* ovn-northd, external.
Northd == \E p \in ports : Lease(p) /\ UNCHANGED <<obj, cache, pass, world, deployed, budget>>

-----------------------------------------------------------------------------
(* Specification                                                           *)

Init ==
  /\ EmptyTables
  /\ world \in World
  /\ obj = [x \in Object |-> IF x \in world THEN NewObject(x) ELSE None]
  /\ cache = [x \in Object |-> Current]
  /\ pass = [x \in Object |-> Idle]
  /\ deployed = {}
  /\ budget = Budget

StartPass(x) ==
  /\ Start(x, IF x \in Vm THEN "disconnect" ELSE "delete")
  /\ UNCHANGED <<tables, world, deployed>>

\* One step of the pass of x.
PassStep(x) ==
  \/ /\ EnsureFinalizer(x, IF x \in Vm THEN "switch" ELSE "row") \/ RemoveFinalizer(x)
     /\ UNCHANGED <<tables, world, deployed>>
  \/ x \in Network /\ NetworkStep(x)
  \/ x \in Router /\ RouterStep(x)
  \/ x \in Vm /\ VmStep(x)

ReapObject(x) == Reap(x) /\ UNCHANGED <<tables, world, deployed>>
Watch(x) == CatchUp(x) /\ UNCHANGED <<tables, world, deployed>>

Next ==
  \/ \E x \in Object : StartPass(x) \/ PassStep(x) \/ ReapObject(x) \/ Watch(x)
  \/ Northd
  \/ Environment

Spec == Init /\ [][Next]_vars

\* Every update pass is requeued after 600 s and a failed one after 15 s, so
\* passes keep starting; calls return; watches catch up; northd and the API
\* server do their work.
Fairness ==
  /\ \A x \in Object :
       /\ WF_vars(StartPass(x)) /\ WF_vars(PassStep(x))
       /\ WF_vars(ReapObject(x)) /\ WF_vars(Watch(x))
  /\ WF_vars(Northd)

FairSpec == Spec /\ Fairness

-----------------------------------------------------------------------------
(* Properties                                                              *)

Unique(table) == \A a, b \in table : a.name = b.name => a = b

\* The rows of the tables, and what a call may have returned for a later one.
SwitchRow == [id: Nat, name: SwitchName, subnet: BOOLEAN]
LogicalRouter == [id: Nat, name: Router, routes: [DOMAIN NoRoutes -> Nat]]
PortRow == [id: Nat, owner: Nat, name: PortName,
            mac: {NoMac} \cup {Mac[v] : v \in Vm} \cup SwitchName, ip: Ip, dhcp: BOOLEAN]
RouterPortRow == [id: Nat, owner: Nat, name: Router \X SwitchName]
Handle == {None} \cup SwitchRow \cup LogicalRouter \cup PortRow

ASSUME NoneAssumption ==
  None \notin Fields \cup SwitchRow \cup LogicalRouter \cup PortRow
             \cup [claimed: BOOLEAN, deleted: BOOLEAN]

\* Ports belong to rows that exist, and a uuid means one row.
OvnTypeInv ==
  /\ obj \in [Object -> Fields \cup {None}]
  /\ cache \in Caches(Fields)
  /\ pass \in Passes(Stage, Fields, Handle)
  /\ switches \subseteq SwitchRow /\ IsFiniteSet(switches)
  /\ routers \subseteq LogicalRouter /\ IsFiniteSet(routers)
  /\ ports \subseteq PortRow /\ IsFiniteSet(ports)
  /\ routerPorts \subseteq RouterPortRow /\ IsFiniteSet(routerPorts)
  /\ \A a, b \in switches : a.id = b.id => a = b
  /\ \A a, b \in routers : a.id = b.id => a = b
  /\ \A p \in ports : HasOwner(p)
  /\ \A p \in routerPorts : \E r \in routers : r.id = p.owner

\* The northbound schema indexes no table by name, and create_if_missing looks
\* up and inserts in two transactions; still no interleaving of passes and no
\* restart between the two leaves two rows with one name, so that get_by_name
\* of every controller means the same row.
UniqueRows == Unique(switches) /\ Unique(routers) /\ Unique(ports) /\ Unique(routerPorts)

\* The port of a VM is covered by the finalizer of that VM: none is left behind
\* when the VM goes, be it deleted in the middle of a pass or after a restart,
\* its network gone or recreated.
PortsAreCovered == \A p \in ports : p.name \in Vm => Claimed(p.name)

\* The objects whose passes connect a switch and a router, and which.
Connects(x) == IF x \in Network THEN Attachment[x] # None ELSE x \in DOMAIN MdsSwitch
SwitchOf(x) == IF x \in Network THEN x ELSE MdsSwitch[x]
RouterOf(x) == IF x \in Network THEN Attachment[x] ELSE x

\* A row that a pass has found to be missing is missing until it inserts it.
SoughtInv(x) ==
  /\ pass[x].at \in {"routerPort", "peer"} => Connects(x)
  /\ pass[x].missing =>
       \/ At(x, "row") /\ x \in Network /\ ~Exists(switches, x)
       \/ At(x, "row") /\ x \in Router /\ ~Exists(routers, x)
       \/ At(x, "mdsSwitch") /\ x \in DOMAIN MdsSwitch /\ ~Exists(switches, MdsSwitch[x])
       \/ At(x, "routerPort") /\ ~Exists(routerPorts, <<RouterOf(x), SwitchOf(x)>>)
       \/ At(x, "peer") /\ ~Exists(ports, <<SwitchOf(x), RouterOf(x)>>)
       \/ At(x, "mdsPort") /\ x \in DOMAIN MdsSwitch /\ ~Exists(ports, MdsSwitch[x])
       \/ At(x, "port") /\ x \in Vm /\ ~Exists(ports, x)

\* The port of a VM is on the switch of its network,
NicRowInv ==
  \A p \in ports : p.name \in Vm =>
    \E s \in switches : s.id = p.owner /\ s.name = NicNetwork[p.name]

\* ... and the pass that inserts or deletes it means that switch, or one that is
\* gone.
NicInv(v) ==
  /\ At(v, "port") => /\ pass[v].handle # None
                      /\ \A s \in switches : s.id = pass[v].handle.id
                                              => s.name = NicNetwork[v]
  /\ At(v, "deletePort") => \A p \in ports : p.name = v => p.owner = pass[v].handle.id

\* What an object has in the database, and that none of it is there when its
\* finalizer is about to go.
HasRow(x) ==
  \/ x \in Network /\ Exists(switches, x)
  \/ x \in Router /\ Exists(routers, x)
  \/ x \in Vm /\ Exists(ports, x)

CoveredInv(x) == HasRow(x) => Claimed(x) /\ ~At(x, "unfinalize")

\* What the passes of all objects know of each other's rows, together.
WiringInv ==
  /\ OvnTypeInv
  /\ UniqueRows
  /\ NicRowInv
  /\ \A v \in Vm : NicInv(v)
  /\ \A x \in Object : PassInv(x, Updating, Removing) /\ SoughtInv(x) /\ CoveredInv(x)

\* The switch of a network and the row of a router keep the promise of
\* FinalizedResource.
Managed == INSTANCE FinalizedResource WITH
  Name <- Network \cup Router,
  object <- [x \in Network \cup Router |-> Claim(x)],
  resource <- {n \in Network : Exists(switches, n)} \cup {r \in Router : Exists(routers, r)}

ManagedRows == Managed!Spec

\* No network or VM stays deleted for ever, in whatever order they and the rows
\* they share are deleted: a switch takes the VM's port with it, and the VM's
\* remove pass then finds nothing to do.
NetworksAndVmsGo == \A x \in Network \cup Vm : []<>~Deleted(x)

\* Nor does a router, unless the pass that deleted its row did not get its
\* finalizer write through: from then on remove_router finds no row and fails,
\* and the object stays for ever.
RouterDeletion ==
  \A r \in Router : []<>~Deleted(r) \/ <>[](~Exists(routers, r) /\ Claimed(r))

\* While a VM and its network stay, the VM gets a port with its MAC address
\* and DHCP options on the switch of that network, and keeps it, even if the
\* network was deleted and recreated under it.
PortsConnected ==
  \A v \in Vm :
    LET n == NicNetwork[v]
    IN  <>[](Alive(v) /\ Alive(n)) =>
        <>[](\E p \in ports : /\ p.name = v /\ p.mac = Mac[v]
                              /\ p.owner = GetByName(switches, n).id
                              /\ p.dhcp = (Cidr[n] # None))

\* While a network and the router it lists stay, the two are joined by a port
\* on each side, also when either was deleted and recreated before.
RoutersAttached ==
  \A n \in {m \in Network : Attachment[m] # None} :
    <>[](Alive(n) /\ Alive(Attachment[n])) =>
    <>[](Exists(routerPorts, <<Attachment[n], n>>) /\ Exists(ports, <<n, Attachment[n]>>))

\* The routes of a router become those of its spec as last edited: none of an
\* earlier edit survives, though a pass may install the routes of a copy that
\* is out of date.
RoutesFollow ==
  \A r \in Router : <>[]Alive(r) =>
    <>[](\E row \in routers : /\ row.name = r
                              /\ \A route \in DOMAIN row.routes :
                                   (row.routes[route] > 0) = (obj[r].routes[route] > 0))

\* set_address says "Ignore if already set" and "Otherwise set": a port whose
\* pass has gone past it asks for a dynamic address if its switch has a subnet.
AddressIsSet ==
  \A v \in Vm : <>[](Alive(v) /\ Alive(NicNetwork[v])) =>
    <>[](\E p \in ports : /\ p.name = v
                          /\ (Cidr[NicNetwork[v]] # None) => p.ip = "leased")

=============================================================================
