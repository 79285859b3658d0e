---------------------------- MODULE OvnNorthbound ----------------------------
(***************************************************************************)
(* The OVN northbound database as the controllers use it: the tables, and  *)
(* one operator per transaction of the client (interfaces/ovn).  The       *)
(* client reads whole tables and picks a row by name or cidr               *)
(* (common.rs, types/), and writes by row uuid, always in a later          *)
(* transaction: what it read may be gone by then.                          *)
(*                                                                         *)
(* The server is external.  It runs one transaction at a time, a condition *)
(* that matches no row changes nothing and is no error, and ports are kept *)
(* alive only by the reference from their switch or router: deleting that  *)
(* row, or inserting a port for a row that is gone, leaves no port.        *)
(*                                                                         *)
(* A cidr has one DHCP_Options row here: a second one, which two networks  *)
(* of one cidr may insert at once, carries the same cidr and is never told *)
(* apart by get_by_cidr.  Rows of that table are never deleted.            *)
(***************************************************************************)
EXTENDS Naturals, FiniteSets

VARIABLES
  switches,     \* Logical_Switch: id, name, subnet (other_config has one)
  routers,      \* Logical_Router: id, name, routes (the rows per route)
  ports,        \* Logical_Switch_Port: id, owner, name, mac, ip, dhcp
  routerPorts,  \* Logical_Router_Port: id, owner, name
  dhcp          \* DHCP_Options: the cidrs that have a row

tables == <<switches, routers, ports, routerPorts, dhcp>>

\* What the addresses column of a port holds beside the MAC address; a port
\* that has `dynamic` is `leased` once northd has filled dynamic_addresses.
Ip == {"none", "dynamic", "leased", "fixed", "router"}

\* The MAC address of a port whose addresses column is empty.
NoMac == "none"

EmptyTables ==
  /\ switches = {}
  /\ routers = {}
  /\ ports = {}
  /\ routerPorts = {}
  /\ dhcp = {}

-----------------------------------------------------------------------------
(* Reading                                                                 *)

\* get_by_name finds a row of the listed table.
Exists(table, name) == \E row \in table : row.name = name

\* get_by_name: the first row with the name.
GetByName(table, name) == CHOOSE row \in table : row.name = name

\* A row with this uuid is there.
IsRow(table, id) == \E row \in table : row.id = id

\* find_lsp_owner: the switch that refers to the port.
HasOwner(port) == IsRow(switches, port.owner)

\* get_by_mac: some port of the same switch has the address already.
MacInUse(port, mac) == \E p \in ports : p.owner = port.owner /\ p.mac = mac

\* A uuid that no row of the table and none of the handles has.
NewId(table, handles) ==
  LET used == {row.id : row \in table} \cup handles
  IN  CHOOSE i \in 1 .. Cardinality(used) + 1 : i \notin used

-----------------------------------------------------------------------------
(* Transactions                                                            *)

\* create of a basic type: insert a row that has only a name.
InsertSwitch(name, handles) ==
  /\ switches' = switches \cup
       {[id |-> NewId(switches, handles), name |-> name, subnet |-> FALSE]}
  /\ UNCHANGED <<routers, ports, routerPorts, dhcp>>

InsertRouter(name, noRoutes, handles) ==
  /\ routers' = routers \cup
       {[id |-> NewId(routers, handles), name |-> name, routes |-> noRoutes]}
  /\ UNCHANGED <<switches, ports, routerPorts, dhcp>>

\* LogicalSwitchPortBuilder::create: the port and the reference to it.
InsertPort(switch, name, ip) ==
  /\ ports' = IF IsRow(switches, switch.id)
                THEN ports \cup {[id |-> NewId(ports, {}), owner |-> switch.id,
                                  name |-> name, mac |-> NoMac, ip |-> ip,
                                  dhcp |-> FALSE]}
                ELSE ports
  /\ UNCHANGED <<switches, routers, routerPorts, dhcp>>

\* LogicalRouterPortBuilder::create
InsertRouterPort(router, name) ==
  /\ routerPorts' = IF IsRow(routers, router.id)
                      THEN routerPorts \cup {[id |-> NewId(routerPorts, {}),
                                              owner |-> router.id, name |-> name]}
                      ELSE routerPorts
  /\ UNCHANGED <<switches, routers, ports, dhcp>>

\* DhcpOptions::create
InsertDhcp(cidr) ==
  /\ dhcp' = dhcp \cup {cidr}
  /\ UNCHANGED <<switches, routers, ports, routerPorts>>

\* delete, by uuid; the ports go with the reference to them.
DeleteSwitch(id) ==
  /\ switches' = {s \in switches : s.id # id}
  /\ ports' = {p \in ports : p.owner # id}
  /\ UNCHANGED <<routers, routerPorts, dhcp>>

DeleteRouter(id) ==
  /\ routers' = {r \in routers : r.id # id}
  /\ routerPorts' = {p \in routerPorts : p.owner # id}
  /\ UNCHANGED <<switches, ports, dhcp>>

\* del_lsp: the reference is deleted from the given switch, if it is there.
DeletePort(switch, port) ==
  /\ ports' = {p \in ports : ~(p.id = port.id /\ p.owner = switch.id)}
  /\ UNCHANGED <<switches, routers, routerPorts, dhcp>>

\* set_cidr
SetCidr(id) ==
  /\ switches' = {IF s.id = id THEN [s EXCEPT !.subnet = TRUE] ELSE s : s \in switches}
  /\ UNCHANGED <<routers, ports, routerPorts, dhcp>>

\* The update of set_address.
SetAddress(name, mac, ip) ==
  /\ ports' = {IF p.name = name THEN [p EXCEPT !.mac = mac, !.ip = ip] ELSE p : p \in ports}
  /\ UNCHANGED <<switches, routers, routerPorts, dhcp>>

\* set_dhcp_options
SetDhcpOptions(name) ==
  /\ ports' = {IF p.name = name THEN [p EXCEPT !.dhcp = TRUE] ELSE p : p \in ports}
  /\ UNCHANGED <<switches, routers, routerPorts, dhcp>>

\* Mutant: routes that are no longer wanted stay.
RoutesOnlyAdded(old, wanted) ==
  [r \in DOMAIN old |-> IF old[r] = 0 THEN wanted[r] ELSE old[r]]

\* set_routes: how many rows each route has afterwards.  Rows that match a
\* wanted route stay as they are; a missing one gets a row for every mention.
RouteDiff(old, wanted) ==
  [r \in DOMAIN old |-> IF wanted[r] = 0 THEN 0
                        ELSE IF old[r] = 0 THEN wanted[r] ELSE old[r]]

SetRoutes(name, wanted) ==
  /\ routers' = {IF r.name = name
                   THEN [r EXCEPT !.routes = RouteDiff(@, wanted)] ELSE r : r \in routers}
  /\ UNCHANGED <<switches, ports, routerPorts, dhcp>>

\* northd leases an address to a dynamic port of a switch with a subnet.
Lease(port) ==
  /\ port.ip = "dynamic"
  /\ \E s \in switches : s.id = port.owner /\ s.subnet
  /\ SetAddress(port.name, port.mac, "leased")

=============================================================================
