------------------------ MODULE OvnControllersProofs -------------------------
EXTENDS OvnControllers, ReconcilerProofs, FiniteSetTheorems

(***************************************************************************)
(* The proof that the controllers of networks, routers and VMs' ports keep *)
(* WiringInv, and with it that a name means one row, that no port outlives *)
(* its VM and that switches and routers keep the promise of                *)
(* FinalizedResource; for any objects, attachments, routes and metadata    *)
(* services, and any budget of the environment.                            *)
(*                                                                         *)
(* That names are unique is not inductive: between the lookup and the      *)
(* insertion of create_if_missing only the pass itself could insert the    *)
(* name, which is so because every name belongs to one object.  That ports *)
(* are covered is not either: the remove pass of a VM deletes the port     *)
(* from the switch it has looked up, which is the port's only because the  *)
(* port was made on the switch of the same network, and no later switch    *)
(* has the uuid of an earlier one that a pass still holds.                 *)
(***************************************************************************)

\* The objects and stages are of the kind ReconcilerProofs is about.
LEMMA Shape == Finalizable(Fields) /\ Stages(Stage, Updating, Removing) /\ None \in Handle
<1>1. Finalizable(Fields)
  <2>1. ASSUME NEW o \in Fields
        PROVE  /\ o.finalizer \in BOOLEAN /\ o.deleted \in BOOLEAN
               /\ [o EXCEPT !.finalizer = TRUE] \in Fields
               /\ [o EXCEPT !.finalizer = TRUE].finalizer = TRUE
               /\ [o EXCEPT !.finalizer = TRUE].deleted = o.deleted
               /\ [o EXCEPT !.finalizer = FALSE] \in Fields
               /\ [o EXCEPT !.finalizer = FALSE].finalizer = FALSE
               /\ [o EXCEPT !.finalizer = FALSE].deleted = o.deleted
               /\ [o EXCEPT !.deleted = TRUE] \in Fields
               /\ [o EXCEPT !.deleted = TRUE].deleted = TRUE
               /\ [o EXCEPT !.deleted = TRUE].finalizer = o.finalizer
    BY DEF Fields
  <2>2. None \notin Fields
    BY NoneAssumption
  <2>3. QED
    BY <2>1, <2>2 DEF Finalizable
<1>2. Stages(Stage, Updating, Removing)
  BY DEF Stages, Stage, Updating, Removing
<1>3. None \in Handle
  BY DEF Handle
<1>4. QED
  BY <1>1, <1>2, <1>3

\* What is known of the tables alone.
TablesInv ==
  /\ switches \subseteq SwitchRow /\ IsFiniteSet(switches)
  /\ routers \subseteq LogicalRouter /\ IsFiniteSet(routers)
  /\ ports \subseteq PortRow /\ IsFiniteSet(ports)
  /\ routerPorts \subseteq RouterPortRow /\ IsFiniteSet(routerPorts)
  /\ \A a, b \in switches : a.id = b.id => a = b
  /\ \A a, b \in routers : a.id = b.id => a = b
  /\ \A p \in ports : HasOwner(p)
  /\ \A p \in routerPorts : \E r \in routers : r.id = p.owner
  /\ UniqueRows
  /\ NicRowInv

\* The invariant in the parts that the lemmas are about.
LEMMA Parts ==
  WiringInv <=> /\ Typed(Stage, Fields, Handle)
                /\ TablesInv
                /\ \A v \in Vm : NicInv(v)
                /\ \A x \in Object : PassInv(x, Updating, Removing)
                /\ \A x \in Object : SoughtInv(x) /\ CoveredInv(x)
BY DEF WiringInv, OvnTypeInv, TablesInv, Typed

LEMMA NextParts ==
  ASSUME Typed(Stage, Fields, Handle)', TablesInv', \A v \in Vm : NicInv(v)',
         \A x \in Object : PassInv(x, Updating, Removing)',
         \A x \in Object : SoughtInv(x)' /\ CoveredInv(x)'
  PROVE  WiringInv'
BY DEF WiringInv, OvnTypeInv, TablesInv, Typed

-----------------------------------------------------------------------------
(* Names                                                                   *)

\* The rows that only the pass of x inserts.
OwnSwitch(x, name) ==
  \/ x \in Network /\ name = x
  \/ x \in DOMAIN MdsSwitch /\ name = MdsSwitch[x]
OwnRouter(x, name) == x \in Router /\ name = x
OwnPort(x, name) ==
  \/ x \in Vm /\ name = x
  \/ x \in DOMAIN MdsSwitch /\ name = MdsSwitch[x]
  \/ x \in Object /\ Connects(x) /\ name = <<SwitchOf(x), RouterOf(x)>>
OwnRouterPort(x, name) == x \in Object /\ Connects(x) /\ name = <<RouterOf(x), SwitchOf(x)>>

\* What a pass connects are a switch and a router.
LEMMA Connected ==
  ASSUME NEW x \in Object, Connects(x)
  PROVE  SwitchOf(x) \in SwitchName /\ RouterOf(x) \in Router
<1>1. CASE x \in Network
  BY <1>1, AttachmentAssumption DEF Connects, SwitchOf, RouterOf, SwitchName
<1>2. CASE x \notin Network
  BY <1>2, MdsAssumption DEF Connects, SwitchOf, RouterOf, SwitchName
<1>3. QED
  BY <1>1, <1>2

\* Two objects connect different switches.
LEMMA SwitchesDiffer ==
  ASSUME NEW x \in Object, NEW y \in Object, Connects(x), Connects(y),
         SwitchOf(x) = SwitchOf(y)
  PROVE  x = y
BY NameAssumption DEF Connects, SwitchOf

\* A name belongs to one object.
LEMMA NamesDiffer ==
  ASSUME NEW x \in Object, NEW y \in Object, x # y, NEW name
  PROVE  /\ ~(OwnSwitch(x, name) /\ OwnSwitch(y, name))
         /\ ~(OwnRouter(x, name) /\ OwnRouter(y, name))
         /\ ~(OwnPort(x, name) /\ OwnPort(y, name))
         /\ ~(OwnRouterPort(x, name) /\ OwnRouterPort(y, name))
<1>1. ~(OwnSwitch(x, name) /\ OwnSwitch(y, name))
  BY NameAssumption DEF OwnSwitch
<1>2. ~(OwnRouter(x, name) /\ OwnRouter(y, name))
  BY DEF OwnRouter
<1>3. ~(OwnRouterPort(x, name) /\ OwnRouterPort(y, name))
  BY SwitchesDiffer DEF OwnRouterPort
<1>4. ~(OwnPort(x, name) /\ OwnPort(y, name))
  <2> DEFINE Pair(z) == Connects(z) /\ name = <<SwitchOf(z), RouterOf(z)>>
             Single(z) == \/ z \in Vm /\ name = z
                          \/ z \in DOMAIN MdsSwitch /\ name = MdsSwitch[z]
  <2>1. ASSUME NEW z \in Object, Pair(z) PROVE name \in SwitchName \X Router
    BY <2>1, Connected
  <2>2. ASSUME NEW z \in Object, Single(z) PROVE name \in Vm \cup SwitchName
    BY <2>2 DEF SwitchName
  <2>3. ~(Single(x) /\ Single(y))
    BY NameAssumption
  <2>4. ~(Pair(x) /\ Pair(y))
    BY SwitchesDiffer
  <2>5. \A z \in Object : OwnPort(z, name) => Pair(z) \/ Single(z)
    BY DEF OwnPort
  <2> HIDE DEF Pair, Single
  <2>6. ~(Pair(x) /\ Single(y)) /\ ~(Single(x) /\ Pair(y))
    BY <2>1, <2>2, NameAssumption
  <2>7. QED
    BY <2>3, <2>4, <2>5, <2>6
<1>5. QED
  BY <1>1, <1>2, <1>3, <1>4

\* A pass looks for a row of its own.
LEMMA SoughtOwn ==
  ASSUME NEW x \in Object
  PROVE  /\ x \in Network => OwnSwitch(x, x)
         /\ x \in Router => OwnRouter(x, x)
         /\ x \in Vm => OwnPort(x, x)
         /\ x \in DOMAIN MdsSwitch => OwnSwitch(x, MdsSwitch[x]) /\ OwnPort(x, MdsSwitch[x])
         /\ Connects(x) => /\ OwnPort(x, <<SwitchOf(x), RouterOf(x)>>)
                           /\ OwnRouterPort(x, <<RouterOf(x), SwitchOf(x)>>)
BY DEF OwnSwitch, OwnRouter, OwnPort, OwnRouterPort

-----------------------------------------------------------------------------
(* A step of one pass                                                      *)

\* What a transaction of the pass of x may do: rows that were there keep their
\* names, and other rows are of x; a new switch has a uuid that nobody holds.
Transaction(x) ==
  /\ \A a \in switches' : \/ \E b \in switches : b.id = a.id /\ b.name = a.name
                          \/ OwnSwitch(x, a.name) /\ a.id \notin Handles
  /\ \A a \in routers' : Exists(routers, a.name) \/ OwnRouter(x, a.name)
  /\ \A a \in ports' : \/ \E b \in ports : b.name = a.name /\ b.owner = a.owner
                       \/ OwnPort(x, a.name)
  /\ \A a \in routerPorts' : Exists(routerPorts, a.name) \/ OwnRouterPort(x, a.name)

\* No transaction of x makes a row that another pass has found to be missing, or
\* one that another object has to answer for.
LEMMA OthersUndisturbed ==
  ASSUME NEW x \in Object, NEW y \in Object, x # y, Transaction(x), Only(x),
         SoughtInv(y), CoveredInv(y)
  PROVE  SoughtInv(y)' /\ CoveredInv(y)'
<1>1. pass'[y] = pass[y] /\ obj'[y] = obj[y]
  BY DEF Only
<1>2. ASSUME NEW name, OwnSwitch(y, name), Exists(switches, name)' PROVE Exists(switches, name)
  BY <1>2, NamesDiffer DEF Transaction, Exists
<1>3. ASSUME NEW name, OwnRouter(y, name), Exists(routers, name)' PROVE Exists(routers, name)
  BY <1>3, NamesDiffer DEF Transaction, Exists
<1>4. ASSUME NEW name, OwnPort(y, name), Exists(ports, name)' PROVE Exists(ports, name)
  BY <1>4, NamesDiffer DEF Transaction, Exists
<1>5. ASSUME NEW name, OwnRouterPort(y, name), Exists(routerPorts, name)'
      PROVE  Exists(routerPorts, name)
  BY <1>5, NamesDiffer DEF Transaction, Exists
<1>6. SoughtInv(y)'
  BY <1>1, <1>2, <1>3, <1>4, <1>5, SoughtOwn DEF SoughtInv, At
<1>7. CoveredInv(y)'
  BY <1>1, <1>2, <1>3, <1>4, SoughtOwn DEF CoveredInv, HasRow, Claimed, At
<1>8. QED
  BY <1>6, <1>7

\* ... or changes what another VM's pass means by the switch it holds.
LEMMA NicsUndisturbed ==
  ASSUME WiringInv, NEW x \in Object, NEW v \in Vm, x # v, Transaction(x), Only(x), NicInv(v)
  PROVE  NicInv(v)'
<1>1. v \in Object /\ pass'[v] = pass[v]
  BY ObjectAssumption DEF Only
<1>2. At(v, "port") => pass[v].handle.id \in Handles
  BY <1>1 DEF NicInv, Handles
<1>3. ~OwnPort(x, v)
  BY <1>1, NamesDiffer, SoughtOwn
<1>4. QED
  BY <1>1, <1>2, <1>3 DEF NicInv, Transaction, At

\* So a step of the pass of x keeps the invariant if it keeps what concerns x.
LEMMA TransactionStep ==
  ASSUME WiringInv, NEW x \in Object, Typed(Stage, Fields, Handle)', Only(x),
         PassInv(x, Updating, Removing)', SoughtInv(x)', CoveredInv(x)',
         x \in Vm => NicInv(x)', TablesInv', Transaction(x)
  PROVE  WiringInv'
<1>1. \A y \in Object : PassInv(y, Updating, Removing)'
  BY OnlyInv, Parts
<1>2. \A y \in Object : SoughtInv(y)' /\ CoveredInv(y)'
  BY OthersUndisturbed, Parts
<1>3. \A v \in Vm : NicInv(v)'
  BY NicsUndisturbed, Parts
<1>4. QED
  BY <1>1, <1>2, <1>3, NextParts

\* In particular, a step that leaves the tables alone.
LEMMA NoTransaction ==
  ASSUME WiringInv, UNCHANGED tables, NEW x
  PROVE  TablesInv' /\ Transaction(x)
<1>1. /\ switches' = switches /\ routers' = routers /\ ports' = ports
      /\ routerPorts' = routerPorts
  BY DEF tables
<1>2. Transaction(x)
  BY <1>1 DEF Transaction, Exists
<1>3. TablesInv'
  BY <1>1, Parts DEF TablesInv, HasOwner, IsRow, UniqueRows, Unique, NicRowInv
<1>4. QED
  BY <1>2, <1>3

-----------------------------------------------------------------------------
(* Transactions                                                            *)

LEMMA FiniteImage ==
  ASSUME NEW S, IsFiniteSet(S), NEW f, f \in [S -> {f[x] : x \in S}]
  PROVE  IsFiniteSet({f[x] : x \in S})
<1>1. f \in Surjection(S, {f[x] : x \in S})
  BY DEF Surjection
<1>2. QED
  BY <1>1, FS_Surjection

\* A new uuid is one that no row and no handle has.
LEMMA FreshId ==
  ASSUME NEW table, IsFiniteSet(table), NEW handles, IsFiniteSet(handles)
  PROVE  /\ NewId(table, handles) \in Nat
         /\ NewId(table, handles) \notin handles
         /\ \A row \in table : row.id # NewId(table, handles)
<1> DEFINE f == [row \in table |-> row.id]
           ids == {row.id : row \in table}
           used == ids \cup handles
           n == Cardinality(used) + 1
<1>1. IsFiniteSet(ids)
  <2>1. f \in Surjection(table, ids)
    BY DEF Surjection
  <2> HIDE DEF f, ids
  <2>2. QED
    BY <2>1, FS_Surjection
<1>2. IsFiniteSet(used)
  <2> HIDE DEF ids
  <2>1. QED
    BY <1>1, FS_Union
<1>3. Cardinality(used) \in Nat
  <2> HIDE DEF used
  <2>1. QED
    BY <1>2, FS_CardinalityType
<1>4. \E i \in 1 .. n : i \notin used
  <2>1. SUFFICES ASSUME 1 .. n \subseteq used PROVE FALSE
    OBVIOUS
  <2> HIDE DEF used
  <2>2. Cardinality(1 .. n) = n
    BY <1>3, FS_Interval
  <2>3. Cardinality(1 .. n) <= Cardinality(used)
    BY <1>2, <2>1, FS_Subset
  <2>4. QED
    BY <1>3, <2>2, <2>3
<1>5. NewId(table, handles) = CHOOSE i \in 1 .. n : i \notin used
  BY DEF NewId
<1>6. NewId(table, handles) \in 1 .. n /\ NewId(table, handles) \notin used
  BY <1>4, <1>5
<1>7. QED
  BY <1>3, <1>6

LEMMA HandlesFinite == IsFiniteSet(Handles)
<1> DEFINE D == {y \in Object : pass[y].handle # None}
           f == [x \in D |-> pass[x].handle.id]
<1>1. IsFiniteSet(D)
  BY ObjectAssumption, FS_Subset
<1>2. {f[x] : x \in D} = Handles /\ f \in [D -> {f[x] : x \in D}]
  BY DEF Handles
<1> HIDE DEF f, D
<1>3. QED
  BY <1>1, <1>2, FiniteImage

\* Insertions of rows that are not there.
LEMMA InsertSwitchStep ==
  ASSUME TablesInv, NEW x, NEW name \in SwitchName, OwnSwitch(x, name),
         ~Exists(switches, name), InsertSwitch(name, Handles)
  PROVE  TablesInv' /\ Transaction(x)
<1> DEFINE i == NewId(switches, Handles)
           new == [id |-> i, name |-> name, subnet |-> FALSE]
<1>1. i \in Nat /\ i \notin Handles /\ \A row \in switches : row.id # i
  BY FreshId, HandlesFinite DEF TablesInv
<1>2. /\ switches' = switches \cup {new}
      /\ routers' = routers /\ ports' = ports /\ routerPorts' = routerPorts
  BY DEF InsertSwitch
<1>3. new \in SwitchRow /\ new.id = i /\ new.name = name
  BY <1>1 DEF SwitchRow
<1> HIDE DEF new, i
<1>4. IsFiniteSet(switches')
  BY <1>2, FS_AddElement DEF TablesInv
<1>5. Transaction(x)
  BY <1>1, <1>2, <1>3 DEF Transaction, Exists
<1>6. /\ switches' \subseteq SwitchRow
      /\ \A a, b \in switches' : a.id = b.id => a = b
      /\ Unique(switches)'
  BY <1>1, <1>2, <1>3 DEF TablesInv, UniqueRows, Unique, Exists
<1>7. \A p \in ports' : HasOwner(p)'
  BY <1>2 DEF TablesInv, HasOwner, IsRow
<1>8. QED
  BY <1>2, <1>4, <1>5, <1>6, <1>7 DEF TablesInv, UniqueRows, Unique, NicRowInv

LEMMA InsertRouterStep ==
  ASSUME TablesInv, NEW x, NEW name \in Router, OwnRouter(x, name),
         ~Exists(routers, name), InsertRouter(name, NoRoutes, Handles)
  PROVE  TablesInv' /\ Transaction(x)
<1> DEFINE i == NewId(routers, Handles)
           new == [id |-> i, name |-> name, routes |-> NoRoutes]
<1>1. i \in Nat /\ \A row \in routers : row.id # i
  BY FreshId, HandlesFinite DEF TablesInv
<1>2. /\ routers' = routers \cup {new}
      /\ switches' = switches /\ ports' = ports /\ routerPorts' = routerPorts
  BY DEF InsertRouter
<1>3. NoRoutes \in RouteSpec
  BY RouteAssumption DEF NoRoutes
<1>4. NoRoutes \in [DOMAIN NoRoutes -> Nat]
  BY <1>3, RouteAssumption
<1>5. new \in LogicalRouter /\ new.id = i /\ new.name = name
  BY <1>1, <1>4 DEF LogicalRouter
<1> HIDE DEF new, i
<1>6. IsFiniteSet(routers')
  BY <1>2, FS_AddElement DEF TablesInv
<1>7. Transaction(x)
  BY <1>2, <1>5 DEF Transaction, Exists
<1>8. /\ routers' \subseteq LogicalRouter
      /\ \A a, b \in routers' : a.id = b.id => a = b
      /\ Unique(routers)'
  BY <1>1, <1>2, <1>5 DEF TablesInv, UniqueRows, Unique, Exists
<1>9. QED
  BY <1>2, <1>6, <1>7, <1>8 DEF TablesInv, UniqueRows, Unique, NicRowInv, HasOwner, IsRow

\* A port is inserted on a switch that is there, or not at all.
LEMMA InsertPortStep ==
  ASSUME TablesInv, NEW x, NEW STATE switch, NEW name \in PortName, NEW ip \in Ip,
         OwnPort(x, name), ~Exists(ports, name),
         name \in Vm => \A s \in switches : s.id = switch.id => s.name = NicNetwork[name],
         InsertPort(switch, name, ip)
  PROVE  TablesInv' /\ Transaction(x)
<1> DEFINE i == NewId(ports, {})
           new == [id |-> i, owner |-> switch.id, name |-> name, mac |-> NoMac, ip |-> ip,
                   dhcp |-> FALSE]
<1>1. i \in Nat
  BY FreshId, FS_EmptySet DEF TablesInv
<1>2. switches' = switches /\ routers' = routers /\ routerPorts' = routerPorts
  BY DEF InsertPort, IsRow
<1>3. CASE \E s \in switches : s.id = switch.id
  <2>1. ports' = ports \cup {new}
    BY <1>3 DEF InsertPort, IsRow
  <2>2. switch.id \in Nat
    BY <1>3 DEF TablesInv, SwitchRow
  <2>3. new \in PortRow /\ new.owner = switch.id /\ new.name = name
    BY <1>1, <2>2 DEF PortRow
  <2> HIDE DEF new, i
  <2>4. IsFiniteSet(ports')
    BY <2>1, FS_AddElement DEF TablesInv
  <2>5. Transaction(x)
    BY <1>2, <2>1, <2>3 DEF Transaction, Exists
  <2>6. /\ ports' \subseteq PortRow
        /\ Unique(ports)'
        /\ \A p \in ports' : HasOwner(p)'
    BY <1>2, <1>3, <2>1, <2>3 DEF TablesInv, UniqueRows, Unique, Exists, HasOwner, IsRow
  <2>7. NicRowInv'
    BY <1>2, <1>3, <2>1, <2>3 DEF TablesInv, NicRowInv
  <2>8. QED
    BY <1>2, <2>4, <2>5, <2>6, <2>7 DEF TablesInv, UniqueRows, Unique
<1>4. CASE ~\E s \in switches : s.id = switch.id
  <2>1. ports' = ports
    BY <1>4 DEF InsertPort, IsRow
  <2>2. QED
    BY <1>2, <2>1 DEF TablesInv, UniqueRows, Unique, NicRowInv, HasOwner, IsRow, Transaction, Exists
<1>5. QED
  BY <1>3, <1>4

LEMMA InsertRouterPortStep ==
  ASSUME TablesInv, NEW x, NEW STATE router, NEW name \in Router \X SwitchName,
         OwnRouterPort(x, name), ~Exists(routerPorts, name), InsertRouterPort(router, name)
  PROVE  TablesInv' /\ Transaction(x)
<1> DEFINE i == NewId(routerPorts, {})
           new == [id |-> i, owner |-> router.id, name |-> name]
<1>1. i \in Nat
  BY FreshId, FS_EmptySet DEF TablesInv
<1>2. switches' = switches /\ routers' = routers /\ ports' = ports
  BY DEF InsertRouterPort, IsRow
<1>3. CASE \E r \in routers : r.id = router.id
  <2>1. routerPorts' = routerPorts \cup {new}
    BY <1>3 DEF InsertRouterPort, IsRow
  <2>2. router.id \in Nat
    BY <1>3 DEF TablesInv, LogicalRouter
  <2>3. new \in RouterPortRow /\ new.owner = router.id /\ new.name = name
    BY <1>1, <2>2 DEF RouterPortRow
  <2> HIDE DEF new, i
  <2>4. IsFiniteSet(routerPorts')
    BY <2>1, FS_AddElement DEF TablesInv
  <2>5. Transaction(x)
    BY <1>2, <2>1, <2>3 DEF Transaction, Exists
  <2>6. /\ routerPorts' \subseteq RouterPortRow
        /\ Unique(routerPorts)'
        /\ \A p \in routerPorts' : \E r \in routers' : r.id = p.owner
    BY <1>2, <1>3, <2>1, <2>3 DEF TablesInv, UniqueRows, Unique, Exists
  <2>7. QED
    BY <1>2, <2>4, <2>5, <2>6 DEF TablesInv, UniqueRows, Unique, NicRowInv, HasOwner, IsRow
<1>4. CASE ~\E r \in routers : r.id = router.id
  <2>1. routerPorts' = routerPorts
    BY <1>4 DEF InsertRouterPort, IsRow
  <2>2. QED
    BY <1>2, <2>1 DEF TablesInv, UniqueRows, Unique, NicRowInv, HasOwner, IsRow, Transaction, Exists
<1>5. QED
  BY <1>3, <1>4

\* Deletions: the ports go with the row they are on.
LEMMA DeleteSwitchStep ==
  ASSUME TablesInv, NEW x, NEW STATE id, DeleteSwitch(id)
  PROVE  TablesInv' /\ Transaction(x)
<1>1. /\ switches' = {s \in switches : s.id # id} /\ ports' = {p \in ports : p.owner # id}
      /\ routers' = routers /\ routerPorts' = routerPorts
  BY DEF DeleteSwitch
<1>2. IsFiniteSet(switches') /\ IsFiniteSet(ports')
  BY <1>1, FS_Subset DEF TablesInv
<1>3. \A p \in ports' : HasOwner(p)'
  BY <1>1 DEF TablesInv, HasOwner, IsRow
<1>4. NicRowInv'
  BY <1>1 DEF TablesInv, NicRowInv
<1>5. Transaction(x)
  BY <1>1 DEF Transaction, Exists
<1>6. QED
  BY <1>1, <1>2, <1>3, <1>4, <1>5 DEF TablesInv, UniqueRows, Unique

LEMMA DeleteRouterStep ==
  ASSUME TablesInv, NEW x, NEW STATE id, DeleteRouter(id)
  PROVE  TablesInv' /\ Transaction(x)
<1>1. /\ routers' = {r \in routers : r.id # id}
      /\ routerPorts' = {p \in routerPorts : p.owner # id}
      /\ switches' = switches /\ ports' = ports
  BY DEF DeleteRouter
<1>2. IsFiniteSet(routers') /\ IsFiniteSet(routerPorts')
  BY <1>1, FS_Subset DEF TablesInv
<1>3. \A p \in routerPorts' : \E r \in routers' : r.id = p.owner
  BY <1>1 DEF TablesInv
<1>4. Transaction(x)
  BY <1>1 DEF Transaction, Exists
<1>5. QED
  BY <1>1, <1>2, <1>3, <1>4 DEF TablesInv, UniqueRows, Unique, HasOwner, IsRow, NicRowInv

LEMMA DeletePortStep ==
  ASSUME TablesInv, NEW x, NEW STATE switch, NEW STATE port, DeletePort(switch, port)
  PROVE  TablesInv' /\ Transaction(x)
<1>1. /\ ports' \subseteq ports
      /\ switches' = switches /\ routers' = routers /\ routerPorts' = routerPorts
  BY DEF DeletePort
<1>2. IsFiniteSet(ports')
  BY <1>1, FS_Subset DEF TablesInv
<1>3. Transaction(x)
  BY <1>1 DEF Transaction, Exists
<1>4. QED
  BY <1>1, <1>2, <1>3 DEF TablesInv, UniqueRows, Unique, HasOwner, IsRow, NicRowInv

\* Updates of rows in place, by a function e that leaves ids and names alone.
LEMMA SwitchesUpdated ==
  ASSUME TablesInv, NEW x, NEW STATE e, e \in [switches -> SwitchRow],
         \A s \in switches : e[s].id = s.id /\ e[s].name = s.name,
         switches' = {e[s] : s \in switches},
         UNCHANGED <<routers, ports, routerPorts>>
  PROVE  TablesInv' /\ Transaction(x)
<1>1. routers' = routers /\ ports' = ports /\ routerPorts' = routerPorts
  OBVIOUS
<1>2. e \in Surjection(switches, switches')
  BY DEF Surjection
<1>3. IsFiniteSet(switches')
  BY <1>2, FS_Surjection DEF TablesInv
<1>4. \A p \in ports' : HasOwner(p)'
  BY <1>1 DEF TablesInv, HasOwner, IsRow
<1>5. NicRowInv'
  BY <1>1 DEF TablesInv, NicRowInv
<1>6. Transaction(x)
  BY <1>1 DEF Transaction, Exists
<1>7. /\ switches' \subseteq SwitchRow
      /\ \A a, b \in switches' : a.id = b.id => a = b
      /\ Unique(switches)'
  BY DEF TablesInv, UniqueRows, Unique
<1>8. QED
  BY <1>1, <1>3, <1>4, <1>5, <1>6, <1>7 DEF TablesInv, UniqueRows, Unique

LEMMA RoutersUpdated ==
  ASSUME TablesInv, NEW x, NEW STATE e, e \in [routers -> LogicalRouter],
         \A r \in routers : e[r].id = r.id /\ e[r].name = r.name,
         routers' = {e[r] : r \in routers},
         UNCHANGED <<switches, ports, routerPorts>>
  PROVE  TablesInv' /\ Transaction(x)
<1>1. switches' = switches /\ ports' = ports /\ routerPorts' = routerPorts
  OBVIOUS
<1>2. e \in Surjection(routers, routers')
  BY DEF Surjection
<1>3. IsFiniteSet(routers')
  BY <1>2, FS_Surjection DEF TablesInv
<1>4. \A p \in routerPorts' : \E r \in routers' : r.id = p.owner
  BY <1>1 DEF TablesInv
<1>5. Transaction(x)
  BY <1>1 DEF Transaction, Exists
<1>6. /\ routers' \subseteq LogicalRouter
      /\ \A a, b \in routers' : a.id = b.id => a = b
      /\ Unique(routers)'
  BY DEF TablesInv, UniqueRows, Unique
<1>7. QED
  BY <1>1, <1>3, <1>4, <1>5, <1>6 DEF TablesInv, UniqueRows, Unique, HasOwner, IsRow, NicRowInv

LEMMA PortsUpdated ==
  ASSUME TablesInv, NEW x, NEW STATE e, e \in [ports -> PortRow],
         \A p \in ports : e[p].name = p.name /\ e[p].owner = p.owner,
         ports' = {e[p] : p \in ports},
         UNCHANGED <<switches, routers, routerPorts>>
  PROVE  TablesInv' /\ Transaction(x)
<1>1. switches' = switches /\ routers' = routers /\ routerPorts' = routerPorts
  OBVIOUS
<1>2. e \in Surjection(ports, ports')
  BY DEF Surjection
<1>3. IsFiniteSet(ports')
  BY <1>2, FS_Surjection DEF TablesInv
<1>4. \A p \in ports' : HasOwner(p)'
  BY <1>1 DEF TablesInv, HasOwner, IsRow
<1>5. NicRowInv'
  BY <1>1 DEF TablesInv, NicRowInv
<1>6. Transaction(x)
  BY <1>1 DEF Transaction, Exists
<1>7. ports' \subseteq PortRow /\ Unique(ports)'
  BY DEF TablesInv, UniqueRows, Unique
<1>8. QED
  BY <1>1, <1>3, <1>4, <1>5, <1>6, <1>7 DEF TablesInv, UniqueRows, Unique

\* The updates of the client are of that kind.
LEMMA SetCidrStep ==
  ASSUME TablesInv, NEW x, NEW STATE id, SetCidr(id)
  PROVE  TablesInv' /\ Transaction(x)
<1> DEFINE e == [s \in switches |-> IF s.id = id THEN [s EXCEPT !.subnet = TRUE] ELSE s]
<1>1. /\ e \in [switches -> SwitchRow]
      /\ \A s \in switches : e[s].id = s.id /\ e[s].name = s.name
  <2>1. ASSUME NEW s \in SwitchRow
        PROVE  /\ [s EXCEPT !.subnet = TRUE] \in SwitchRow
               /\ [s EXCEPT !.subnet = TRUE].id = s.id
               /\ [s EXCEPT !.subnet = TRUE].name = s.name
    BY DEF SwitchRow
  <2>2. QED
    BY <2>1 DEF TablesInv
<1>2. switches' = {e[s] : s \in switches} /\ UNCHANGED <<routers, ports, routerPorts>>
  BY DEF SetCidr
<1> HIDE DEF e
<1>3. QED
  BY <1>1, <1>2, SwitchesUpdated

LEMMA SetAddressStep ==
  ASSUME TablesInv, NEW x, NEW STATE name, NEW STATE mac, NEW STATE ip,
         mac \in {NoMac} \cup {Mac[v] : v \in Vm} \cup SwitchName, ip \in Ip,
         SetAddress(name, mac, ip)
  PROVE  TablesInv' /\ Transaction(x)
<1> DEFINE e == [p \in ports |-> IF p.name = name THEN [p EXCEPT !.mac = mac, !.ip = ip] ELSE p]
<1>1. /\ e \in [ports -> PortRow]
      /\ \A p \in ports : e[p].name = p.name /\ e[p].owner = p.owner
  <2>1. ASSUME NEW p \in PortRow
        PROVE  /\ [p EXCEPT !.mac = mac, !.ip = ip] \in PortRow
               /\ [p EXCEPT !.mac = mac, !.ip = ip].name = p.name
               /\ [p EXCEPT !.mac = mac, !.ip = ip].owner = p.owner
    BY DEF PortRow
  <2>2. QED
    BY <2>1 DEF TablesInv
<1>2. ports' = {e[p] : p \in ports} /\ UNCHANGED <<switches, routers, routerPorts>>
  BY DEF SetAddress
<1> HIDE DEF e
<1>3. QED
  BY <1>1, <1>2, PortsUpdated

LEMMA SetDhcpOptionsStep ==
  ASSUME TablesInv, NEW x, NEW STATE name, SetDhcpOptions(name)
  PROVE  TablesInv' /\ Transaction(x)
<1> DEFINE e == [p \in ports |-> IF p.name = name THEN [p EXCEPT !.dhcp = TRUE] ELSE p]
<1>1. /\ e \in [ports -> PortRow]
      /\ \A p \in ports : e[p].name = p.name /\ e[p].owner = p.owner
  <2>1. ASSUME NEW p \in PortRow
        PROVE  /\ [p EXCEPT !.dhcp = TRUE] \in PortRow
               /\ [p EXCEPT !.dhcp = TRUE].name = p.name
               /\ [p EXCEPT !.dhcp = TRUE].owner = p.owner
    BY DEF PortRow
  <2>2. QED
    BY <2>1 DEF TablesInv
<1>2. ports' = {e[p] : p \in ports} /\ UNCHANGED <<switches, routers, routerPorts>>
  BY DEF SetDhcpOptions
<1> HIDE DEF e
<1>3. QED
  BY <1>1, <1>2, PortsUpdated

LEMMA SetRoutesStep ==
  ASSUME TablesInv, NEW x, NEW STATE name, NEW STATE wanted, wanted \in RouteSpec,
         SetRoutes(name, wanted)
  PROVE  TablesInv' /\ Transaction(x)
<1> DEFINE e == [r \in routers |->
                  IF r.name = name THEN [r EXCEPT !.routes = RouteDiff(@, wanted)] ELSE r]
<1>1. wanted \in [DOMAIN NoRoutes -> Nat]
  BY RouteAssumption DEF NoRoutes
<1>2. ASSUME NEW old \in [DOMAIN NoRoutes -> Nat]
      PROVE  RouteDiff(old, wanted) \in [DOMAIN NoRoutes -> Nat]
  BY <1>1, <1>2 DEF RouteDiff
<1>3. ASSUME NEW r \in routers
      PROVE  /\ [r EXCEPT !.routes = RouteDiff(@, wanted)] \in LogicalRouter
             /\ [r EXCEPT !.routes = RouteDiff(@, wanted)].id = r.id
             /\ [r EXCEPT !.routes = RouteDiff(@, wanted)].name = r.name
  <2> DEFINE diff == RouteDiff(r.routes, wanted)
  <2>1. r \in LogicalRouter
    BY DEF TablesInv
  <2>2. diff \in [DOMAIN NoRoutes -> Nat]
    BY <1>2, <2>1 DEF LogicalRouter
  <2> HIDE DEF diff
  <2>3. [r EXCEPT !.routes = diff] \in LogicalRouter
    BY <2>1, <2>2 DEF LogicalRouter
  <2>4. [r EXCEPT !.routes = diff].id = r.id /\ [r EXCEPT !.routes = diff].name = r.name
    BY <2>1 DEF LogicalRouter
  <2>5. QED
    BY <2>3, <2>4 DEF diff
<1>4. /\ e \in [routers -> LogicalRouter]
      /\ \A r \in routers : e[r].id = r.id /\ e[r].name = r.name
  BY <1>3 DEF TablesInv
<1>5. routers' = {e[r] : r \in routers} /\ UNCHANGED <<switches, ports, routerPorts>>
  BY DEF SetRoutes
<1> HIDE DEF e
<1>6. QED
  BY <1>4, <1>5, RoutersUpdated

\* The options of a cidr are in a table of their own.
LEMMA InsertDhcpStep ==
  ASSUME TablesInv, NEW x, NEW cidr, InsertDhcp(cidr)
  PROVE  TablesInv' /\ Transaction(x)
<1>1. /\ switches' = switches /\ routers' = routers /\ ports' = ports
      /\ routerPorts' = routerPorts
  BY DEF InsertDhcp
<1>2. Transaction(x)
  BY <1>1 DEF Transaction, Exists
<1>3. QED
  BY <1>1, <1>2 DEF TablesInv, HasOwner, IsRow, UniqueRows, Unique, NicRowInv

-----------------------------------------------------------------------------
(* Passes                                                                  *)

\* The pass of x goes on, on the same copy.
Moves(x, next) ==
  /\ pass' \in Passes(Stage, Fields, Handle)
  /\ pass'[x].at = next
  /\ pass'[x].copy = pass[x].copy /\ pass'[x].fresh = pass[x].fresh
  /\ \A y \in Object \ {x} : pass'[y] = pass[y]

LEMMA ContinueMoves ==
  ASSUME WiringInv, NEW x \in Object, NEW STATE next, next \in Stage, Continue(x, next)
  PROVE  /\ Moves(x, next)
         /\ pass'[x].missing => pass[x].missing
         /\ pass'[x].handle = pass[x].handle
<1>1. pass \in Passes(Stage, Fields, Handle)
  BY Parts DEF Typed
<1>2. /\ pass' \in Passes(Stage, Fields, Handle)
      /\ pass'[x] = [pass[x] EXCEPT !.at = next]
      /\ \A y \in Object \ {x} : pass'[y] = pass[y]
  BY <1>1, ContinueEffect
<1>3. /\ pass'[x].at = next
      /\ pass'[x].copy = pass[x].copy /\ pass'[x].fresh = pass[x].fresh
      /\ (pass'[x].missing => pass[x].missing)
      /\ pass'[x].handle = pass[x].handle
  BY <1>1, <1>2 DEF Passes
<1>4. QED
  BY <1>2, <1>3 DEF Moves

LEMMA HoldMoves ==
  ASSUME WiringInv, NEW x \in Object, NEW STATE row, row \in Handle,
         NEW STATE next, next \in Stage, Hold(x, row, next)
  PROVE  /\ Moves(x, next)
         /\ pass'[x].missing => pass[x].missing
         /\ pass'[x].handle = row
<1> DEFINE new == [pass[x] EXCEPT !.at = next, !.handle = row]
<1>1. pass \in Passes(Stage, Fields, Handle)
  BY Parts DEF Typed
<1>2. /\ new \in [at: Stage, copy: Fields \cup {None}, fresh: BOOLEAN, missing: BOOLEAN,
                  handle: Handle]
      /\ new.at = next /\ new.copy = pass[x].copy /\ new.fresh = pass[x].fresh
      /\ (new.missing => pass[x].missing) /\ new.handle = row
  BY <1>1 DEF Passes
<1>3. pass' = [pass EXCEPT ![x] = new]
  BY <1>1 DEF Hold, Passes
<1> HIDE DEF new
<1>4. pass' \in Passes(Stage, Fields, Handle) /\ pass'[x] = new
      /\ \A y \in Object \ {x} : pass'[y] = pass[y]
  BY <1>1, <1>2, <1>3 DEF Passes
<1>5. QED
  BY <1>2, <1>4 DEF Moves

LEMMA SeekMoves ==
  ASSUME WiringInv, NEW x \in Object, NEW STATE missing, missing \in BOOLEAN,
         NEW STATE next, next \in Stage,
         pass' = [pass EXCEPT ![x].missing = missing, ![x].at = next]
  PROVE  /\ Moves(x, next)
         /\ pass'[x].missing => missing
         /\ pass'[x].handle = pass[x].handle
<1> DEFINE new == [pass[x] EXCEPT !.missing = missing, !.at = next]
<1>1. pass \in Passes(Stage, Fields, Handle)
  BY Parts DEF Typed
<1>2. /\ new \in [at: Stage, copy: Fields \cup {None}, fresh: BOOLEAN, missing: BOOLEAN,
                  handle: Handle]
      /\ new.at = next /\ new.copy = pass[x].copy /\ new.fresh = pass[x].fresh
      /\ (new.missing => missing) /\ new.handle = pass[x].handle
  BY <1>1 DEF Passes
<1>3. pass' = [pass EXCEPT ![x] = new]
  BY <1>1 DEF Passes
<1> HIDE DEF new
<1>4. pass' \in Passes(Stage, Fields, Handle) /\ pass'[x] = new
      /\ \A y \in Object \ {x} : pass'[y] = pass[y]
  BY <1>1, <1>2, <1>3 DEF Passes
<1>5. QED
  BY <1>2, <1>4 DEF Moves

\* A pass of update_fn goes on: the object carries the finalizer, so whatever
\* rows it has are covered.
LEMMA UpdateStep ==
  ASSUME WiringInv, NEW x \in Object, NEW STATE next, next \in Updating,
         pass[x].at \in Updating, Moves(x, next), UNCHANGED <<obj, cache>>,
         TablesInv', Transaction(x),
         SoughtInv(x)', x \in Vm => NicInv(x)'
  PROVE  WiringInv'
<1>1. PassInv(x, Updating, Removing) /\ Typed(Stage, Fields, Handle)
  BY Parts
<1>2. Typed(Stage, Fields, Handle)' /\ Only(x) /\ PassInv(x, Updating, Removing)'
  BY <1>1, Shape, ContinueInv DEF Moves
<1>3. pass[x].at \in Updating /\ "unfinalize" \notin Updating
  BY DEF Updating
<1>4. CoveredInv(x)'
  BY <1>1, <1>3 DEF CoveredInv, PassInv, Claimed, At, Moves
<1>5. QED
  BY <1>2, <1>4, TransactionStep

\* A pass of remove_fn goes on: it comes to unfinalize only when the object has
\* no row left.
LEMMA RemoveStep ==
  ASSUME WiringInv, NEW x \in Object, NEW STATE next, next \in Removing,
         pass[x].at \in Removing, Moves(x, next), ~pass'[x].missing, UNCHANGED <<obj, cache>>,
         TablesInv', Transaction(x), HasRow(x)' => HasRow(x) /\ next # "unfinalize",
         x \in Vm => NicInv(x)'
  PROVE  WiringInv'
<1>1. PassInv(x, Updating, Removing) /\ Typed(Stage, Fields, Handle) /\ CoveredInv(x)
  BY Parts
<1>2. Typed(Stage, Fields, Handle)' /\ Only(x) /\ PassInv(x, Updating, Removing)'
  BY <1>1, Shape, ContinueInv DEF Moves
<1>3. CoveredInv(x)'
  BY <1>1 DEF CoveredInv, Claimed, At, Moves
<1>4. SoughtInv(x)'
  BY DEF SoughtInv, Moves, Removing
<1>5. QED
  BY <1>2, <1>3, <1>4, TransactionStep

\* A pass ends, with an error or done.
LEMMA EndStep ==
  ASSUME WiringInv, NEW x \in Object, End(x), UNCHANGED <<obj, cache>>, UNCHANGED tables
  PROVE  WiringInv'
<1>1. /\ Typed(Stage, Fields, Handle)' /\ Only(x) /\ PassInv(x, Updating, Removing)'
      /\ pass'[x].at = "idle" /\ ~pass'[x].missing
  BY EndInv, Parts, Shape
<1>2. switches' = switches /\ routers' = routers /\ ports' = ports
  BY DEF tables
<1>3. CoveredInv(x)
  BY Parts
<1>4. SoughtInv(x)' /\ NicInv(x)'
  BY <1>1 DEF SoughtInv, NicInv, At
<1>5. CoveredInv(x)'
  BY <1>1, <1>2, <1>3 DEF CoveredInv, HasRow, Exists, Claimed, At
<1>6. QED
  BY <1>1, <1>4, <1>5, TransactionStep, NoTransaction

\* The forms that most steps have.  Where the pass of x may go in update_fn.
Leads(x, next) ==
  /\ next \in Updating
  /\ next \in {"routerPort", "peer"} => Connects(x)
  /\ x \in Vm => next # "port"

LEMMA ContinueStep ==
  ASSUME WiringInv, NEW x \in Object, NEW STATE next, Leads(x, next),
         pass[x].at \in Updating, ~pass[x].missing, Continue(x, next), UNCHANGED <<obj, cache>>,
         TablesInv', Transaction(x)
  PROVE  WiringInv'
<1>1. next \in Stage
  BY DEF Leads, Stage
<1>2. Moves(x, next) /\ ~pass'[x].missing
  BY <1>1, ContinueMoves
<1>3. SoughtInv(x)' /\ (x \in Vm => NicInv(x)')
  BY <1>2 DEF SoughtInv, NicInv, At, Moves, Leads, Updating
<1>4. QED
  BY <1>2, <1>3, UpdateStep DEF Leads

\* The lookup of create_if_missing, where the name has just been found or not,
LEMMA SeekStep ==
  ASSUME WiringInv, NEW x \in Object, NEW STATE table, NEW name, NEW STATE next,
         Leads(x, next), pass[x].at \in Updating, ~pass[x].missing,
         pass' = [pass EXCEPT ![x].missing = ~Exists(table, name),
                              ![x].at = IF Exists(table, name) THEN next ELSE @],
         UNCHANGED <<obj, cache>>, UNCHANGED tables,
         ~Exists(table, name) =>
           \/ At(x, "row") /\ x \in Network /\ ~Exists(switches, x)
           \/ At(x, "row") /\ x \in Router /\ ~Exists(routers, x)
           \/ At(x, "mdsSwitch") /\ x \in DOMAIN MdsSwitch /\ ~Exists(switches, MdsSwitch[x])
           \/ At(x, "routerPort") /\ ~Exists(routerPorts, <<RouterOf(x), SwitchOf(x)>>)
           \/ At(x, "peer") /\ ~Exists(ports, <<SwitchOf(x), RouterOf(x)>>)
           \/ At(x, "mdsPort") /\ x \in DOMAIN MdsSwitch /\ ~Exists(ports, MdsSwitch[x])
           \/ At(x, "port") /\ x \in Vm /\ ~Exists(ports, x)
  PROVE  WiringInv'
<1>1. TablesInv' /\ Transaction(x)
  BY NoTransaction
<1>2. /\ switches' = switches /\ routers' = routers /\ ports' = ports
      /\ routerPorts' = routerPorts
  BY DEF tables
<1>3. next \in Stage /\ pass[x].at \in Stage
  BY DEF Leads, Stage
<1>4. SoughtInv(x) /\ (x \in Vm => NicInv(x)) /\ pass \in Passes(Stage, Fields, Handle)
  BY Parts DEF Typed
<1>5. CASE Exists(table, name)
  <2>1. pass' = [pass EXCEPT ![x].missing = FALSE, ![x].at = next]
    BY <1>4, <1>5 DEF Passes
  <2>2. Moves(x, next) /\ ~pass'[x].missing
    BY <1>3, <2>1, SeekMoves
  <2>3. SoughtInv(x)' /\ (x \in Vm => NicInv(x)')
    BY <2>2 DEF SoughtInv, NicInv, At, Moves, Leads, Updating
  <2>4. QED
    BY <1>1, <2>2, <2>3, UpdateStep DEF Leads
<1>6. CASE ~Exists(table, name)
  <2> DEFINE here == pass[x].at
  <2>1. pass' = [pass EXCEPT ![x].missing = TRUE, ![x].at = here]
    BY <1>4, <1>6 DEF Passes
  <2>2. Moves(x, here) /\ pass'[x].handle = pass[x].handle
    BY <1>3, <2>1, SeekMoves
  <2>3. pass'[x].at = pass[x].at
    BY <2>2 DEF Moves
  <2>4. SoughtInv(x)'
    BY <1>2, <1>4, <1>6, <2>3 DEF SoughtInv, At, Exists
  <2>5. x \in Vm => NicInv(x)'
    BY <1>2, <1>4, <2>2, <2>3 DEF NicInv, At
  <2> HIDE DEF here
  <2>6. QED
    BY <1>1, <2>2, <2>4, <2>5, UpdateStep DEF here
<1>7. QED
  BY <1>5, <1>6

\* ... and the insertion.
LEMMA InsertStep ==
  ASSUME WiringInv, NEW x \in Object, NEW STATE next, Leads(x, next),
         pass[x].at \in Updating,
         pass' = [pass EXCEPT ![x] = [@ EXCEPT !.missing = FALSE, !.at = next]],
         UNCHANGED <<obj, cache>>, TablesInv', Transaction(x)
  PROVE  WiringInv'
<1>1. next \in Stage
  BY DEF Leads, Stage
<1>2. Moves(x, next) /\ ~pass'[x].missing
  <2>1. pass' = [pass EXCEPT ![x].missing = FALSE, ![x].at = next]
    BY Parts DEF Typed, Passes
  <2>2. QED
    BY <1>1, <2>1, SeekMoves
<1>3. SoughtInv(x)' /\ (x \in Vm => NicInv(x)')
  BY <1>2 DEF SoughtInv, NicInv, At, Moves, Leads, Updating
<1>4. QED
  BY <1>2, <1>3, UpdateStep DEF Leads

\* get_by_name returns a row of the table, if there is one with the name.
LEMMA Found ==
  ASSUME NEW table, NEW name, Exists(table, name)
  PROVE  GetByName(table, name) \in table /\ GetByName(table, name).name = name
BY DEF Exists, GetByName

\* A pass seeks nothing outside create_if_missing.
LEMMA NothingSought ==
  ASSUME WiringInv, NEW x \in Object,
         pass[x].at \notin {"row", "mdsSwitch", "routerPort", "peer", "mdsPort", "port"}
  PROVE  ~pass[x].missing
BY Parts DEF SoughtInv, At

-----------------------------------------------------------------------------
(* Connecting a switch and a router                                        *)

LEMMA ConnectRouterPortStep ==
  ASSUME WiringInv, NEW x \in Object, NEW STATE router,
         ConnectRouterPort(x, RouterOf(x), SwitchOf(x), router)
  PROVE  WiringInv'
<1> DEFINE name == <<RouterOf(x), SwitchOf(x)>>
<1>1. TablesInv /\ SoughtInv(x)
  BY Parts
<1>2. At(x, "routerPort") /\ UNCHANGED <<obj, cache>>
  BY DEF ConnectRouterPort
<1>3. Connects(x) /\ OwnRouterPort(x, name) /\ name \in Router \X SwitchName
  BY <1>1, <1>2, SoughtOwn, Connected DEF SoughtInv, At
<1>4. Leads(x, "peer") /\ pass[x].at \in Updating
  BY <1>2, <1>3 DEF Leads, Updating, At
<1>5. CASE pass[x].missing
  <2>1. ~Exists(routerPorts, name)
    BY <1>1, <1>2, <1>5 DEF SoughtInv, At
  <2>2. InsertRouterPort(router, name)
        /\ IF IsRow(routers, router.id)
             THEN pass' = [pass EXCEPT ![x] = [@ EXCEPT !.missing = FALSE, !.at = "peer"]]
             ELSE End(x)
    BY <1>5 DEF ConnectRouterPort, CreateIfMissing, End
  <2> HIDE DEF name
  <2>3. TablesInv' /\ Transaction(x)
    BY <1>1, <1>3, <2>1, <2>2, InsertRouterPortStep
  <2>4. ~IsRow(routers, router.id) => UNCHANGED tables
    BY <2>2 DEF InsertRouterPort, tables
  <2>5. QED
    BY <1>2, <1>4, <2>2, <2>3, <2>4, InsertStep, EndStep
<1>6. CASE ~pass[x].missing
  <2>1. /\ pass' = [pass EXCEPT ![x].missing = ~Exists(routerPorts, name),
                                ![x].at = IF Exists(routerPorts, name) THEN "peer" ELSE @]
        /\ UNCHANGED tables
    BY <1>6 DEF ConnectRouterPort, CreateIfMissing
  <2>2. ~Exists(routerPorts, name) =>
          At(x, "routerPort") /\ ~Exists(routerPorts, <<RouterOf(x), SwitchOf(x)>>)
    BY <1>2
  <2> HIDE DEF name
  <2>3. QED
    BY <1>2, <1>4, <1>6, <2>1, <2>2, SeekStep
<1>7. QED
  BY <1>5, <1>6

LEMMA ConnectPeerStep ==
  ASSUME WiringInv, NEW x \in Object, NEW next, Leads(x, next),
         ConnectPeer(x, RouterOf(x), SwitchOf(x), next)
  PROVE  WiringInv'
<1> DEFINE name == <<SwitchOf(x), RouterOf(x)>>
           switch == GetByName(switches, SwitchOf(x))
<1>1. TablesInv /\ SoughtInv(x)
  BY Parts
<1>2. At(x, "peer") /\ UNCHANGED <<obj, cache>>
  BY DEF ConnectPeer
<1>3. Connects(x) /\ OwnPort(x, name)
  BY <1>1, <1>2, SoughtOwn DEF SoughtInv, At
<1>4. name \in SwitchName \X Router
  BY <1>3, Connected
<1>5. name \in PortName /\ name \notin Vm
  BY <1>4, NameAssumption DEF PortName
<1>6. pass[x].at \in Updating
  BY <1>2 DEF Updating, At
<1>7. CASE pass[x].missing
  <2>1. ~Exists(ports, name)
    BY <1>1, <1>2, <1>7 DEF SoughtInv, At
  <2>2. InsertPort(switch, name, "router")
        /\ pass' = [pass EXCEPT ![x] = [@ EXCEPT !.missing = FALSE, !.at = next]]
    BY <1>7 DEF ConnectPeer, CreateIfMissing
  <2>3. "router" \in Ip
    BY DEF Ip
  <2> HIDE DEF name, switch
  <2>4. TablesInv' /\ Transaction(x)
    BY <1>1, <1>3, <1>5, <2>1, <2>2, <2>3, InsertPortStep
  <2>5. QED
    BY <1>2, <1>6, <2>2, <2>4, InsertStep
<1>8. CASE ~pass[x].missing
  <2>1. /\ pass' = [pass EXCEPT ![x].missing = ~Exists(ports, name),
                                ![x].at = IF Exists(ports, name) THEN next ELSE @]
        /\ UNCHANGED tables
    BY <1>8 DEF ConnectPeer, CreateIfMissing
  <2>2. ~Exists(ports, name) =>
          At(x, "peer") /\ ~Exists(ports, <<SwitchOf(x), RouterOf(x)>>)
    BY <1>2
  <2> HIDE DEF name
  <2>3. QED
    BY <1>2, <1>6, <1>8, <2>1, <2>2, SeekStep
<1>9. QED
  BY <1>7, <1>8

-----------------------------------------------------------------------------
(* Networks                                                                *)

LEMMA NetworkSwitchStep ==
  ASSUME WiringInv, NEW n \in Network, NetworkSwitch(n)
  PROVE  WiringInv'
<1> DEFINE next == IF Cidr[n] = None THEN "router" ELSE "dhcp"
<1>1. TablesInv /\ SoughtInv(n) /\ n \in Object /\ n \notin Router
  BY Parts, ObjectAssumption
<1>2. At(n, "row") /\ UNCHANGED <<obj, cache>>
  BY DEF NetworkSwitch
<1>3. Leads(n, next) /\ pass[n].at \in Updating
  BY <1>2, ObjectAssumption DEF Leads, Updating, At
<1>4. OwnSwitch(n, n) /\ n \in SwitchName
  BY DEF OwnSwitch, SwitchName
<1>5. CASE pass[n].missing
  <2>1. ~Exists(switches, n)
    BY <1>1, <1>2, <1>5 DEF SoughtInv, At
  <2>2. InsertSwitch(n, Handles)
        /\ pass' = [pass EXCEPT ![n] = [@ EXCEPT !.missing = FALSE, !.at = next]]
    BY <1>5 DEF NetworkSwitch, CreateIfMissing
  <2> HIDE DEF next
  <2>3. TablesInv' /\ Transaction(n)
    BY <1>1, <1>4, <2>1, <2>2, InsertSwitchStep
  <2>4. QED
    BY <1>1, <1>2, <1>3, <2>2, <2>3, InsertStep
<1>6. CASE ~pass[n].missing
  <2>1. /\ pass' = [pass EXCEPT ![n].missing = ~Exists(switches, n),
                                ![n].at = IF Exists(switches, n) THEN next ELSE @]
        /\ UNCHANGED tables
    BY <1>6 DEF NetworkSwitch, CreateIfMissing
  <2> HIDE DEF next
  <2>2. QED
    BY <1>1, <1>2, <1>3, <1>6, <2>1, SeekStep
<1>7. QED
  BY <1>5, <1>6

LEMMA NetworkDhcpStep ==
  ASSUME WiringInv, NEW n \in Network, NetworkDhcp(n)
  PROVE  WiringInv'
<1>1. TablesInv /\ n \in Object
  BY Parts, ObjectAssumption
<1>2. At(n, "dhcp") /\ UNCHANGED <<obj, cache>> /\ Continue(n, "subnet")
  BY DEF NetworkDhcp
<1>3. Leads(n, "subnet") /\ pass[n].at \in Updating /\ ~pass[n].missing
  BY <1>1, <1>2, NothingSought, ObjectAssumption DEF Leads, Updating, At
<1>4. TablesInv' /\ Transaction(n)
  BY <1>1, NoTransaction, InsertDhcpStep DEF NetworkDhcp
<1>5. QED
  BY <1>1, <1>2, <1>3, <1>4, ContinueStep

LEMMA NetworkSubnetStep ==
  ASSUME WiringInv, NEW n \in Network, NetworkSubnet(n)
  PROVE  WiringInv'
<1>1. TablesInv /\ n \in Object
  BY Parts, ObjectAssumption
<1>2. At(n, "subnet") /\ UNCHANGED <<obj, cache>> /\ Continue(n, "router")
  BY DEF NetworkSubnet
<1>3. Leads(n, "router") /\ pass[n].at \in Updating /\ ~pass[n].missing
  BY <1>1, <1>2, NothingSought, ObjectAssumption DEF Leads, Updating, At
<1>4. TablesInv' /\ Transaction(n)
  BY <1>1, SetCidrStep DEF NetworkSubnet
<1>5. QED
  BY <1>1, <1>2, <1>3, <1>4, ContinueStep

LEMMA NetworkRouterStep ==
  ASSUME WiringInv, NEW n \in Network, NetworkRouter(n)
  PROVE  WiringInv'
<1>1. TablesInv /\ n \in Object /\ n \notin Vm
  BY Parts, ObjectAssumption
<1>2. At(n, "router") /\ UNCHANGED <<obj, cache>> /\ UNCHANGED tables
  BY DEF NetworkRouter
<1>3. TablesInv' /\ Transaction(n)
  BY <1>2, NoTransaction
<1>4. pass[n].at \in Updating /\ ~pass[n].missing
  BY <1>1, <1>2, NothingSought DEF Updating, At
<1>5. CASE Attachment[n] = None
  <2>1. Continue(n, "status") /\ Leads(n, "status")
    BY <1>1, <1>5 DEF NetworkRouter, Leads, Updating
  <2>2. QED
    BY <1>1, <1>2, <1>3, <1>4, <2>1, ContinueStep
<1>6. CASE Attachment[n] # None /\ ~Exists(routers, Attachment[n])
  <2>1. End(n)
    BY <1>6 DEF NetworkRouter
  <2>2. QED
    BY <1>1, <1>2, <2>1, EndStep
<1>7. CASE Attachment[n] # None /\ Exists(routers, Attachment[n])
  <2> DEFINE row == GetByName(routers, Attachment[n])
  <2>1. Hold(n, row, "routerPort")
    BY <1>7 DEF NetworkRouter
  <2>2. row \in Handle
    BY <1>1, <1>7, Found DEF TablesInv, Handle
  <2> HIDE DEF row
  <2>3. "routerPort" \in Stage /\ "routerPort" \in Updating
    BY DEF Stage, Updating
  <2>4. Moves(n, "routerPort") /\ ~pass'[n].missing
    BY <1>1, <1>4, <2>1, <2>2, <2>3, HoldMoves
  <2>5. Connects(n)
    BY <1>7 DEF Connects
  <2>6. SoughtInv(n)'
    BY <2>4, <2>5 DEF SoughtInv
  <2>7. QED
    BY <1>1, <1>2, <1>3, <1>4, <2>3, <2>4, <2>6, UpdateStep
<1>8. QED
  BY <1>5, <1>6, <1>7

\* remove_network: names being unique, no row of the network is left.
LEMMA RemoveNetworkStep ==
  ASSUME WiringInv, NEW n \in Network, RemoveNetwork(n)
  PROVE  WiringInv'
<1>1. TablesInv /\ n \in Object /\ n \notin Vm /\ n \notin Router
  BY Parts, ObjectAssumption
<1>2. At(n, "delete") /\ UNCHANGED <<obj, cache>> /\ Continue(n, "unfinalize")
  BY DEF RemoveNetwork
<1>3. pass[n].at \in Removing /\ "unfinalize" \in Removing /\ "unfinalize" \in Stage
  BY <1>2 DEF Removing, Stage, At
<1>4. ~pass[n].missing
  BY <1>1, <1>2, NothingSought DEF At
<1>5. Moves(n, "unfinalize") /\ ~pass'[n].missing
  BY <1>1, <1>2, <1>3, <1>4, ContinueMoves
<1>6. TablesInv' /\ Transaction(n)
  BY <1>1, NoTransaction, DeleteSwitchStep DEF RemoveNetwork
<1>7. ~Exists(switches, n)'
  <2>1. CASE Exists(switches, n)
    <3>1. switches' = {s \in switches : s.id # GetByName(switches, n).id}
      BY <2>1 DEF RemoveNetwork, DeleteSwitch
    <3>2. \A s \in switches : s.name = n => s = GetByName(switches, n)
      BY <1>1, <2>1, Found DEF TablesInv, UniqueRows, Unique
    <3>3. QED
      BY <3>1, <3>2 DEF Exists
  <2>2. CASE ~Exists(switches, n)
    <3>1. switches' = switches
      BY <2>2 DEF RemoveNetwork, tables
    <3>2. QED
      BY <2>2, <3>1 DEF Exists
  <2>3. QED
    BY <2>1, <2>2
<1>8. ~HasRow(n)'
  BY <1>1, <1>7 DEF HasRow
<1>9. QED
  BY <1>1, <1>2, <1>3, <1>5, <1>6, <1>8, RemoveStep

-----------------------------------------------------------------------------
(* Objects                                                                 *)

\* A step that leaves the tables alone keeps the invariant if it leaves the
\* pass of x in its stage or begins or ends it, and x its finalizer as long as
\* it has a row.
LEMMA ObjectStep ==
  ASSUME WiringInv, NEW x \in Object, UNCHANGED tables, Typed(Stage, Fields, Handle)', Only(x),
         PassInv(x, Updating, Removing)',
         \/ /\ pass'[x].at = pass[x].at
            /\ (pass'[x].missing => pass[x].missing)
            /\ pass'[x].handle = pass[x].handle
         \/ /\ pass'[x].at \in {"idle", "finalizer", "row", "switch", "delete", "disconnect"}
            /\ ~pass'[x].missing,
         HasRow(x) => Claimed(x)'
  PROVE  WiringInv'
<1>1. /\ switches' = switches /\ routers' = routers /\ ports' = ports
      /\ routerPorts' = routerPorts
  BY DEF tables
<1>2. SoughtInv(x) /\ CoveredInv(x) /\ (x \in Vm => NicInv(x))
  BY Parts
<1>3. SoughtInv(x)'
  BY <1>1, <1>2 DEF SoughtInv, At, Exists
<1>4. x \in Vm => NicInv(x)'
  BY <1>1, <1>2 DEF NicInv, At
<1>5. CoveredInv(x)'
  BY <1>1, <1>2 DEF CoveredInv, HasRow, Exists, At
<1>6. QED
  BY <1>3, <1>4, <1>5, TransactionStep, NoTransaction

\* The write of the status ends the pass and leaves the finalizer and the
\* deletion of the object alone.
LEMMA StatusInv ==
  ASSUME WiringInv, NEW x \in Object, NEW STATE reported, reported \in BOOLEAN,
         pass[x].at = "status",
         Write(x, [pass[x].copy EXCEPT !.reported = reported], "idle")
  PROVE  /\ Typed(Stage, Fields, Handle)' /\ Only(x) /\ PassInv(x, Updating, Removing)'
         /\ pass'[x].at = "idle" /\ ~pass'[x].missing
         /\ \/ obj' = obj
            \/ /\ obj[x] \in Fields /\ obj'[x] \in Fields
               /\ obj'[x].finalizer = obj[x].finalizer /\ obj'[x].deleted = obj[x].deleted
<1> DEFINE new == [pass[x].copy EXCEPT !.reported = reported]
<1>1. /\ pass \in Passes(Stage, Fields, Handle) /\ obj \in [Object -> Fields \cup {None}]
      /\ cache \in Caches(Fields) /\ PassInv(x, Updating, Removing)
  BY Parts DEF Typed
<1>2. pass[x].copy \in Fields
  BY <1>1 DEF PassInv, Passes
<1>3. /\ new \in Fields /\ new.finalizer = pass[x].copy.finalizer
      /\ new.deleted = pass[x].copy.deleted
  BY <1>2 DEF Fields
<1>4. Write(x, new, "idle")
  OBVIOUS
<1> HIDE DEF new
<1>5. "idle" \in Stage /\ None \in Handle
  BY DEF Stage, Handle
<1>6. /\ pass' \in Passes(Stage, Fields, Handle) /\ obj' \in [Object -> Fields \cup {None}]
      /\ cache' \in Caches(Fields) /\ Only(x) /\ pass'[x] = Idle
      /\ cache'[x].behind = cache[x].behind /\ cache'[x].copy = cache[x].copy
      /\ pass[x].fresh => /\ obj'[x] = new
                          /\ cache'[x].fresh = (cache[x].fresh /\ new = obj[x])
      /\ ~pass[x].fresh => obj' = obj /\ cache' = cache
  BY <1>1, <1>3, <1>4, <1>5, WriteEffect
<1>7. pass'[x].at = "idle" /\ ~pass'[x].missing /\ ~pass'[x].fresh
  BY <1>6 DEF Idle
<1>8. pass[x].fresh => pass[x].copy = obj[x]
  BY <1>1 DEF PassInv
<1>9. CacheInv(x)'
  <2>1. CASE pass[x].fresh
    <3>1. /\ obj[x] # None /\ obj'[x] # None
          /\ obj'[x].finalizer = obj[x].finalizer /\ obj'[x].deleted = obj[x].deleted
      BY <1>2, <1>3, <1>6, <1>8, <2>1, NoneAssumption
    <3>2. CacheInv(x)
      BY <1>1 DEF PassInv
    <3>3. QED
      BY <1>6, <1>7, <2>1, <3>1, <3>2 DEF CacheInv, Claimed, Deleted
  <2>2. CASE ~pass[x].fresh
    BY <1>1, <1>6, <1>7, <2>2, CacheKept DEF PassInv
  <2>3. QED
    BY <2>1, <2>2
<1>10. PassInv(x, Updating, Removing)'
  BY <1>6, <1>9, Shape, IdleInv
<1>11. QED
  BY <1>2, <1>3, <1>6, <1>7, <1>8, <1>10 DEF Typed

LEMMA StatusStep ==
  ASSUME WiringInv, NEW x \in Object, NEW STATE reported, reported \in BOOLEAN,
         pass[x].at = "status", UNCHANGED tables,
         Write(x, [pass[x].copy EXCEPT !.reported = reported], "idle")
  PROVE  WiringInv'
<1>1. /\ Typed(Stage, Fields, Handle)' /\ Only(x) /\ PassInv(x, Updating, Removing)'
      /\ pass'[x].at = "idle" /\ ~pass'[x].missing
      /\ \/ obj' = obj
         \/ /\ obj[x] \in Fields /\ obj'[x] \in Fields
            /\ obj'[x].finalizer = obj[x].finalizer /\ obj'[x].deleted = obj[x].deleted
  BY StatusInv
<1>2. CoveredInv(x)
  BY Parts
<1>3. HasRow(x) => Claimed(x)'
  BY <1>1, <1>2, NoneAssumption DEF CoveredInv, Claimed
<1>4. QED
  BY <1>1, <1>3, ObjectStep

LEMMA ReportCreatedStep ==
  ASSUME WiringInv, NEW x \in Object, ReportCreated(x)
  PROVE  WiringInv'
<1>1. /\ pass[x].at = "status" /\ UNCHANGED tables
      /\ Write(x, [pass[x].copy EXCEPT !.reported = TRUE], "idle")
  BY DEF ReportCreated, At
<1>2. TRUE \in BOOLEAN
  OBVIOUS
<1>3. QED
  BY <1>1, <1>2, StatusStep

LEMMA NetworkStepInv ==
  ASSUME WiringInv, NEW n \in Network, NetworkStep(n)
  PROVE  WiringInv'
<1>1. n \in Object /\ n \notin Vm /\ RouterOf(n) = Attachment[n] /\ SwitchOf(n) = n
  BY ObjectAssumption DEF RouterOf, SwitchOf
<1>2. Leads(n, "status")
  BY <1>1 DEF Leads, Updating
<1>3. CASE ConnectRouterPort(n, Attachment[n], n, pass[n].handle)
  <2> DEFINE handle == pass[n].handle
  <2>1. ConnectRouterPort(n, RouterOf(n), SwitchOf(n), handle)
    BY <1>1, <1>3
  <2> HIDE DEF handle
  <2>2. QED
    BY <1>1, <2>1, ConnectRouterPortStep
<1>4. CASE ConnectPeer(n, Attachment[n], n, "status")
  <2>1. ConnectPeer(n, RouterOf(n), SwitchOf(n), "status")
    BY <1>1, <1>4
  <2>2. QED
    BY <1>1, <1>2, <2>1, ConnectPeerStep
<1>5. QED
  BY <1>1, <1>3, <1>4, NetworkSwitchStep, NetworkDhcpStep, NetworkSubnetStep,
     NetworkRouterStep, ReportCreatedStep, RemoveNetworkStep DEF NetworkStep

-----------------------------------------------------------------------------
(* Routers                                                                 *)

LEMMA RouterRowStep ==
  ASSUME WiringInv, NEW r \in Router, RouterRow(r)
  PROVE  WiringInv'
<1>1. TablesInv /\ SoughtInv(r) /\ r \in Object /\ r \notin Network /\ r \notin Vm
  BY Parts, ObjectAssumption
<1>2. At(r, "row") /\ UNCHANGED <<obj, cache>>
  BY DEF RouterRow
<1>3. Leads(r, "routes") /\ pass[r].at \in Updating
  BY <1>1, <1>2 DEF Leads, Updating, At
<1>4. OwnRouter(r, r)
  BY DEF OwnRouter
<1>5. CASE pass[r].missing
  <2>1. ~Exists(routers, r)
    BY <1>1, <1>2, <1>5 DEF SoughtInv, At
  <2>2. InsertRouter(r, NoRoutes, Handles)
        /\ pass' = [pass EXCEPT ![r] = [@ EXCEPT !.missing = FALSE, !.at = "routes"]]
    BY <1>5 DEF RouterRow, CreateIfMissing
  <2>3. TablesInv' /\ Transaction(r)
    BY <1>1, <1>4, <2>1, <2>2, InsertRouterStep
  <2>4. QED
    BY <1>1, <1>2, <1>3, <2>2, <2>3, InsertStep
<1>6. CASE ~pass[r].missing
  <2>1. /\ pass' = [pass EXCEPT ![r].missing = ~Exists(routers, r),
                                ![r].at = IF Exists(routers, r) THEN "routes" ELSE @]
        /\ UNCHANGED tables
    BY <1>6 DEF RouterRow, CreateIfMissing
  <2>2. QED
    BY <1>1, <1>2, <1>3, <1>6, <2>1, SeekStep
<1>7. QED
  BY <1>5, <1>6

LEMMA RouterRoutesStep ==
  ASSUME WiringInv, NEW r \in Router, RouterRoutes(r)
  PROVE  WiringInv'
<1> DEFINE next == IF r \in DOMAIN MdsSwitch THEN "deploy" ELSE "status"
           wanted == pass[r].copy.routes
<1>1. TablesInv /\ r \in Object /\ r \notin Vm
  BY Parts, ObjectAssumption
<1>2. At(r, "routes") /\ UNCHANGED <<obj, cache>> /\ Continue(r, next) /\ SetRoutes(r, wanted)
  BY DEF RouterRoutes
<1>3. Leads(r, next) /\ pass[r].at \in Updating /\ ~pass[r].missing
  BY <1>1, <1>2, NothingSought DEF Leads, Updating, At
<1>4. wanted \in RouteSpec
  <2>1. PassInv(r, Updating, Removing) /\ pass \in Passes(Stage, Fields, Handle)
    BY <1>1, Parts DEF Typed
  <2>2. pass[r].copy \in Fields
    BY <1>1, <1>2, <2>1 DEF PassInv, Passes, At
  <2>3. QED
    BY <2>2 DEF Fields
<1> HIDE DEF next, wanted
<1>5. TablesInv' /\ Transaction(r)
  BY <1>1, <1>2, <1>4, SetRoutesStep
<1>6. QED
  BY <1>1, <1>2, <1>3, <1>5, ContinueStep

LEMMA RouterDeployStep ==
  ASSUME WiringInv, NEW r \in Router, RouterDeploy(r)
  PROVE  WiringInv'
<1>1. r \in Object /\ r \notin Vm
  BY ObjectAssumption
<1>2. At(r, "deploy") /\ UNCHANGED <<obj, cache>> /\ Continue(r, "mdsSwitch") /\ UNCHANGED tables
  BY DEF RouterDeploy
<1>3. Leads(r, "mdsSwitch") /\ pass[r].at \in Updating /\ ~pass[r].missing
  BY <1>1, <1>2, NothingSought DEF Leads, Updating, At
<1>4. TablesInv' /\ Transaction(r)
  BY <1>2, NoTransaction
<1>5. QED
  BY <1>1, <1>2, <1>3, <1>4, ContinueStep

LEMMA RouterMdsStep ==
  ASSUME WiringInv, NEW r \in Router, r \in DOMAIN MdsSwitch, RouterMds(r)
  PROVE  WiringInv'
<1> DEFINE s == MdsSwitch[r]
<1>1. /\ TablesInv /\ SoughtInv(r) /\ r \in Object /\ r \notin Vm /\ r \notin Network
      /\ Connects(r) /\ RouterOf(r) = r /\ SwitchOf(r) = s
  BY Parts, ObjectAssumption DEF Connects, RouterOf, SwitchOf
<1>2. s \in SwitchName /\ s \in PortName /\ s \notin Vm /\ OwnSwitch(r, s) /\ OwnPort(r, s)
  BY <1>1, NameAssumption, SoughtOwn DEF SwitchName, PortName
<1>3. CASE At(r, "mdsSwitch") /\ UNCHANGED <<obj, cache>>
           /\ CreateIfMissing(r, switches, s, InsertSwitch(s, Handles), TRUE, "routerPort")
  <2>1. Leads(r, "routerPort") /\ pass[r].at \in Updating
    BY <1>1, <1>3 DEF Leads, Updating, At
  <2>2. CASE pass[r].missing
    <3>1. ~Exists(switches, s)
      BY <1>1, <1>3, <2>2 DEF SoughtInv, At
    <3>2. InsertSwitch(s, Handles)
          /\ pass' = [pass EXCEPT ![r] = [@ EXCEPT !.missing = FALSE, !.at = "routerPort"]]
      BY <1>3, <2>2 DEF CreateIfMissing
    <3> HIDE DEF s
    <3>3. TablesInv' /\ Transaction(r)
      BY <1>1, <1>2, <3>1, <3>2, InsertSwitchStep
    <3>4. QED
      BY <1>1, <1>3, <2>1, <3>2, <3>3, InsertStep
  <2>3. CASE ~pass[r].missing
    <3>1. /\ pass' = [pass EXCEPT ![r].missing = ~Exists(switches, s),
                                  ![r].at = IF Exists(switches, s) THEN "routerPort" ELSE @]
          /\ UNCHANGED tables
      BY <1>3, <2>3 DEF CreateIfMissing
    <3>2. ~Exists(switches, s) => /\ At(r, "mdsSwitch") /\ r \in DOMAIN MdsSwitch
                                  /\ ~Exists(switches, MdsSwitch[r])
      BY <1>3
    <3> HIDE DEF s
    <3>3. QED
      BY <1>1, <1>3, <2>1, <2>3, <3>1, <3>2, SeekStep
  <2>4. QED
    BY <2>2, <2>3
<1>4. CASE ConnectRouterPort(r, r, s, GetByName(routers, r))
  <2> DEFINE row == GetByName(routers, r)
  <2>1. ConnectRouterPort(r, RouterOf(r), SwitchOf(r), row)
    BY <1>1, <1>4
  <2> HIDE DEF row
  <2>2. QED
    BY <1>1, <2>1, ConnectRouterPortStep
<1>5. CASE ConnectPeer(r, r, s, "mdsPort")
  <2>1. ConnectPeer(r, RouterOf(r), SwitchOf(r), "mdsPort") /\ Leads(r, "mdsPort")
    BY <1>1, <1>5 DEF Leads, Updating
  <2>2. QED
    BY <1>1, <2>1, ConnectPeerStep
<1>6. CASE At(r, "mdsPort") /\ UNCHANGED <<obj, cache>>
           /\ CreateIfMissing(r, ports, s, InsertPort(GetByName(switches, s), s, "none"),
                              TRUE, "mdsAddress")
  <2>1. Leads(r, "mdsAddress") /\ pass[r].at \in Updating
    BY <1>1, <1>6 DEF Leads, Updating, At
  <2>2. CASE pass[r].missing
    <3> DEFINE switch == GetByName(switches, s)
    <3>1. ~Exists(ports, s) /\ "none" \in Ip
      BY <1>1, <1>6, <2>2 DEF SoughtInv, At, Ip
    <3>2. InsertPort(switch, s, "none")
          /\ pass' = [pass EXCEPT ![r] = [@ EXCEPT !.missing = FALSE, !.at = "mdsAddress"]]
      BY <1>6, <2>2 DEF CreateIfMissing
    <3> HIDE DEF s, switch
    <3>3. TablesInv' /\ Transaction(r)
      BY <1>1, <1>2, <3>1, <3>2, InsertPortStep
    <3>4. QED
      BY <1>1, <1>6, <2>1, <3>2, <3>3, InsertStep
  <2>3. CASE ~pass[r].missing
    <3>1. /\ pass' = [pass EXCEPT ![r].missing = ~Exists(ports, s),
                                  ![r].at = IF Exists(ports, s) THEN "mdsAddress" ELSE @]
          /\ UNCHANGED tables
      BY <1>6, <2>3 DEF CreateIfMissing
    <3>2. ~Exists(ports, s) => /\ At(r, "mdsPort") /\ r \in DOMAIN MdsSwitch
                               /\ ~Exists(ports, MdsSwitch[r])
      BY <1>6
    <3> HIDE DEF s
    <3>3. QED
      BY <1>1, <1>6, <2>1, <2>3, <3>1, <3>2, SeekStep
  <2>4. QED
    BY <2>2, <2>3
<1>7. CASE /\ At(r, "mdsAddress") /\ UNCHANGED <<obj, cache>> /\ Continue(r, "status")
           /\ UNCHANGED tables \/ SetAddress(s, s, "fixed")
  <2>1. Leads(r, "status") /\ pass[r].at \in Updating /\ ~pass[r].missing
    BY <1>1, <1>7, NothingSought DEF Leads, Updating, At
  <2>2. "fixed" \in Ip /\ s \in {NoMac} \cup {Mac[v] : v \in Vm} \cup SwitchName
    BY <1>2 DEF Ip
  <2> HIDE DEF s
  <2>3. TablesInv' /\ Transaction(r)
    BY <1>1, <1>7, <2>2, NoTransaction, SetAddressStep
  <2>4. QED
    BY <1>1, <1>7, <2>1, <2>3, ContinueStep
<1>8. QED
  BY <1>3, <1>4, <1>5, <1>6, <1>7 DEF RouterMds

\* remove_router: likewise, or the finalizer stays.
LEMMA RemoveRouterStep ==
  ASSUME WiringInv, NEW r \in Router, RemoveRouter(r)
  PROVE  WiringInv'
<1>1. TablesInv /\ r \in Object /\ r \notin Vm /\ r \notin Network
  BY Parts, ObjectAssumption
<1>2. At(r, "delete") /\ UNCHANGED <<obj, cache>>
  BY DEF RemoveRouter
<1>3. CASE ~Exists(routers, r)
  <2>1. End(r) /\ UNCHANGED tables
    BY <1>3 DEF RemoveRouter
  <2>2. QED
    BY <1>1, <1>2, <2>1, EndStep
<1>4. CASE Exists(routers, r)
  <2> DEFINE id == GetByName(routers, r).id
  <2>1. DeleteRouter(id) /\ Continue(r, "unfinalize")
    BY <1>4 DEF RemoveRouter
  <2>2. pass[r].at \in Removing /\ "unfinalize" \in Removing /\ "unfinalize" \in Stage
    BY <1>2 DEF Removing, Stage, At
  <2>3. ~pass[r].missing
    BY <1>1, <1>2, NothingSought DEF At
  <2>4. Moves(r, "unfinalize") /\ ~pass'[r].missing
    BY <1>1, <2>1, <2>2, <2>3, ContinueMoves
  <2>5. \A row \in routers : row.name = r => row.id = id
    BY <1>1, <1>4, Found DEF TablesInv, UniqueRows, Unique
  <2> HIDE DEF id
  <2>6. TablesInv' /\ Transaction(r)
    BY <1>1, <2>1, DeleteRouterStep
  <2>7. ~HasRow(r)'
    BY <1>1, <2>1, <2>5 DEF HasRow, Exists, DeleteRouter
  <2>8. QED
    BY <1>1, <1>2, <2>2, <2>4, <2>6, <2>7, RemoveStep
<1>5. QED
  BY <1>3, <1>4

LEMMA RouterStepInv ==
  ASSUME WiringInv, NEW r \in Router, RouterStep(r)
  PROVE  WiringInv'
<1>1. r \in Object
  BY ObjectAssumption
<1>2. QED
  BY <1>1, RouterRowStep, RouterRoutesStep, RouterDeployStep, RouterMdsStep,
     ReportCreatedStep, RemoveRouterStep DEF RouterStep

-----------------------------------------------------------------------------
(* Ports of VMs                                                            *)

\* What a pass of a VM holds of the switch it has looked up.
LEMMA NicSwitch ==
  ASSUME WiringInv, NEW v \in Vm, Exists(switches, NicNetwork[v])
  PROVE  LET row == GetByName(switches, NicNetwork[v])
         IN  /\ row \in Handle /\ row # None
             /\ \A s \in switches : s.id = row.id => s.name = NicNetwork[v]
             /\ \A p \in ports : p.name = v => p.owner = row.id
<1> DEFINE row == GetByName(switches, NicNetwork[v])
<1>1. TablesInv
  BY Parts
<1>2. row \in switches /\ row.name = NicNetwork[v]
  BY Found
<1> HIDE DEF row
<1>3. row \in Handle /\ row # None
  BY <1>1, <1>2, NoneAssumption DEF TablesInv, Handle
<1>4. \A s \in switches : s.id = row.id => s.name = NicNetwork[v]
  BY <1>1, <1>2 DEF TablesInv
<1>5. ASSUME NEW p \in ports, p.name = v PROVE p.owner = row.id
  <2>1. PICK s \in switches : s.id = p.owner /\ s.name = NicNetwork[p.name]
    BY <1>1, <1>5 DEF TablesInv, NicRowInv
  <2>2. s = row
    BY <1>1, <1>2, <1>5, <2>1 DEF TablesInv, UniqueRows, Unique
  <2>3. QED
    BY <2>1, <2>2
<1>6. QED
  BY <1>3, <1>4, <1>5 DEF row

LEMMA VmSwitchStep ==
  ASSUME WiringInv, NEW v \in Vm, VmSwitch(v)
  PROVE  WiringInv'
<1>1. v \in Object
  BY ObjectAssumption
<1>2. At(v, "switch") /\ UNCHANGED <<obj, cache>> /\ UNCHANGED tables
  BY DEF VmSwitch
<1>3. CASE ~Exists(switches, NicNetwork[v])
  <2>1. End(v)
    BY <1>3 DEF VmSwitch
  <2>2. QED
    BY <1>1, <1>2, <2>1, EndStep
<1>4. CASE Exists(switches, NicNetwork[v])
  <2> DEFINE row == GetByName(switches, NicNetwork[v])
  <2>1. Hold(v, row, "port")
    BY <1>4 DEF VmSwitch
  <2>2. /\ row \in Handle /\ row # None
        /\ \A s \in switches : s.id = row.id => s.name = NicNetwork[v]
    BY <1>4, NicSwitch
  <2> HIDE DEF row
  <2>3. pass[v].at \in Updating /\ "port" \in Updating /\ "port" \in Stage /\ ~pass[v].missing
    BY <1>1, <1>2, NothingSought DEF Updating, Stage, At
  <2>4. Moves(v, "port") /\ ~pass'[v].missing /\ pass'[v].handle = row
    BY <1>1, <2>1, <2>2, <2>3, HoldMoves
  <2>5. SoughtInv(v)'
    BY <2>4 DEF SoughtInv, Moves
  <2>6. NicInv(v)'
    BY <1>2, <2>2, <2>4 DEF NicInv, At, Moves, tables
  <2>7. TablesInv' /\ Transaction(v)
    BY <1>2, NoTransaction
  <2>8. QED
    BY <1>1, <1>2, <2>3, <2>4, <2>5, <2>6, <2>7, UpdateStep
<1>5. QED
  BY <1>3, <1>4

LEMMA VmPortStep ==
  ASSUME WiringInv, NEW v \in Vm, VmPort(v)
  PROVE  WiringInv'
<1> DEFINE handle == pass[v].handle
<1>1. TablesInv /\ SoughtInv(v) /\ NicInv(v) /\ v \in Object
  BY Parts, ObjectAssumption
<1>2. At(v, "port") /\ UNCHANGED <<obj, cache>>
  BY DEF VmPort
<1>3. Leads(v, "address") /\ pass[v].at \in Updating
  BY <1>1, <1>2 DEF Leads, Updating, At
<1>4. OwnPort(v, v) /\ v \in PortName /\ "none" \in Ip
  BY DEF OwnPort, PortName, Ip
<1>5. CASE pass[v].missing
  <2>1. ~Exists(ports, v)
    BY <1>1, <1>2, <1>5 DEF SoughtInv, At
  <2>2. InsertPort(handle, v, "none")
        /\ IF IsRow(switches, handle.id)
             THEN pass' = [pass EXCEPT ![v] = [@ EXCEPT !.missing = FALSE, !.at = "address"]]
             ELSE End(v)
    BY <1>5 DEF VmPort, CreateIfMissing, End
  <2>3. \A s \in switches : s.id = handle.id => s.name = NicNetwork[v]
    BY <1>1, <1>2 DEF NicInv
  <2> HIDE DEF handle
  <2>4. TablesInv' /\ Transaction(v)
    BY <1>1, <1>4, <2>1, <2>2, <2>3, InsertPortStep
  <2>5. ~IsRow(switches, handle.id) => UNCHANGED tables
    BY <2>2 DEF InsertPort, tables
  <2>6. QED
    BY <1>1, <1>2, <1>3, <2>2, <2>4, <2>5, InsertStep, EndStep
<1>6. CASE ~pass[v].missing
  <2>1. /\ pass' = [pass EXCEPT ![v].missing = ~Exists(ports, v),
                                ![v].at = IF Exists(ports, v) THEN "address" ELSE @]
        /\ UNCHANGED tables
    BY <1>6 DEF VmPort, CreateIfMissing
  <2>2. QED
    BY <1>1, <1>2, <1>3, <1>6, <2>1, SeekStep
<1>7. QED
  BY <1>5, <1>6

LEMMA VmAddressStep ==
  ASSUME WiringInv, NEW v \in Vm, VmAddress(v)
  PROVE  WiringInv'
<1>1. v \in Object
  BY ObjectAssumption
<1>2. At(v, "address") /\ UNCHANGED <<obj, cache>> /\ UNCHANGED tables
  BY DEF VmAddress
<1>3. /\ Leads(v, "network") /\ Leads(v, "setAddress")
      /\ pass[v].at \in Updating /\ ~pass[v].missing
  BY <1>1, <1>2, NothingSought DEF Leads, Updating, At
<1>4. TablesInv' /\ Transaction(v)
  BY <1>2, NoTransaction
<1>5. End(v) \/ Continue(v, "network") \/ Continue(v, "setAddress")
  BY DEF VmAddress
<1>6. QED
  BY <1>1, <1>2, <1>3, <1>4, <1>5, EndStep, ContinueStep

LEMMA VmSetAddressStep ==
  ASSUME WiringInv, NEW v \in Vm, VmSetAddress(v)
  PROVE  WiringInv'
<1> DEFINE mac == Mac[v]
           ip == IF pass[v].handle.subnet THEN "dynamic" ELSE "none"
<1>1. TablesInv /\ v \in Object
  BY Parts, ObjectAssumption
<1>2. /\ At(v, "setAddress") /\ UNCHANGED <<obj, cache>>
      /\ Continue(v, "network") /\ SetAddress(v, mac, ip)
  BY DEF VmSetAddress
<1>3. Leads(v, "network") /\ pass[v].at \in Updating /\ ~pass[v].missing
  BY <1>1, <1>2, NothingSought DEF Leads, Updating, At
<1>4. ip \in Ip /\ mac \in {NoMac} \cup {Mac[w] : w \in Vm} \cup SwitchName
  BY DEF Ip
<1> HIDE DEF mac, ip
<1>5. TablesInv' /\ Transaction(v)
  BY <1>1, <1>2, <1>4, SetAddressStep
<1>6. QED
  BY <1>1, <1>2, <1>3, <1>5, ContinueStep

LEMMA VmNetworkStep ==
  ASSUME WiringInv, NEW v \in Vm, VmNetwork(v)
  PROVE  WiringInv'
<1>1. v \in Object
  BY ObjectAssumption
<1>2. At(v, "network") /\ UNCHANGED <<obj, cache>> /\ UNCHANGED tables
  BY DEF VmNetwork
<1>3. /\ Leads(v, "lease") /\ Leads(v, "options")
      /\ pass[v].at \in Updating /\ ~pass[v].missing
  BY <1>1, <1>2, NothingSought DEF Leads, Updating, At
<1>4. TablesInv' /\ Transaction(v)
  BY <1>2, NoTransaction
<1>5. End(v) \/ Continue(v, "lease") \/ Continue(v, "options")
  BY DEF VmNetwork
<1>6. QED
  BY <1>1, <1>2, <1>3, <1>4, <1>5, EndStep, ContinueStep

LEMMA VmOptionsStep ==
  ASSUME WiringInv, NEW v \in Vm, VmOptions(v)
  PROVE  WiringInv'
<1>1. TablesInv /\ v \in Object
  BY Parts, ObjectAssumption
<1>2. At(v, "options") /\ UNCHANGED <<obj, cache>>
  BY DEF VmOptions
<1>3. Leads(v, "lease") /\ pass[v].at \in Updating /\ ~pass[v].missing
  BY <1>1, <1>2, NothingSought DEF Leads, Updating, At
<1>4. CASE SetDhcpOptions(v) /\ Continue(v, "lease")
  <2>1. TablesInv' /\ Transaction(v)
    BY <1>1, <1>4, SetDhcpOptionsStep
  <2>2. QED
    BY <1>1, <1>2, <1>3, <1>4, <2>1, ContinueStep
<1>5. CASE End(v) /\ UNCHANGED tables
  BY <1>1, <1>2, <1>5, EndStep
<1>6. QED
  BY <1>4, <1>5 DEF VmOptions

LEMMA VmLeaseStep ==
  ASSUME WiringInv, NEW v \in Vm, VmLease(v)
  PROVE  WiringInv'
<1>1. TablesInv /\ v \in Object
  BY Parts, ObjectAssumption
<1>2. At(v, "lease") /\ UNCHANGED <<obj, cache>> /\ UNCHANGED tables
  BY DEF VmLease
<1>3. CASE ~Exists(ports, v)
  <2>1. End(v)
    BY <1>3 DEF VmLease
  <2>2. QED
    BY <1>1, <1>2, <2>1, EndStep
<1>4. CASE Exists(ports, v)
  <2> DEFINE row == GetByName(ports, v)
  <2>1. Hold(v, row, "status")
    BY <1>4 DEF VmLease
  <2>2. row \in Handle
    BY <1>1, <1>4, Found DEF TablesInv, Handle
  <2> HIDE DEF row
  <2>3. /\ pass[v].at \in Updating /\ "status" \in Updating /\ "status" \in Stage
        /\ ~pass[v].missing
    BY <1>1, <1>2, NothingSought DEF Updating, Stage, At
  <2>4. Moves(v, "status") /\ ~pass'[v].missing
    BY <1>1, <2>1, <2>2, <2>3, HoldMoves
  <2>5. SoughtInv(v)' /\ NicInv(v)'
    BY <2>4 DEF SoughtInv, NicInv, Moves, At
  <2>6. TablesInv' /\ Transaction(v)
    BY <1>2, NoTransaction
  <2>7. QED
    BY <1>1, <1>2, <2>3, <2>4, <2>5, <2>6, UpdateStep
<1>5. QED
  BY <1>3, <1>4

LEMMA VmStatusStep ==
  ASSUME WiringInv, NEW v \in Vm, VmStatus(v)
  PROVE  WiringInv'
<1> DEFINE leased == pass[v].handle.ip = "leased"
<1>1. /\ v \in Object /\ pass[v].at = "status" /\ UNCHANGED tables
      /\ Write(v, [pass[v].copy EXCEPT !.reported = leased], "idle")
      /\ leased \in BOOLEAN
  BY ObjectAssumption DEF VmStatus, At
<1> HIDE DEF leased
<1>2. QED
  BY <1>1, StatusStep

\* The port of a VM that is being removed is on the switch its pass looks up,
LEMMA VmDisconnectStep ==
  ASSUME WiringInv, NEW v \in Vm, VmDisconnect(v)
  PROVE  WiringInv'
<1>1. v \in Object /\ v \notin Network /\ v \notin Router
  BY ObjectAssumption
<1>2. UNCHANGED <<obj, cache>> /\ UNCHANGED tables /\ pass[v].at \in {"disconnect", "owner"}
  BY DEF VmDisconnect, At
<1>3. /\ pass[v].at \in Removing /\ {"owner", "unfinalize", "deletePort"} \subseteq Removing
      /\ {"owner", "unfinalize", "deletePort"} \subseteq Stage /\ ~pass[v].missing
  BY <1>1, <1>2, NothingSought DEF Removing, Stage
<1>4. TablesInv' /\ Transaction(v)
  BY <1>2, NoTransaction
<1>5. HasRow(v)' <=> Exists(ports, v)
  BY <1>1, <1>2 DEF HasRow, Exists, tables
<1>6. Exists(ports, v) => HasRow(v)
  BY <1>1 DEF HasRow
<1>7. CASE At(v, "disconnect")
  <2> DEFINE next == IF Exists(ports, v) THEN "owner" ELSE "unfinalize"
  <2>1. Continue(v, next) /\ next \in {"owner", "unfinalize"}
        /\ (Exists(ports, v) => next # "unfinalize")
    BY <1>7 DEF VmDisconnect, At
  <2> HIDE DEF next
  <2>2. Moves(v, next) /\ ~pass'[v].missing
    BY <1>1, <1>3, <2>1, ContinueMoves
  <2>3. NicInv(v)'
    BY <2>1, <2>2 DEF NicInv, At, Moves
  <2>4. QED
    BY <1>1, <1>2, <1>3, <1>4, <1>5, <1>6, <2>1, <2>2, <2>3, RemoveStep
<1>8. CASE At(v, "owner") /\ ~Exists(switches, NicNetwork[v])
  <2>1. End(v)
    BY <1>8 DEF VmDisconnect, At
  <2>2. QED
    BY <1>1, <1>2, <2>1, EndStep
<1>9. CASE At(v, "owner") /\ Exists(switches, NicNetwork[v])
  <2> DEFINE row == GetByName(switches, NicNetwork[v])
  <2>1. Hold(v, row, "deletePort")
    BY <1>9 DEF VmDisconnect, At
  <2>2. row \in Handle /\ \A p \in ports : p.name = v => p.owner = row.id
    BY <1>9, NicSwitch
  <2> HIDE DEF row
  <2>3. Moves(v, "deletePort") /\ ~pass'[v].missing /\ pass'[v].handle = row
    BY <1>1, <1>3, <2>1, <2>2, HoldMoves
  <2>4. NicInv(v)'
    BY <1>2, <2>2, <2>3 DEF NicInv, At, Moves, tables
  <2>5. QED
    BY <1>1, <1>2, <1>3, <1>4, <1>5, <1>6, <2>3, <2>4, RemoveStep
<1>10. QED
  BY <1>2, <1>7, <1>8, <1>9 DEF At

\* ... so del_lsp leaves none.
LEMMA VmDeletePortStep ==
  ASSUME WiringInv, NEW v \in Vm, VmDeletePort(v)
  PROVE  WiringInv'
<1> DEFINE handle == pass[v].handle
           port == GetByName(ports, v)
<1>1. TablesInv /\ NicInv(v) /\ v \in Object /\ v \notin Network /\ v \notin Router
  BY Parts, ObjectAssumption
<1>2. At(v, "deletePort") /\ UNCHANGED <<obj, cache>>
  BY DEF VmDeletePort
<1>3. CASE ~Exists(ports, v)
  <2>1. End(v) /\ UNCHANGED tables
    BY <1>3 DEF VmDeletePort
  <2>2. QED
    BY <1>1, <1>2, <2>1, EndStep
<1>4. CASE Exists(ports, v)
  <2>1. DeletePort(handle, port) /\ Continue(v, "unfinalize")
    BY <1>4 DEF VmDeletePort
  <2>2. pass[v].at \in Removing /\ "unfinalize" \in Removing /\ "unfinalize" \in Stage
    BY <1>2 DEF Removing, Stage, At
  <2>3. ~pass[v].missing
    BY <1>1, <1>2, NothingSought DEF At
  <2>4. Moves(v, "unfinalize") /\ ~pass'[v].missing
    BY <1>1, <2>1, <2>2, <2>3, ContinueMoves
  <2>5. \A p \in ports : p.name = v => p.id = port.id /\ p.owner = handle.id
    BY <1>1, <1>2, <1>4, Found DEF TablesInv, UniqueRows, Unique, NicInv
  <2> HIDE DEF handle, port
  <2>6. TablesInv' /\ Transaction(v)
    BY <1>1, <2>1, DeletePortStep
  <2>7. ~HasRow(v)'
    BY <1>1, <2>1, <2>5 DEF HasRow, Exists, DeletePort
  <2>8. NicInv(v)'
    BY <2>4 DEF NicInv, Moves, At
  <2>9. QED
    BY <1>1, <1>2, <2>2, <2>4, <2>6, <2>7, <2>8, RemoveStep
<1>5. QED
  BY <1>3, <1>4

LEMMA VmStepInv ==
  ASSUME WiringInv, NEW v \in Vm, VmStep(v)
  PROVE  WiringInv'
BY VmSwitchStep, VmPortStep, VmAddressStep, VmSetAddressStep, VmNetworkStep, VmOptionsStep,
   VmLeaseStep, VmStatusStep, VmDisconnectStep, VmDeletePortStep DEF VmStep

-----------------------------------------------------------------------------
(* The environment, and all steps                                          *)

LEMMA NewObjectType ==
  ASSUME NEW x \in Object
  PROVE  NewObject(x) \in Fields /\ ~NewObject(x).finalizer /\ ~NewObject(x).deleted
<1>1. NoRoutes \in RouteSpec
  BY RouteAssumption DEF NoRoutes
<1>2. QED
  BY <1>1, RouteAssumption DEF NewObject, Fields

\* No object has a row before it carries the finalizer.
LEMMA Unclaimed ==
  ASSUME WiringInv, NEW x \in Object, ~Claimed(x)
  PROVE  ~HasRow(x)
BY Parts DEF CoveredInv

LEMMA UsersStep ==
  ASSUME WiringInv, NEW x \in Object, UNCHANGED tables,
         Delete(x) \/ Create(x, NewObject(x)) \/ Foreign(x) \/ Reap(x)
  PROVE  WiringInv'
<1> USE Parts, Shape
<1>1. CASE Delete(x)
  <2>1. /\ Typed(Stage, Fields, Handle)' /\ Only(x) /\ PassInv(x, Updating, Removing)'
        /\ obj[x] \in Fields /\ obj'[x] \in Fields /\ obj'[x].finalizer = obj[x].finalizer
        /\ pass'[x].at = pass[x].at
        /\ (pass'[x].missing => pass[x].missing) /\ pass'[x].handle = pass[x].handle
    BY <1>1, DeleteInv
  <2>2. HasRow(x) => Claimed(x)'
    BY <2>1, Unclaimed, NoneAssumption DEF Claimed
  <2>3. QED
    BY <2>1, <2>2, ObjectStep
<1>2. CASE Create(x, NewObject(x))
  <2> DEFINE new == NewObject(x)
  <2>1. new \in Fields /\ ~new.finalizer /\ Create(x, new)
    BY <1>2, NewObjectType
  <2> HIDE DEF new
  <2>2. /\ Typed(Stage, Fields, Handle)' /\ Only(x) /\ PassInv(x, Updating, Removing)'
        /\ obj[x] = None /\ pass'[x].at = pass[x].at
        /\ (pass'[x].missing => pass[x].missing) /\ pass'[x].handle = pass[x].handle
    BY <2>1, CreateInv
  <2>3. ~HasRow(x)
    BY <2>2, Unclaimed DEF Claimed
  <2>4. QED
    BY <2>2, <2>3, ObjectStep
<1>3. CASE Foreign(x)
  <2>1. /\ Typed(Stage, Fields, Handle)' /\ Only(x) /\ PassInv(x, Updating, Removing)'
        /\ obj' = obj /\ pass'[x].at = pass[x].at
        /\ (pass'[x].missing => pass[x].missing) /\ pass'[x].handle = pass[x].handle
    BY <1>3, ForeignInv
  <2>2. HasRow(x) => Claimed(x)'
    BY <2>1, Unclaimed DEF Claimed
  <2>3. QED
    BY <2>1, <2>2, ObjectStep
<1>4. CASE Reap(x)
  <2>1. /\ Typed(Stage, Fields, Handle)' /\ Only(x) /\ PassInv(x, Updating, Removing)'
        /\ ~obj[x].finalizer /\ pass'[x].at = pass[x].at
        /\ (pass'[x].missing => pass[x].missing) /\ pass'[x].handle = pass[x].handle
    BY <1>4, ReapInv
  <2>2. ~HasRow(x)
    BY <2>1, Unclaimed DEF Claimed
  <2>3. QED
    BY <2>1, <2>2, ObjectStep
<1>5. QED
  BY <1>1, <1>2, <1>3, <1>4

\* An edit of the routes is a change that leaves the finalizer alone.
LEMMA EditInv ==
  ASSUME WiringInv, NEW r \in Router, Edit(r)
  PROVE  /\ Typed(Stage, Fields, Handle)' /\ Only(r) /\ PassInv(r, Updating, Removing)'
         /\ obj[r] \in Fields /\ obj'[r] \in Fields
         /\ obj'[r].finalizer = obj[r].finalizer /\ obj'[r].deleted = obj[r].deleted
         /\ pass'[r].at = pass[r].at
         /\ (pass'[r].missing => pass[r].missing) /\ pass'[r].handle = pass[r].handle
<1>1. r \in Object /\ obj[r] \in Fields /\ Typed(Stage, Fields, Handle)
      /\ PassInv(r, Updating, Removing)
  BY Parts, ObjectAssumption DEF Edit, Alive, Typed
<1>2. PICK spec \in RouteSpec : Change(r, [obj[r] EXCEPT !.routes = spec])
  BY DEF Edit
<1> DEFINE new == [obj[r] EXCEPT !.routes = spec]
<1>3. new \in Fields /\ new.finalizer = obj[r].finalizer /\ new.deleted = obj[r].deleted
  BY <1>1 DEF Fields
<1>4. Change(r, new)
  BY <1>2
<1> HIDE DEF new
<1>5. new \in Fields \cup {None} /\ Benign(r, new)
  BY <1>1, <1>3, NoneAssumption DEF Benign
<1>6. QED
  BY <1>1, <1>3, <1>4, <1>5, Shape, ChangeInv

LEMMA EditStep ==
  ASSUME WiringInv, NEW r \in Router, Edit(r), UNCHANGED tables
  PROVE  WiringInv'
<1>1. r \in Object
  BY ObjectAssumption
<1>2. HasRow(r) => Claimed(r)'
  BY <1>1, EditInv, Unclaimed, NoneAssumption DEF Claimed
<1>3. QED
  BY <1>1, <1>2, EditInv, ObjectStep

\* What the cache has changes nothing else.
LEMMA CacheMoves ==
  ASSUME WiringInv, NEW x \in Object, UNCHANGED tables, FallBehind(x) \/ CatchUp(x)
  PROVE  WiringInv' /\ obj' = obj
<1>1. /\ Typed(Stage, Fields, Handle)' /\ Only(x) /\ PassInv(x, Updating, Removing)'
      /\ obj' = obj /\ pass' = pass
  BY CacheStep, Parts
<1>2. HasRow(x) => Claimed(x)'
  BY <1>1, Unclaimed DEF Claimed
<1>3. QED
  BY <1>1, <1>2, ObjectStep

LEMMA CrashStep ==
  ASSUME WiringInv, Crash, UNCHANGED tables
  PROVE  WiringInv'
<1>1. /\ Typed(Stage, Fields, Handle)' /\ obj' = obj
      /\ \A x \in Object : /\ PassInv(x, Updating, Removing)'
                           /\ pass'[x].at = "idle" /\ ~pass'[x].missing
  BY CrashInv, Parts, Shape
<1>2. TablesInv'
  BY NoTransaction
<1>3. switches' = switches /\ routers' = routers /\ ports' = ports
  BY DEF tables
<1>4. ASSUME NEW x \in Object PROVE SoughtInv(x)' /\ CoveredInv(x)'
  <2>1. CoveredInv(x)
    BY Parts
  <2>2. QED
    BY <1>1, <1>3, <2>1 DEF SoughtInv, CoveredInv, HasRow, Exists, Claimed, At
<1>5. \A v \in Vm : NicInv(v)'
  BY <1>1, ObjectAssumption DEF NicInv, At
<1>6. QED
  BY <1>1, <1>2, <1>4, <1>5, NextParts

\* northd changes the addresses of a port, which nothing above depends on.
LEMMA NorthdStep ==
  ASSUME WiringInv, Northd
  PROVE  WiringInv'
<1>1. PICK p \in ports : Lease(p)
  BY DEF Northd
<1> DEFINE name == p.name
           mac == p.mac
<1>2. TablesInv /\ SetAddress(name, mac, "leased")
      /\ obj' = obj /\ cache' = cache /\ pass' = pass
  BY <1>1, Parts DEF Lease, Northd
<1>3. mac \in {NoMac} \cup {Mac[v] : v \in Vm} \cup SwitchName /\ "leased" \in Ip
  BY <1>2 DEF TablesInv, PortRow, Ip
<1> HIDE DEF name, mac
<1>4. TablesInv'
  BY <1>2, <1>3, SetAddressStep
<1>5. /\ switches' = switches /\ routers' = routers /\ routerPorts' = routerPorts
      /\ \A a \in ports' : \E b \in ports : b.name = a.name /\ b.owner = a.owner
  <2>1. ASSUME NEW b \in PortRow
        PROVE  /\ [b EXCEPT !.mac = mac, !.ip = "leased"].name = b.name
               /\ [b EXCEPT !.mac = mac, !.ip = "leased"].owner = b.owner
    BY DEF PortRow
  <2>2. ASSUME NEW a \in ports'
        PROVE  \E b \in ports : b.name = a.name /\ b.owner = a.owner
    <3>1. PICK b \in ports :
            a = IF b.name = name THEN [b EXCEPT !.mac = mac, !.ip = "leased"] ELSE b
      BY <1>2, <2>2 DEF SetAddress
    <3>2. b \in PortRow
      BY <1>2 DEF TablesInv
    <3>3. b.name = a.name /\ b.owner = a.owner
      BY <2>1, <3>1, <3>2
    <3>4. QED
      BY <3>3
  <2>3. switches' = switches /\ routers' = routers /\ routerPorts' = routerPorts
    BY <1>2 DEF SetAddress
  <2>4. QED
    BY <2>2, <2>3
<1>6. \A other : Exists(ports, other)' => Exists(ports, other)
  BY <1>5 DEF Exists
<1>7. ASSUME NEW x \in Object PROVE SoughtInv(x)' /\ CoveredInv(x)'
  <2>1. SoughtInv(x) /\ CoveredInv(x)
    BY Parts
  <2>2. QED
    BY <1>2, <1>5, <1>6, <2>1 DEF SoughtInv, CoveredInv, HasRow, Exists, Claimed, At
<1>8. ASSUME NEW v \in Vm PROVE NicInv(v)'
  <2>1. NicInv(v)
    BY Parts
  <2>2. QED
    BY <1>2, <1>5, <2>1 DEF NicInv, At
<1>9. Typed(Stage, Fields, Handle)' /\ \A x \in Object : PassInv(x, Updating, Removing)'
  BY <1>2, Parts DEF Typed, PassInv, CacheInv, At, Claimed, Deleted
<1>10. QED
  BY <1>4, <1>7, <1>8, <1>9, NextParts

\* The steps that passes of all kinds have.
LEMMA StartPassStep ==
  ASSUME WiringInv, NEW x \in Object, StartPass(x)
  PROVE  WiringInv'
<1> DEFINE remove == IF x \in Vm THEN "disconnect" ELSE "delete"
<1>1. Start(x, remove) /\ UNCHANGED tables /\ remove \in Removing
      /\ remove \in {"delete", "disconnect"}
  BY DEF StartPass, Removing
<1> HIDE DEF remove
<1>2. /\ Typed(Stage, Fields, Handle)' /\ Only(x) /\ obj' = obj
      /\ PassInv(x, Updating, Removing)'
      /\ pass'[x].at \in {"finalizer", remove} /\ ~pass'[x].missing
  BY <1>1, StartInv, Parts, Shape
<1>3. HasRow(x) => Claimed(x)'
  BY <1>2, Unclaimed DEF Claimed
<1>4. QED
  BY <1>1, <1>2, <1>3, ObjectStep

LEMMA EnsureFinalizerStep ==
  ASSUME WiringInv, NEW x \in Object, UNCHANGED tables,
         EnsureFinalizer(x, IF x \in Vm THEN "switch" ELSE "row")
  PROVE  WiringInv'
<1> DEFINE next == IF x \in Vm THEN "switch" ELSE "row"
<1>1. next \in Updating /\ next \in {"switch", "row"} /\ EnsureFinalizer(x, next)
  BY DEF Updating
<1> HIDE DEF next
<1>2. /\ Typed(Stage, Fields, Handle)' /\ Only(x) /\ PassInv(x, Updating, Removing)'
      /\ pass[x].at = "finalizer" /\ pass'[x].at \in {"idle", next}
      /\ (pass'[x].missing => pass[x].missing)
      /\ \/ obj' = obj
         \/ obj[x] \in Fields /\ ~obj[x].finalizer
  BY <1>1, EnsureFinalizerInv, Parts, Shape
<1>3. ~pass'[x].missing
  BY <1>2, NothingSought
<1>4. HasRow(x) => Claimed(x)'
  BY <1>2, Unclaimed DEF Claimed
<1>5. QED
  BY <1>1, <1>2, <1>3, <1>4, ObjectStep

LEMMA RemoveFinalizerStep ==
  ASSUME WiringInv, NEW x \in Object, UNCHANGED tables, RemoveFinalizer(x)
  PROVE  WiringInv'
<1>1. /\ Typed(Stage, Fields, Handle)' /\ Only(x) /\ PassInv(x, Updating, Removing)'
      /\ pass[x].at = "unfinalize" /\ pass'[x].at = "idle" /\ ~pass'[x].missing
  BY RemoveFinalizerInv, Parts, Shape
<1>2. ~HasRow(x)
  BY <1>1, Parts DEF CoveredInv, At
<1>3. QED
  BY <1>1, <1>2, ObjectStep

LEMMA WiringInit == Init => WiringInv
<1> SUFFICES ASSUME Init PROVE WiringInv
  OBVIOUS
<1>1. \A x \in Object : NewObject(x) \in Fields
  BY NewObjectType
<1>2. Idle \in [at: Stage, copy: Fields \cup {None}, fresh: BOOLEAN, missing: BOOLEAN,
                handle: Handle]
  BY DEF Idle, Stage, Handle
<1>3. Typed(Stage, Fields, Handle)
  <2>1. Current \in [behind: BOOLEAN, copy: Fields \cup {None}, fresh: BOOLEAN]
    BY DEF Current
  <2>2. QED
    BY <1>1, <1>2, <2>1 DEF Init, Typed, Passes, Caches
<1>4. TablesInv
  BY FS_EmptySet DEF Init, EmptyTables, TablesInv, UniqueRows, Unique, NicRowInv
<1>5. \A x \in Object : pass[x].at = "idle" /\ ~pass[x].missing /\ ~pass[x].fresh
  BY DEF Init, Idle
<1>6. \A x \in Object : PassInv(x, Updating, Removing)
  <2>1. \A x \in Object : ~cache[x].behind /\ ~cache[x].fresh
    BY DEF Init, Current
  <2>2. QED
    BY <1>5, <2>1 DEF PassInv, CacheInv, At, Updating, Removing
<1>7. \A x \in Object : SoughtInv(x) /\ CoveredInv(x)
  BY <1>5 DEF SoughtInv, CoveredInv, HasRow, Exists, Init, EmptyTables
<1>8. \A v \in Vm : NicInv(v)
  BY <1>5, ObjectAssumption DEF NicInv, At
<1>9. QED
  BY <1>3, <1>4, <1>6, <1>7, <1>8, Parts

LEMMA WorldInv == Spec => [](world \subseteq Object)
<1>1. Init => world \subseteq Object
  BY WorldAssumption DEF Init
<1>2. world \subseteq Object /\ [Next]_vars => (world \subseteq Object)'
  BY DEF Next, vars, StartPass, PassStep, ReapObject, Watch, Northd, Environment, NetworkStep,
         RouterStep, VmStep, NetworkSwitch, NetworkDhcp, NetworkSubnet, NetworkRouter,
         ConnectRouterPort, ConnectPeer, ReportCreated, RemoveNetwork, RouterRow, RouterRoutes,
         RouterDeploy, RouterMds, RemoveRouter, VmSwitch, VmPort, VmAddress, VmSetAddress,
         VmNetwork, VmOptions, VmLease, VmStatus, VmDisconnect, VmDeletePort
<1>3. QED
  BY <1>1, <1>2, PTL DEF Spec

LEMMA WiringStep == world \subseteq Object /\ WiringInv /\ [Next]_vars => WiringInv'
<1> SUFFICES ASSUME world \subseteq Object, WiringInv, [Next]_vars PROVE WiringInv'
  OBVIOUS
<1>1. ASSUME NEW x \in Object, PassStep(x) PROVE WiringInv'
  BY <1>1, EnsureFinalizerStep, RemoveFinalizerStep, NetworkStepInv, RouterStepInv, VmStepInv
     DEF PassStep
<1>2. ASSUME NEW x \in Object, ReapObject(x) PROVE WiringInv'
  BY <1>2, UsersStep DEF ReapObject
<1>3. CASE Environment
  <2>1. UNCHANGED tables
    BY <1>3 DEF Environment
  <2>2. ASSUME NEW x \in Object, Fault(x, ApiCalls) PROVE WiringInv'
    <3>1. End(x) /\ UNCHANGED <<obj, cache>>
      BY <2>2 DEF Fault
    <3>2. QED
      BY <2>1, <3>1, EndStep
  <2>3. QED
    BY <1>3, <2>1, <2>2, UsersStep, CacheMoves, EditStep, CrashStep DEF Environment
<1>4. CASE UNCHANGED vars
  <2>1. UNCHANGED tables /\ obj' = obj /\ cache' = cache /\ pass' = pass
    BY <1>4 DEF vars, tables
  <2>2. TablesInv'
    BY <2>1, NoTransaction
  <2>3. /\ Typed(Stage, Fields, Handle)' /\ \A x \in Object : PassInv(x, Updating, Removing)'
    BY <2>1, Parts DEF Typed, PassInv, CacheInv, At, Claimed, Deleted
  <2>4. /\ \A x \in Object : SoughtInv(x)' /\ CoveredInv(x)'
        /\ \A v \in Vm : NicInv(v)'
    <3>1. /\ switches' = switches /\ routers' = routers /\ ports' = ports
          /\ routerPorts' = routerPorts
      BY <2>1 DEF tables
    <3>2. ASSUME NEW x \in Object PROVE SoughtInv(x)' /\ CoveredInv(x)'
      <4>1. SoughtInv(x) /\ CoveredInv(x)
        BY Parts
      <4>2. QED
        BY <2>1, <3>1, <4>1 DEF SoughtInv, CoveredInv, HasRow, Exists, Claimed, At
    <3>3. ASSUME NEW v \in Vm PROVE NicInv(v)'
      <4>1. NicInv(v)
        BY Parts
      <4>2. QED
        BY <2>1, <3>1, <4>1 DEF NicInv, At
    <3>4. QED
      BY <3>2, <3>3
  <2>5. QED
    BY <2>2, <2>3, <2>4, NextParts
<1>5. ASSUME NEW x \in Object, Watch(x) PROVE WiringInv'
  BY <1>5, CacheMoves DEF Watch
<1>6. QED
  BY <1>1, <1>2, <1>3, <1>4, <1>5, StartPassStep, NorthdStep DEF Next

-----------------------------------------------------------------------------
(* The theorems about states                                               *)

\* The invariant holds: however the passes of networks, routers and VMs
\* interleave, whichever call fails and whenever the process restarts, a row
\* that a pass has found to be missing is missing when it inserts it
\* (common.rs, create_if_missing), and an object has no row left when its
\* finalizer is about to go (network.rs, router.rs, virtualmachine/ovn.rs).
THEOREM WiringInductive == Spec => []WiringInv
BY WiringInit, WiringStep, WorldInv, PTL DEF Spec

\* No table ever has two rows with one name, although the lookup and the
\* insertion are two transactions.
THEOREM RowsUnique == Spec => []UniqueRows
<1>1. WiringInv => UniqueRows
  BY DEF WiringInv
<1>2. QED
  BY <1>1, WiringInductive, PTL

\* No port of a VM is there without the VM's finalizer: none outlives its VM.
THEOREM PortsCovered == Spec => []PortsAreCovered
<1>1. WiringInv => PortsAreCovered
  <2> SUFFICES ASSUME WiringInv, NEW p \in ports, p.name \in Vm PROVE Claimed(p.name)
    BY DEF PortsAreCovered
  <2>1. p.name \in Object /\ CoveredInv(p.name)
    BY ObjectAssumption DEF WiringInv
  <2>2. HasRow(p.name)
    BY DEF HasRow, Exists
  <2>3. QED
    BY <2>1, <2>2 DEF CoveredInv
<1>2. QED
  BY <1>1, WiringInductive, PTL

-----------------------------------------------------------------------------
(* The refinement                                                          *)

Owners == Network \cup Router
Claims == [x \in Owners |-> Claim(x)]
Rows == {n \in Network : Exists(switches, n)} \cup {r \in Router : Exists(routers, r)}

\* What FinalizedResource sees of a step that concerns x alone.
LEMMA ClaimsStep ==
  ASSUME NEW x \in Object, \A y \in Object \ {x} : obj'[y] = obj[y]
  PROVE  /\ x \notin Owners => Claims' = Claims
         /\ Claim(x)' = Claim(x) => Claims' = Claims
         /\ Claims' = [Claims EXCEPT ![x] = Claim(x)']
BY ObjectAssumption DEF Claims, Claim, Owners

\* What FinalizedResource sees of an object.
LEMMA ClaimOf ==
  ASSUME NEW x \in Owners
  PROVE  /\ Claims[x] = Claim(x)
         /\ obj[x] = None => Claim(x) = None
         /\ obj[x] \in Fields =>
              /\ Claim(x) = [claimed |-> obj[x].finalizer, deleted |-> obj[x].deleted]
              /\ Claim(x) # None
              /\ Claim(x).claimed = obj[x].finalizer
              /\ Claim(x).deleted = obj[x].deleted
<1>1. ASSUME obj[x] \in Fields
      PROVE  /\ Claim(x) = [claimed |-> obj[x].finalizer, deleted |-> obj[x].deleted]
             /\ Claim(x) \in [claimed: BOOLEAN, deleted: BOOLEAN]
             /\ Claim(x).claimed = obj[x].finalizer
             /\ Claim(x).deleted = obj[x].deleted
  BY <1>1, NoneAssumption DEF Claim, Fields
<1>2. QED
  BY <1>1, NoneAssumption DEF Claims, Claim

\* A change of the object of x.
LEMMA ObjectRefines ==
  ASSUME WiringInv, NEW x \in Object, Only(x), UNCHANGED tables,
         \/ obj'[x] = obj[x]
         \/ /\ obj[x] \in Fields /\ obj'[x] \in Fields
            /\ obj'[x].finalizer = obj[x].finalizer /\ obj'[x].deleted = obj[x].deleted
         \/ obj[x] = None /\ obj'[x] \in Fields /\ ~obj'[x].finalizer /\ ~obj'[x].deleted
         \/ /\ obj[x] \in Fields /\ ~obj[x].finalizer /\ ~obj[x].deleted
            /\ obj'[x] \in Fields /\ obj'[x].finalizer /\ ~obj'[x].deleted
         \/ /\ obj[x] \in Fields /\ ~obj[x].deleted
            /\ obj'[x] \in Fields /\ obj'[x].deleted /\ obj'[x].finalizer = obj[x].finalizer
         \/ /\ obj[x] \in Fields /\ obj[x].finalizer /\ obj[x].deleted /\ ~HasRow(x)
            /\ obj'[x] \in Fields /\ ~obj'[x].finalizer /\ obj'[x].deleted
         \/ obj[x] \in Fields /\ obj[x].deleted /\ ~obj[x].finalizer /\ obj'[x] = None
  PROVE  [Managed!Next]_<<Claims, Rows>>
<1>1. Rows' = Rows
  BY DEF tables, Rows, Exists
<1>2. /\ obj'[x] = None => Claim(x)' = None
      /\ obj'[x] \in Fields =>
            Claim(x)' = [claimed |-> obj'[x].finalizer, deleted |-> obj'[x].deleted]
  BY NoneAssumption DEF Claim
<1>3. /\ obj[x] = None => Claim(x) = None
      /\ obj[x] \in Fields =>
            Claim(x) = [claimed |-> obj[x].finalizer, deleted |-> obj[x].deleted]
  BY NoneAssumption DEF Claim
<1>4. CASE x \notin Owners \/ obj'[x] = obj[x]
  <2>1. obj'[x] = obj[x] => Claim(x)' = Claim(x)
    BY DEF Claim
  <2>2. Claims' = Claims
    BY <1>4, <2>1, ClaimsStep DEF Only
  <2>3. QED
    BY <1>1, <2>2
<1>5. CASE /\ obj[x] \in Fields /\ obj'[x] \in Fields
           /\ obj'[x].finalizer = obj[x].finalizer /\ obj'[x].deleted = obj[x].deleted
  <2>1. Claim(x)' = Claim(x)
    BY <1>2, <1>3, <1>5
  <2>2. Claims' = Claims
    BY <2>1, ClaimsStep DEF Only
  <2>3. QED
    BY <1>1, <2>2
<1>6. CASE x \in Owners /\ obj'[x] # obj[x]
  <2>1. /\ Claims' = [Claims EXCEPT ![x] = Claim(x)']
        /\ Claims[x] = Claim(x)
    BY <1>6, ClaimsStep, ClaimOf DEF Only
  <2>2. obj[x] \in Fields =>
          /\ Claim(x) # None
          /\ Claim(x).claimed = obj[x].finalizer
          /\ Claim(x).deleted = obj[x].deleted
    BY <1>6, ClaimOf
  <2>3. \A o \in Fields : o.finalizer \in BOOLEAN /\ o.deleted \in BOOLEAN
    BY DEF Fields
  <2>4. x \in Rows <=> HasRow(x)
    BY <1>6, ObjectAssumption DEF Rows, HasRow, Owners
  <2>5. CASE obj[x] = None /\ obj'[x] \in Fields /\ ~obj'[x].finalizer /\ ~obj'[x].deleted
    <3>1. Claim(x)' = [claimed |-> FALSE, deleted |-> FALSE] /\ Claim(x) = None
      BY <1>2, <1>3, <2>3, <2>5
    <3>2. Managed!Create(x)
      BY <1>1, <2>1, <3>1 DEF Claims, Rows, Owners, Managed!Create, Managed!Set, Managed!New
    <3>3. QED
      BY <1>6, <3>2 DEF Managed!Next, Owners
  <2>6. CASE /\ obj[x] \in Fields /\ ~obj[x].finalizer /\ ~obj[x].deleted
             /\ obj'[x] \in Fields /\ obj'[x].finalizer /\ ~obj'[x].deleted
    <3>1. /\ Claim(x) = [claimed |-> FALSE, deleted |-> FALSE]
          /\ Claim(x)' = [claimed |-> TRUE, deleted |-> FALSE]
      BY <1>2, <1>3, <2>3, <2>6
    <3>2. Managed!Claim(x)
      BY <1>1, <2>1, <3>1 DEF Claims, Rows, Owners, Managed!Claim, Managed!Set, Managed!New
    <3>3. QED
      BY <1>6, <3>2 DEF Managed!Next, Owners
  <2>7. CASE /\ obj[x] \in Fields /\ ~obj[x].deleted
             /\ obj'[x] \in Fields /\ obj'[x].deleted /\ obj'[x].finalizer = obj[x].finalizer
    <3>1. /\ Claim(x)' = [claimed |-> Claim(x).claimed, deleted |-> TRUE]
          /\ Claim(x) \in [claimed: BOOLEAN, deleted: BOOLEAN]
      BY <1>2, <1>3, <2>2, <2>3, <2>7
    <3>2. Claims' = [Claims EXCEPT ![x] = [Claims[x] EXCEPT !.deleted = TRUE]]
      BY <2>1, <3>1, ClaimUpdate, Zenon
    <3>3. Claims[x] # None /\ ~Claims[x].deleted
      BY <2>1, <2>2, <2>7
    <3>4. Managed!Delete(x)
      BY <1>1, <3>2, <3>3, Zenon DEF Claims, Rows, Owners, Managed!Delete, Managed!Set
    <3>5. QED
      BY <1>6, <3>4 DEF Managed!Next, Owners
  <2>8. CASE /\ obj[x] \in Fields /\ obj[x].finalizer /\ obj[x].deleted /\ ~HasRow(x)
             /\ obj'[x] \in Fields /\ ~obj'[x].finalizer /\ obj'[x].deleted
    <3>1. /\ Claim(x)' = [claimed |-> FALSE, deleted |-> TRUE]
          /\ Claim(x) \in [claimed: BOOLEAN, deleted: BOOLEAN]
          /\ Claim(x).deleted = TRUE
      BY <1>2, <1>3, <2>2, <2>3, <2>8
    <3>2. [Claim(x) EXCEPT !.claimed = FALSE] = [claimed |-> FALSE, deleted |-> TRUE]
      BY <3>1, ClaimUpdate, Zenon
    <3>3. Claims' = [Claims EXCEPT ![x] = [Claims[x] EXCEPT !.claimed = FALSE]]
      BY <2>1, <3>1, <3>2, Zenon
    <3>4. Claims[x] # None /\ Claims[x].claimed /\ Claims[x].deleted /\ x \notin Rows
      BY <2>1, <2>2, <2>4, <2>8
    <3>5. Managed!Release(x)
      BY <1>1, <3>3, <3>4, Zenon DEF Claims, Rows, Owners, Managed!Release, Managed!Claimed,
                                     Managed!Set
    <3>6. QED
      BY <1>6, <3>5 DEF Managed!Next, Owners
  <2>9. CASE obj[x] \in Fields /\ obj[x].deleted /\ ~obj[x].finalizer /\ obj'[x] = None
    <3>1. Managed!Remove(x)
      BY <1>1, <1>2, <2>1, <2>2, <2>9 DEF Claims, Rows, Owners, Managed!Remove, Managed!Set
    <3>2. QED
      BY <1>6, <3>1 DEF Managed!Next, Owners
  <2>10. QED
    BY <1>5, <1>6, <2>5, <2>6, <2>7, <2>8, <2>9
<1>7. QED
  BY <1>4, <1>6

\* A transaction of the pass of x: of the rows of Rows it can make or delete
\* only that of x.
LEMMA TransactionRefines ==
  ASSUME WiringInv, NEW x \in Object, obj' = obj,
         \/ Rows' = Rows
         \/ x \in Owners /\ Rows' = Rows \cup {x} /\ pass[x].at \in Updating
         \/ x \in Owners /\ Rows' = Rows \ {x} /\ HasRow(x) /\ pass[x].at \in Removing
  PROVE  [Managed!Next]_<<Claims, Rows>>
<1>1. Claims' = Claims
  BY DEF Claims, Claim
<1>2. PassInv(x, Updating, Removing) /\ CoveredInv(x) /\ obj[x] \in Fields \cup {None}
  BY Parts DEF Typed
<1>3. ASSUME x \in Owners, Claimed(x)
      PROVE  Claims[x] # None /\ Claims[x].claimed /\ Claims[x].deleted = obj[x].deleted
  BY <1>2, <1>3, ClaimOf DEF Claimed
<1>4. CASE Rows' = Rows
  BY <1>1, <1>4
<1>5. CASE x \in Owners /\ Rows' = Rows \cup {x} /\ pass[x].at \in Updating
  <2>1. Claimed(x)
    BY <1>2, <1>5 DEF PassInv
  <2>2. Managed!Make(x)
    BY <1>1, <1>3, <1>5, <2>1 DEF Managed!Make, Managed!Claimed, Claims, Rows, Owners
  <2>3. QED
    BY <1>5, <2>2 DEF Managed!Next, Owners
<1>6. CASE x \in Owners /\ Rows' = Rows \ {x} /\ HasRow(x) /\ pass[x].at \in Removing
  <2>1. Claimed(x) /\ obj[x].deleted
    BY <1>2, <1>6 DEF PassInv, CoveredInv, Deleted
  <2>2. Managed!Unmake(x)
    BY <1>1, <1>3, <1>6, <2>1 DEF Managed!Unmake, Managed!Claimed, Claims, Rows, Owners
  <2>3. QED
    BY <1>6, <2>2 DEF Managed!Next, Owners
<1>7. QED
  BY <1>4, <1>5, <1>6

\* Steps that FinalizedResource does not see.
LEMMA Unseen ==
  ASSUME switches' = switches, routers' = routers, obj' = obj
  PROVE  [Managed!Next]_<<Claims, Rows>>
BY DEF Claims, Claim, Rows, Exists


LEMMA NetworkRefines ==
  ASSUME WiringInv, NEW n \in Network, NetworkStep(n)
  PROVE  [Managed!Next]_<<Claims, Rows>>
<1>1. TablesInv /\ n \in Object /\ n \in Owners /\ n \notin Router
  BY Parts, ObjectAssumption DEF Owners
<1>2. CASE NetworkSwitch(n)
  <2>1. obj' = obj /\ pass[n].at \in Updating
    BY <1>2 DEF NetworkSwitch, Updating, At
  <2>2. CASE UNCHANGED tables
    BY <2>1, <2>2, Unseen DEF tables
  <2>3. CASE InsertSwitch(n, Handles)
    <3> DEFINE new == [id |-> NewId(switches, Handles), name |-> n, subnet |-> FALSE]
    <3>1. switches' = switches \cup {new} /\ routers' = routers /\ new.name = n
      BY <2>3 DEF InsertSwitch
    <3> HIDE DEF new
    <3>2. /\ \A name : Exists(switches, name)' <=> Exists(switches, name) \/ name = n
          /\ \A name : Exists(routers, name)' <=> Exists(routers, name)
      BY <3>1 DEF Exists
    <3>3. Rows' = Rows \cup {n}
      BY <1>1, <3>2 DEF Rows
    <3>4. QED
      BY <1>1, <2>1, <3>3, TransactionRefines
  <2>4. QED
    BY <1>2, <2>2, <2>3 DEF NetworkSwitch, CreateIfMissing
<1>3. CASE NetworkSubnet(n)
  <2> DEFINE id == GetByName(switches, n).id
  <2>1. SetCidr(id) /\ obj' = obj
    BY <1>3 DEF NetworkSubnet
  <2> HIDE DEF id
  <2>2. ASSUME NEW s \in switches PROVE [s EXCEPT !.subnet = TRUE].name = s.name
    BY <1>1 DEF TablesInv, SwitchRow
  <2>3. \A name : Exists(switches, name)' <=> Exists(switches, name)
    BY <2>1, <2>2 DEF SetCidr, Exists
  <2>4. Rows' = Rows
    BY <2>1, <2>3 DEF SetCidr, Rows, Exists
  <2>5. QED
    BY <1>1, <2>1, <2>4, TransactionRefines
<1>4. CASE NetworkDhcp(n) \/ NetworkRouter(n)
  BY <1>4, Unseen DEF NetworkDhcp, NetworkRouter, InsertDhcp, tables
<1>5. CASE \/ ConnectRouterPort(n, Attachment[n], n, pass[n].handle)
           \/ ConnectPeer(n, Attachment[n], n, "status")
  BY <1>5, Unseen DEF ConnectRouterPort, ConnectPeer, CreateIfMissing, InsertRouterPort,
                      InsertPort, tables
<1>6. CASE RemoveNetwork(n)
  <2>1. obj' = obj /\ pass[n].at \in Removing
    BY <1>6 DEF RemoveNetwork, Removing, At
  <2>2. CASE ~Exists(switches, n)
    BY <1>6, <2>1, <2>2, Unseen DEF RemoveNetwork, tables
  <2>3. CASE Exists(switches, n)
    <3> DEFINE row == GetByName(switches, n)
    <3>1. switches' = {s \in switches : s.id # row.id} /\ routers' = routers
      BY <1>6, <2>3 DEF RemoveNetwork, DeleteSwitch
    <3>2. row \in switches /\ row.name = n
      BY <2>3, Found
    <3> HIDE DEF row
    <3>3. \A s \in switches : s.name = n <=> s.id = row.id
      BY <1>1, <3>2 DEF TablesInv, UniqueRows, Unique
    <3>4. /\ \A m \in Network : Exists(switches, m)' <=> Exists(switches, m) /\ m # n
          /\ \A r \in Router : Exists(routers, r)' <=> Exists(routers, r)
      BY <3>1, <3>3 DEF Exists
    <3>5. Rows' = Rows \ {n}
      BY <1>1, <3>4 DEF Rows
    <3>6. HasRow(n)
      BY <2>3 DEF HasRow
    <3>7. QED
      BY <1>1, <2>1, <3>5, <3>6, TransactionRefines
  <2>4. QED
    BY <2>2, <2>3
<1>7. CASE ReportCreated(n)
  <2>1. /\ pass[n].at = "status" /\ UNCHANGED tables /\ TRUE \in BOOLEAN
        /\ Write(n, [pass[n].copy EXCEPT !.reported = TRUE], "idle")
    BY <1>7 DEF ReportCreated, At
  <2>2. Only(n) /\ (\/ obj' = obj
                    \/ /\ obj[n] \in Fields /\ obj'[n] \in Fields
                       /\ obj'[n].finalizer = obj[n].finalizer
                       /\ obj'[n].deleted = obj[n].deleted)
    BY <1>1, <2>1, StatusInv
  <2>3. QED
    BY <1>1, <2>1, <2>2, ObjectRefines
<1>8. QED
  BY <1>2, <1>3, <1>4, <1>5, <1>6, <1>7 DEF NetworkStep

LEMMA RouterRefines ==
  ASSUME WiringInv, NEW r \in Router, RouterStep(r)
  PROVE  [Managed!Next]_<<Claims, Rows>>
<1>1. TablesInv /\ r \in Object /\ r \in Owners /\ r \notin Network
  BY Parts, ObjectAssumption DEF Owners
<1>2. CASE RouterRow(r)
  <2>1. obj' = obj /\ pass[r].at \in Updating
    BY <1>2 DEF RouterRow, Updating, At
  <2>2. CASE UNCHANGED tables
    BY <2>1, <2>2, Unseen DEF tables
  <2>3. CASE InsertRouter(r, NoRoutes, Handles)
    <3> DEFINE new == [id |-> NewId(routers, Handles), name |-> r, routes |-> NoRoutes]
    <3>1. routers' = routers \cup {new} /\ switches' = switches /\ new.name = r
      BY <2>3 DEF InsertRouter
    <3> HIDE DEF new
    <3>2. /\ \A name : Exists(routers, name)' <=> Exists(routers, name) \/ name = r
          /\ \A name : Exists(switches, name)' <=> Exists(switches, name)
      BY <3>1 DEF Exists
    <3>3. Rows' = Rows \cup {r}
      BY <1>1, <3>2 DEF Rows
    <3>4. QED
      BY <1>1, <2>1, <3>3, TransactionRefines
  <2>4. QED
    BY <1>2, <2>2, <2>3 DEF RouterRow, CreateIfMissing
<1>3. CASE RouterRoutes(r)
  <2> DEFINE wanted == pass[r].copy.routes
  <2>1. SetRoutes(r, wanted) /\ obj' = obj
    BY <1>3 DEF RouterRoutes
  <2> HIDE DEF wanted
  <2>2. ASSUME NEW row \in routers
        PROVE  [row EXCEPT !.routes = RouteDiff(@, wanted)].name = row.name
    BY <1>1 DEF TablesInv, LogicalRouter
  <2>3. \A name : Exists(routers, name)' <=> Exists(routers, name)
    BY <2>1, <2>2 DEF SetRoutes, Exists
  <2>4. Rows' = Rows
    BY <2>1, <2>3 DEF SetRoutes, Rows, Exists
  <2>5. QED
    BY <1>1, <2>1, <2>4, TransactionRefines
<1>4. CASE RouterDeploy(r)
  BY <1>4, Unseen DEF RouterDeploy, tables
<1>5. CASE r \in DOMAIN MdsSwitch /\ RouterMds(r)
  <2> DEFINE s == MdsSwitch[r]
  <2>1. obj' = obj
    BY <1>5 DEF RouterMds, ConnectRouterPort, ConnectPeer
  <2>2. CASE switches' = switches /\ routers' = routers
    BY <2>1, <2>2, Unseen
  <2>3. CASE InsertSwitch(s, Handles)
    <3>1. s \notin Network
      BY <1>5, NameAssumption
    <3> HIDE DEF s
    <3>2. Rows' = Rows
      BY <2>3, <3>1 DEF InsertSwitch, Rows, Exists
    <3>3. QED
      BY <1>1, <2>1, <3>2, TransactionRefines
  <2>4. QED
    BY <1>5, <2>2, <2>3 DEF RouterMds, ConnectRouterPort, ConnectPeer, CreateIfMissing,
                            InsertRouterPort, InsertPort, SetAddress, tables
<1>6. CASE RemoveRouter(r)
  <2>1. obj' = obj /\ pass[r].at \in Removing
    BY <1>6 DEF RemoveRouter, Removing, At
  <2>2. CASE ~Exists(routers, r)
    BY <1>6, <2>1, <2>2, Unseen DEF RemoveRouter, tables
  <2>3. CASE Exists(routers, r)
    <3> DEFINE row == GetByName(routers, r)
    <3>1. routers' = {q \in routers : q.id # row.id} /\ switches' = switches
      BY <1>6, <2>3 DEF RemoveRouter, DeleteRouter
    <3>2. row \in routers /\ row.name = r
      BY <2>3, Found
    <3> HIDE DEF row
    <3>3. \A q \in routers : q.name = r <=> q.id = row.id
      BY <1>1, <3>2 DEF TablesInv, UniqueRows, Unique
    <3>4. /\ \A n \in Network : Exists(switches, n)' <=> Exists(switches, n)
          /\ \A q \in Router : Exists(routers, q)' <=> Exists(routers, q) /\ q # r
      BY <3>1, <3>3 DEF Exists
    <3>5. Rows' = Rows \ {r}
      BY <1>1, <3>4 DEF Rows
    <3>6. HasRow(r)
      BY <2>3 DEF HasRow
    <3>7. QED
      BY <1>1, <2>1, <3>5, <3>6, TransactionRefines
  <2>4. QED
    BY <2>2, <2>3
<1>7. CASE ReportCreated(r)
  <2>1. /\ pass[r].at = "status" /\ UNCHANGED tables /\ TRUE \in BOOLEAN
        /\ Write(r, [pass[r].copy EXCEPT !.reported = TRUE], "idle")
    BY <1>7 DEF ReportCreated, At
  <2>2. Only(r) /\ (\/ obj' = obj
                    \/ /\ obj[r] \in Fields /\ obj'[r] \in Fields
                       /\ obj'[r].finalizer = obj[r].finalizer
                       /\ obj'[r].deleted = obj[r].deleted)
    BY <1>1, <2>1, StatusInv
  <2>3. QED
    BY <1>1, <2>1, <2>2, ObjectRefines
<1>8. QED
  BY <1>2, <1>3, <1>4, <1>5, <1>6, <1>7 DEF RouterStep

LEMMA VmRefines ==
  ASSUME WiringInv, NEW v \in Vm, VmStep(v)
  PROVE  [Managed!Next]_<<Claims, Rows>>
<1>1. v \in Object
  BY ObjectAssumption
<1>2. CASE VmStatus(v)
  <2> DEFINE leased == pass[v].handle.ip = "leased"
  <2>1. /\ pass[v].at = "status" /\ UNCHANGED tables /\ leased \in BOOLEAN
        /\ Write(v, [pass[v].copy EXCEPT !.reported = leased], "idle")
    BY <1>2 DEF VmStatus, At
  <2> HIDE DEF leased
  <2>2. Only(v) /\ (\/ obj' = obj
                    \/ /\ obj[v] \in Fields /\ obj'[v] \in Fields
                       /\ obj'[v].finalizer = obj[v].finalizer
                       /\ obj'[v].deleted = obj[v].deleted)
    BY <1>1, <2>1, StatusInv
  <2>3. QED
    BY <1>1, <2>1, <2>2, ObjectRefines
<1>3. CASE \/ VmSwitch(v) \/ VmPort(v) \/ VmAddress(v) \/ VmSetAddress(v) \/ VmNetwork(v)
           \/ VmOptions(v) \/ VmLease(v) \/ VmDisconnect(v) \/ VmDeletePort(v)
  <2>1. switches' = switches /\ routers' = routers /\ obj' = obj
    BY <1>3 DEF VmSwitch, VmPort, VmAddress, VmSetAddress, VmNetwork, VmOptions, VmLease,
                VmDisconnect, VmDeletePort, CreateIfMissing, InsertPort, SetAddress,
                SetDhcpOptions, DeletePort, tables
  <2>2. QED
    BY <2>1, Unseen
<1>4. QED
  BY <1>2, <1>3 DEF VmStep

LEMMA WiringRefines ==
  world \subseteq Object /\ WiringInv /\ [Next]_vars => [Managed!Next]_<<Claims, Rows>>
<1> SUFFICES ASSUME world \subseteq Object, WiringInv, [Next]_vars
             PROVE  [Managed!Next]_<<Claims, Rows>>
  OBVIOUS
<1>1. ASSUME NEW x \in Object, PassStep(x)
      PROVE  [Managed!Next]_<<Claims, Rows>>
  <2> DEFINE next == IF x \in Vm THEN "switch" ELSE "row"
  <2>1. CASE EnsureFinalizer(x, next) /\ UNCHANGED tables
    <3>1. next \in Updating
      BY DEF Updating
    <3> HIDE DEF next
    <3>2. /\ Only(x)
          /\ \/ obj' = obj
             \/ /\ obj[x] \in Fields /\ ~obj[x].finalizer /\ ~obj[x].deleted
                /\ obj'[x] \in Fields /\ obj'[x].finalizer /\ ~obj'[x].deleted
      BY <2>1, <3>1, EnsureFinalizerInv, Parts, Shape
    <3>3. QED
      BY <2>1, <3>2, ObjectRefines
  <2>2. CASE RemoveFinalizer(x) /\ UNCHANGED tables
    <3>1. /\ Only(x) /\ pass[x].at = "unfinalize"
          /\ \/ obj' = obj
             \/ /\ obj[x] \in Fields /\ obj[x].finalizer /\ obj[x].deleted
                /\ obj'[x] \in Fields /\ ~obj'[x].finalizer /\ obj'[x].deleted
      BY <2>2, RemoveFinalizerInv, Parts, Shape
    <3>2. ~HasRow(x)
      BY <3>1, Parts DEF CoveredInv, At
    <3>3. QED
      BY <2>2, <3>1, <3>2, ObjectRefines
  <2>3. QED
    BY <1>1, <2>1, <2>2, NetworkRefines, RouterRefines, VmRefines DEF PassStep
<1>2. ASSUME NEW x \in Object, Delete(x), UNCHANGED tables
      PROVE  [Managed!Next]_<<Claims, Rows>>
  <2>1. /\ Only(x) /\ obj[x] \in Fields /\ ~obj[x].deleted
        /\ obj'[x] \in Fields /\ obj'[x].deleted /\ obj'[x].finalizer = obj[x].finalizer
    BY <1>2, DeleteInv, Parts, Shape
  <2>2. QED
    BY <1>2, <2>1, ObjectRefines
<1>3. ASSUME NEW x \in Object, Create(x, NewObject(x)), UNCHANGED tables
      PROVE  [Managed!Next]_<<Claims, Rows>>
  <2> DEFINE new == NewObject(x)
  <2>1. new \in Fields /\ ~new.finalizer /\ ~new.deleted /\ Create(x, new)
    BY <1>3, NewObjectType
  <2> HIDE DEF new
  <2>2. Only(x) /\ obj[x] = None /\ obj'[x] = new
    BY <2>1, CreateInv, Parts, Shape
  <2>3. QED
    BY <1>3, <2>1, <2>2, ObjectRefines
<1>4. ASSUME NEW x \in Object, ReapObject(x)
      PROVE  [Managed!Next]_<<Claims, Rows>>
  <2>1. /\ Only(x) /\ obj[x] \in Fields /\ obj[x].deleted /\ ~obj[x].finalizer
        /\ obj'[x] = None
    BY <1>4, ReapInv, Parts, Shape DEF ReapObject
  <2>2. QED
    BY <1>4, <2>1, ObjectRefines DEF ReapObject
<1>5. ASSUME NEW r \in Router, Edit(r), UNCHANGED tables
      PROVE  [Managed!Next]_<<Claims, Rows>>
  <2>1. r \in Object
    BY ObjectAssumption
  <2>2. /\ Only(r) /\ obj[r] \in Fields /\ obj'[r] \in Fields
        /\ obj'[r].finalizer = obj[r].finalizer /\ obj'[r].deleted = obj[r].deleted
    BY <1>5, EditInv
  <2>3. QED
    BY <1>5, <2>1, <2>2, ObjectRefines
<1>6. CASE Environment
  <2>1. UNCHANGED tables /\ switches' = switches /\ routers' = routers
    BY <1>6 DEF Environment, tables
  <2>2. ASSUME NEW x \in Object, Foreign(x) PROVE obj' = obj
    BY <2>2, ForeignInv, Parts, Shape
  <2>3. ASSUME NEW x \in Object, Foreign(x) \/ Fault(x, ApiCalls) \/ FallBehind(x)
        PROVE  [Managed!Next]_<<Claims, Rows>>
    BY <2>1, <2>2, <2>3, Unseen DEF Fault, FallBehind
  <2>4. CASE Crash
    BY <2>1, <2>4, Unseen DEF Crash
  <2>5. QED
    BY <1>2, <1>3, <1>5, <1>6, <2>1, <2>3, <2>4 DEF Environment
<1>7. CASE Northd \/ UNCHANGED vars \/ \E x \in Object : StartPass(x) \/ Watch(x)
  BY <1>7, Unseen DEF Northd, Lease, SetAddress, vars, StartPass, Start, Watch, CatchUp, tables
<1>8. QED
  BY <1>1, <1>4, <1>6, <1>7 DEF Next

\* At first no object is claimed or deleted, and there are no rows.
LEMMA ManagedInit == Init => Managed!Init
<1> SUFFICES ASSUME Init PROVE Managed!Init
  OBVIOUS
<1>1. ASSUME NEW x \in Network \cup Router
      PROVE  Claim(x) \in {None, [claimed |-> FALSE, deleted |-> FALSE]}
  BY ObjectAssumption DEF Init, Claim, NewObject
<1>2. \A x : ~Exists(switches, x) /\ ~Exists(routers, x)
  BY DEF Init, EmptyTables, Exists
<1>3. QED
  BY <1>1, <1>2 DEF Managed!Init, Managed!New

\* The switches of networks and the rows of routers keep the promise of
\* FinalizedResource: made only for an object with the finalizer, deleted only
\* while that object is being deleted, gone before the finalizer is (network.rs
\* and router.rs with resource_controller.rs).
THEOREM RowsManaged == Spec => ManagedRows
<1>1. world \subseteq Object /\ WiringInv /\ [Next]_vars
      => [Managed!Next]_<<[x \in Network \cup Router |-> Claim(x)],
                          {n \in Network : Exists(switches, n)}
                          \cup {r \in Router : Exists(routers, r)}>>
  BY WiringRefines DEF Claims, Rows, Owners
<1>2. QED
  BY <1>1, ManagedInit, WorldInv, WiringInductive, PTL DEF Spec, ManagedRows, Managed!Spec

=============================================================================
