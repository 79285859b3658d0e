-------------------------------- MODULE VmNics --------------------------------
(***************************************************************************)
(* The addresses of a VM's NICs: what fill_nics                            *)
(* (cluster/controllers/virtualmachine/utils.rs) keeps in status.networks, *)
(* a MAC address for every NIC and a port id for those on an OVN network,  *)
(* from the migration of VmCrd on.  The port controller, the host agents   *)
(* and the metadata service all find a NIC by them.                        *)
(*                                                                         *)
(* A pass of the vm controller is followed from initialize_status to the   *)
(* commit of fill_nics; VmScheduling has the rest.  A VM leaves in one     *)
(* step here.  The number of queues and VLAN ids are left out: they are    *)
(* copied by every pass.                                                   *)
(***************************************************************************)
EXTENDS VmCrd, SequencesExt

CONSTANTS
  EvpnBridge,   \* spec.bridge of the networks that are of type Evpn
  Network,      \* the names of networks
  NicList,      \* the values of spec.networks that users write
  World         \* the definition and VMs at the start, and the events to come

\* A stored VM: the version it is written in, spec.networks and status.networks.
IsVm(o) == /\ o = [encoding |-> o.encoding, spec |-> o.spec, status |-> o.status]
           /\ o.encoding \in {Old, Latest}

\* At the start, too, VMs are in versions that the definition remembers.
ASSUME WorldAssumption ==
  \A w \in World :
    /\ \A event \in DOMAIN w.events : w.events[event] \in Nat
    /\ w.crd \in Definition \cup {None}
    /\ w.crd # None => w.crd.storage \in w.crd.stored /\ w.crd.stored \subseteq w.crd.versions
    /\ w.vms = [v \in Object |-> w.vms[v]]
    /\ \A v \in Object : w.vms[v] # None => /\ IsVm(w.vms[v])
                                           /\ w.crd # None
                                           /\ w.vms[v].encoding \in w.crd.stored
ASSUME EvpnAssumption == DOMAIN EvpnBridge \subseteq Network

VARIABLE networks   \* the Network objects that exist

vars == <<obj, cache, pass, budget, crd, boot, networks>>

-----------------------------------------------------------------------------
(* NICs                                                                    *)

\* A NIC of spec.networks or status.networks: a network by name, or a bridge.
Nic(name, bridge, mac, id) == [name |-> name, bridge |-> bridge, mac |-> mac, id |-> id]
NewVm(nics) == [encoding |-> crd.storage, spec |-> nics, status |-> None]

\* find_matching_network compares names if there is one, and bridges otherwise.
Matches(nic, candidate) ==
  IF nic.name # None THEN candidate.name = nic.name ELSE candidate.bridge = nic.bridge

\* find_matching_network: the first NIC of the list with the same target.
FindMatchingNetwork(list, nic) ==
  LET i == SelectInSeq(list, LAMBDA candidate : Matches(nic, candidate))
  IN  IF i = 0 THEN None ELSE list[i]

\* generate_mac_address: a hash of the VM, the target and the place.
GenerateMac(v, nic, index) == <<v, IF nic.name = None THEN nic.bridge ELSE nic.name, index>>

\* Uuid::new_v4, distinct from the port ids of all VMs.
NewId(index) ==
  index + Max({0} \cup UNION {{nic.id : nic \in {n \in ToSet(obj[v].spec \o
                 (IF obj[v].status = None THEN <<>> ELSE obj[v].status)) : n.id # None}}
                 : v \in {w \in Object : obj[w] # None}})

\* What is given comes first, then what there is, then what is made up.
Prefer(given, kept, new) == IF given # None THEN given ELSE IF kept # None THEN kept ELSE new

\* Mutant: the address in the status is made up again.
FillNicAnew(v, old, nic, index) ==
  LET found == FindMatchingNetwork(old, nic)
      entry == IF found = None THEN Nic(nic.name, nic.bridge, None, None) ELSE found
      filled == [entry EXCEPT !.mac = Prefer(nic.mac, None, GenerateMac(v, nic, index))]
  IN  IF nic.name \notin Network \ DOMAIN EvpnBridge THEN filled
      ELSE [filled EXCEPT !.id = Prefer(nic.id, @, NewId(index))]

\* The body of the loop of fill_nics: the status of one NIC.
FillNic(v, old, nic, index) ==
  LET found == FindMatchingNetwork(old, nic)
      entry == IF found = None THEN Nic(nic.name, nic.bridge, None, None) ELSE found
      filled == [entry EXCEPT !.mac = Prefer(nic.mac, @, GenerateMac(v, nic, index))]
  IN  IF nic.name = None THEN filled
      ELSE IF nic.name \in DOMAIN EvpnBridge
        THEN [filled EXCEPT !.bridge = EvpnBridge[nic.name]]
      ELSE [filled EXCEPT !.id = Prefer(nic.id, @, NewId(index))]

\* The new status, without the NICs that the spec does not have.
FilledNics(v, o) ==
  SelectSeq([index \in DOMAIN o.spec |-> FillNic(v, o.status, o.spec[index], index)],
            LAMBDA nic : FindMatchingNetwork(o.spec, nic) # None)

-----------------------------------------------------------------------------
(* The vm controller                                                       *)

Begin(v) ==
  /\ Up
  /\ Take(v, IF Cached(v).status = None THEN "status" ELSE "nics")
  /\ UNCHANGED <<obj, cache, budget, crd, boot, networks>>

\* initialize_status; fill_nics then finds no status in the copy and ends.
InitializeStatus(v) ==
  /\ At(v, "status")
  /\ Write(v, Encoded([pass[v].copy EXCEPT !.status = <<>>]), "idle")
  /\ UNCHANGED <<budget, crd, boot, networks>>

\* Mutant: addresses are made up only once.
FillFirstNics(v) ==
  /\ At(v, "nics")
  /\ LET copy == pass[v].copy
     IN  IF copy.status # <<>> THEN Continue(v, "commit") /\ UNCHANGED <<obj, cache>>
         ELSE Write(v, Encoded([copy EXCEPT !.status = FilledNics(v, copy)]), "commit")
  /\ UNCHANGED <<budget, crd, boot, networks>>

\* fill_nics: an error if a network is not there, no write if nothing changes.
FillNics(v) ==
  /\ At(v, "nics")
  /\ LET copy == pass[v].copy
         new == FilledNics(v, copy)
     IN  IF \E nic \in ToSet(copy.spec) : nic.name # None /\ nic.name \notin networks
           THEN End(v) /\ UNCHANGED <<obj, cache>>
         ELSE IF new = copy.status THEN Continue(v, "commit") /\ UNCHANGED <<obj, cache>>
         ELSE Write(v, Encoded([copy EXCEPT !.status = new]), "commit")
  /\ UNCHANGED <<budget, crd, boot, networks>>

\* ... and its commit of the spec.
CommitNics(v) ==
  /\ At(v, "commit")
  /\ Write(v, Encoded(pass[v].copy), "idle")
  /\ UNCHANGED <<budget, crd, boot, networks>>

PassStep(v) == InitializeStatus(v) \/ FillNics(v) \/ CommitNics(v)

-----------------------------------------------------------------------------
(* The environment                                                         *)

\* Users create VMs, change their NICs and delete them.
Users ==
  /\ crd # None
  /\ \E v \in Object, nics \in NicList :
       \/ Create(v, NewVm(nics))
       \/ /\ Spend("change")
          /\ obj[v] # None /\ obj[v].spec # nics
          /\ Change(v, Encoded([obj[v] EXCEPT !.spec = nics]))
       \/ Spend("delete") /\ obj[v] # None /\ Change(v, None)
  /\ UNCHANGED <<crd, boot, networks>>

\* Another controller writes to the object, a call of a pass fails, the events
\* of the object are late, or a network comes or goes.
Others ==
  \/ /\ \E v \in Object : \/ Foreign(v)
                          \/ Fault(v, {"status", "nics", "commit"})
                          \/ (Up /\ FallBehind(v))
     /\ UNCHANGED <<crd, boot, networks>>
  \/ /\ Spend("network")
     /\ \E n \in Network : networks' = IF n \in networks THEN networks \ {n}
                                                         ELSE networks \cup {n}
     /\ UNCHANGED <<obj, cache, pass, crd, boot>>

Watch(v) == CatchUp(v) /\ UNCHANGED <<crd, boot, networks>>

-----------------------------------------------------------------------------
(* Specification                                                           *)

Init ==
  /\ \E w \in World : crd = w.crd /\ obj = w.vms /\ budget = w.events
  /\ boot = Booting
  /\ cache = [v \in Object |-> Current]
  /\ pass = [v \in Object |-> Idle]
  /\ networks = Network

Next ==
  \/ (Upgrade \/ Stop \/ TouchCrd) /\ UNCHANGED networks
  \/ \E v \in Object : Begin(v) \/ PassStep(v) \/ Watch(v)
  \/ Users \/ Others

Spec == Init /\ [][Next]_vars

\* The deployment restarts the process, calls return, passes are repeated and
\* the watch catches up.
Fairness ==
  /\ WF_vars(Upgrade /\ UNCHANGED networks)
  /\ \A v \in Object : WF_vars(Begin(v)) /\ WF_vars(PassStep(v)) /\ WF_vars(Watch(v))

FairSpec == Spec /\ Fairness

-----------------------------------------------------------------------------
(* Properties                                                              *)

\* A pass has a VM at hand, and the stored one as long as its copy is fresh.
NicPassInv(v) ==
  /\ DOMAIN pass[v] = DOMAIN Idle
  /\ pass[v].at \in {"idle", "status", "nics", "commit"}
  /\ pass[v].at # "idle" => IsVm(pass[v].copy)
  /\ pass[v].fresh => pass[v].at # "idle" /\ pass[v].copy = obj[v]

\* So has the cache while it is behind, and no pass has a newer copy.
NicCacheInv(v) ==
  /\ cache[v] = [behind |-> cache[v].behind, copy |-> cache[v].copy, fresh |-> cache[v].fresh]
  /\ cache[v].behind => IsVm(cache[v].copy)
  /\ cache[v].fresh => cache[v].behind /\ cache[v].copy = obj[v]
  /\ cache[v].behind /\ pass[v].fresh => cache[v].fresh

NicTypeInv ==
  /\ crd \in Definition \cup {None}
  /\ obj = [v \in Object |-> obj[v]]
  /\ pass = [v \in Object |-> pass[v]]
  /\ cache = [v \in Object |-> cache[v]]
  /\ \A v \in Object : /\ obj[v] # None => IsVm(obj[v])
                     /\ NicPassInv(v) /\ NicCacheInv(v)
  /\ boot = [at |-> boot.at, todo |-> boot.todo, fresh |-> boot.fresh]
  /\ boot.at \in {"get", "merge", "migrate", "patch", "reread", "replace", "final", "run"}

\* What each stage of the migration rests on, however often the process was
\* stopped before.  A VM is in a version that the definition remembers, which is
\* why the API server can refuse to drop it.  From the merge on nothing is
\* written in the old one, so that those listed are the last that are in it;
\* none is left when it is no longer remembered; and the controllers run, and
\* write to VMs, once the latest is the only one.
UpgradeInv ==
  /\ NicTypeInv
  /\ crd # None => crd.storage \in crd.stored /\ crd.stored \subseteq crd.versions
  /\ \A v \in Object : obj[v] # None => crd # None /\ obj[v].encoding \in crd.stored
  /\ boot.at \notin {"get", "merge"} => crd # None /\ crd.storage = Latest
  /\ boot.at = "patch" =>
       /\ Old \in crd.stored
       /\ \A v \in Object : obj[v] # None /\ obj[v].encoding = Old => v \in DOMAIN boot.todo
  /\ boot.at \in {"reread", "replace", "final"} => Old \notin crd.stored
  /\ Up => crd.versions = {Latest}
  /\ \A v \in Object : At(v, "idle") \/ Up

\* Two NICs that find_matching_network may take for one another, or a NIC on a
\* bridge and what the status still has of an EVPN network on that bridge.
Confusable(o) ==
  \E i \in DOMAIN o.spec :
    \/ \E j \in DOMAIN o.spec :
         /\ i # j
         /\ \/ Matches(o.spec[i], o.spec[j])
            \/ /\ o.spec[i].name = None /\ o.spec[j].name \in DOMAIN EvpnBridge
               /\ EvpnBridge[o.spec[j].name] = o.spec[i].bridge
    \/ /\ o.spec[i].name = None /\ o.status # None
       /\ \E k \in DOMAIN o.status : /\ o.status[k].name # None
                                     /\ o.status[k].bridge = o.spec[i].bridge

Entry(o, nic) ==
  IF o.status = None THEN None ELSE FindMatchingNetwork(o.status, nic)

\* Once v1beta2 is gone, a NIC whose spec gives no address keeps the MAC address
\* and the port id it has, while NICs before it are added, removed or
\* reordered, networks go and come back, passes fail halfway, work on old
\* copies or are cut off by a restart; as long as no two NICs of the VM, old
\* and new, have one target.
NicsKept ==
  [][\A v \in Object :
       LET o == obj[v]
       IN  (/\ o # None /\ obj'[v] # None /\ Old \notin crd.stored
            /\ ~Confusable(o) /\ ~Confusable(obj'[v]))
           => \A nic \in ToSet(o.spec) \cap ToSet(obj'[v].spec) :
                (Entry(o, nic) # None /\ nic.mac = None /\ nic.id = None)
                => /\ Entry(obj'[v], nic) # None
                   /\ Entry(o, nic).mac \in {None, Entry(obj'[v], nic).mac}
                   /\ Entry(o, nic).id \in {None, Entry(obj'[v], nic).id}]_vars

\* A VM that stays gets a MAC address for every NIC in its spec, as last edited,
\* a port id for those on OVN networks, and keeps no NIC it no longer has; once
\* the controllers run and its networks are there.
NicsFilled ==
  \A v \in Object :
    <>[](Up /\ obj[v] # None /\ networks = Network)
      => <>[](/\ obj[v] # None /\ obj[v].status # None
              /\ Len(obj[v].status) = Len(obj[v].spec)
              /\ \A i \in DOMAIN obj[v].spec :
                   LET nic == obj[v].spec[i] entry == obj[v].status[i]
                   IN  /\ Matches(nic, entry)
                       /\ entry.mac # None
                       /\ (nic.name \in Network \ DOMAIN EvpnBridge) => entry.id # None)

=============================================================================
