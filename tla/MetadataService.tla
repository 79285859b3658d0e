--------------------------- MODULE MetadataService ---------------------------
(***************************************************************************)
(* The metadata service of a router (metadataservice/): one process with a *)
(* proxy thread, which plugs itself into the router's metadata switch and  *)
(* serves HTTP to the guests, and a backend task, which looks up who is    *)
(* asking.  They talk over a bounded channel; every request carries a      *)
(* channel for its reply.  The supervisor ends the process when either     *)
(* ends, the deployment starts it again, and what it left on the host is   *)
(* found by the next one: the container's network namespace goes with it,  *)
(* and the kernel removes the veth pair along with the namespace, but not  *)
(* a pair that was not moved there yet, nor the port on the OVS bridge.    *)
(*                                                                         *)
(* What the port controller, fill_nics, fill_uuid and northd do to a VM    *)
(* and its port is environment here: a VM gets a port id in its status and *)
(* a uuid, its port leases an address (unique in its network), and it      *)
(* leaves: the port is deleted and then the VM, or its NIC is dropped from *)
(* the spec and the status while the port stays.  A guest asks from the    *)
(* address that was leased, or from one that was set by hand, of which OVN *)
(* knows nothing.  It asks again until it has its metadata, and waits for  *)
(* one answer at a time; a request that it no longer waits for may still   *)
(* be on its way.  Paths of the HTTP API that need no lookup are left out. *)
(***************************************************************************)
EXTENDS Naturals, Sequences, FiniteSets, SequencesExt

CONSTANTS
  None,
  Vm,          \* the VMs behind routers, each with one NIC
  NetworkOf,   \* the network of each VM's NIC
  Address,     \* the addresses of a network
  Configs,     \* the addresses that guests may have been set up with, or None
  Channel,     \* the channels for replies
  Userdata,    \* the VMs whose spec names a config map
  Buffer,      \* REQUEST_CHANNEL_BUFFER_SIZE
  Budget       \* how often each kind of environment event may happen

ASSUME VmAssumption == IsFiniteSet(Vm)
ASSUME NoneAssumption == None \notin Vm \cup Address \cup Channel
ASSUME ConfigsAssumption == Configs \subseteq [Vm -> Address \cup {None}]
ASSUME NetworkAssumption == DOMAIN NetworkOf = Vm
ASSUME UserdataAssumption == Userdata \subseteq Vm
ASSUME BufferAssumption == Buffer \in Nat \ {0}
ASSUME BudgetAssumption == Budget \in [{"abort", "trouble", "leave"} -> Nat]

VARIABLES
  proxy,     \* where the proxy thread is; `down` between two processes
  veth,      \* the veth pair of the service on the host
  plugged,   \* whether the OVS bridge has a port for it
  open,      \* the channel that each guest waits on for a reply, or None
  sending,   \* the requests that wait for room in the channel, in order
  queue,     \* the channel
  backend,   \* what the backend is doing, and for which request
  told,      \* whose metadata each guest has been given
  static,    \* the address each guest was set up with, or None
  listed,    \* the VMs whose status has the port id of their NIC
  named,     \* the VMs with a uuid
  lease,     \* the address of each VM's port, or None
  left,      \* whether each VM gave up its NIC, or is being deleted
  maps,      \* the VMs whose config map exists and has userdata
  budget     \* the environment events still to come

host == <<veth, plugged>>
requests == <<open, sending, queue>>
ports == <<static, listed, named, lease, left, maps>>
guests == <<told, ports>>
vars == <<proxy, veth, plugged, open, sending, queue, backend, told, static,
          listed, named, lease, left, maps, budget>>

\* A request carries the channel for its reply and the address it came from;
\* who asked is known to us only.
Request == [channel: Channel, asker: Vm, ip: Address]
Channels(s) == {r.channel : r \in ToSet(s)}
OnTheWay == Channels(sending) \cup Channels(queue) \cup {backend.channel}

Waiting == [at |-> "recv", channel |-> None, asker |-> None, ip |-> None, vm |-> None]
Serving == proxy = "serving"
NoGuest == [v \in Vm |-> None]

\* Where a guest's requests come from.
Source(v) == IF static[v] = None THEN lease[v] ELSE static[v]

\* The guest's port is gone, for good.
Lost(v) == left[v] = "vm"

\* The process ends, and the namespace with it; replies are never sent.
KillProcess ==
  /\ proxy' = "down"
  /\ veth' = IF veth = "moved" THEN "dying" ELSE veth
  /\ open' = NoGuest
  /\ sending' = <<>>
  /\ queue' = <<>>
  /\ backend' = Waiting

\* Mutant: only the backend ends.
KillBackend ==
  /\ backend' = [Waiting EXCEPT !.at = "dead"]
  /\ open' = NoGuest
  /\ sending' = <<>>
  /\ queue' = <<>>
  /\ UNCHANGED <<proxy, veth>>

\* run: whichever task ends, the supervisor exits.
Exit == KillProcess

-----------------------------------------------------------------------------
(* The proxy                                                               *)

\* make_deployment: the pod is restarted, with a file system of its own, so
\* that create_ns finds no namespace of that name.
StartProcess ==
  /\ proxy = "down"
  /\ proxy' = "veth"
  /\ UNCHANGED <<host, requests, backend, guests, budget>>

\* Mutant: a pair that is there is taken for its own.
CreateVethIfMissing ==
  /\ proxy = "veth"
  /\ veth' = IF veth = "none" THEN "loose" ELSE veth
  /\ proxy' = "move"
  /\ UNCHANGED <<plugged, requests, backend, guests, budget>>

\* create_interface: an error if the pair is there,
CreateVeth ==
  /\ proxy = "veth"
  /\ \/ /\ veth = "none"
        /\ veth' = "loose"
        /\ proxy' = "move"
        /\ UNCHANGED <<requests, backend>>
     \/ veth # "none" /\ Exit
  /\ UNCHANGED <<plugged, guests, budget>>

\* ... one end moves to the namespace, where it is configured,
MoveVeth ==
  /\ proxy = "move"
  /\ veth' = "moved"
  /\ proxy' = "plug"
  /\ UNCHANGED <<plugged, requests, backend, guests, budget>>

\* Mutant: a port that is there already is an error too.
AddNewPort ==
  /\ proxy = "plug"
  /\ IF plugged THEN Exit /\ UNCHANGED plugged
     ELSE /\ plugged' = TRUE
          /\ proxy' = "bind"
          /\ UNCHANGED <<veth, requests, backend>>
  /\ UNCHANGED <<guests, budget>>

\* ... the other gets a port on the bridge, if it has none,
AddPort ==
  /\ proxy = "plug"
  /\ plugged' = TRUE
  /\ proxy' = "bind"
  /\ UNCHANGED <<veth, requests, backend, guests, budget>>

\* ... bound to the logical port; then the thread enters the namespace.
BindPort ==
  /\ proxy = "bind"
  /\ proxy' = "serving"
  /\ UNCHANGED <<host, requests, backend, guests, budget>>

Setup == StartProcess \/ CreateVeth \/ MoveVeth \/ AddPort \/ BindPort

\* fetch_metadata: a request of a running guest, from whatever address, waits to
\* be sent,
Ask(v) ==
  LET free == Channel \ OnTheWay
      channel == CHOOSE c \in free : TRUE
  IN  /\ Serving
      /\ v \in named /\ ~Lost(v) /\ Source(v) # None
      /\ told[v] = None /\ open[v] = None
      /\ free # {}
      /\ open' = [open EXCEPT ![v] = channel]
      /\ sending' = Append(sending, [channel |-> channel, asker |-> v, ip |-> Source(v)])
      /\ UNCHANGED <<proxy, host, queue, backend, guests, budget>>

\* Mutant: a request that finds the channel full is dropped.
TrySend ==
  /\ sending # <<>>
  /\ queue' = IF Len(queue) < Buffer THEN Append(queue, Head(sending)) ELSE queue
  /\ sending' = Tail(sending)
  /\ UNCHANGED <<proxy, host, open, backend, guests, budget>>

\* ... the channel takes it when it has room.
Send ==
  /\ sending # <<>>
  /\ Len(queue) < Buffer
  /\ queue' = Append(queue, Head(sending))
  /\ sending' = Tail(sending)
  /\ UNCHANGED <<proxy, host, open, backend, guests, budget>>

\* A guest closes its connection, and the receiving end of the reply is gone, as
\* is the request if it was not sent yet.
Abort(v) ==
  /\ budget["abort"] > 0
  /\ open[v] # None
  /\ open' = [open EXCEPT ![v] = None]
  /\ \/ \E i \in DOMAIN sending :
           sending[i].channel = open[v] /\ sending' = RemoveAt(sending, i)
     \/ open[v] \notin Channels(sending) /\ UNCHANGED sending
  /\ budget' = [budget EXCEPT !["abort"] = @ - 1]
  /\ UNCHANGED <<proxy, host, queue, backend, guests>>

-----------------------------------------------------------------------------
(* The backend                                                             *)

\* The loop of main, one request at a time.
Recv ==
  /\ backend.at = "recv"
  /\ queue # <<>>
  /\ backend' = [Waiting EXCEPT !.at = "lookup", !.channel = Head(queue).channel,
                                !.asker = Head(queue).asker, !.ip = Head(queue).ip]
  /\ queue' = Tail(queue)
  /\ UNCHANGED <<proxy, host, open, sending, guests, budget>>

Answer(vm) == backend' = [backend EXCEPT !.at = "reply", !.vm = vm]

\* Mutant: the first of several ports.
FirstPort ==
  /\ backend.at = "lookup"
  /\ LET found == {v \in Vm : lease[v] = backend.ip}
     IN  IF found = {} THEN Answer(None)
         ELSE \E v \in found : backend' = [backend EXCEPT !.at = "list", !.vm = v]
  /\ UNCHANGED <<proxy, host, requests, guests, budget>>

\* get_by_ip: the ports of all switches, by their leases; not exactly one is an
\* error.
Lookup ==
  /\ backend.at = "lookup"
  /\ LET found == {v \in Vm : lease[v] = backend.ip}
     IN  IF Cardinality(found) # 1 THEN Answer(None)
         ELSE \E v \in found : backend' = [backend EXCEPT !.at = "list", !.vm = v]
  /\ UNCHANGED <<proxy, host, requests, guests, budget>>

\* The VM that has the port's id in its status; the assertion that there is one
\* fails if the VM or the NIC has gone.
ListVms ==
  /\ backend.at = "list"
  /\ \/ /\ backend.vm \in listed
        /\ backend' = [backend EXCEPT !.at = IF backend.vm \in named THEN "userdata"
                                                                   ELSE "nameless"]
        /\ UNCHANGED <<proxy, veth, requests>>
     \/ backend.vm \notin listed /\ Exit
  /\ UNCHANGED <<plugged, guests, budget>>

\* The config map; without one there is no metadata at all, and with one there
\* is a panic if the VM had no uuid when it was listed.
GetUserdata ==
  LET userdata == backend.vm \in Userdata \cap maps
  IN  /\ \/ /\ backend.at = "userdata" \/ (backend.at = "nameless" /\ ~userdata)
            /\ Answer(IF userdata THEN backend.vm ELSE None)
            /\ UNCHANGED <<proxy, veth, requests>>
         \/ backend.at = "nameless" /\ userdata /\ Exit
      /\ UNCHANGED <<plugged, guests, budget>>

\* The reply, and fetch_metadata's end; a guest whose port has gone does not get
\* it.
Deliver ==
  LET v == backend.asker
  IN  /\ open[v] = backend.channel
      /\ told' = [told EXCEPT ![v] = IF Lost(v) THEN @ ELSE backend.vm]
      /\ open' = [open EXCEPT ![v] = None]
      /\ backend' = Waiting
      /\ UNCHANGED <<proxy, veth, sending, queue>>

\* Mutant: the backend waits for an asker that has gone.
ReplyToOpen ==
  /\ backend.at = "reply"
  /\ Deliver
  /\ UNCHANGED <<plugged, ports, budget>>

\* With nobody to take the reply the send fails, and with it the backend.
Reply ==
  /\ backend.at = "reply"
  /\ \/ Deliver
     \/ open[backend.asker] # backend.channel /\ Exit /\ UNCHANGED told
  /\ UNCHANGED <<plugged, ports, budget>>

BackendStep == Recv \/ Lookup \/ ListVms \/ GetUserdata \/ Reply

-----------------------------------------------------------------------------
(* The environment                                                         *)

\* A command or a call fails, OVN cannot be reached, or the pod is killed.
Trouble ==
  /\ budget["trouble"] > 0
  /\ proxy # "down"
  /\ KillProcess
  /\ budget' = [budget EXCEPT !["trouble"] = @ - 1]
  /\ UNCHANGED <<plugged, guests>>

\* The kernel removes the pair of a namespace that is gone.
Cleanup ==
  /\ veth = "dying"
  /\ veth' = "none"
  /\ UNCHANGED <<proxy, plugged, requests, backend, guests, budget>>

\* A VM gets its port id, its uuid, its address, its userdata.
Arrive ==
  /\ \E v \in {w \in Vm : left[w] = "no"} :
       \/ /\ v \notin listed
          /\ listed' = listed \cup {v}
          /\ UNCHANGED <<named, lease, maps>>
       \/ /\ v \in listed \ named
          /\ named' = named \cup {v}
          /\ UNCHANGED <<listed, lease, maps>>
       \/ /\ v \in listed /\ lease[v] = None
          /\ \E a \in Address :
               /\ \A w \in Vm : NetworkOf[w] = NetworkOf[v] => lease[w] # a
               /\ lease' = [lease EXCEPT ![v] = a]
          /\ UNCHANGED <<listed, named, maps>>
       \/ /\ v \in Userdata \ maps
          /\ maps' = maps \cup {v}
          /\ UNCHANGED <<listed, named, lease>>
  /\ UNCHANGED <<proxy, host, requests, backend, told, static, left, budget>>

\* A VM is deleted and loses its port, or its NIC is dropped and the port stays.
Leave ==
  /\ budget["leave"] > 0
  /\ \E v \in {w \in listed : left[w] = "no"} :
       \/ /\ left' = [left EXCEPT ![v] = "vm"]
          /\ lease' = [lease EXCEPT ![v] = None]
          /\ UNCHANGED listed
       \/ /\ left' = [left EXCEPT ![v] = "nic"]
          /\ listed' = listed \ {v}
          /\ UNCHANGED lease
  /\ budget' = [budget EXCEPT !["leave"] = @ - 1]
  /\ UNCHANGED <<proxy, host, requests, backend, told, static, named, maps>>

\* The object of a VM without a port goes.
Gone ==
  /\ \E v \in {w \in listed : Lost(w)} : listed' = listed \ {v}
  /\ UNCHANGED <<proxy, host, requests, backend, told, static, named, lease, left, maps,
                 budget>>

-----------------------------------------------------------------------------
(* Specification                                                           *)

Init ==
  /\ proxy = "down" /\ veth = "none" /\ plugged = FALSE
  /\ open = NoGuest /\ sending = <<>> /\ queue = <<>> /\ backend = Waiting
  /\ told = NoGuest
  /\ static \in Configs
  /\ listed = {} /\ named = {}
  /\ lease = NoGuest
  /\ left = [v \in Vm |-> "no"]
  /\ maps = {}
  /\ budget = Budget

Next ==
  \/ Setup \/ Send \/ BackendStep
  \/ \E v \in Vm : Ask(v) \/ Abort(v)
  \/ Trouble \/ Cleanup \/ Arrive \/ Leave \/ Gone

Spec == Init /\ [][Next]_vars

\* The deployment restarts the process, commands and calls return, waiting
\* senders are served in order, the kernel cleans up, and guests ask again.
Fairness ==
  /\ WF_vars(Setup) /\ WF_vars(Send) /\ WF_vars(BackendStep) /\ WF_vars(Cleanup)
  /\ \A v \in Vm : WF_vars(Ask(v))

FairSpec == Spec /\ Fairness

-----------------------------------------------------------------------------
(* Properties                                                              *)

MetadataTypeInv ==
  /\ proxy \in {"down", "veth", "move", "plug", "bind", "serving"}
  /\ veth \in {"none", "loose", "moved", "dying"}
  /\ plugged \in BOOLEAN
  /\ open \in [Vm -> Channel \cup {None}]
  /\ sending \in Seq(Request) /\ queue \in Seq(Request)
  /\ backend \in [at: {"recv", "lookup", "list", "userdata", "nameless", "reply"},
                 channel: Channel \cup {None}, asker: Vm \cup {None},
                 ip: Address \cup {None}, vm: Vm \cup {None}]
  /\ told \in [Vm -> Vm \cup {None}]
  /\ static \in [Vm -> Address \cup {None}] /\ lease \in [Vm -> Address \cup {None}]
  /\ listed \subseteq Vm /\ left \in [Vm -> {"no", "nic", "vm"}]

\* The proxy comes this far only with its end of the pair and its port in place.
SetupInv ==
  /\ proxy = "move" => veth = "loose"
  /\ proxy \in {"plug", "bind", "serving"} => veth = "moved"
  /\ proxy \in {"bind", "serving"} => plugged

\* No two requests have one channel, and a channel that a guest waits on is that
\* of a request of its own.
Distinct(s) == \A i, j \in DOMAIN s : s[i].channel = s[j].channel => i = j

RequestInv ==
  /\ Distinct(sending) /\ Distinct(queue)
  /\ Channels(sending) \cap Channels(queue) = {}
  /\ backend.channel \notin Channels(sending) \cup Channels(queue)
  /\ \A v \in Vm : open[v] \in OnTheWay \cup {None}
  /\ \A r \in ToSet(sending) \cup ToSet(queue) : \A v \in Vm \ {r.asker} : open[v] # r.channel
  /\ backend.at # "recv" => \A v \in Vm \ {backend.asker} : open[v] # backend.channel

\* What the backend has found: the VM that the address was leased to, and
\* nobody but the asker if that has its address from OVN; unless they are lost.
Found ==
  /\ lease[backend.vm] = backend.ip \/ Lost(backend.vm)
  /\ static[backend.asker] = None => backend.vm = backend.asker \/ Lost(backend.asker)

\* A request comes from the address that the asker still has, or its port is
\* lost; so does what the backend has made of it.
AddressInv ==
  /\ \A r \in ToSet(sending) \cup ToSet(queue) : Source(r.asker) = r.ip \/ Lost(r.asker)
  /\ IF backend.at = "recv" THEN backend.asker = None /\ backend.channel = None
       ELSE /\ backend.asker \in Vm /\ backend.channel # None /\ backend.ip # None
            /\ Source(backend.asker) = backend.ip \/ Lost(backend.asker)
  /\ backend.at \in {"list", "userdata", "nameless"} => backend.vm # None /\ Found
  /\ backend.at = "reply" => backend.vm = None \/ Found

\* A guest with a leased address is never given the metadata of another VM,
\* although the backend knows it only by an address that other networks use as
\* well, and that may have passed to another VM by the time the request is
\* looked at.  One with an address set by hand may be: that of the VM, in any
\* network, that leases the same address.
OwnMetadata ==
  \A v \in Vm : \/ told[v] \in {None, v}
                \/ static[v] # None /\ (lease[told[v]] = static[v] \/ Lost(told[v]))

\* The induction invariant.
MetadataInv ==
  MetadataTypeInv /\ SetupInv /\ RequestInv /\ AddressInv /\ OwnMetadata

\* Every guest that waits for a reply has one request on its way that will be
\* answered on the channel it waits on: in line for the backend's channel, in
\* it, or with the backend.  None waits for a request that a full channel, a
\* restart or an answer to another guest, or to itself before it hung up and
\* asked again, has swallowed.
Accounted ==
  LET onTheWay == sending \o queue \o (IF backend.channel = None THEN <<>> ELSE <<backend>>)
  IN  \A v \in Vm : open[v] # None => \E i \in DOMAIN onTheWay :
        /\ onTheWay[i].asker = v
        /\ \A j \in DOMAIN onTheWay : (onTheWay[j].channel = open[v]) <=> (j = i)

\* Every request ends, also those behind one whose guest has hung up.
RequestsEnd == \A v \in Vm : open[v] # None ~> open[v] = None

\* The process was stopped between the creation of the veth pair and its move
\* to the namespace: every later one finds the pair and ends.
Stranded == veth = "loose" /\ proxy \in {"down", "veth"}

\* However often the process ends, and whatever it leaves on the host, the
\* service comes back, unless it is stranded.
ServiceReturns == []<>Serving \/ <>[]Stranded

\* The guest asks from an address that no other port has, and has userdata.
Eligible(v) ==
  /\ lease[v] # None /\ Source(v) = lease[v]
  /\ v \in listed \cap named \cap Userdata \cap maps
  /\ \A w \in Vm \ {v} : lease[w] # lease[v]

\* A guest that can be identified gets its metadata in the end, whatever the
\* other guests ask for and whenever the process is restarted; unless it is
\* stranded, or there is a port whose NIC has been dropped or whose VM has no
\* uuid: each request from its address ends the process, by the backend's
\* assertion or its unwrap.
GuestsAnswered ==
  \A v \in Vm :
    <>[](Eligible(v) /\ \A w \in Vm : lease[w] # None => w \in listed \cap named)
      => <>(told[v] = v) \/ <>[]Stranded

=============================================================================
