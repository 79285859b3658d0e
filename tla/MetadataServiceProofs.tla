------------------------ MODULE MetadataServiceProofs -------------------------
EXTENDS MetadataService, FiniteSetTheorems, TLAPS

(***************************************************************************)
(* The proof that the metadata service keeps MetadataInv, and with it that *)
(* no guest with a leased address is given the metadata of another VM and  *)
(* that every waiting guest has one request on its way, for any VMs,       *)
(* networks, addresses, leased or set by hand, and userdata, any size of   *)
(* the channel and any budget of the environment.                          *)
(*                                                                         *)
(* OwnMetadata needs AddressInv: between the request and the reply the     *)
(* port may go and its address may pass to another VM, but then the guest  *)
(* that asked is gone for good, and so is the only one that could be       *)
(* misled.  What a guest with an address set by hand is given was leased   *)
(* that address at the lookup, and still is, or its port has gone.         *)
(***************************************************************************)

-----------------------------------------------------------------------------
(* Queues of requests                                                      *)

LEMMA EmptyQueue ==
  /\ <<>> \in Seq(Request) /\ ToSet(<<>>) = {} /\ Channels(<<>>) = {} /\ Distinct(<<>>)
BY DEF ToSet, Channels, Distinct

LEMMA QueueType ==
  ASSUME NEW s \in Seq(Request)
  PROVE  ToSet(s) \subseteq Request /\ Channels(s) \subseteq Channel
<1>1. \A i \in DOMAIN s : s[i] \in Request
  OBVIOUS
<1>2. ToSet(s) \subseteq Request
  BY <1>1 DEF ToSet
<1>3. QED
  BY <1>2 DEF Channels, Request

\* A request at the end of the line.
LEMMA AppendQueue ==
  ASSUME NEW s \in Seq(Request), NEW r \in Request
  PROVE  /\ Append(s, r) \in Seq(Request)
         /\ ToSet(Append(s, r)) = ToSet(s) \cup {r}
         /\ Channels(Append(s, r)) = Channels(s) \cup {r.channel}
         /\ Distinct(s) /\ r.channel \notin Channels(s) => Distinct(Append(s, r))
<1> DEFINE t == Append(s, r)
<1>1. /\ t \in Seq(Request) /\ DOMAIN t = 1..(Len(s) + 1) /\ DOMAIN s = 1..Len(s)
      /\ Len(s) \in Nat /\ t[Len(s) + 1] = r /\ \A i \in 1..Len(s) : t[i] = s[i]
  OBVIOUS
<1> HIDE DEF t
<1>2. ToSet(t) = ToSet(s) \cup {r}
  BY <1>1 DEF ToSet
<1>3. Channels(t) = Channels(s) \cup {r.channel}
  BY <1>2 DEF Channels
<1>4. ASSUME Distinct(s), r.channel \notin Channels(s)
      PROVE  Distinct(t)
  <2>1. \A i \in 1..Len(s) : s[i].channel # r.channel
    BY <1>1, <1>4 DEF Channels, ToSet
  <2>2. QED
    BY <1>1, <1>4, <2>1 DEF Distinct
<1>5. QED
  BY <1>1, <1>2, <1>3, <1>4 DEF t

\* The first of the line is taken.
LEMMA TailQueue ==
  ASSUME NEW s \in Seq(Request), s # <<>>
  PROVE  /\ Head(s) \in Request /\ Tail(s) \in Seq(Request)
         /\ ToSet(s) = ToSet(Tail(s)) \cup {Head(s)}
         /\ Channels(s) = Channels(Tail(s)) \cup {Head(s).channel}
         /\ Distinct(s) => Distinct(Tail(s)) /\ Head(s).channel \notin Channels(Tail(s))
<1> DEFINE t == Tail(s)
<1>1. /\ t \in Seq(Request) /\ DOMAIN s = 1..Len(s) /\ DOMAIN t = 1..(Len(s) - 1)
      /\ Len(s) \in Nat /\ Len(s) > 0 /\ Head(s) = s[1] /\ s[1] \in Request
      /\ \A i \in 1..(Len(s) - 1) : t[i] = s[i + 1]
  OBVIOUS
<1> HIDE DEF t
<1>2. ToSet(s) = ToSet(t) \cup {s[1]}
  <2>1. ASSUME NEW i \in 1..Len(s), i # 1
        PROVE  s[i] = t[i - 1] /\ i - 1 \in DOMAIN t
    BY <1>1, <2>1
  <2>2. \A i \in DOMAIN t : t[i] = s[i + 1] /\ i + 1 \in DOMAIN s
    BY <1>1
  <2>3. ToSet(s) \subseteq ToSet(t) \cup {s[1]}
    BY <1>1, <2>1 DEF ToSet
  <2>4. ToSet(t) \cup {s[1]} \subseteq ToSet(s)
    BY <1>1, <2>2 DEF ToSet
  <2>5. QED
    BY <2>3, <2>4
<1>3. Channels(s) = Channels(t) \cup {s[1].channel}
  BY <1>2 DEF Channels
<1>4. ASSUME Distinct(s)
      PROVE  Distinct(t) /\ s[1].channel \notin Channels(t)
  <2>1. ASSUME NEW i \in DOMAIN t
        PROVE  t[i] = s[i + 1] /\ i + 1 \in DOMAIN s /\ i + 1 # 1 /\ i \in Nat
    BY <1>1
  <2>2. Distinct(t)
    BY <1>4, <2>1 DEF Distinct
  <2>3. \A i \in DOMAIN t : t[i].channel # s[1].channel
    BY <1>1, <1>4, <2>1 DEF Distinct
  <2>4. QED
    BY <2>2, <2>3 DEF Channels, ToSet
<1>5. QED
  BY <1>1, <1>2, <1>3, <1>4 DEF t

LEMMA WiderQueue ==
  ASSUME NEW A, NEW B, A \subseteq B, NEW s \in Seq(A)
  PROVE  s \in Seq(B)
<1>1. /\ Len(s) \in Nat /\ s \in [1..Len(s) -> A]
  OBVIOUS
<1>2. s \in [1..Len(s) -> B]
  BY <1>1
<1>3. QED
  BY <1>1, <1>2

LEMMA ConcatQueue ==
  ASSUME NEW R, NEW a \in Seq(R), NEW b \in Seq(R)
  PROVE  /\ a \o b \in Seq(R) /\ Len(a \o b) = Len(a) + Len(b)
         /\ \A i \in 1..(Len(a) + Len(b)) :
              (a \o b)[i] = IF i <= Len(a) THEN a[i] ELSE b[i - Len(a)]
OBVIOUS

\* One is taken out of the line.
LEMMA RemoveQueue ==
  ASSUME NEW s \in Seq(Request), NEW k \in DOMAIN s
  PROVE  /\ RemoveAt(s, k) \in Seq(Request)
         /\ ToSet(RemoveAt(s, k)) \subseteq ToSet(s)
         /\ Channels(s) \subseteq Channels(RemoveAt(s, k)) \cup {s[k].channel}
         /\ Distinct(s) => Distinct(RemoveAt(s, k))
<1> DEFINE t == RemoveAt(s, k)
           a == SubSeq(s, 1, k - 1)
           b == SubSeq(s, k + 1, Len(s))
<1>1. k \in 1..Len(s) /\ Len(s) \in Nat /\ DOMAIN s = 1..Len(s)
  OBVIOUS
<1>2. a \in Seq(Request) /\ Len(a) = k - 1 /\ \A i \in 1..(k - 1) : a[i] = s[i]
  BY <1>1
<1>3. /\ b \in Seq(Request) /\ Len(b) = Len(s) - k
      /\ \A i \in 1..(Len(s) - k) : b[i] = s[i + k]
  <2>1. b \in Seq(Request) /\ Len(b) = Len(s) - k
    BY <1>1
  <2>2. ASSUME NEW i \in 1..(Len(s) - k)
        PROVE  b[i] = s[i + k]
    <3>1. b[i] = s[(k + 1) + i - 1] /\ (k + 1) + i - 1 = i + k
      BY <1>1
    <3>2. QED
      BY <3>1
  <2>3. QED
    BY <2>1, <2>2
<1>4. t = a \o b
  BY DEF RemoveAt
<1> HIDE DEF t, a, b
<1>5. /\ t \in Seq(Request) /\ Len(t) = Len(a) + Len(b)
      /\ \A i \in 1..(Len(a) + Len(b)) : t[i] = IF i <= Len(a) THEN a[i] ELSE b[i - Len(a)]
  BY <1>2, <1>3, <1>4, ConcatQueue
<1>6. DOMAIN t = 1..(Len(s) - 1)
  BY <1>1, <1>2, <1>3, <1>5
<1>7. ASSUME NEW i \in DOMAIN t
      PROVE  t[i] = IF i < k THEN s[i] ELSE s[i + 1]
  <2>1. CASE i < k
    BY <1>1, <1>2, <1>3, <1>5, <1>6, <2>1
  <2>2. CASE ~(i < k)
    <3>1. t[i] = b[i - (k - 1)] /\ i - (k - 1) \in 1..(Len(s) - k)
      BY <1>1, <1>2, <1>3, <1>5, <1>6, <2>2
    <3>2. b[i - (k - 1)] = s[(i - (k - 1)) + k]
      BY <1>3, <3>1
    <3>3. (i - (k - 1)) + k = i + 1
      BY <1>1, <1>6
    <3>4. QED
      BY <2>2, <3>1, <3>2, <3>3
  <2>3. QED
    BY <2>1, <2>2
<1>8. ToSet(t) \subseteq ToSet(s)
  <2>1. \A i \in DOMAIN t : i \in DOMAIN s /\ i + 1 \in DOMAIN s
    BY <1>1, <1>6
  <2>2. QED
    BY <1>7, <2>1 DEF ToSet
<1>9. Channels(s) \subseteq Channels(t) \cup {s[k].channel}
  <2>1. ASSUME NEW i \in DOMAIN s, i # k
        PROVE  \E j \in DOMAIN t : t[j] = s[i]
    <3>1. CASE i < k
      <4>1. i \in DOMAIN t
        BY <1>1, <1>6, <3>1
      <4>2. QED
        BY <1>7, <3>1, <4>1
    <3>2. CASE ~(i < k)
      <4>1. i - 1 \in DOMAIN t /\ ~(i - 1 < k) /\ (i - 1) + 1 = i
        BY <1>1, <1>6, <2>1, <3>2
      <4>2. QED
        BY <1>7, <4>1
    <3>3. QED
      BY <3>1, <3>2
  <2>2. QED
    BY <2>1 DEF Channels, ToSet
<1>10. ASSUME Distinct(s)
       PROVE  Distinct(t)
  <2>1. ASSUME NEW i \in DOMAIN t, NEW j \in DOMAIN t, t[i].channel = t[j].channel
        PROVE  i = j
    <3> DEFINE p(n) == IF n < k THEN n ELSE n + 1
    <3>1. p(i) \in DOMAIN s /\ p(j) \in DOMAIN s /\ (p(i) = p(j) => i = j)
      BY <1>1, <1>6
    <3>2. t[i] = s[p(i)] /\ t[j] = s[p(j)]
      BY <1>7
    <3> HIDE DEF p
    <3>3. QED
      BY <1>10, <2>1, <3>1, <3>2 DEF Distinct
  <2>2. QED
    BY <2>1 DEF Distinct
<1>11. QED
  BY <1>5, <1>8, <1>9, <1>10 DEF t

-----------------------------------------------------------------------------
(* The invariant                                                           *)

\* Nobody asks while the backend waits.
LEMMA WaitingType ==
  /\ Waiting.at = "recv" /\ Waiting.asker = None /\ Waiting.channel = None
  /\ Waiting \in [at: {"recv", "lookup", "list", "userdata", "nameless", "reply"},
                  channel: Channel \cup {None}, asker: Vm \cup {None},
                  ip: Address \cup {None}, vm: Vm \cup {None}]
BY DEF Waiting

\* The process ends, and every request with it.
LEMMA KillKeeps ==
  ASSUME MetadataInv, KillProcess, UNCHANGED <<plugged, told, static, listed, lease, left>>
  PROVE  MetadataInv'
<1>1. /\ proxy' = "down" /\ open' = NoGuest /\ sending' = <<>> /\ queue' = <<>>
      /\ backend' = Waiting /\ veth' = IF veth = "moved" THEN "dying" ELSE veth
  BY DEF KillProcess
<1>2. open' \in [Vm -> Channel \cup {None}] /\ \A v \in Vm : open'[v] = None
  BY <1>1 DEF NoGuest
<1>3. MetadataTypeInv' /\ SetupInv'
  BY <1>1, <1>2, WaitingType, EmptyQueue DEF MetadataInv, MetadataTypeInv, SetupInv
<1>4. RequestInv' /\ AddressInv'
  BY <1>1, <1>2, WaitingType, EmptyQueue DEF RequestInv, AddressInv
<1>5. QED
  BY <1>3, <1>4 DEF MetadataInv, OwnMetadata, Lost

\* A step that concerns neither the requests nor the ports.
LEMMA HostStepKeeps ==
  ASSUME MetadataInv, UNCHANGED <<requests, backend, guests>>,
         proxy' \in {"down", "veth", "move", "plug", "bind", "serving"},
         veth' \in {"none", "loose", "moved", "dying"}, plugged' \in BOOLEAN, SetupInv'
  PROVE  MetadataInv'
<1>1. UNCHANGED <<open, sending, queue, backend, told, static, listed, lease, left>>
  BY DEF requests, guests, ports
<1>2. MetadataTypeInv' /\ RequestInv'
  BY <1>1 DEF MetadataInv, MetadataTypeInv, RequestInv, OnTheWay
<1>3. AddressInv' /\ OwnMetadata'
  BY <1>1 DEF MetadataInv, AddressInv, OwnMetadata, Found, Source, Lost
<1>4. QED
  BY <1>2, <1>3 DEF MetadataInv

LEMMA SetupKeeps ==
  ASSUME MetadataInv, Setup \/ Cleanup
  PROVE  MetadataInv'
<1>1. CASE KillProcess /\ CreateVeth
  BY <1>1, KillKeeps DEF CreateVeth, guests, ports
<1>2. CASE ~KillProcess \/ ~CreateVeth
  <2>1. UNCHANGED <<requests, backend, guests>>
    BY <1>2 DEF Setup, StartProcess, CreateVeth, MoveVeth, AddPort, BindPort, Cleanup, Exit
  <2>2. /\ proxy' \in {"down", "veth", "move", "plug", "bind", "serving"}
        /\ veth' \in {"none", "loose", "moved", "dying"} /\ plugged' \in BOOLEAN
        /\ SetupInv'
    BY <1>2, <2>1
    DEF Setup, StartProcess, CreateVeth, MoveVeth, AddPort, BindPort, Cleanup, Exit, host,
        MetadataInv, MetadataTypeInv, SetupInv
  <2>3. QED
    BY <2>1, <2>2, HostStepKeeps
<1>3. QED
  BY <1>1, <1>2

\* Where requests come from, and what is said of them, only depends on the ports.
LEMMA SamePorts ==
  ASSUME UNCHANGED <<static, lease, left>>
  PROVE  \A v \in Vm : Source(v)' = Source(v) /\ Lost(v)' = Lost(v)
BY DEF Source, Lost

\* A guest that does not wait sends a request, on a channel of its own.
LEMMA AskKeeps ==
  ASSUME MetadataInv, NEW v \in Vm, Ask(v)
  PROVE  MetadataInv'
<1>1. PICK c \in Channel \ OnTheWay :
        /\ open' = [open EXCEPT ![v] = c]
        /\ sending' = Append(sending, [channel |-> c, asker |-> v, ip |-> Source(v)])
  BY DEF Ask
<1> DEFINE r == [channel |-> c, asker |-> v, ip |-> Source(v)]
<1>2. /\ Source(v) # None
      /\ UNCHANGED <<proxy, veth, plugged, queue, backend, told, static, listed, lease, left>>
  BY DEF Ask, host, guests, ports
<1>3. r \in Request /\ r.channel = c /\ r.asker = v /\ r.ip = Source(v)
  BY <1>2 DEF Request, Source, MetadataInv, MetadataTypeInv
<1>4. sending' = Append(sending, r)
  BY <1>1
<1> HIDE DEF r
<1>5. c # None /\ c \notin Channels(sending) \cup Channels(queue) \cup {backend.channel}
  BY NoneAssumption DEF OnTheWay
<1>6. /\ sending' \in Seq(Request) /\ ToSet(sending') = ToSet(sending) \cup {r}
      /\ Channels(sending') = Channels(sending) \cup {c} /\ Distinct(sending')
  BY <1>3, <1>4, <1>5, AppendQueue DEF MetadataInv, MetadataTypeInv, RequestInv
<1>7. /\ open' \in [Vm -> Channel \cup {None}] /\ open'[v] = c
      /\ \A w \in Vm \ {v} : open'[w] = open[w]
  BY <1>1 DEF MetadataInv, MetadataTypeInv
<1>8. MetadataTypeInv' /\ SetupInv'
  BY <1>2, <1>6, <1>7 DEF MetadataInv, MetadataTypeInv, SetupInv
<1>9. RequestInv'
  <2>1. \A w \in Vm : open'[w] \in OnTheWay' \cup {None}
    BY <1>2, <1>6, <1>7 DEF MetadataInv, RequestInv, OnTheWay
  <2>2. \A w \in Vm : open[w] # c
    BY <1>5 DEF MetadataInv, RequestInv, OnTheWay
  <2>3. \A q \in ToSet(sending) \cup ToSet(queue) : q.channel # c
    BY <1>5 DEF Channels
  <2>4. \A q \in ToSet(sending') \cup ToSet(queue') :
          \A w \in Vm \ {q.asker} : open'[w] # q.channel
    BY <1>2, <1>3, <1>6, <1>7, <2>2, <2>3 DEF MetadataInv, RequestInv
  <2>5. backend'.at # "recv" => \A w \in Vm \ {backend'.asker} : open'[w] # backend'.channel
    BY <1>2, <1>5, <1>7 DEF MetadataInv, RequestInv
  <2>6. QED
    BY <1>2, <1>5, <1>6, <2>1, <2>4, <2>5 DEF MetadataInv, RequestInv
<1>10. AddressInv'
  BY <1>2, <1>3, <1>6 DEF MetadataInv, AddressInv, Found, Source, Lost
<1>11. QED
  BY <1>2, <1>8, <1>9, <1>10 DEF MetadataInv, OwnMetadata, Lost

LEMMA SendKeeps ==
  ASSUME MetadataInv, Send
  PROVE  MetadataInv'
<1> DEFINE r == Head(sending)
<1>1. /\ sending # <<>> /\ queue' = Append(queue, r) /\ sending' = Tail(sending)
      /\ UNCHANGED <<proxy, veth, plugged, open, backend, told, static, listed, lease, left>>
  BY DEF Send, host, guests, ports
<1>2. /\ r \in Request /\ sending' \in Seq(Request) /\ ToSet(sending) = ToSet(sending') \cup {r}
      /\ Channels(sending) = Channels(sending') \cup {r.channel}
      /\ Distinct(sending') /\ r.channel \notin Channels(sending')
  BY <1>1, TailQueue DEF MetadataInv, MetadataTypeInv, RequestInv
<1> HIDE DEF r
<1>3. r.channel \notin Channels(queue)
  BY <1>2 DEF MetadataInv, RequestInv
<1>4. /\ queue' \in Seq(Request) /\ ToSet(queue') = ToSet(queue) \cup {r}
      /\ Channels(queue') = Channels(queue) \cup {r.channel} /\ Distinct(queue')
  BY <1>1, <1>2, <1>3, AppendQueue DEF MetadataInv, MetadataTypeInv, RequestInv
<1>5. MetadataTypeInv' /\ SetupInv'
  BY <1>1, <1>2, <1>4 DEF MetadataInv, MetadataTypeInv, SetupInv
<1>6. OnTheWay' = OnTheWay
  BY <1>1, <1>2, <1>4 DEF OnTheWay
<1>7. ToSet(sending') \cup ToSet(queue') = ToSet(sending) \cup ToSet(queue)
  BY <1>2, <1>4
<1>8. RequestInv'
  BY <1>1, <1>2, <1>4, <1>6, <1>7 DEF MetadataInv, RequestInv
<1>9. AddressInv'
  BY <1>1, <1>7 DEF MetadataInv, AddressInv, Found, Source, Lost
<1>10. QED
  BY <1>1, <1>5, <1>8, <1>9 DEF MetadataInv, OwnMetadata, Lost

\* A guest hangs up; its request goes if it was not sent yet.
LEMMA AbortKeeps ==
  ASSUME MetadataInv, NEW v \in Vm, Abort(v)
  PROVE  MetadataInv'
<1>1. /\ open' = [open EXCEPT ![v] = None] /\ open[v] # None
      /\ UNCHANGED <<proxy, veth, plugged, queue, backend, told, static, listed, lease, left>>
  BY DEF Abort, host, guests, ports
<1>2. /\ sending' \in Seq(Request) /\ ToSet(sending') \subseteq ToSet(sending)
      /\ Channels(sending) \subseteq Channels(sending') \cup {open[v]} /\ Distinct(sending')
  <2>1. CASE sending' = sending
    BY <2>1 DEF MetadataInv, MetadataTypeInv, RequestInv
  <2>2. QED
    BY <2>1, RemoveQueue DEF Abort, MetadataInv, MetadataTypeInv, RequestInv
<1>3. Channels(sending') \subseteq Channels(sending)
  BY <1>2 DEF Channels
<1>4. /\ open' \in [Vm -> Channel \cup {None}] /\ open'[v] = None
      /\ \A w \in Vm \ {v} : open'[w] = open[w]
  BY <1>1 DEF MetadataInv, MetadataTypeInv
<1>5. MetadataTypeInv' /\ SetupInv'
  BY <1>1, <1>2, <1>4 DEF MetadataInv, MetadataTypeInv, SetupInv
<1>6. None \notin Channels(sending) \cup Channels(queue)
  BY QueueType, NoneAssumption DEF MetadataInv, MetadataTypeInv
\* The channel of v is nobody else's.
<1>7. ASSUME NEW w \in Vm \ {v}, open[w] # None
      PROVE  open[w] # open[v]
  <2>1. ASSUME NEW q \in ToSet(sending) \cup ToSet(queue), open[v] = q.channel
        PROVE  open[w] # q.channel
    BY <2>1 DEF MetadataInv, RequestInv
  <2>2. CASE open[v] \in Channels(sending) \cup Channels(queue)
    BY <2>1, <2>2 DEF Channels
  <2>3. CASE open[v] = backend.channel
    BY <1>1, <2>3 DEF MetadataInv, RequestInv, AddressInv
  <2>4. QED
    BY <1>1, <2>2, <2>3 DEF MetadataInv, RequestInv, OnTheWay
<1>8. RequestInv'
  <2>1. \A w \in Vm : open'[w] \in OnTheWay' \cup {None}
    BY <1>1, <1>2, <1>4, <1>7 DEF MetadataInv, RequestInv, OnTheWay
  <2>2. \A q \in ToSet(sending') \cup ToSet(queue') : q.channel # None
    BY <1>1, <1>2, <1>6 DEF Channels
  <2>3. \A q \in ToSet(sending') \cup ToSet(queue') :
          \A w \in Vm \ {q.asker} : open'[w] # q.channel
    BY <1>1, <1>2, <1>4, <2>2 DEF MetadataInv, RequestInv
  <2>4. backend'.at # "recv" => \A w \in Vm \ {backend'.asker} : open'[w] # backend'.channel
    BY <1>1, <1>4 DEF MetadataInv, RequestInv, AddressInv
  <2>5. QED
    BY <1>1, <1>2, <1>3, <2>1, <2>3, <2>4 DEF MetadataInv, RequestInv
<1>9. AddressInv'
  BY <1>1, <1>2 DEF MetadataInv, AddressInv, Found, Source, Lost
<1>10. QED
  BY <1>1, <1>5, <1>8, <1>9 DEF MetadataInv, OwnMetadata, Lost

LEMMA RecvKeeps ==
  ASSUME MetadataInv, Recv
  PROVE  MetadataInv'
<1> DEFINE r == Head(queue)
<1>1. /\ queue # <<>> /\ queue' = Tail(queue) /\ backend.at = "recv"
      /\ backend' = [Waiting EXCEPT !.at = "lookup", !.channel = r.channel,
                                    !.asker = r.asker, !.ip = r.ip]
      /\ UNCHANGED <<proxy, veth, plugged, open, sending, told, static, listed, lease, left>>
  BY DEF Recv, host, guests, ports
<1>2. /\ r \in Request /\ queue' \in Seq(Request) /\ ToSet(queue) = ToSet(queue') \cup {r}
      /\ Channels(queue) = Channels(queue') \cup {r.channel}
      /\ Distinct(queue') /\ r.channel \notin Channels(queue')
  BY <1>1, TailQueue DEF MetadataInv, MetadataTypeInv, RequestInv
<1> HIDE DEF r
<1>3. /\ r.channel \in Channel /\ r.asker \in Vm /\ r.ip \in Address
      /\ r.channel # None /\ r.ip # None
  BY <1>2, NoneAssumption DEF Request
<1>4. /\ backend' \in [at: {"recv", "lookup", "list", "userdata", "nameless", "reply"},
                       channel: Channel \cup {None}, asker: Vm \cup {None},
                       ip: Address \cup {None}, vm: Vm \cup {None}]
      /\ backend'.at = "lookup" /\ backend'.channel = r.channel
      /\ backend'.asker = r.asker /\ backend'.ip = r.ip
  BY <1>1, <1>3 DEF Waiting
<1>5. backend.channel = None
  BY <1>1 DEF MetadataInv, AddressInv
<1>6. MetadataTypeInv' /\ SetupInv'
  BY <1>1, <1>2, <1>4 DEF MetadataInv, MetadataTypeInv, SetupInv
<1>7. RequestInv'
  <2>1. \A v \in Vm : open'[v] \in OnTheWay' \cup {None}
    BY <1>1, <1>2, <1>4, <1>5 DEF MetadataInv, RequestInv, OnTheWay
  <2>2. r.channel \notin Channels(sending)
    BY <1>2 DEF MetadataInv, RequestInv
  <2>3. QED
    BY <1>1, <1>2, <1>4, <2>1, <2>2 DEF MetadataInv, RequestInv
<1>8. AddressInv'
  BY <1>1, <1>2, <1>3, <1>4 DEF MetadataInv, AddressInv, Source, Lost
<1>9. QED
  BY <1>1, <1>6, <1>7, <1>8 DEF MetadataInv, OwnMetadata, Lost

\* What the lookup may find for a request.
Fits(vm) ==
  /\ lease[vm] = backend.ip \/ Lost(vm)
  /\ static[backend.asker] = None => vm = backend.asker \/ Lost(backend.asker)

\* The backend goes on with the request it has.
LEMMA BackendKeeps ==
  ASSUME MetadataInv, NEW at \in {"list", "userdata", "nameless", "reply"}, NEW STATE vm,
         vm \in Vm \cup {None}, backend.at # "recv",
         backend' = [backend EXCEPT !.at = at, !.vm = vm],
         UNCHANGED <<proxy, veth, plugged, open, sending, queue, told, static, listed, lease,
                     left>>,
         IF vm = None THEN at = "reply" ELSE Fits(vm)
  PROVE  MetadataInv'
<1>1. /\ backend' \in [at: {"recv", "lookup", "list", "userdata", "nameless", "reply"},
                       channel: Channel \cup {None}, asker: Vm \cup {None},
                       ip: Address \cup {None}, vm: Vm \cup {None}]
      /\ backend'.at = at /\ backend'.channel = backend.channel
      /\ backend'.asker = backend.asker /\ backend'.ip = backend.ip /\ backend'.vm = vm
  BY DEF MetadataInv, MetadataTypeInv
<1>2. MetadataTypeInv' /\ SetupInv'
  BY <1>1 DEF MetadataInv, MetadataTypeInv, SetupInv
<1>3. RequestInv'
  BY <1>1 DEF MetadataInv, RequestInv, OnTheWay
<1>4. vm # None => Found'
  BY <1>1 DEF Fits, Found, Lost
<1>5. AddressInv'
  BY <1>1, <1>4 DEF MetadataInv, AddressInv, Source, Lost
<1>6. QED
  BY <1>2, <1>3, <1>5 DEF MetadataInv, OwnMetadata, Lost

\* The only port with the address is that of the asker, if it was leased to it.
LEMMA LookupKeeps ==
  ASSUME MetadataInv, Lookup
  PROVE  MetadataInv'
<1> DEFINE found == {v \in Vm : lease[v] = backend.ip}
<1>1. /\ backend.at = "lookup"
      /\ UNCHANGED <<proxy, veth, plugged, open, sending, queue, told, static, listed, lease,
                     left>>
  BY DEF Lookup, host, requests, guests, ports
<1>2. CASE Cardinality(found) # 1
  <2>1. backend' = [backend EXCEPT !.at = "reply", !.vm = None]
    BY <1>2 DEF Lookup, Answer
  <2>2. QED
    BY <1>1, <2>1, BackendKeeps
<1>3. CASE Cardinality(found) = 1
  <2>1. PICK v \in found : backend' = [backend EXCEPT !.at = "list", !.vm = v]
    BY <1>3 DEF Lookup
  <2>2. IsFiniteSet(found)
    BY VmAssumption, FS_Subset
  <2>3. \E x : found = {x}
    BY <1>3, <2>2, FS_Singleton
  <2>4. /\ backend.asker \in Vm
        /\ Source(backend.asker) = backend.ip \/ Lost(backend.asker)
    BY <1>1 DEF MetadataInv, AddressInv
  <2>5. Fits(v)
    BY <2>3, <2>4 DEF Fits, Source
  <2>6. v \in Vm /\ v # None
    BY NoneAssumption
  <2>7. QED
    BY <1>1, <2>1, <2>5, <2>6, BackendKeeps
<1>4. QED
  BY <1>2, <1>3

LEMMA ListVmsKeeps ==
  ASSUME MetadataInv, ListVms
  PROVE  MetadataInv'
<1>1. backend.at = "list" /\ UNCHANGED <<plugged, told, static, listed, lease, left>>
  BY DEF ListVms, guests, ports
<1>2. CASE backend.vm \in listed
  <2> DEFINE next == IF backend.vm \in named THEN "userdata" ELSE "nameless"
  <2>1. /\ backend' = [backend EXCEPT !.at = next]
        /\ UNCHANGED <<proxy, veth, open, sending, queue>>
    BY <1>2 DEF ListVms, requests
  <2>2. next \in {"userdata", "nameless"}
    OBVIOUS
  <2> HIDE DEF next
  <2>3. backend' = [backend EXCEPT !.at = next, !.vm = backend.vm]
    BY <2>1 DEF MetadataInv, MetadataTypeInv
  <2>4. backend.vm \in Vm \cup {None} /\ backend.vm # None /\ Fits(backend.vm)
    BY <1>1 DEF MetadataInv, MetadataTypeInv, AddressInv, Found, Fits
  <2>5. QED
    BY <1>1, <2>1, <2>2, <2>3, <2>4, BackendKeeps
<1>3. CASE backend.vm \notin listed
  BY <1>1, <1>3, KillKeeps DEF ListVms, Exit
<1>4. QED
  BY <1>2, <1>3

LEMMA GetUserdataKeeps ==
  ASSUME MetadataInv, GetUserdata
  PROVE  MetadataInv'
<1> DEFINE vm == IF backend.vm \in Userdata \cap maps THEN backend.vm ELSE None
<1>1. /\ backend.at \in {"userdata", "nameless"}
      /\ UNCHANGED <<plugged, told, static, listed, lease, left>>
      /\ \/ /\ backend' = [backend EXCEPT !.at = "reply", !.vm = vm]
            /\ UNCHANGED <<proxy, veth, open, sending, queue>>
         \/ KillProcess
  BY DEF GetUserdata, Answer, Exit, requests, guests, ports
<1>2. CASE KillProcess
  BY <1>1, <1>2, KillKeeps
<1>3. CASE ~KillProcess
  <2>1. vm \in Vm \cup {None} /\ (vm # None => Fits(vm))
    BY <1>1 DEF MetadataInv, MetadataTypeInv, AddressInv, Found, Fits
  <2> HIDE DEF vm
  <2>2. QED
    BY <1>1, <1>3, <2>1, BackendKeeps
<1>4. QED
  BY <1>2, <1>3

\* The answer is what the lookup found, or there is no port to take it.
LEMMA ReplyKeeps ==
  ASSUME MetadataInv, Reply
  PROVE  MetadataInv'
<1> DEFINE v == backend.asker
<1>1. /\ backend.at = "reply" /\ v \in Vm
      /\ UNCHANGED <<plugged, static, listed, lease, left>>
  BY DEF Reply, ports, MetadataInv, AddressInv
<1>2. CASE ~Deliver
  BY <1>1, <1>2, KillKeeps DEF Reply, Exit
<1>3. CASE Deliver
  <2>1. /\ told' = [told EXCEPT ![v] = IF Lost(v) THEN told[v] ELSE backend.vm]
        /\ open[v] = backend.channel /\ open' = [open EXCEPT ![v] = None]
        /\ backend' = Waiting /\ UNCHANGED <<proxy, veth, sending, queue>>
    BY <1>3 DEF Deliver
  <2>2. /\ told' \in [Vm -> Vm \cup {None}]
        /\ \A w \in Vm \ {v} : told'[w] = told[w]
        /\ told'[v] = IF Lost(v) THEN told[v] ELSE backend.vm
    BY <1>1, <2>1 DEF MetadataInv, MetadataTypeInv
  <2>3. /\ open' \in [Vm -> Channel \cup {None}] /\ open'[v] = None
        /\ \A w \in Vm \ {v} : open'[w] = open[w]
    BY <1>1, <2>1 DEF MetadataInv, MetadataTypeInv
  <2>4. OwnMetadata'
    <3>1. ~Lost(v) /\ backend.vm # None =>
            \/ backend.vm = v
            \/ static[v] # None /\ (lease[backend.vm] = static[v] \/ Lost(backend.vm))
      BY <1>1 DEF MetadataInv, AddressInv, Found, Source
    <3>2. QED
      BY <1>1, <2>2, <3>1 DEF MetadataInv, OwnMetadata, Lost
  <2>5. MetadataTypeInv' /\ SetupInv'
    BY <1>1, <2>1, <2>2, <2>3, WaitingType DEF MetadataInv, MetadataTypeInv, SetupInv
  <2>6. None \notin Channels(sending) \cup Channels(queue)
    BY QueueType, NoneAssumption DEF MetadataInv, MetadataTypeInv
  <2>7. RequestInv'
    <3>1. \A w \in Vm \ {v} : open[w] # backend.channel
      BY <1>1 DEF MetadataInv, RequestInv
    <3>2. \A w \in Vm : open'[w] \in OnTheWay' \cup {None}
      BY <2>1, <2>3, <3>1 DEF MetadataInv, RequestInv, OnTheWay
    <3>3. \A q \in ToSet(sending) \cup ToSet(queue) : q.channel # None
      BY <2>6 DEF Channels
    <3>4. QED
      BY <2>1, <2>3, <2>6, <3>2, <3>3, WaitingType DEF MetadataInv, RequestInv
  <2>8. AddressInv'
    BY <1>1, <2>1, WaitingType DEF MetadataInv, AddressInv, Source, Lost
  <2>9. QED
    BY <2>4, <2>5, <2>7, <2>8 DEF MetadataInv
<1>4. QED
  BY <1>2, <1>3

\* Ports come and go: an address that a port has changes only with its loss.
LEMMA PortsKeep ==
  ASSUME MetadataInv, lease' \in [Vm -> Address \cup {None}], listed' \subseteq Vm,
         left' \in [Vm -> {"no", "nic", "vm"}],
         UNCHANGED <<proxy, veth, plugged, open, sending, queue, backend, told, static>>,
         \A v \in Vm : /\ lease[v] # None => lease'[v] = lease[v] \/ Lost(v)'
                       /\ Lost(v) => Lost(v)'
  PROVE  MetadataInv'
<1>1. MetadataTypeInv' /\ SetupInv' /\ RequestInv'
  BY DEF MetadataInv, MetadataTypeInv, SetupInv, RequestInv, OnTheWay
<1>2. \A r \in ToSet(sending) \cup ToSet(queue) : r.asker \in Vm /\ r.ip # None
  <2>1. ToSet(sending) \cup ToSet(queue) \subseteq Request
    BY QueueType DEF MetadataInv, MetadataTypeInv
  <2>2. QED
    BY <2>1, NoneAssumption DEF Request
<1>3. \A v \in Vm : \A ip : ip # None /\ Source(v) = ip => Source(v)' = ip \/ Lost(v)'
  BY DEF Source
<1>4. backend.vm \in Vm /\ backend.ip # None /\ backend.asker \in Vm /\ Found => Found'
  BY DEF Found
<1>5. AddressInv'
  <2>1. backend.vm \in Vm \cup {None}
    BY DEF MetadataInv, MetadataTypeInv
  <2>2. \A r \in ToSet(sending) \cup ToSet(queue) : Source(r.asker)' = r.ip \/ Lost(r.asker)'
    BY <1>2, <1>3 DEF MetadataInv, AddressInv
  <2>3. QED
    BY <1>3, <1>4, <2>1, <2>2 DEF MetadataInv, AddressInv
<1>6. OwnMetadata'
  BY DEF MetadataInv, MetadataTypeInv, OwnMetadata
<1>7. QED
  BY <1>1, <1>5, <1>6 DEF MetadataInv

LEMMA GuestsKeep ==
  ASSUME MetadataInv, Arrive \/ Leave \/ Gone
  PROVE  MetadataInv'
<1>1. UNCHANGED <<proxy, veth, plugged, open, sending, queue, backend, told, static>>
  BY DEF Arrive, Leave, Gone, host, requests
<1>2. /\ lease \in [Vm -> Address \cup {None}] /\ listed \subseteq Vm
      /\ left \in [Vm -> {"no", "nic", "vm"}]
  BY DEF MetadataInv, MetadataTypeInv
<1>3. CASE Arrive
  <2>1. CASE lease' = lease
    BY <1>1, <1>2, <1>3, <2>1, PortsKeep DEF Arrive, Lost
  <2>2. CASE lease' # lease
    <3>1. PICK v \in Vm :
            /\ lease[v] = None /\ \E a \in Address : lease' = [lease EXCEPT ![v] = a]
            /\ UNCHANGED <<listed, left>>
      BY <1>3, <2>2 DEF Arrive
    <3>2. /\ lease' \in [Vm -> Address \cup {None}]
          /\ \A w \in Vm \ {v} : lease'[w] = lease[w]
      BY <1>2, <3>1
    <3>3. QED
      BY <1>1, <1>2, <3>1, <3>2, PortsKeep DEF Lost
  <2>3. QED
    BY <2>1, <2>2
<1>4. CASE Leave
  <2>1. PICK v \in listed :
          /\ left[v] = "no"
          /\ \/ /\ left' = [left EXCEPT ![v] = "vm"]
                /\ lease' = [lease EXCEPT ![v] = None] /\ UNCHANGED listed
             \/ /\ left' = [left EXCEPT ![v] = "nic"]
                /\ listed' = listed \ {v} /\ UNCHANGED lease
    BY <1>4 DEF Leave
  <2>2. /\ lease' \in [Vm -> Address \cup {None}] /\ listed' \subseteq Vm
        /\ left' \in [Vm -> {"no", "nic", "vm"}]
        /\ \A w \in Vm : lease'[w] = lease[w] \/ (w = v /\ left'[w] = "vm")
        /\ \A w \in Vm : left'[w] = left[w] \/ w = v
    BY <1>2, <2>1
  <2>3. QED
    BY <1>1, <2>1, <2>2, PortsKeep DEF Lost
<1>5. CASE Gone
  <2>1. UNCHANGED <<lease, left>> /\ listed' \subseteq Vm
    BY <1>2, <1>5 DEF Gone
  <2>2. QED
    BY <1>1, <1>2, <2>1, PortsKeep DEF Lost
<1>6. QED
  BY <1>3, <1>4, <1>5

LEMMA InitMetadata == Init => MetadataInv
<1> SUFFICES ASSUME Init
             PROVE  MetadataInv
  OBVIOUS
<1>1. /\ open \in [Vm -> Channel \cup {None}] /\ \A v \in Vm : open[v] = None
      /\ told \in [Vm -> Vm \cup {None}] /\ \A v \in Vm : told[v] = None
      /\ lease \in [Vm -> Address \cup {None}] /\ left \in [Vm -> {"no", "nic", "vm"}]
      /\ static \in [Vm -> Address \cup {None}]
  BY ConfigsAssumption DEF Init, NoGuest
<1>2. MetadataTypeInv /\ SetupInv
  BY <1>1, WaitingType, EmptyQueue DEF Init, MetadataTypeInv, SetupInv
<1>3. RequestInv /\ AddressInv /\ OwnMetadata
  BY <1>1, WaitingType, EmptyQueue DEF Init, RequestInv, AddressInv, OwnMetadata
<1>4. QED
  BY <1>2, <1>3 DEF MetadataInv

LEMMA NextMetadata == MetadataInv /\ [Next]_vars => MetadataInv'
<1> SUFFICES ASSUME MetadataInv, [Next]_vars
             PROVE  MetadataInv'
  OBVIOUS
<1>1. CASE Setup \/ Cleanup
  BY <1>1, SetupKeeps
<1>2. CASE BackendStep
  BY <1>2, RecvKeeps, LookupKeeps, ListVmsKeeps, GetUserdataKeeps, ReplyKeeps DEF BackendStep
<1>3. CASE Trouble
  BY <1>3, KillKeeps DEF Trouble, guests, ports
<1>4. CASE UNCHANGED vars
  <2>1. UNCHANGED <<proxy, veth, plugged, open, sending, queue, backend, told, static,
                    listed, lease, left>>
    BY <1>4 DEF vars
  <2>2. QED
    BY <2>1, PortsKeep DEF MetadataInv, MetadataTypeInv, Lost
<1>5. QED
  BY <1>1, <1>2, <1>3, <1>4, SendKeeps, AskKeeps, AbortKeeps, GuestsKeep DEF Next

-----------------------------------------------------------------------------
(* The theorems                                                            *)

\* The service keeps the induction invariant (metadataservice/).
THEOREM MetadataInductive == Spec => []MetadataInv
<1>1. QED
  BY InitMetadata, NextMetadata, PTL DEF Spec

\* A guest with a leased address is never given the metadata of another VM,
\* although the backend knows it only by an address that other networks use as
\* well, and that may have passed to another VM by the time the request is
\* looked at; one with an address set by hand only that of a VM that leases this
\* address (main, backend.rs; get_by_ip, logicalswitchport.rs).
THEOREM NobodyElsesMetadata == Spec => []OwnMetadata
<1>1. MetadataInv => OwnMetadata
  BY DEF MetadataInv
<1>2. QED
  BY <1>1, MetadataInductive, PTL

\* Every guest that waits for a reply has exactly one request on its way: in line
\* for the channel, in the channel, or with the backend (proxy.rs, backend.rs).
THEOREM NoRequestSwallowed == Spec => []Accounted
<1>1. MetadataInv => Accounted
  <2> SUFFICES ASSUME MetadataInv, NEW v \in Vm, open[v] # None
               PROVE  LET onTheWay == sending \o queue \o
                            (IF backend.channel = None THEN <<>> ELSE <<backend>>)
                      IN  \E i \in DOMAIN onTheWay :
                            /\ onTheWay[i].asker = v
                            /\ \A j \in DOMAIN onTheWay :
                                 (onTheWay[j].channel = open[v]) <=> (j = i)
    BY DEF Accounted
  <2> DEFINE last == IF backend.channel = None THEN <<>> ELSE <<backend>>
             line == sending \o queue
             onTheWay == line \o last
             R == Request \cup {backend}
             S == Len(sending)
             Q == Len(queue)
             L == Len(last)
  <2>1. open[v] \in OnTheWay
    BY DEF MetadataInv, RequestInv
  <2>2. sending \in Seq(R) /\ queue \in Seq(R) /\ last \in Seq(R)
    <3>1. sending \in Seq(R) /\ queue \in Seq(R)
      BY WiderQueue DEF MetadataInv, MetadataTypeInv
    <3>2. last \in Seq(R)
      <4>1. backend \in R
        OBVIOUS
      <4> HIDE DEF R
      <4>2. <<>> \in Seq(R) /\ <<backend>> \in Seq(R)
        BY <4>1
      <4>3. QED
        BY <4>2
    <3>3. QED
      BY <3>1, <3>2
  <2>3. /\ S \in Nat /\ Q \in Nat /\ DOMAIN sending = 1..S /\ DOMAIN queue = 1..Q
        /\ L = (IF backend.channel = None THEN 0 ELSE 1)
        /\ \A i \in 1..L : last[i] = backend /\ i = 1
    BY <2>2
  <2>4. /\ line \in Seq(R) /\ Len(line) = S + Q
        /\ \A i \in 1..(S + Q) : line[i] = IF i <= S THEN sending[i] ELSE queue[i - S]
    BY <2>2, ConcatQueue
  <2> HIDE DEF last, line, S, Q
  <2>5. /\ Len(onTheWay) = (S + Q) + L /\ DOMAIN onTheWay = 1..((S + Q) + L)
        /\ \A i \in 1..((S + Q) + L) :
             onTheWay[i] = IF i <= S + Q THEN line[i] ELSE last[i - (S + Q)]
    <3>1. /\ onTheWay \in Seq(R) /\ Len(onTheWay) = Len(line) + Len(last)
          /\ \A i \in 1..(Len(line) + Len(last)) :
               onTheWay[i] = IF i <= Len(line) THEN line[i] ELSE last[i - Len(line)]
      BY <2>2, <2>4, ConcatQueue
    <3> HIDE DEF onTheWay
    <3>2. DOMAIN onTheWay = 1..Len(onTheWay)
      BY <3>1
    <3>3. QED
      BY <2>4, <3>1, <3>2
  <2> HIDE DEF onTheWay, L
  <2>6. ASSUME NEW i \in DOMAIN onTheWay
        PROVE  \/ i \in DOMAIN sending /\ onTheWay[i] = sending[i]
               \/ i > S /\ i - S \in DOMAIN queue /\ onTheWay[i] = queue[i - S]
               \/ i = S + Q + 1 /\ onTheWay[i] = backend /\ backend.channel # None
    <3>1. CASE i <= S
      BY <2>3, <2>4, <2>5, <3>1
    <3>2. CASE i > S /\ i <= S + Q
      BY <2>3, <2>4, <2>5, <3>2
    <3>3. CASE i > S + Q
      <4>1. onTheWay[i] = last[i - (S + Q)] /\ i - (S + Q) \in 1..L
        BY <2>3, <2>5, <3>3
      <4>2. i - (S + Q) = 1 /\ last[i - (S + Q)] = backend /\ L = 1
        BY <2>3, <4>1
      <4>3. QED
        BY <2>3, <2>5, <4>1, <4>2
    <3>4. QED
      BY <2>3, <2>5, <3>1, <3>2, <3>3
  <2>7. ASSUME NEW i \in DOMAIN onTheWay, NEW j \in DOMAIN onTheWay,
               onTheWay[i].channel = onTheWay[j].channel
        PROVE  i = j
    <3>1. /\ Distinct(sending) /\ Distinct(queue)
          /\ \A k \in DOMAIN sending, l \in DOMAIN queue : sending[k].channel # queue[l].channel
          /\ \A k \in DOMAIN sending : sending[k].channel # backend.channel
          /\ \A l \in DOMAIN queue : queue[l].channel # backend.channel
      BY DEF MetadataInv, RequestInv, Channels, ToSet
    <3>2. \A k, l \in DOMAIN queue : queue[k].channel = queue[l].channel => k = l
      BY <3>1 DEF Distinct
    <3>3. \A k, l \in DOMAIN sending : sending[k].channel = sending[l].channel => k = l
      BY <3>1 DEF Distinct
    <3>4. i \in Nat /\ j \in Nat
      BY <2>3, <2>5
    <3>5. QED
      BY <2>3, <2>6, <2>7, <3>1, <3>2, <3>3, <3>4
  <2>8. \E i \in DOMAIN onTheWay : onTheWay[i].channel = open[v]
    <3>1. CASE \E k \in DOMAIN sending : sending[k].channel = open[v]
      <4>1. PICK k \in DOMAIN sending : sending[k].channel = open[v]
        BY <3>1
      <4>2. k \in DOMAIN onTheWay /\ onTheWay[k] = sending[k]
        BY <2>3, <2>4, <2>5
      <4>3. QED
        BY <4>1, <4>2
    <3>2. CASE \E k \in DOMAIN queue : queue[k].channel = open[v]
      <4>1. PICK k \in DOMAIN queue : queue[k].channel = open[v]
        BY <3>2
      <4>2. /\ k + S \in 1..(S + Q) /\ ~(k + S <= S) /\ (k + S) - S = k
            /\ k + S \in DOMAIN onTheWay
        BY <2>3, <2>5
      <4>3. onTheWay[k + S] = queue[k]
        BY <2>3, <2>4, <2>5, <4>2
      <4>4. QED
        BY <4>1, <4>2, <4>3
    <3>3. CASE backend.channel = open[v]
      <4>1. L = 1 /\ S + Q + 1 \in DOMAIN onTheWay /\ ~(S + Q + 1 <= S + Q)
        BY <2>1, <2>3, <2>5, <3>3
      <4>2. onTheWay[S + Q + 1] = last[(S + Q + 1) - (S + Q)] /\ (S + Q + 1) - (S + Q) = 1
        BY <2>3, <2>5, <4>1
      <4>3. onTheWay[S + Q + 1] = backend
        BY <2>3, <4>1, <4>2
      <4>4. QED
        BY <3>3, <4>1, <4>3
    <3>4. QED
      BY <2>1, <3>1, <3>2, <3>3 DEF OnTheWay, Channels, ToSet
  <2>9. ASSUME NEW i \in DOMAIN onTheWay, onTheWay[i].channel = open[v]
        PROVE  onTheWay[i].asker = v
    <3>1. \A q \in ToSet(sending) \cup ToSet(queue) : open[v] = q.channel => q.asker = v
      BY DEF MetadataInv, RequestInv
    <3>2. /\ \A k \in DOMAIN sending : open[v] = sending[k].channel => sending[k].asker = v
          /\ \A k \in DOMAIN queue : open[v] = queue[k].channel => queue[k].asker = v
      BY <3>1 DEF ToSet
    <3>3. backend.channel # None /\ open[v] = backend.channel => backend.asker = v
      BY DEF MetadataInv, RequestInv, AddressInv
    <3>4. QED
      BY <2>6, <2>9, <3>2, <3>3
  <2>10. \E i \in DOMAIN onTheWay :
           /\ onTheWay[i].asker = v
           /\ \A j \in DOMAIN onTheWay : (onTheWay[j].channel = open[v]) <=> (j = i)
    BY <2>7, <2>8, <2>9
  <2>11. QED
    BY <2>10 DEF onTheWay, line, last
<1>2. QED
  BY <1>1, MetadataInductive, PTL
=============================================================================
