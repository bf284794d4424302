------------------------------- MODULE Gossip -------------------------------
(***************************************************************************)
(* The gossip engine of fudpucker: device state changes travelling between *)
(* hosts as CommandPatch and EventSync datagrams.                          *)
(*                                                                         *)
(*   PatchState        PATCH /device/{id}      data/usecases.go            *)
(*   PatchStateCommit  its saveData ... send                               *)
(*   ReceivePatch      CommandPatch ingress    message/usecases.go SaveState*)
(*   ReceiveSync       EventSync ingress       message/usecases.go SaveDevice*)
(*   DropSeen          de-duplication          message/adapters.go         *)
(*   CreateDevice      POST /device            data/usecases.go            *)
(*   Tick, Lose        time passing, a datagram lost on the LAN            *)
(*                                                                         *)
(* Each host runs one UDP receive goroutine (the Receive* actions of a     *)
(* host never overlap) and one goroutine per HTTP request.  A PATCH at the *)
(* owner reads the device, then saves version+1 in a later database call; *)
(* that window is the task between PatchState and PatchStateCommit.        *)
(***************************************************************************)
EXTENDS Integers, FiniteSets, TLC, MessageCache

CONSTANTS
    Host,            \* host ids (model values)
    Device,          \* device ids (model values)
    Owner,           \* Owner[d]: the host that created d
    Clients,         \* hosts that receive PATCH /device requests
    DeviceState,     \* the DeviceState bytes used (Off = 0, On = 1)
    MsgId,           \* message ids a NewRandomId call may return
    ZeroId,          \* entity.ZeroId, never a fresh id
    InitStore,       \* the databases in the initial state
    RandomPeerCount, \* defaultRandomPeerCount (5 in the code)
    MaxVersion,      \* bound: no owner writes a version above it
    MaxRequests,     \* bound: PATCH requests served in a behaviour
    MaxTasks,        \* bound: concurrent PATCH requests per host
    StoreFaults,     \* may a database call fail (badger.Open, I/O)?
    Lossy,           \* may the LAN drop a datagram?
    Duplicating      \* may the LAN deliver a datagram twice?

Record == [state : DeviceState, version : 0..MaxVersion]

ASSUME /\ Owner \in [Device -> Host]
       /\ Clients \subseteq Host
       /\ ZeroId \notin MsgId
       /\ InitStore \in [Host -> UNION {[D -> Record] : D \in SUBSET Device}]
       /\ RandomPeerCount \in Nat \ {0}
       /\ {MaxVersion, MaxRequests, MaxTasks} \subseteq Nat
       /\ {StoreFaults, Lossy, Duplicating} \subseteq BOOLEAN

VARIABLES
    store,     \* store[h]: the devices in h's database, device -> Record
    peers,     \* peers[h]: the ids in h's PeerCache
    cache,     \* cache[h]: h's MessageCache
    network,   \* datagrams in flight: [to, from, msg]
    tasks,     \* tasks[h]: PATCH requests at h that have read the device
    requests,  \* PATCH requests served so far
    attached   \* attached[h]: h's UDP server holds an open connection

vars == <<store, peers, cache, network, tasks, requests, attached>>

PatchMsg == [id : MsgId, kind : {"Patch"}, sender : Host, dev : Device,
             state : DeviceState]
SyncMsg  == [id : MsgId, kind : {"Sync"}, sender : Host, dev : Device,
             state : DeviceState, version : 0..MaxVersion]
HailMsg  == [id : MsgId, kind : {"Hail", "Farewell"}, sender : Host]
Packet   == [to : Host, from : Host, msg : PatchMsg \cup SyncMsg \cup HailMsg]
Task     == [dev : Device, state : DeviceState, read : 0..MaxVersion]

\* data/peercache.go keeps a map keyed by peer id: AddPeer upserts an id,
\* RemovePeer deletes one, and Reset clears them all.
AddPeerId(ps, p)    == ps \cup {p}
RemovePeerId(ps, p) == ps \ {p}
NoPeers             == {}

\* unit.MinInt as a peerCount argument: any count <= 0 asks for the
\* default count.
MinIntArg == -1

-----------------------------------------------------------------------------
(* Helpers translated from the use cases the handlers are wired with.      *)

\* The result of one database call: only success unless StoreFaults.
Outcome == IF StoreFaults THEN BOOLEAN ELSE {TRUE}

\* A redelivery keeps the datagram in flight after it is handled.
Redelivery == IF Duplicating THEN BOOLEAN ELSE {FALSE}

Holds(h, d) == d \in DOMAIN store[h]

\* Mutant: any host holding the device takes itself for its owner.
IsOwnerAnyHolder(h, d) == Holds(h, d)

\* NewCheckIfOwnerUseCase: the stored owner attribute equals the host id.
\* A missing record is an error, which every caller treats as "not owner".
IsOwner(h, d) == Holds(h, d) /\ Owner[d] = h

\* Mutant: any different version counts as newer.
IsNewerAnyChange(h, d, v) == v # store[h][d].version

\* NewCheckIfNewerUseCase (only called when h holds d).
IsNewer(h, d, v) == v > store[h][d].version

\* Mutant: the new state is saved under the version that was read.
SavedStateNoBump(s, v) == [state |-> s, version |-> v]

\* NewPatchStateDataAdapter: saveData(id, newState, version + 1).
SavedState(s, v) == [state |-> s, version |-> v + 1]

\* The sync message NewSyncMessageProvider builds from a device record.
SyncOf(id, h, d, r) ==
    [id |-> id, kind |-> "Sync", sender |-> h, dev |-> d,
     state |-> r.state, version |-> r.version]

\* NewRandomId: an id no host remembers and no datagram carries.
FreshIds == MsgId \ (UNION {MessagesIn(cache[h]) : h \in Host}
                      \cup {p.msg.id : p \in network})
NewId == CHOOSE i \in FreshIds : TRUE

\* NewRandomSafePeersForMessageUseCase.  The broadcast branch is dead
\* code (its condition requires GetBroadcastAddress to fail and return a
\* non-empty address), so the result is up to peerCount peers, the
\* default when peerCount <= 0, that are not quarantined for mid in the
\* cache c, in map iteration order: any such subset.
RandomSafePeers(h, c, mid, count) ==
    LET safe == {p \in peers[h] : ~ContainsMessageForPeer(c, mid, p)}
        want == IF count <= 0 THEN RandomPeerCount ELSE count
        n    == IF Cardinality(safe) < want THEN Cardinality(safe) ELSE want
    IN  {P \in SUBSET safe : Cardinality(P) = n}

\* NewSendMessageHandler over a peer set: one datagram per peer, and on a
\* successful send Hold(message id, peer).  udpServer.Send fails on a
\* closed connection, so a detached host sends and holds nothing.  c is
\* the host's cache before the loop and net the network before it.
SendAll(h, m, P, c, net) ==
    LET sent == IF attached[h] THEN P ELSE {} IN
    /\ network' = net \cup {[to |-> p, from |-> h, msg |-> m] : p \in sent}
    /\ cache' = [cache EXCEPT ![h] = HoldAll(c, m.id, sent)]

\* Propagate m to a random safe set of peers (quarantine key mid).
Propagate(h, m, mid, c, net) ==
    \E P \in RandomSafePeers(h, c, mid, MinIntArg) : SendAll(h, m, P, c, net)

\* A handler that returns without sending: only the ingress Hold remains.
Stop(h, c, net) ==
    /\ network' = net
    /\ cache' = [cache EXCEPT ![h] = c]

-----------------------------------------------------------------------------
TypeOK ==
    /\ store \in [Host -> UNION {[D -> Record] : D \in SUBSET Device}]
    /\ peers \in [Host -> SUBSET Host]
    /\ cache \in [Host -> SUBSET [msg : MsgId, peer : Host, age : 0..TTL]]
    /\ network \subseteq Packet
    /\ tasks \in [Host -> SUBSET Task]
    /\ requests \in 0..MaxRequests
    /\ attached \in [Host -> BOOLEAN]

Init ==
    /\ store = InitStore
    /\ peers = [h \in Host |-> Host \ {h}]
    /\ cache = [h \in Host |-> {}]
    /\ network = {}
    /\ tasks = [h \in Host |-> {}]
    /\ requests = 0
    /\ attached = [h \in Host |-> TRUE]

-----------------------------------------------------------------------------
(* HTTP handlers.                                                          *)

\* POST /device at the owner: NewCreateDeviceUseCase with a fresh random
\* device id, saved with version 0.  A failed save changes nothing.
CreateDevice(h, d, s) ==
    /\ h = Owner[d]
    /\ \A g \in Host : ~Holds(g, d)
    /\ \A p \in network : p.msg \notin HailMsg => p.msg.dev # d
    /\ store' = [store EXCEPT ![h] = (d :> [state |-> s, version |-> 0]) @@ @]
    /\ UNCHANGED <<peers, cache, network, tasks, requests, attached>>

\* PATCH /device/{d} with state s: NewPatchStateUseCase up to getDevice.
\* A non-owner (or a failed owner read) creates a CommandPatch and
\* propagates it with quarantine key ZeroId, in this one step.  The owner
\* reads the device and goes on in PatchStateCommit.  A failed getDevice
\* returns 500 and changes nothing.
PatchState(h, d, s) ==
    /\ h \in Clients
    /\ requests < MaxRequests
    /\ requests' = requests + 1
    /\ \E ownerRead \in Outcome :
        \/ /\ ownerRead /\ IsOwner(h, d)
           /\ Cardinality(tasks[h]) < MaxTasks
           /\ store[h][d].version < MaxVersion
           /\ tasks' = [tasks EXCEPT ![h] = @ \cup
                          {[dev |-> d, state |-> s, read |-> store[h][d].version]}]
           /\ UNCHANGED <<store, cache, network>>
        \/ /\ ~(ownerRead /\ IsOwner(h, d))
           /\ FreshIds # {}
           /\ Propagate(h, [id |-> NewId, kind |-> "Patch", sender |-> h,
                            dev |-> d, state |-> s],
                        ZeroId, cache[h], network)
           /\ UNCHANGED <<store, tasks>>
    /\ UNCHANGED <<peers, attached>>

\* The rest of the owner branch: saveData(d, s, read + 1), getDevice, and
\* an EventSync of the reloaded device propagated with key ZeroId.  A
\* failed save ends the request; a failed reload ends it after the save.
PatchStateCommit(h, t) ==
    /\ t \in tasks[h]
    /\ FreshIds # {}
    /\ tasks' = [tasks EXCEPT ![h] = @ \ {t}]
    /\ \E saved, reloaded \in Outcome :
        LET after == (t.dev :> SavedState(t.state, t.read)) @@ store[h]
        IN  IF ~saved
            THEN UNCHANGED <<store, cache, network>>
            ELSE /\ store' = [store EXCEPT ![h] = after]
                 /\ IF reloaded
                    THEN Propagate(h, SyncOf(NewId, h, t.dev, after[t.dev]),
                                   ZeroId, cache[h], network)
                    ELSE UNCHANGED <<cache, network>>
    /\ UNCHANGED <<peers, requests, attached>>

-----------------------------------------------------------------------------
(* UDP ingress: NewReceiveMessageHandler and the handler it dispatches to. *)

\* A datagram for h whose id h has not seen: the handler runs after
\* putMessageInQuarantine(id, sender).  Only an open connection reads.
Unseen(h, pkt, kind) ==
    /\ attached[h]
    /\ pkt \in network
    /\ pkt.to = h
    /\ pkt.msg.kind = kind
    /\ ~ContainsMessage(cache[h], pkt.msg.id)

\* isMessageInQuarantine(id): the datagram is dropped without effect.
DropSeen(h, pkt) ==
    /\ attached[h]
    /\ pkt \in network
    /\ pkt.to = h
    /\ ContainsMessage(cache[h], pkt.msg.id)
    /\ network' = network \ {pkt}
    /\ UNCHANGED <<store, peers, cache, tasks, requests, attached>>

\* CommandPatch: NewSaveStateUseCase.  The owner applies the patch and
\* propagates a fresh EventSync; anyone else propagates the patch itself.
\* Both propagate with quarantine key ZeroId.
ReceivePatch(h, pkt) ==
    /\ Unseen(h, pkt, "Patch")
    /\ LET m  == pkt.msg
           c1 == Hold(cache[h], m.id, m.sender)
       IN  \E keep \in Redelivery, ok \in [owner : Outcome, get : Outcome,
                                          save : Outcome, reload : Outcome] :
           LET net == IF keep THEN network ELSE network \ {pkt} IN
           \/ /\ ok.owner /\ IsOwner(h, m.dev)
              /\ store[h][m.dev].version < MaxVersion
              /\ FreshIds # {}
              /\ LET after == (m.dev :> SavedState(m.state, store[h][m.dev].version))
                                 @@ store[h]
                 IN  IF ok.get /\ ok.save
                     THEN /\ store' = [store EXCEPT ![h] = after]
                          /\ IF ok.reload
                             THEN Propagate(h, SyncOf(NewId, h, m.dev, after[m.dev]),
                                            ZeroId, c1, net)
                             ELSE Stop(h, c1, net)
                     ELSE /\ Stop(h, c1, net)
                          /\ UNCHANGED store
           \/ /\ ~(ok.owner /\ IsOwner(h, m.dev))
              /\ Propagate(h, m, ZeroId, c1, net)
              /\ UNCHANGED store
    /\ UNCHANGED <<peers, tasks, requests, attached>>

\* EventSync: NewSaveDeviceUseCase.  The owner ignores it.  A host holding
\* a version at least as new answers with a fresh EventSync of its own
\* record; otherwise (newer, unknown device, or a failed version read) the
\* candidate is saved and the received message propagated.
ReceiveSync(h, pkt) ==
    /\ Unseen(h, pkt, "Sync")
    /\ LET m         == pkt.msg
           c1        == Hold(cache[h], m.id, m.sender)
           candidate == [state |-> m.state, version |-> m.version]
       IN  \E keep \in Redelivery, ok \in [owner : Outcome, version : Outcome,
                                          get : Outcome, save : Outcome] :
           LET net   == IF keep THEN network ELSE network \ {pkt}
               owner == ok.owner /\ IsOwner(h, m.dev)
               stale == ok.version /\ Holds(h, m.dev) /\ ~IsNewer(h, m.dev, m.version)
           IN
           \/ /\ owner
              /\ Stop(h, c1, net)
              /\ UNCHANGED store
           \/ /\ ~owner /\ stale
              /\ FreshIds # {}
              /\ IF ok.get
                 THEN Propagate(h, SyncOf(NewId, h, m.dev, store[h][m.dev]),
                                NewId, c1, net)
                 ELSE Stop(h, c1, net)
              /\ UNCHANGED store
           \/ /\ ~owner /\ ~stale
              /\ IF ok.save
                 THEN /\ store' = [store EXCEPT ![h] = (m.dev :> candidate) @@ @]
                      /\ Propagate(h, m, m.id, c1, net)
                 ELSE /\ Stop(h, c1, net)
                      /\ UNCHANGED store
    /\ UNCHANGED <<peers, tasks, requests, attached>>

-----------------------------------------------------------------------------
(* The environment.                                                        *)

\* One tick: every cache deadline comes one tick closer.
Tick ==
    /\ cache' = [h \in Host |-> Aged(cache[h])]
    /\ UNCHANGED <<store, peers, network, tasks, requests, attached>>

\* A datagram is lost.
Lose(pkt) ==
    /\ Lossy
    /\ pkt \in network
    /\ network' = network \ {pkt}
    /\ UNCHANGED <<store, peers, cache, tasks, requests, attached>>

ReceiveAny(h) ==
    \E pkt \in network : DropSeen(h, pkt) \/ ReceivePatch(h, pkt) \/ ReceiveSync(h, pkt)

Next ==
    \/ \E h \in Host, d \in Device, s \in DeviceState :
          CreateDevice(h, d, s) \/ PatchState(h, d, s)
    \/ \E h \in Host : \E t \in tasks[h] : PatchStateCommit(h, t)
    \/ \E h \in Host : ReceiveAny(h)
    \/ Tick
    \/ \E pkt \in network : Lose(pkt)

\* The receive goroutine keeps reading, an HTTP request runs to its end,
\* and time passes.
Fairness ==
    /\ \A h \in Host : WF_vars(ReceiveAny(h))
    /\ \A h \in Host : WF_vars(\E t \in tasks[h] : PatchStateCommit(h, t))
    /\ WF_vars(Tick)

Spec == Init /\ [][Next]_vars

FairSpec == Spec /\ Fairness

-----------------------------------------------------------------------------
(* Properties.                                                             *)

\* Every copy of device d the system holds: the records in the databases
\* and the EventSync datagrams in flight.
Copies(d) ==
    {store[h][d] : h \in {g \in Host : Holds(g, d)}}
    \cup {[state |-> p.msg.state, version |-> p.msg.version] :
            p \in {q \in network : q.msg.kind = "Sync" /\ q.msg.dev = d}}

\* A version names one state: no two copies of a device, in any database
\* or in flight, carry the same version with different states.  The
\* owner's read-modify-write (getDevice, saveData(version + 1)) and the
\* non-owners' accept-if-newer rule together are meant to guarantee it;
\* a lost update at the owner or a rollback of the owner's record breaks
\* it, and then non-owners can never tell the two states apart.
VersionDeterminesState ==
    \A d \in Device : \A c1, c2 \in Copies(d) :
        c1.version = c2.version => c1.state = c2.state

\* The owner's database holds the newest version of its device: only the
\* owner increments versions (SaveState, PatchState) and everyone else
\* only copies them.
OwnerHoldsNewest ==
    \A d \in Device : \A c \in Copies(d) :
        Holds(Owner[d], d) /\ c.version <= store[Owner[d]][d].version

\* A host's stored version of a device never decreases (spec section 8):
\* SaveDevice overwrites a record only with a strictly newer candidate.
VersionMonotonic ==
    [][\A h \in Host, d \in Device :
         Holds(h, d) /\ d \in DOMAIN store'[h] =>
            store'[h][d].version >= store[h][d].version]_store

\* Once requests stop, the gossip dies out: eventually no datagram is in
\* flight for good.
Quiescence == <>[](network = {})

\* Every host that holds a device eventually holds the owner's record of
\* it for good.
Convergence ==
    <>[](\A h \in Host, d \in Device :
            Holds(h, d) => Holds(Owner[d], d) /\ store[h][d] = store[Owner[d]][d])

=============================================================================
