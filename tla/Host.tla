-------------------------------- MODULE Host --------------------------------
(***************************************************************************)
(* A host's life in the network, added to the gossip engine of Gossip:    *)
(*                                                                         *)
(*   Join             POST /network     lib.go, SendHailCommandUseCase     *)
(*   Leave            DELETE /network   lib.go, SendFarewellEventUseCase   *)
(*   AddPeer          POST /peer        peerCache.AddPeer                  *)
(*   Restart          POST /shutdown, then the process started again       *)
(*   DeleteDevice     DELETE /device    request DeleteDeviceUseCase        *)
(*   ReceiveHail      CommandHail ingress      SaluteOnHailUseCase         *)
(*   ReceiveFarewell  EventFarewell ingress    DeletePeerUseCase           *)
(*   Unreachable      a datagram reaching a closed port                    *)
(*                                                                         *)
(* highest and log are history variables: the highest version each host   *)
(* has ever stored for each device, and the states the owner stored under *)
(* versions 0, 1, 2, ...  log is what the refinement mapping to            *)
(* DeviceRegister needs.                                                   *)
(***************************************************************************)
EXTENDS Gossip, Sequences
LOCAL INSTANCE Functions

CONSTANTS
    Movers,      \* hosts that receive POST and DELETE /network
    CanRestart,  \* may a mover be shut down and started again?
    Deleters,    \* hosts that receive DELETE /device
    MaxEvents    \* bound: membership and delete requests in a behaviour

ASSUME /\ Movers \subseteq Host /\ Deleters \subseteq Host
       /\ CanRestart \in BOOLEAN /\ MaxEvents \in Nat

VARIABLES
    events,   \* membership and delete requests so far
    highest,  \* highest[h][d]: highest version h ever stored for d, or -1
    log       \* log[d]: the states the owner stored, in version order

hostVars == <<events, highest, log>>
allVars  == <<vars, hostVars>>

\* unit.MaxInt as a peerCount argument: every safe peer.
MaxIntArg == Cardinality(Host)

\* The devices whose EventSync a hail or salute builds: getDeviceIds, and
\* getDevice for each id; a failed call drops the ids it was for.
SyncedDevices(h) ==
    IF StoreFaults THEN SUBSET DOMAIN store[h] ELSE {DOMAIN store[h]}

HighestOf(h, d, st) == IF d \in DOMAIN st[h] THEN st[h][d].version ELSE -1

-----------------------------------------------------------------------------
(* HTTP handlers.                                                          *)

\* POST /network: udp.Observe (ErrAlreadyObserving is ignored, so a second
\* join just hails again), then sendHail: a fresh CommandHail to a random
\* safe peer set and, to each of those peers, an EventSync with a fresh id
\* of every stored device.
Join(h) ==
    /\ h \in Movers /\ events < MaxEvents
    /\ FreshIds # {}
    /\ \E D \in SyncedDevices(h) :
       \E ids \in Injection(D, FreshIds \ {NewId}),
          P \in RandomSafePeers(h, cache[h], NewId, MinIntArg) :
          LET msgs == {[id |-> NewId, kind |-> "Hail", sender |-> h]}
                      \cup {SyncOf(ids[d], h, d, store[h][d]) : d \in D}
          IN  /\ network' = network \cup
                              {[to |-> p, from |-> h, msg |-> m] : p \in P, m \in msgs}
              /\ cache' = [cache EXCEPT ![h] = HoldPairs(@, {m.id : m \in msgs}, P)]
    /\ attached' = [attached EXCEPT ![h] = TRUE]
    /\ events' = events + 1
    /\ UNCHANGED <<store, peers, tasks, requests>>

\* DELETE /network: sendFarewell to every peer (peerCount unit.MaxInt),
\* then udp.Stop.  A detached host's sends fail.
Leave(h) ==
    /\ h \in Movers /\ events < MaxEvents
    /\ FreshIds # {}
    /\ \E P \in RandomSafePeers(h, cache[h], NewId, MaxIntArg) :
          SendAll(h, [id |-> NewId, kind |-> "Farewell", sender |-> h], P,
                  cache[h], network)
    /\ attached' = [attached EXCEPT ![h] = FALSE]
    /\ events' = events + 1
    /\ UNCHANGED <<store, peers, tasks, requests>>

\* POST /peer with the id and address of host p.
AddPeer(h, p) ==
    /\ h \in Movers /\ events < MaxEvents
    /\ p # h
    /\ peers' = [peers EXCEPT ![h] = AddPeerId(@, p)]
    /\ events' = events + 1
    /\ UNCHANGED <<store, cache, network, tasks, requests, attached>>

\* POST /shutdown clears the peer and message caches and cancels the main
\* context; the HTTP server drains its requests and the deferred udp.Stop
\* closes the connection.  The process started again has empty caches, is
\* detached, and finds its database as it was.
Restart(h) ==
    /\ h \in Movers /\ CanRestart /\ events < MaxEvents
    /\ tasks[h] = {}
    /\ peers' = [peers EXCEPT ![h] = NoPeers]
    /\ cache' = [cache EXCEPT ![h] = Reset(@)]
    /\ attached' = [attached EXCEPT ![h] = FALSE]
    /\ events' = events + 1
    /\ UNCHANGED <<store, network, tasks, requests>>

\* Mutant: the ownership check is dropped and the owner deletes too.
DeleteDeviceUnchecked(h, d) ==
    /\ h \in Deleters /\ events < MaxEvents
    /\ Holds(h, d)
    /\ store' = [store EXCEPT ![h] = [e \in DOMAIN @ \ {d} |-> @[e]]]
    /\ events' = events + 1
    /\ UNCHANGED <<peers, cache, network, tasks, requests, attached>>

\* DELETE /device/{d}: NewDeleteDeviceUseCase.  A failed ownership check
\* (no record) answers 404 and an owner gets 403; any other host deletes
\* its record (database.Delete may fail).
DeleteDevice(h, d) ==
    /\ h \in Deleters /\ events < MaxEvents
    /\ \E ownerRead, deleted \in Outcome :
          /\ ownerRead /\ Holds(h, d) /\ ~IsOwner(h, d) /\ deleted
          /\ store' = [store EXCEPT ![h] = [e \in DOMAIN @ \ {d} |-> @[e]]]
    /\ events' = events + 1
    /\ UNCHANGED <<peers, cache, network, tasks, requests, attached>>

-----------------------------------------------------------------------------
(* UDP ingress.                                                            *)

\* CommandHail: NewSaluteOnHailUseCase.  Remember the sender as a peer and
\* send it an EventSync with a fresh id of every stored device.
ReceiveHail(h, pkt) ==
    /\ Unseen(h, pkt, "Hail")
    /\ LET s  == pkt.msg.sender
           c1 == Hold(cache[h], pkt.msg.id, s)
       IN  \E keep \in Redelivery, D \in SyncedDevices(h) :
           \E ids \in Injection(D, FreshIds) :
              LET msgs == {SyncOf(ids[d], h, d, store[h][d]) : d \in D}
                  net  == IF keep THEN network ELSE network \ {pkt}
              IN  /\ network' = net \cup {[to |-> s, from |-> h, msg |-> m] : m \in msgs}
                  /\ cache' = [cache EXCEPT ![h] = HoldPairs(c1, {m.id : m \in msgs}, {s})]
                  /\ peers' = [peers EXCEPT ![h] = AddPeerId(@, s)]
    /\ UNCHANGED <<store, tasks, requests, attached, events>>

\* EventFarewell: NewDeletePeerUseCase removes the sender.
ReceiveFarewell(h, pkt) ==
    /\ Unseen(h, pkt, "Farewell")
    /\ \E keep \in Redelivery :
          /\ network' = IF keep THEN network ELSE network \ {pkt}
          /\ cache' = [cache EXCEPT ![h] = Hold(@, pkt.msg.id, pkt.msg.sender)]
    /\ peers' = [peers EXCEPT ![h] = RemovePeerId(@, pkt.msg.sender)]
    /\ UNCHANGED <<store, tasks, requests, attached, events>>

\* A datagram sent to a host whose connection is closed is discarded.
Unreachable(pkt) ==
    /\ pkt \in network
    /\ ~attached[pkt.to]
    /\ network' = network \ {pkt}
    /\ UNCHANGED <<store, peers, cache, tasks, requests, attached, events>>

-----------------------------------------------------------------------------
(* The history variables and the host.                                     *)

\* The owner's record of d is at version v in the databases st.
OwnerAt(st, d, v) ==
    d \in DOMAIN st[Owner[d]] /\ st[Owner[d]][d].version = v

HostInit ==
    /\ Init
    /\ events = 0
    /\ highest = [h \in Host |-> [d \in Device |-> HighestOf(h, d, store)]]
    /\ log = [d \in Device |-> IF Holds(Owner[d], d)
                               THEN <<store[Owner[d]][d].state>> ELSE <<>>]

\* Every step: highest follows the new databases, and a step that stores
\* the owner's next version appends its state to log.
Track ==
    /\ highest' = [h \in Host |-> [d \in Device |->
                     IF HighestOf(h, d, store') > highest[h][d]
                     THEN HighestOf(h, d, store') ELSE highest[h][d]]]
    /\ log' = [d \in Device |-> IF OwnerAt(store', d, Len(log[d]))
                                THEN Append(log[d], store'[Owner[d]][d].state)
                                ELSE log[d]]

\* A step of the gossip engine of Gossip, which makes no membership or
\* delete request.
Engine == UNCHANGED events /\ Track

HostReceive(h) ==
    \E pkt \in network :
        \/ DropSeen(h, pkt) /\ Engine
        \/ ReceivePatch(h, pkt) /\ Engine
        \/ ReceiveSync(h, pkt) /\ Engine
        \/ ReceiveHail(h, pkt) /\ Track
        \/ ReceiveFarewell(h, pkt) /\ Track

\* Every handler the controller registers, and the environment.
HostNext ==
    \/ \E h \in Host, d \in Device, s \in DeviceState : CreateDevice(h, d, s) /\ Engine
    \/ \E h \in Host, d \in Device, s \in DeviceState : PatchState(h, d, s) /\ Engine
    \/ \E h \in Host : \E t \in tasks[h] : PatchStateCommit(h, t) /\ Engine
    \/ \E h \in Host : HostReceive(h)
    \/ \E h \in Host : Join(h) /\ Track
    \/ \E h \in Host : Leave(h) /\ Track
    \/ \E h \in Host : Restart(h) /\ Track
    \/ \E h, p \in Host : AddPeer(h, p) /\ Track
    \/ \E h \in Host, d \in Device : DeleteDevice(h, d) /\ Track
    \/ \E pkt \in network : Unreachable(pkt) /\ Track
    \/ Tick /\ Engine
    \/ \E pkt \in network : Lose(pkt) /\ Engine

HostSpec == HostInit /\ [][HostNext]_allVars

\* The receive goroutine keeps reading, an HTTP request runs to its end,
\* and time passes.
HostFairness ==
    /\ \A h \in Host : WF_allVars(HostReceive(h))
    /\ \A h \in Host : WF_allVars(\E t \in tasks[h] : PatchStateCommit(h, t) /\ Engine)
    /\ WF_allVars(Tick /\ Engine)

HostFairSpec == HostSpec /\ HostFairness

Register == INSTANCE DeviceRegister WITH view <- store

-----------------------------------------------------------------------------
(* Properties.                                                             *)

HostTypeOK ==
    /\ TypeOK
    /\ events \in 0..MaxEvents
    /\ highest \in [Host -> [Device -> -1..MaxVersion]]
    /\ log \in [Device -> Seq(DeviceState)]

\* A host never goes back to an older version of a device than one it has
\* stored before, even across a deletion of its record (spec section 8:
\* the stored version of a host that has seen an EventSync for the device
\* never decreases).  SaveDevice accepts any version for a device it does
\* not hold, so this rests on only the owner deleting records.
NoRegression ==
    \A h \in Host, d \in Device :
        Holds(h, d) => store[h][d].version >= highest[h][d]

\* Two attached hosts holding a device end up with the owner's record:
\* every change the owner makes while a holder is away reaches it through
\* the hail it sends, and the salute it receives, when it joins again.
AttachedConvergence ==
    <>[](\A h \in Host, d \in Device :
            attached[h] /\ attached[Owner[d]] /\ Holds(h, d) =>
               Holds(Owner[d], d) /\ store[h][d] = store[Owner[d]][d])

\* The hosts implement the register: every database change is the owner
\* writing the next version, or a non-owner adopting a version the owner
\* wrote, with its state, strictly newer than what it held (SaveState and
\* PatchState at the owner; SaveDevice's accept-if-newer elsewhere).
RegisterRefinement == Register!Spec

=============================================================================
