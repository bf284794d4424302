# TLA+ models of fudpucker

fudpucker is a peer-to-peer device-state service. Every host has three parts:

- an HTTP API (`src/main/request`);
- a badger database of devices (`src/main/data/database.go`);
- a UDP gossip engine (`src/main/message`).

Each device has exactly one owner, the host that created it. Only the owner
changes the device's version:

- A PATCH at the owner saves `state` under `version + 1` and propagates an
  EventSync.
- A PATCH anywhere else propagates a CommandPatch, which is forwarded until it
  reaches the owner. The owner then does the same as above.
- A non-owner that receives an EventSync saves it if it is newer. Otherwise it
  answers with an EventSync of its own record.

Every datagram carries a random message id. A per-host MessageCache remembers,
for 10 s, which (message, peer) pairs were seen or sent. It serves two purposes:

- it drops duplicates at ingress;
- it keeps a message from being sent to a peer that is quarantined for it.

## Inventory

| Part | Source | Module | Status |
|---|---|---|---|
| MessageCache | data/messagecache.go | MessageCache (ticks), MessageCacheClock (absolute deadlines) | modelled |
| PeerCache | data/peercache.go | Gossip `AddPeerId`, `RemovePeerId`, `NoPeers`; Host | modelled; GetRandomPeers is never called |
| Safe random peer selection | data/usecases.go | Gossip `RandomSafePeers` | modelled |
| CreateDevice, CheckIfOwner, CheckIfNewer, PatchState | data/usecases.go, data/adapters.go | Gossip | modelled |
| Ingress dispatch, send handler | message/adapters.go | Gossip `Unseen`, `DropSeen`, `SendAll`; Host `HostReceive` | modelled; EventPeer is dispatched but never sent |
| SaveState (CommandPatch), SaveDevice (EventSync) | message/usecases.go | Gossip `ReceivePatch`, `ReceiveSync` | modelled |
| Hail, salute, farewell | message/usecases.go, lib.go | Host `Join`, `Leave`, `ReceiveHail`, `ReceiveFarewell` | modelled; SavePeer is unreachable |
| Database | data/database.go | Gossip `store`, `Outcome`; Host `DeleteDevice` | abstracted to a map per host |
| UDP server | message/updserver.go | Gossip `attached`, `network`; Host `Unreachable` | modelled |
| HTTP layer | request/ | Gossip, Host | state-changing handlers modelled; GET handlers and parsing not |
| Wire encoding | entity/id.go, entity/message.go, entity/utils/byteslice.go, message/adapters.go | WireCodec; MessageCacheClock `Receive` | modelled |
| Preferences | data/preferences.go | none | configuration I/O, not modelled |

## Modules

**MessageCache.tla.** A cache is a set of `[msg, peer, age]` entries, with at
most one entry per pair. Time runs in ticks, and an entry's deadline lies
`TTL - age` ticks ahead, so:

- `deadline.After(now)` holds exactly when `age < TTL`;
- an entry of age `TTL`, whose deadline is "now", is kept by `clearOutdated`
  and reported by `ContainsMessage`, but does not quarantine its peer.

`Aged` is one tick followed by `clearOutdated`. `Reset` is POST /shutdown's
`clear`.

**MessageCacheClock.tla** is the cache as the code keeps it: a map of
absolute deadlines `now + TTL`, cleared lazily at the start of each query.
Two goroutines drive it:

- `Receive(d)` is NewReceiveMessageHandler on the datagram `d`, a byte
  sequence. It reads the id and the kind (an error drops `d`), checks the
  cache, reads the sender (an error drops `d`, after the check has cleared
  expired entries), holds `(id, sender)`, and dispatches. A sync whose
  version field has 1 to 7 bytes panics in `BytesToInt64`: nothing recovers,
  so the process dies (`up` becomes FALSE and its cache is lost).
- `Dispatch` is the use case's part of the same step. A use case may send
  nothing, or start a send loop on the UDP goroutine:
  - SaluteOnHail sends a sync under a new id to the hailing peer;
  - SaveState sends the patch or the owner's new sync to peers chosen for
    ZeroId, which no entry holds;
  - SaveDevice sends the candidate to the peers that are safe for its id,
    or our newer state under a new id.

  So a UDP loop's message is either the id just held, whose other entries
  the check has just cleared, or a new id. The UDP goroutine reads no
  datagram until its loop ends.
- `SendStart` (PATCH /device), `Join` (POST /network) and `Leave` (DELETE
  /network) start a loop on the HTTP goroutine under a new random id, while
  the UDP goroutine goes on reading. A datagram with that id can arrive only
  after one of the loop's writes has succeeded (`Readable`, the `unsent`
  flag of the loop).
- `SendTo(g, p)` is one iteration of a loop: udpServer.Send checks the
  connection; with none the send fails and nothing is held. On the HTTP
  goroutine the write and `Hold(id, p)` follow in the same step. On the UDP
  goroutine the write is a step of its own, `SendWrite(p)`, which reads the
  connection again. Ticks may pass between the steps of a loop.
- `conn` is udpServer's connection field. `Join` opens it (Observe), then
  the hail loop runs. `Leave` runs the farewell loop, then `Stop` closes the
  connection and sets the field to nil. Stop runs on the HTTP goroutine. If
  it falls between a UDP-goroutine send's nil check and its WriteTo, WriteTo
  is called on a nil interface, and the panic ends the process (`SendWrite`
  takes `Crash`). The `leave_race` run shows it.
- `MapRace(d)`: the cache is a plain Go map. A datagram handled while an
  HTTP send loop runs is a data race. The runtime may detect it and answer
  by aborting the process (`Crash`). Its detection is best-effort, so the
  constant `MapRaceFatal` says whether it fires. It is TRUE in
  `cache_ticks` and FALSE in the two violation runs, so that their traces
  show the crash they are about.

`Reset`, `Restart` (a new process after a crash) and `Advance` complete it.
The history variable `received` (the tick each id was last held at
ingress) serves `IngressDedup` only. `AgeView` maps it to the tick abstraction
**TimedCache.tla**, a spec whose steps are `HoldAll`, `Aged` and `Reset`.

**WireCodec.tla** is the datagram format: `id · kind · sender · payload ·
signature`, with the payload providers and readers of every message kind.
A `bytes.Buffer` is the sequence of bytes it has left; a read returns a
value, an error, or a panic. `BytesToInt64` is `binary.BigEndian.Uint64`
behind a zero-length check, so 1 to 7 bytes panic. The round-trip laws of
spec section 8 are the operator `RoundTrip`. MCMessageCacheClock states it as
an `ASSUME`, which TLC evaluates before every cache run over sample ids,
versions (0, 1, 258, 2^31-1) and addresses.

**Gossip.tla.** Its variables:

| Variable | Holds |
|---|---|
| `store[h]` | device → `[state, version]` in h's database |
| `peers[h]` | h's peer cache |
| `cache[h]` | h's MessageCache |
| `network` | the datagrams in flight, `[to, from, msg]`; a set, so delivery is unordered |
| `tasks[h]` | owner-local PATCH requests that have read the device and not yet saved |
| `requests` | PATCH requests so far, bounded by `MaxRequests` |
| `attached[h]` | h's UDP connection is open: it reads, and its sends succeed |

Each action models one whole handler:

- **`PatchState`** is PATCH up to its first database read. At a non-owner,
  or when the owner check fails, it creates and propagates the CommandPatch in
  the same step.
- **`PatchStateCommit`** is the rest of the owner branch: saveData(read+1),
  the reload, and the propagated EventSync. The split exists because the HTTP
  goroutine and the UDP goroutine interleave at these database calls.
- **`ReceivePatch`** is the ingress Hold followed by SaveState.
- **`ReceiveSync`** is the ingress Hold followed by SaveDevice. Its three
  disjuncts are the owner stop, the "ours is at least as new" answer, and
  saving the candidate.
- **`DropSeen`** is the quarantine check that drops a datagram.
- **`CreateDevice`** is POST /device.
- **`Tick`** and **`Lose`** are the environment.

A detached host sends nothing (udpServer.Send fails on a closed connection,
and the send handler then skips its Hold) and reads nothing.

**Host.tla** extends Gossip with the rest of a host's life:

- **`Join`** is POST /network: Observe, whose ErrAlreadyObserving is ignored,
  then a Hail and an EventSync of every stored device to a safe peer set.
- **`Leave`** is DELETE /network: a Farewell to every safe peer, then Stop.
- **`AddPeer`** is POST /peer.
- **`Restart`** is POST /shutdown followed by a new process. Both caches are
  cleared, the host is detached, and its database is kept. The HTTP server
  drains its requests first, so no PATCH is in flight.
- **`DeleteDevice`** is DELETE /device as the code has it: the owner gets 403
  and any other holder deletes its record.
- **`ReceiveHail`** (SaluteOnHail) adds the sender as a peer and sends it an
  EventSync of every stored device.
- **`ReceiveFarewell`** (DeletePeer) removes the sender.
- **`Unreachable`** drops a datagram sent to a detached host.

`events` bounds these requests by `MaxEvents`. Two history variables follow
every step through `Track`:

- `highest[h][d]` is the highest version h ever stored;
- `log[d]` is the list of states the owner stored under versions 0, 1, 2, ...

`HostNext` lists every handler as its own disjunct.

**DeviceRegister.tla** is the abstract promise. The owner writes versions
0, 1, 2, ... of its device (`Create`, `Write`). Every other host holds some
version the owner wrote, with its state, and only moves to a strictly newer
one (`Adopt`). Host maps to it with `view <- store`, using `log`, and
`RegisterRefinement` states that Host implements it.

Failures and ids are modelled as follows:

- Every database call may fail when `StoreFaults` holds. It draws from
  `Outcome`, because each call opens badger and concurrent opens fail.
- With `Duplicating`, a handled datagram may stay in flight and be delivered
  again.
- Message ids come from the small set `MsgId`. A fresh id is one that no cache
  and no datagram holds, which reproduces random 128-bit ids for as long as
  they can matter.

**MCGossip.tla**, **MCHost.tla** and **MCMessageCacheClock.tla** instantiate
the modules. MCGossip and MCHost use:

- hosts `a, b (, c)`, where `a` owns the single device `d1`;
- message ids `m1..m4`, with `ZeroId` a separate model value;
- the initial stores: d1 at version 0 on every host, as after POST /device and
  the hail syncs, or an empty store.

The symmetry of `b` and `c` is used only in the safety runs. MCMessageCacheClock
uses `IdLen = 2`, messages `M1, M2` and peers `A, B` as byte ids, and as
datagrams every prefix of three frames (a sync M1 from A with version 258, a
patch M2 from B, a hail M2 from A) plus the sync with a byte changed. The
prefixes are every way a datagram can be cut short.

## Properties

Version properties (Gossip):

- **`VersionDeterminesState`**: no two copies of a device carry the same
  version with different states. The copies counted are the stored records and
  the EventSyncs in flight.
- **`OwnerHoldsNewest`**: no copy is newer than the owner's record.
- **`VersionMonotonic`** (action property): a host's stored version never
  decreases.

Refinement (Host):

- **`RegisterRefinement`**: Host implements DeviceRegister. It is stronger
  than the three above for stored records: a non-owner may only adopt a
  version the owner actually wrote, with that version's state. It is checked
  in `remote` and `dup`, which have no DELETE. A DELETE at a non-owner drops
  a record, and the register has no such step; `delete` shows where that
  leads.

Liveness:

- **`Convergence`**: every holder eventually keeps the owner's record for good.
- **`Quiescence`**: eventually no datagram is in flight for good.
- **`AttachedConvergence`**: two attached hosts that hold a device eventually
  agree with the owner, across leaves and joins.

Other Gossip and Host properties:

- **`NoRegression`**: a host never stores an older version than one it stored
  before, even after deleting its record.

Cache properties (MessageCacheClock):

- **`QueriesAgree`**: the absolute deadlines answer both queries as the tick
  ages do, including deadline == now.
- **`TickRefinement`**: the lazy, absolute-time cache implements TimedCache.
- **`IngressDedup`** (spec section 8): an id held at ingress is reported seen
  by every later datagram up to and including its deadline. This holds
  across lazy clearing, concurrent send loops and time passing, until the
  cache is reset or lost.
- **`ReceiveLoopAlive`**: the process stays up. By spec sections 7 and 8 a
  malformed datagram is dropped, never fatal. By the spec's stop() and
  Cancellation text, a send still under way when the socket closes
  completes or errors.

## Runs

| Run | Module | Setup | Expect | Shows |
|---|---|---|---|---|
| remote | MCHost | 3 hosts; PATCH at b, c; lossy | pass | Owner writes happen only on the UDP goroutine; versions are unique, owner-led and monotonic, and Host refines the register. |
| dup | MCHost | 2 hosts; empty start; lossy and duplicating; TTL 2 | pass | Patches before the device exists, and redelivery after cache expiry, break neither the version properties nor the refinement. |
| membership | MCHost | 2 hosts; PATCH at owner a; b leaves, joins, restarts, re-adds peers; deletes at both; duplicating | pass | Owner-local read/save, split into two steps, is safe when it is the only writer, across membership changes and a restart whose empty cache re-applies redelivered datagrams. |
| pair | MCHost | 2 hosts; reliable; HostFairSpec | pass | `Convergence`. |
| cache_ticks | MCMessageCacheClock | TTL 2, 4 ticks; all datagram prefixes; send loops on two goroutines | pass | The tick-age MessageCache that the other modules use is a faithful abstraction of the code's deadlines. Ingress reads real datagrams, truncated ones and the panic included, and per-peer send steps interleave with receives and ticks. An id held at ingress stays seen for TTL. |
| lost_update | MCGossip | 2 hosts; PATCH at a and b | violation of `VersionDeterminesState` | The owner's HTTP PATCH and its UDP SaveState interleave, and two states are saved as version 1. |
| rollback | MCGossip | 2 hosts; database faults | violation of `VersionMonotonic` | A failed version read in SaveDevice saves an older EventSync over a newer record. |
| storm | MCGossip | 3 hosts; PATCH at a; FairSpec | violation of `Quiescence` | Non-owners with equal versions answer each other with fresh EventSyncs forever. |
| delete | MCHost | 2 hosts; DELETE at b | violation of `NoRegression` | DeleteDevice's inverted ownership test lets b delete its copy, and an older EventSync in flight re-creates an older version. |
| rejoin | MCHost | 2 hosts; b leaves and joins; HostFairSpec | violation of `AttachedConvergence` | b's Farewell arrives after its new Hail, a drops b for good, and b keeps a stale version while both are attached. |
| ingress_panic | MCMessageCacheClock | as cache_ticks, 3 ticks; `MapRaceFatal = FALSE` | violation of `ReceiveLoopAlive` | An EventSync cut off inside its version field makes BytesToInt64 panic, and the host process dies: Join, then the datagram. |
| leave_race | MCMessageCacheClock | whole hails only, 3 ticks; `MapRaceFatal = FALSE` | violation of `ReceiveLoopAlive` | No datagram can panic here, yet the process dies: Join, Leave's farewell loop, a hail starting SaluteOnHail's send, its nil check, Stop, then WriteTo on nil. |

The findings in PROJECT.json give the code lines behind the seven violations.
Each property of a passing run has a mutant in PROJECT.json: a plausible bug
in a mapped definition that TLC shows breaks it.

## Bounds

Common bounds:

- `DeviceState = {0, 1}`.
- `MaxVersion = 3`.
- `MaxRequests` is 2 or 3. This allows two successive versions, a stale copy
  in flight, and two concurrent writers.
- `MaxTasks = 1`: one HTTP request at a time per host. Two PATCHes at one
  owner are the same race as `lost_update`.
- `RandomPeerCount` is 1 or 2 (5 in the code). With 3 hosts, 2 already means
  "every safe peer".

TTL bounds:

- `TTL = 1` in most runs. This is enough for entries to reach the boundary
  age and expire.
- `TTL = 2` in `dup` and `cache_ticks`. A redelivered datagram can then
  arrive both inside and after the quarantine window, and a deadline takes
  every position relative to now. In `cache_ticks`, `MaxTime = 4` lets
  an entry held at tick 0 or 1 reach its deadline, expire, and be held
  again. The violation runs need 3 ticks or fewer.
- `cache_ticks` counts states through the view `MCView`, which counts a
  receipt older than TTL as none. No step reads receipts, and
  `IngressDedup` looks at a receipt only while it is at most TTL old, so
  the view loses no behaviour.

Id pools:

- 3 ids are enough for the safety runs.
- `pair` needs 4 ids. With 3, three patches in flight leave the owner without
  a fresh id for its EventSync, an artefact of the finite pool.

Membership bounds:

- `MaxEvents = 2` in `membership`. That allows a leave then a join, a double
  join, a restart then a join, or a delete after a join.
- `membership` duplicates datagrams but does not lose them, since `remote`
  and `dup` cover loss. A restarted host with an empty cache then sees
  redelivered datagrams as new.
- Owner restarts combined with duplication and an empty start exceed the run
  time. The restart of the non-owner in `membership` is the one checked.

## Fairness

`FairSpec` (Gossip) and `HostFairSpec` (Host) assume weak fairness for three
things:

- Each host's receive action, Hail and Farewell included. `readBlocking`
  loops forever on its own goroutine while the connection is open.
- Each started PATCH commit. An HTTP handler runs to its end.
- `Tick`. Time passes.

No fairness is assumed for new requests, membership requests, loss or
redelivery. Symmetry is
never combined with liveness.

## Not modelled

- **HTTP argument parsing, JSON rendering and preferences.**
  These are I/O and formatting. The GET handlers only read.
- **Wire decoding in Gossip and Host.** Their datagrams are records; the byte
  level is WireCodec and MessageCacheClock's `Receive`, which shows that
  well-formed frames read back as sent (`RoundTrip`).
- **An unknown message kind.** The ingress handler holds `(id, sender)`
  before it dispatches, so an unknown kind, or a payload that fails to read,
  still quarantines the id, where spec section 8 says the cache stays
  unchanged. `Receive` models this; no run asks about it because a peer that
  sends a malformed message cannot use the id anyway.
- **A CommandPatch returning to its creator.** It is forwarded with the
  quarantine key ZeroId (`message/usecases.go:84`), so it can go back to the
  host that made it, which drops it at ingress. The cost is wasted datagrams.
- **GetRandomPeers.** It leaves nil entries when there are fewer peers than
  asked for, but nothing calls it; RandomSafePeers is used instead.
- **The data race in Gossip and Host.** MessageCacheClock models the race
  on the message cache between the UDP goroutine and one HTTP send loop.
  Gossip and Host take each handler's cache and peer-cache calls as atomic.
  Two HTTP loops racing each other, and POST /shutdown's `clear` racing a
  loop, end the same way (the process aborts). They are not separate
  actions.
- **Time passing inside the receive handler.** Receive's check, Hold and
  the use case's choice of peers run in one tick. When the check finds the
  id unseen, the id has no entry left, so Hold makes a fresh deadline
  whenever it runs. Ticks do pass between the sends of a loop.
- **A suppression property.** A loop's message is the id just held or a new
  id, so a peer is never chosen while its deadline equals now. The one gap
  the deadlines leave is SaveState's ZeroId forward back to the sender: its
  Hold keeps the ingress deadline, so the sender's quarantine runs from the
  ingress, not from the send. That matters only if a tick passes between the
  two, and no second send to that peer follows from it.
- **Send failures that skip the send-side Hold,** other than on a closed
  connection. Loss after the send covers the same datagram never arriving.
- **Observe failing to open the socket.** The join handler ignores the error
  and hails anyway; the hail's sends then fail, which is the detached `Join`
  with no effect.
- **Convergence under database faults.** A failed reload after a save
  (`message/usecases.go:77`) leaves other hosts behind until the next write.
  The code has no retry, so a fault run of `Convergence` would only restate
  that.
- **SavePeer (EventPeer).** Its creation is commented out, so no host ever
  sends one.
