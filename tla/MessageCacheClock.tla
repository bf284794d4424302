-------------------------- MODULE MessageCacheClock --------------------------
(***************************************************************************)
(* src/main/data/messagecache.go in absolute time.  entries is the code's *)
(* map[messageId]entry{receivers: map[peerId]deadline}, a deadline being   *)
(* the tick now + TTL at which the Hold happened.  clearOutdated runs      *)
(* lazily, at the start of each Contains* call, so expired deadlines stay  *)
(* in the map until the next query.                                        *)
(*                                                                         *)
(* The cache is driven by two goroutines. Receive is the UDP goroutine's   *)
(* NewReceiveMessageHandler on a datagram of the set Datagram, read as     *)
(* WireCodec reads it: isMessageInQuarantine, and unless it holds,         *)
(* putMessageInQuarantine(id, sender), the use case's first read of the    *)
(* payload, and its RandomSafePeersForMessage, in one step (Dispatch). The *)
(* send loop that follows runs on the UDP goroutine, which reads no        *)
(* datagram until it ends. SendStart, Join and Leave start a send loop on  *)
(* an HTTP goroutine (PATCH /device, the hail, the farewell), under a new  *)
(* random id, while the UDP goroutine goes on reading. SendTo is one       *)
(* iteration of a loop: udpServer.Send's check of s.connection, and on the *)
(* HTTP goroutine the write and the send handler's Hold(id, peer); on the  *)
(* UDP goroutine the write, which reads s.connection again, is a step of   *)
(* its own, SendWrite. Time may pass between the steps of a loop. Stop is  *)
(* udpServer.Stop at the end of DELETE /network. The map is a plain Go     *)
(* map: a datagram handled while an HTTP send loop runs may meet one of    *)
(* its calls inside the map, and the runtime may then abort the process    *)
(* (MapRace). Reset is POST /shutdown, Restart a new process after the old *)
(* one died; up is FALSE while it is dead.                                 *)
(*                                                                         *)
(* sending[g] is goroutine g's send loop in progress: its message, the     *)
(* peers it has still to check (todo) or to write to (writing), and        *)
(* whether its id is new and has not yet left the process (unsent). conn   *)
(* is s.connection being set, leaving a DELETE /network whose Stop is      *)
(* still to come. received is a history variable: the tick at which each   *)
(* message id was last held at ingress, or -TTL - 1 for none.              *)
(***************************************************************************)
EXTENDS Integers, TLC, WireCodec

CONSTANTS
    Msg,      \* message ids
    Peer,     \* peer ids
    TTL,      \* timeToLive, in ticks
    MaxTime,  \* bound: the last tick
    Datagram, \* the datagrams that may arrive
    MapRaceFatal  \* the runtime's best-effort check of concurrent map
                  \* writes fires (TRUE) or is never met (FALSE)

ASSUME TTL \in Nat \ {0} /\ MaxTime \in Nat /\ MapRaceFatal \in BOOLEAN

VARIABLES now, entries, received, up, sending, conn, leaving

vars == <<now, entries, received, up, sending, conn, leaving>>

NoEntries == [m \in {} |-> {}]

\* deadline.Before(now) and deadline.After(now).
Before(dl) == dl < now
After(dl)  == dl > now

\* Mutant: clearOutdated deletes a deadline that is not after now.
ClearOutdatedAtDeadline(e) ==
    LET live(m) == {p \in DOMAIN e[m] : After(e[m][p])}
    IN  [m \in {x \in DOMAIN e : live(x) # {}} |-> [p \in live(m) |-> e[m][p]]]

\* clearOutdated: drop every deadline before now, then every message left
\* without receivers.
ClearOutdated(e) ==
    LET live(m) == {p \in DOMAIN e[m] : ~Before(e[m][p])}
    IN  [m \in {x \in DOMAIN e : live(x) # {}} |-> [p \in live(m) |-> e[m][p]]]

\* Mutant: a peer is quarantined until its deadline has passed.
ContainsMessageForPeerNotBefore(e, m, p) ==
    m \in DOMAIN e /\ p \in DOMAIN e[m] /\ ~Before(e[m][p])

\* ContainsMessageForPeer, on the map clearOutdated left.
ContainsMessageForPeer(e, m, p) ==
    m \in DOMAIN e /\ p \in DOMAIN e[m] /\ After(e[m][p])

\* ContainsMessage, on the map clearOutdated left.
ContainsMessage(e, m) == m \in DOMAIN e

\* Mutant: a deadline one tick later than now + timeToLive.
HoldAllLateDeadline(e, m, P) ==
    LET old == IF m \in DOMAIN e THEN e[m] ELSE NoEntries
    IN  IF P = {} THEN e
        ELSE (m :> (old @@ [p \in P |-> now + TTL + 1])) @@ e

\* Hold(m, p) for every p of P: a new message gets a receivers map, a new
\* peer a deadline now + TTL; a deadline already present, expired or not,
\* is kept.
HoldAll(e, m, P) ==
    LET old == IF m \in DOMAIN e THEN e[m] ELSE NoEntries
    IN  IF P = {} THEN e
        ELSE (m :> (old @@ [p \in P |-> now + TTL])) @@ e

NoReceipts == [m \in Msg |-> -TTL - 1]

NotSending == [msg |-> <<>>, todo |-> {}, writing |-> {}, unsent |-> FALSE]

Goroutine == {"udp", "http"}

Init ==
    /\ now = 0
    /\ entries = NoEntries
    /\ received = NoReceipts
    /\ up = TRUE
    /\ sending = [g \in Goroutine |-> NotSending]
    /\ conn = FALSE
    /\ leaving = FALSE

\* The process dies: its cache, its history and its send loop are gone.
Crash ==
    /\ entries' = NoEntries
    /\ received' = NoReceipts
    /\ sending' = [g \in Goroutine |-> NotSending]
    /\ up' = FALSE
    /\ conn' = FALSE
    /\ leaving' = FALSE
    /\ UNCHANGED now

\* The use case the handler dispatches d to panics on its payload: only
\* SaveDevice's NewSyncMessageReader can, on 1 to 7 version bytes.
Panics(d) ==
    /\ IsOk(ReadType(d))
    /\ ReadType(d).val = MessageTypeEventSync
    /\ ReadSync(Payload(d)).res = "panic"

\* RandomSafePeersForMessage(q) on map e: isPeerInQuarantine(q, p) of
\* every peer, P the safe peers it returns, then goroutine g's loop that
\* sends m to each of them.  fresh: m has a new id that no write has
\* carried out of the process yet.
StartLoop(g, m, q, fresh, P, e) ==
    /\ \A p \in P : ~ContainsMessageForPeer(e, q, p)
    /\ sending' = [sending EXCEPT ![g] =
                     IF P = {} THEN NotSending
                     ELSE [msg |-> m, todo |-> P, writing |-> {}, unsent |-> fresh]]

\* NewRandomId: an id that no entry of map e holds and no loop sends.
FreshId(e, m) == ~ContainsMessage(e, m) /\ \A g \in Goroutine : sending[g].msg # m

\* The use case a held message of kind k is dispatched to, with map h
\* after the Hold, and the send loop it starts on the UDP goroutine:
\*   CommandHail   SaluteOnHail: a sync under a new id to the sender s
\*   CommandPatch  SaveState: the patch, or the owner's sync under a new
\*                 id, to peers chosen for ZeroId, which no entry holds
\*   EventSync     SaveDevice: the candidate to the peers safe for its
\*                 id, or our newer state under a new id
\* An error, the owner's early return, or no peer chosen sends nothing.
Dispatch(k, id, s, h) ==
    \/ UNCHANGED sending
    \/ \E P \in SUBSET Peer :
          \/ k = MessageTypeCommandPatch /\ StartLoop("udp", id, ZeroId, FALSE, P, h)
          \/ k = MessageTypeEventSync /\ StartLoop("udp", id, id, FALSE, P, h)
          \/ \E m \in Msg :
                /\ FreshId(h, m)
                /\ \/ k = MessageTypeCommandHail /\ P \subseteq {s}
                   \/ k \in {MessageTypeCommandPatch, MessageTypeEventSync}
                /\ StartLoop("udp", m, m, TRUE, P, h)

\* d can reach the handler's cache calls: its id and type byte read, and
\* it is not the new id of an HTTP loop none of whose writes succeeded.
Readable(d) ==
    /\ IsOk(ReadId(d)) /\ IsOk(ReadType(d))
    /\ ~(sending["http"].unsent /\ sending["http"].msg = ReadId(d).val)

\* Datagram d reaches the ingress handler.  One whose id or type byte
\* cannot be read is dropped before the cache is asked, a step that
\* changes nothing.  Otherwise the quarantine check clears the cache; a
\* seen id, or an unreadable sender, ends the handler there.  Else the
\* pair is held and the message dispatched, every kind, the unknown
\* ones included, after the Hold.  A panic on the UDP goroutine ends
\* the process: its cache and history are gone.  The new id of an HTTP
\* loop's message can arrive only after one of its writes succeeded.
Receive(d) ==
    LET id     == ReadId(d).val
        sender == ReadSender(d)
        e      == ClearOutdated(entries)
        h      == HoldAll(e, id, {sender.val})
    IN  /\ up /\ conn
        /\ sending["udp"] = NotSending
        /\ Readable(d)
        /\ \/ /\ ContainsMessage(e, id) \/ ~IsOk(sender)
              /\ entries' = e
              /\ UNCHANGED <<now, received, up, sending, conn, leaving>>
           \/ /\ ~ContainsMessage(e, id) /\ IsOk(sender) /\ ~Panics(d)
              /\ entries' = h
              /\ received' = [received EXCEPT ![id] = now]
              /\ Dispatch(ReadType(d).val, id, sender.val, h)
              /\ UNCHANGED <<now, up, conn, leaving>>
           \/ /\ ~ContainsMessage(e, id) /\ IsOk(sender) /\ Panics(d)
              /\ Crash

\* The HTTP goroutine is free: no send loop, and no Stop still to come.
HttpIdle == sending["http"] = NotSending /\ ~leaving

\* An HTTP handler's send loop, under a new id: PatchState's (peers
\* chosen for ZeroId, which no entry holds), the hail's or the farewell's
\* (peers chosen for that new id).  RandomSafePeers clears the cache.
HttpLoop(m, P) ==
    LET e == ClearOutdated(entries)
    IN  /\ up /\ HttpIdle /\ FreshId(e, m)
        /\ StartLoop("http", m, m, TRUE, P, e)
        /\ entries' = e
        /\ UNCHANGED <<now, received, up>>

\* PATCH /device on the HTTP goroutine.
SendStart(m, P) == HttpLoop(m, P) /\ UNCHANGED <<conn, leaving>>

\* POST /network: Observe opens the connection, and starts the reader,
\* unless it is open (ErrAlreadyObserving, ignored); then the hail's loop.
Join(m, P) ==
    /\ HttpLoop(m, P)
    /\ conn' = TRUE
    /\ UNCHANGED leaving

\* DELETE /network: the farewell's loop, then Stop.
Leave(m, P) ==
    /\ HttpLoop(m, P)
    /\ leaving' = TRUE
    /\ UNCHANGED conn

\* udpServer.Stop, at the end of DELETE /network: Close, and
\* s.connection = nil.  The reader's next ReadFrom fails and it ends.
Stop ==
    /\ up
    /\ leaving /\ sending["http"] = NotSending
    /\ conn' = FALSE
    /\ leaving' = FALSE
    /\ UNCHANGED <<now, entries, received, up, sending>>

\* Loop s after its send to p, ended when nothing is left.
Done(s, p) ==
    IF s.todo \cup s.writing = {p} THEN NotSending
    ELSE [s EXCEPT !.todo = @ \ {p}, !.writing = @ \ {p}]

\* The send handler after a successful write to p: Hold(id, p) runs on the
\* map as it is, without clearing it.  The id has left the process.
Delivered(g, p) ==
    /\ entries' = HoldAll(entries, sending[g].msg, {p})
    /\ sending' = [sending EXCEPT ![g] = LET s == Done(@, p) IN
                                         IF s = NotSending THEN s ELSE [s EXCEPT !.unsent = FALSE]]

\* The send handler after udpServer.Send failed: it logs, holds nothing.
Undelivered(g, p) ==
    /\ sending' = [sending EXCEPT ![g] = Done(@, p)]
    /\ UNCHANGED entries

\* udpServer.Send for peer p checks s.connection.  Nil: the send fails.
\* Otherwise the HTTP goroutine, which alone calls Stop, writes at once;
\* the UDP goroutine resolves the address and reads s.connection again
\* for WriteTo in a later step (SendWrite).
SendTo(g, p) ==
    /\ up
    /\ p \in sending[g].todo /\ sending[g].writing = {}
    /\ \/ ~conn /\ Undelivered(g, p)
       \/ conn /\ g = "http" /\ Delivered(g, p)
       \/ /\ conn /\ g = "udp"
          /\ sending' = [sending EXCEPT ![g] = [@ EXCEPT !.todo = @ \ {p}, !.writing = {p}]]
          /\ UNCHANGED entries
    /\ UNCHANGED <<now, received, up, conn, leaving>>

\* s.connection.WriteTo on the UDP goroutine.  A Stop since the check has
\* closed the connection, and the write fails, or has set it to nil, and
\* the call dereferences nil: a panic nothing recovers.
SendWrite(p) ==
    /\ up
    /\ p \in sending["udp"].writing
    /\ \/ conn /\ Delivered("udp", p) /\ UNCHANGED <<now, received, up, conn, leaving>>
       \/ ~conn /\ Undelivered("udp", p) /\ UNCHANGED <<now, received, up, conn, leaving>>
       \/ ~conn /\ Crash

\* Datagram d reaches the ingress handler's cache calls while an HTTP send
\* loop is running: unsynchronised access to the map, which the runtime
\* may detect ("concurrent map writes") and answer by aborting.
MapRace(d) ==
    /\ MapRaceFatal
    /\ up /\ conn
    /\ sending["udp"] = NotSending /\ sending["http"] # NotSending
    /\ Readable(d)
    /\ Crash

\* POST /shutdown: clear(c.entries).  The process exits, and the history
\* of sends starts again with the next one.
Reset ==
    /\ up
    /\ entries' = NoEntries
    /\ received' = NoReceipts
    /\ UNCHANGED <<now, up, sending, conn, leaving>>

\* The dead process is started again, with a new, empty cache and no
\* connection.
Restart ==
    /\ ~up
    /\ up' = TRUE
    /\ UNCHANGED <<now, entries, received, sending, conn, leaving>>

Advance ==
    /\ now < MaxTime
    /\ now' = now + 1
    /\ UNCHANGED <<entries, received, up, sending, conn, leaving>>

Next ==
    \/ \E d \in Datagram : Receive(d) \/ MapRace(d)
    \/ \E m \in Msg, P \in SUBSET Peer : SendStart(m, P)
    \/ \E m \in Msg, P \in SUBSET Peer : Join(m, P) \/ Leave(m, P)
    \/ Stop
    \/ \E g \in Goroutine, p \in Peer : SendTo(g, p)
    \/ \E p \in Peer : SendWrite(p)
    \/ Reset
    \/ Restart
    \/ Advance

Spec == Init /\ [][Next]_vars

-----------------------------------------------------------------------------
(* The tick abstraction of MessageCache.                                   *)

\* The entries whose deadline is not before now, with the age in ticks
\* that puts their deadline TTL - age ticks ahead.
AgeView ==
    {[msg |-> m, peer |-> p, age |-> now + TTL - entries[m][p]] :
        <<m, p>> \in {x \in Msg \X Peer :
                        /\ x[1] \in DOMAIN entries
                        /\ x[2] \in DOMAIN entries[x[1]]
                        /\ ~Before(entries[x[1]][x[2]])}}

Tick == INSTANCE TimedCache WITH cache <- AgeView

TypeOK ==
    /\ now \in 0..MaxTime
    /\ DOMAIN entries \subseteq Msg
    /\ \A m \in DOMAIN entries :
          /\ DOMAIN entries[m] \subseteq Peer
          /\ \A p \in DOMAIN entries[m] : entries[m][p] \in 0..MaxTime + TTL
    /\ received \in [Msg -> {-TTL - 1} \cup 0..MaxTime]
    /\ up \in BOOLEAN
    /\ sending \in [Goroutine -> {NotSending} \cup [msg : Msg, todo : SUBSET Peer, writing : SUBSET Peer, unsent : BOOLEAN]]
    /\ conn \in BOOLEAN
    /\ leaving \in BOOLEAN

\* The deadlines of messagecache.go answer every query as the tick ages of
\* MessageCache do: a peer is quarantined while age < TTL, and a message
\* is seen while it has an entry of age <= TTL (deadline.After against
\* clearOutdated's deadline.Before, including deadline == now).
QueriesAgree ==
    LET e == ClearOutdated(entries) IN
    \A m \in Msg :
        /\ ContainsMessage(e, m) = Tick!ContainsMessage(AgeView, m)
        /\ \A p \in Peer :
              ContainsMessageForPeer(e, m, p) = Tick!ContainsMessageForPeer(AgeView, m, p)

\* The cache in absolute time, with lazy clearing, implements the tick
\* abstraction that Gossip and Host are built on.
TickRefinement == Tick!Spec

\* Spec 8: an ingress datagram whose id was recorded within TTL has no
\* effect.  For an id held at ingress (putMessageInQuarantine), the
\* isMessageInQuarantine of every later datagram up to and including the
\* deadline reports it seen, across the lazy clearing of the send side's
\* queries and the Holds of concurrent send loops, until the cache is
\* reset or lost.
IngressDedup ==
    \A m \in Msg : now <= received[m] + TTL => ContainsMessage(ClearOutdated(entries), m)

\* The process stays up.  Spec 7 and 8: a datagram that cannot be parsed
\* is dropped, and the receive loop (readBlocking) goes on.  Spec 4.1 and
\* "Cancellation": stop() closes the socket, and a send still under way
\* completes or errors.  Neither a datagram nor DELETE /network ends it.
ReceiveLoopAlive == up

=============================================================================
