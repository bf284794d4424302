----------------------------- MODULE TimedCache -----------------------------
(***************************************************************************)
(* The message cache as Gossip sees it: a set of [msg, peer, age] entries  *)
(* in ticks, changed only by Hold, by a tick, and by Reset.  This is the   *)
(* abstraction that MessageCacheClock, the cache in absolute time, is      *)
(* shown to implement.                                                     *)
(***************************************************************************)
EXTENDS MessageCache

CONSTANTS Msg, Peer

VARIABLE cache

Init == cache = {}

Next ==
    \/ \E m \in Msg, P \in SUBSET Peer : cache' = HoldAll(cache, m, P)
    \/ cache' = Aged(cache)
    \/ cache' = Reset(cache)

Spec == Init /\ [][Next]_cache

=============================================================================
