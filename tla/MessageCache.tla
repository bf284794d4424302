---------------------------- MODULE MessageCache ----------------------------
(***************************************************************************)
(* The per-host "seen this message with respect to that peer" index of    *)
(* src/main/data/messagecache.go.                                          *)
(*                                                                         *)
(* The code keeps map[messageId]entry{receivers: map[peerId]deadline} with *)
(* deadline = time.Now() + timeToLive.  Time is modelled by ticks: an      *)
(* entry carries its age in ticks, so that its deadline lies TTL - age     *)
(* ticks ahead.  Hence                                                     *)
(*   deadline.After(now)   <=>  age < TTL                                  *)
(*   deadline.Before(now)  <=>  age > TTL                                  *)
(* and an entry of age TTL ("deadline = now") is neither: clearOutdated    *)
(* keeps it, ContainsMessage reports it, ContainsMessageForPeer does not.  *)
(*                                                                         *)
(* A cache is a set of entries [msg, peer, age] with at most one entry per *)
(* (msg, peer) pair.  clearOutdated runs lazily at the start of every      *)
(* Contains* call; since every observation of the cache goes through it,   *)
(* dropping an entry at the tick that takes it past TTL is observationally *)
(* the same and is what Aged does.                                         *)
(***************************************************************************)
EXTENDS Integers

CONSTANT TTL   \* timeToLive, in ticks

ASSUME TTL \in Nat \ {0}

\* The entry recording that message m was observed with respect to peer p.
Fresh(m, p) == [msg |-> m, peer |-> p, age |-> 0]

\* ContainsMessageForPeer: an entry exists and its deadline is after now.
ContainsMessageForPeer(c, m, p) ==
    \E e \in c : e.msg = m /\ e.peer = p /\ e.age < TTL

\* ContainsMessage: after clearOutdated, the message still has an entry.
\* An entry whose deadline equals now survives clearOutdated.
ContainsMessage(c, m) == \E e \in c : e.msg = m

\* Hold: insert (m, p) with a fresh deadline unless an entry for the pair
\* is already present; an existing deadline is never refreshed.
Hold(c, m, p) ==
    IF \E e \in c : e.msg = m /\ e.peer = p
    THEN c
    ELSE c \cup {Fresh(m, p)}

\* Hold(m, p) for every peer p of the set P, as the send loop does.
HoldAll(c, m, P) ==
    c \cup {Fresh(m, p) : p \in {q \in P : ~\E e \in c : e.msg = m /\ e.peer = q}}

\* Hold(m, p) for every message m of I and peer p of P: a loop over the
\* peers that sends every message of I to each.
HoldPairs(c, I, P) ==
    c \cup {Fresh(x[1], x[2]) :
              x \in {y \in I \X P : ~\E e \in c : e.msg = y[1] /\ e.peer = y[2]}}

\* Reset: clear(c.entries).
Reset(c) == {}

\* Mutant: clearOutdated never deletes an entry.
AgedNoClear(c) == {[e EXCEPT !.age = @ + 1] : e \in c}

\* One tick of the clock followed by clearOutdated: every deadline comes
\* one tick closer and entries whose deadline is now in the past go.
Aged(c) == {[e EXCEPT !.age = @ + 1] : e \in {x \in c : x.age < TTL}}

\* The message ids a cache still remembers.
MessagesIn(c) == {e.msg : e \in c}

=============================================================================
