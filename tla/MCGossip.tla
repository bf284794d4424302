------------------------------ MODULE MCGossip ------------------------------
(***************************************************************************)
(* Instantiates Gossip for TLC.  Host a owns the one device d1; the        *)
(* configurations choose who issues PATCH requests and what can fail.     *)
(***************************************************************************)
EXTENDS Gossip

CONSTANTS a, b, c, d1, m1, m2, m3, m4

\* Three hosts, every one a peer of the others.
MCHost3 == {a, b, c}
\* The owner and one other host.
MCHost2 == {a, b}
MCOwner == [d \in {d1} |-> a]
MCMsgId3 == {m1, m2, m3}
MCMsgId4 == {m1, m2, m3, m4}

\* d1 created at a (POST /device, version 0) and then announced to every
\* host by the EventSyncs a joining host sends with its hail.
MCInitStore3 == [h \in MCHost3 |-> (d1 :> [state |-> 0, version |-> 0])]
MCInitStore2 == [h \in MCHost2 |-> (d1 :> [state |-> 0, version |-> 0])]
\* Nothing created yet.
MCEmptyStore2 == [h \in MCHost2 |-> <<>>]

\* Symmetry of the two non-owners (sound only for safety checking).
MCSymmetry == Permutations({b, c})
=============================================================================
