------------------------------- MODULE MCHost -------------------------------
(***************************************************************************)
(* Instantiates Host for TLC.  Host a owns the one device d1; the          *)
(* configurations choose who joins, leaves, restarts and deletes.         *)
(***************************************************************************)
EXTENDS Host

CONSTANTS a, b, c, d1, m1, m2, m3, m4

MCHost3 == {a, b, c}
MCHost2 == {a, b}
MCOwner == [d \in {d1} |-> a]
MCMsgId3 == {m1, m2, m3}
MCMsgId4 == {m1, m2, m3, m4}

\* Every host joined and holding d1 at version 0, as after POST /device at
\* a and the hails of the joining hosts.
MCInitStore3 == [h \in MCHost3 |-> (d1 :> [state |-> 0, version |-> 0])]
MCInitStore2 == [h \in MCHost2 |-> (d1 :> [state |-> 0, version |-> 0])]

\* No device yet: d1 is created by POST /device at a.
MCEmptyStore2 == [h \in MCHost2 |-> <<>>]

\* Symmetry of the two non-owners (sound only for safety checking).
MCSymmetry == Permutations({b, c})
=============================================================================
