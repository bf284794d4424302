------------------------- MODULE MCMessageCacheClock -------------------------
(***************************************************************************)
(* Instantiates MessageCacheClock for TLC.  Ids are 2 bytes long: message *)
(* ids M1, M2 and peer ids A, B.  The datagrams that may arrive are every  *)
(* prefix of three frames the send handler writes (an EventSync, a         *)
(* CommandPatch and a CommandHail), and the EventSync frame with a kind    *)
(* byte no MessageType has.                                                *)
(***************************************************************************)
EXTENDS MessageCacheClock

M1 == <<1, 1>>
M2 == <<1, 2>>
A  == <<0, 1>>
B  == <<0, 2>>
D  == <<2, 1>>

MCMsg  == {M1, M2}
MCPeer == {A, B}

SyncFrame ==
    Frame(NewMessage(M1, A, MessageTypeEventSync,
                     SyncData([id |-> D, owner |-> B, type |-> 1, state |-> 1, version |-> 258])))

MCFrames ==
    { SyncFrame,
      Frame(NewMessage(M2, B, MessageTypeCommandPatch, PatchData(D, 1))),
      Frame(NewMessage(M2, A, MessageTypeCommandHail, <<>>)) }

MCDatagram ==
    UNION {Prefixes(f) : f \in MCFrames} \cup {[SyncFrame EXCEPT ![3] = 9]}

\* Only whole hails arrive: no datagram can panic a reader.
MCHailOnly == {Frame(NewMessage(M2, A, MessageTypeCommandHail, <<>>))}

MCSampleId      == {ZeroId, A, D}
MCSampleVersion == {0, 1, 258, 2147483647}
MCSampleAddress == {<<>>, <<49, 46, 50>>}

ASSUME RoundTrip

\* received is a history variable that no step reads.  IngressDedup looks
\* at a receipt only while it is at most TTL old, so states are counted
\* with older receipts taken as none.
LiveReceipts == [m \in Msg |-> IF now <= received[m] + TTL THEN received[m] ELSE -TTL - 1]

MCView == <<now, entries, LiveReceipts, up, sending, conn, leaving>>
=============================================================================
