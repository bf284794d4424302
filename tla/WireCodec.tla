------------------------------ MODULE WireCodec ------------------------------
(***************************************************************************)
(* The datagram format of fudpucker, as the code writes and reads it:      *)
(*   entity/id.go             Id, NewBytesId, Id.Bytes                     *)
(*   entity/utils/byteslice.go  ByteToBytes, Int64ToBytes, BytesToInt64    *)
(*   entity/message.go        MessageType, NewMessage, GetData,            *)
(*                            GetSignature                                 *)
(*   message/adapters.go      the send handler's frame, the ingress        *)
(*                            handler's header reads, and the payload      *)
(*                            providers and readers of each message kind   *)
(*                                                                         *)
(* A byte is 0..255 and a datagram a sequence of bytes.  An id is the      *)
(* sequence of its IdLen bytes (16 in the code), so Id.Bytes is its own    *)
(* value.  A bytes.Buffer is the sequence of bytes it has left.            *)
(*                                                                         *)
(* Integers are decoded with the values the model uses, all below 2^31;    *)
(* uint64 values of 2^63 and more, negative as int64, are not among them.  *)
(***************************************************************************)
EXTENDS Integers, Sequences, SequencesExt

CONSTANTS
    IdLen,          \* len(entity.ZeroId)
    SampleId,       \* ids, devices, owners and peers of the round-trip laws
    SampleVersion,  \* device versions of the round-trip laws
    SampleAddress   \* peer addresses (byte strings) of the round-trip laws

ASSUME IdLen \in Nat \ {0}

Byte == 0..255

ZeroId == [i \in 1..IdLen |-> 0]

\* entity.MessageType, in the order of its iota.
MessageTypeCommandHail   == 1
MessageTypeCommandPatch  == 2
MessageTypeEventSync     == 3
MessageTypeEventPeer     == 4
MessageTypeEventFarewell == 5

SignatureLength == 0

\* What a read gives: a value, a returned error, or a run-time panic.
Ok(v)    == [res |-> "ok", val |-> v]
Failed   == [res |-> "error", val |-> <<>>]
Panicked == [res |-> "panic", val |-> <<>>]

IsOk(r) == r.res = "ok"

\* bytes.Buffer.Next(n): the next n bytes, or all that are left ...
ReadNext(b, n) == SubSeq(b, 1, IF n < Len(b) THEN n ELSE Len(b))

\* ... after which the buffer holds the rest.
Skip(b, n) == SubSeq(b, (IF n < Len(b) THEN n ELSE Len(b)) + 1, Len(b))

\* entity.NewBytesId: exactly IdLen bytes make an id.
NewBytesId(b) == IF Len(b) # IdLen THEN Failed ELSE Ok(b)

\* utils.ByteToBytes, and MessageType.Bytes.
ByteToBytes(v) == <<v>>

\* The n low bytes of v, most significant first.
RECURSIVE BigEndian(_, _)
BigEndian(v, n) ==
    IF n = 0 THEN <<>> ELSE BigEndian(v \div 256, n - 1) \o <<v % 256>>

\* utils.Int64ToBytes: PutUint64 into 8 bytes, big-endian.
Int64ToBytes(v) == BigEndian(v, 8)

\* utils.BytesToInt64: 0 for no bytes; otherwise binary.BigEndian.Uint64,
\* which reads data[0..7] and panics (index out of range) on fewer.
BytesToInt64(b) ==
    CASE Len(b) = 0 -> Ok(0)
      [] Len(b) < 8 -> Panicked
      [] OTHER      -> Ok(FoldLeft(LAMBDA acc, x : acc * 256 + x, 0, SubSeq(b, 1, 8)))

\* entity.NewMessage; GetData and GetSignature split the data at
\* SignatureLength from its end.
NewMessage(id, sender, type, data) ==
    [id |-> id, sender |-> sender, type |-> type, data |-> data]

GetData(m)      == SubSeq(m.data, 1, Len(m.data) - SignatureLength)
GetSignature(m) == SubSeq(m.data, Len(m.data) - SignatureLength + 1, Len(m.data))

\* NewSendMessageHandler: the datagram written for message m.
Frame(m) == m.id \o ByteToBytes(m.type) \o m.sender \o GetData(m) \o GetSignature(m)

\* The payloads of NewPatchMessageProvider, NewSyncMessageProvider and
\* NewPeerMessageProvider; Hail and Farewell carry none.
PatchData(device, state) == device \o ByteToBytes(state)
SyncData(dev) ==
    dev.id \o dev.owner \o ByteToBytes(dev.type) \o ByteToBytes(dev.state) \o Int64ToBytes(dev.version)
PeerData(peer) == peer.id \o peer.address

(***************************************************************************)
(* NewReceiveMessageHandler reads a datagram d in three steps, with the    *)
(* quarantine check between the second and the third.                      *)
(***************************************************************************)
ReadId(d)     == NewBytesId(ReadNext(d, IdLen))
ReadType(d)   == IF Len(d) > IdLen THEN Ok(d[IdLen + 1]) ELSE Failed

ReadSender(d) == NewBytesId(ReadNext(Skip(d, IdLen + 1), IdLen))
Payload(d)    == Skip(d, 2 * IdLen + 1)

\* The message the handler builds, when all three reads succeed.
ReadFrame(d) ==
    IF IsOk(ReadId(d)) /\ IsOk(ReadType(d)) /\ IsOk(ReadSender(d))
    THEN Ok(NewMessage(ReadId(d).val, ReadSender(d).val, ReadType(d).val, Payload(d)))
    ELSE Failed

\* NewPatchMessageReader.
ReadPatch(data) ==
    LET device == NewBytesId(ReadNext(data, IdLen))
        rest   == Skip(data, IdLen)
    IN  IF IsOk(device) /\ rest # <<>>
        THEN Ok([device |-> device.val, state |-> Head(rest)])
        ELSE Failed

\* NewSyncMessageReader: the version is whatever follows the state byte.
ReadSync(data) ==
    LET id      == NewBytesId(ReadNext(data, IdLen))
        owner   == NewBytesId(ReadNext(Skip(data, IdLen), IdLen))
        rest    == Skip(data, 2 * IdLen)
        version == BytesToInt64(Skip(rest, 2))
    IN  CASE ~IsOk(id) \/ ~IsOk(owner) \/ Len(rest) < 2 -> Failed
          [] version.res = "panic" -> Panicked
          [] OTHER -> Ok([id |-> id.val, owner |-> owner.val, type |-> rest[1],
                          state |-> rest[2], version |-> version.val])

\* NewPeerMessageReader: the address is whatever follows the id.
ReadPeer(data) ==
    LET id == NewBytesId(ReadNext(data, IdLen))
    IN  IF IsOk(id) THEN Ok([id |-> id.val, address |-> Skip(data, IdLen)]) ELSE Failed

-----------------------------------------------------------------------------
SampleDevice ==
    [id : SampleId, owner : SampleId, type : {1, 15}, state : {0, 1}, version : SampleVersion]

SampleMessage(data) ==
    {NewMessage(i, s, t, data) :
        i \in SampleId, s \in SampleId,
        t \in {MessageTypeCommandHail, MessageTypeCommandPatch, MessageTypeEventSync,
               MessageTypeEventPeer, MessageTypeEventFarewell}}

\* Spec 8, the round-trip laws: every message kind, framed by the send
\* handler, reads back as itself at ingress, and every payload its
\* provider writes reads back as the device, patch or peer it was made of.
\* MCMessageCacheClock assumes it, so TLC evaluates it before every run of
\* the cache.
RoundTrip ==
    /\ \A dev \in SampleDevice :
          /\ \A m \in SampleMessage(SyncData(dev)) :
                LET r == ReadFrame(Frame(m)) IN IsOk(r) /\ r.val = m
          /\ LET r == ReadSync(SyncData(dev)) IN IsOk(r) /\ r.val = dev
    /\ \A d \in SampleId, s \in {0, 1} :
          LET r == ReadPatch(PatchData(d, s)) IN IsOk(r) /\ r.val = [device |-> d, state |-> s]
    /\ \A p \in [id : SampleId, address : SampleAddress] :
          LET r == ReadPeer(PeerData(p)) IN IsOk(r) /\ r.val = p

=============================================================================
