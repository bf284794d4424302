--------------------------- MODULE DeviceRegister ---------------------------
(***************************************************************************)
(* What the gossip engine promises about device state, with no messages:   *)
(* the owner writes versions 0, 1, 2, ... of its device, and every other   *)
(* host holds some version the owner wrote, with the state the owner       *)
(* wrote under it, and only ever moves on to a strictly newer one.         *)
(*                                                                         *)
(*   log[d]   the states the owner wrote, log[d][v + 1] under version v;   *)
(*            <<>> before d is created                                     *)
(*   view[h]  the records host h holds: device -> [state, version]         *)
(***************************************************************************)
EXTENDS Integers, Sequences, TLC

CONSTANTS Host, Device, Owner, DeviceState

VARIABLES log, view

regVars == <<log, view>>

\* The record of version v of device d.
Written(d, v) == [state |-> log[d][v + 1], version |-> v]

\* The owner's current record of d.
Latest(d) == Written(d, Len(log[d]) - 1)

\* view[h] with d's record set to r.
Put(h, d, r) == [view EXCEPT ![h] = (d :> r) @@ @]

\* Every held record is one the owner wrote, and the owner holds its last.
Consistent ==
    /\ \A h \in Host : \A d \in DOMAIN view[h] :
          /\ view[h][d].version \in 0..Len(log[d]) - 1
          /\ view[h][d] = Written(d, view[h][d].version)
    /\ \A d \in Device :
          /\ log[d] # <<>> <=> d \in DOMAIN view[Owner[d]]
          /\ log[d] # <<>> => view[Owner[d]][d] = Latest(d)

Init ==
    /\ log \in [Device -> {<<>>} \cup {<<s>> : s \in DeviceState}]
    /\ view \in [Host -> UNION {[D -> [state : DeviceState, version : {0}]] :
                                  D \in SUBSET Device}]
    /\ Consistent

\* The owner creates d with state s, version 0.
Create(d, s) ==
    /\ log[d] = <<>>
    /\ log' = [log EXCEPT ![d] = <<s>>]
    /\ view' = Put(Owner[d], d, [state |-> s, version |-> 0])

\* The owner writes state s as the next version of d.
Write(d, s) ==
    /\ log[d] # <<>>
    /\ log' = [log EXCEPT ![d] = Append(@, s)]
    /\ view' = Put(Owner[d], d, [state |-> s, version |-> Len(log[d])])

\* Host h, not the owner, adopts version v of d, newer than what it holds.
Adopt(h, d, v) ==
    /\ h # Owner[d]
    /\ v \in 0..Len(log[d]) - 1
    /\ d \in DOMAIN view[h] => v > view[h][d].version
    /\ view' = Put(h, d, Written(d, v))
    /\ UNCHANGED log

Next ==
    \/ \E d \in Device, s \in DeviceState : Create(d, s) \/ Write(d, s)
    \/ \E h \in Host, d \in Device : \E v \in 0..Len(log[d]) - 1 : Adopt(h, d, v)

Spec == Init /\ [][Next]_regVars

=============================================================================
