------------------------------- MODULE Leases -------------------------------
(***************************************************************************)
(* What the network setup promises the rest of a console: an address is    *)
(* decided on once, for good, and no other console of the LAN has it.      *)
(***************************************************************************)
CONSTANTS Hosts, Addresses, Undecided

VARIABLE address

Init == address = [h \in Hosts |-> Undecided]

Free == {a \in Addresses : \A h \in Hosts : address[h] # a}

Decide(h) ==
    /\ address[h] = Undecided
    /\ \E a \in Free : address' = [address EXCEPT ![h] = a]

Next == \E h \in Hosts : Decide(h)

Spec == Init /\ [][Next]_address
=============================================================================
