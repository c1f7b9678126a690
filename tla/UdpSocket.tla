----------------------------- MODULE UdpSocket ------------------------------
(***************************************************************************)
(* What SYS_NET promises a game: a queue of at most Capacity datagrams.    *)
(* Those that were accepted since the socket was bound are received once   *)
(* each, in order.                                                         *)
(***************************************************************************)
EXTENDS Naturals, Sequences

CONSTANTS Datagrams, Capacity, Nothing

VARIABLES
    queue,      \* accepted and not yet received
    got         \* what the last SYS_NET receive returned

Init == queue = <<>> /\ got = Nothing

Bind == queue' = <<>> /\ UNCHANGED got

Deliver ==
    /\ Len(queue) < Capacity
    /\ \E d \in Datagrams : queue' = Append(queue, d)
    /\ UNCHANGED got

Receive ==
    \/ queue = <<>> /\ got' = Nothing /\ UNCHANGED queue
    \/ queue # <<>> /\ queue' = Tail(queue) /\ got' = Head(queue)

Next == Bind \/ Deliver \/ Receive

Spec == Init /\ [][Next]_<<queue, got>>
=============================================================================
