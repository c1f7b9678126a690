-------------------------------- MODULE Lan ---------------------------------
(***************************************************************************)
(* The rest of net.c: the ARP cache and the one UDP socket behind SYS_NET. *)
(* A frame is handled in one step (module Http has the steps in between);  *)
(* SYS_NET's receive is any number of frames, then Receive.                *)
(***************************************************************************)
EXTENDS Naturals, Sequences

CONSTANTS
    Peers,          \* IP addresses of other hosts
    Macs,
    ARP_CACHE,      \* entries of the cache (4)
    Datagrams,
    UDP_QUEUE,      \* slots of the socket's ring (8)
    WORD,           \* udp_head and udp_tail are counted modulo this (2^32)
    Nothing

ASSUME LanAssumption ==
    /\ {ARP_CACHE, UDP_QUEUE, WORD} \subseteq Nat \ {0}
    /\ WORD % UDP_QUEUE = 0 /\ WORD > UDP_QUEUE
    /\ Nothing \notin Peers \cup Macs \cup Datagrams

VARIABLES
    arp_cache, arp_next,
    claimed,        \* the MAC each peer last gave in ARP or UDP (history)
    sent,           \* the datagram that went out last: to whom, to which MAC
    udp_port,       \* whether the game has bound its port
    udp_q, udp_head, udp_tail,
    got             \* what the last receive returned

arpVars == <<arp_cache, arp_next, claimed, sent>>
udpVars == <<udp_port, udp_q, udp_head, udp_tail, got>>
lanVars == <<arpVars, udpVars>>

Entries == [ip : Peers, mac : Macs] \cup {Nothing}
Slots == 0 .. UDP_QUEUE - 1

LanTypeOK ==
    /\ arp_cache \in [0 .. ARP_CACHE - 1 -> Entries] /\ arp_next \in 0 .. ARP_CACHE - 1
    /\ claimed \in [Peers -> Macs \cup {Nothing}]
    /\ sent \in Entries
    /\ udp_port \in BOOLEAN /\ udp_q \in [Slots -> Datagrams \cup {Nothing}]
    /\ udp_head \in 0 .. WORD - 1 /\ udp_tail \in 0 .. WORD - 1
    /\ got \in Datagrams \cup {Nothing}

LanInit ==
    /\ arp_cache = [i \in 0 .. ARP_CACHE - 1 |-> Nothing] /\ arp_next = 0
    /\ claimed = [p \in Peers |-> Nothing] /\ sent = Nothing
    /\ udp_port = FALSE /\ udp_q = [i \in Slots |-> Nothing]
    /\ udp_head = 0 /\ udp_tail = 0 /\ got = Nothing

-----------------------------------------------------------------------------
Known(ip) == {i \in DOMAIN arp_cache : arp_cache[i] # Nothing /\ arp_cache[i].ip = ip}
First(S) == CHOOSE i \in S : \A j \in S : i <= j

arp_find(ip) == IF Known(ip) = {} THEN Nothing ELSE arp_cache[First(Known(ip))].mac

Remember(ip, mac) ==
    /\ arp_cache' = [arp_cache EXCEPT ![arp_next] = [ip |-> ip, mac |-> mac]]
    /\ arp_next' = (arp_next + 1) % ARP_CACHE

\* Mutant: a peer that is known keeps the MAC it was first seen with.
arp_learn_Once(ip, mac) ==
    /\ claimed' = [claimed EXCEPT ![ip] = mac]
    /\ IF Known(ip) = {} THEN Remember(ip, mac) ELSE UNCHANGED <<arp_cache, arp_next>>

arp_learn(ip, mac) ==
    /\ claimed' = [claimed EXCEPT ![ip] = mac]
    /\ IF Known(ip) = {} THEN Remember(ip, mac)
       ELSE /\ arp_cache' = [arp_cache EXCEPT ![First(Known(ip))].mac = mac]
            /\ UNCHANGED arp_next

\* Any ARP packet, request or reply, and any UDP packet for a port that
\* keeps nothing (echo, beam, DHCP, nobody's).  What is answered at once goes
\* back to the MAC it came from and is left out.
HandleArp(ip, mac) ==
    /\ arp_learn(ip, mac)
    /\ sent' = Nothing
    /\ UNCHANGED udpVars

\* Both headers are filled in at once: the frame's MAC and the packet's IP.
send_ip(mac, ip) == [mac |-> mac, ip |-> ip]

\* A datagram to one peer; a broadcast needs no MAC.
udp_tx(mac, ip) == sent' = send_ip(mac, ip)

\* Broadcast a who-has; nothing remembers that it was sent.
arp_request(ip) == sent' = Nothing

\* A peer that is not known is asked for, and the caller tries again.
Reach(ip) ==
    /\ IF arp_find(ip) = Nothing THEN arp_request(ip) ELSE udp_tx(arp_find(ip), ip)
    /\ UNCHANGED <<arp_cache, arp_next, claimed, udpVars>>

\* SYS_NET's send, of a game that has bound its port, and beaming's.
net_udp_send(ip) == udp_port /\ Reach(ip)
net_beam_send(ip) == Reach(ip)

Pending == (udp_tail + WORD - udp_head) % WORD

\* Mutant: one datagram too many is queued.
Full_Late == Pending > UDP_QUEUE

Full == Pending >= UDP_QUEUE

\* handle_udp for the game's port.
HandleUdp(ip, mac, d) ==
    /\ udp_port
    /\ arp_learn(ip, mac)
    /\ IF Full THEN UNCHANGED <<udp_q, udp_tail>>
       ELSE /\ udp_q' = [udp_q EXCEPT ![udp_tail % UDP_QUEUE] = d]
            /\ udp_tail' = (udp_tail + 1) % WORD
    /\ sent' = Nothing
    /\ UNCHANGED <<udp_port, udp_head, got>>

UdpBind ==
    /\ udp_port' = TRUE
    /\ udp_head' = 0 /\ udp_tail' = 0
    /\ sent' = Nothing
    /\ UNCHANGED <<arp_cache, arp_next, claimed, udp_q, got>>

UdpReceive ==
    /\ IF udp_head = udp_tail THEN got' = Nothing /\ UNCHANGED udp_head
       ELSE got' = udp_q[udp_head % UDP_QUEUE] /\ udp_head' = (udp_head + 1) % WORD
    /\ sent' = Nothing
    /\ UNCHANGED <<arp_cache, arp_next, claimed, udp_port, udp_q, udp_tail>>

LanNext ==
    \/ UdpBind \/ UdpReceive
    \/ \E ip \in Peers : net_udp_send(ip) \/ net_beam_send(ip)
    \/ \E ip \in Peers, mac \in Macs :
        HandleArp(ip, mac) \/ \E d \in Datagrams : HandleUdp(ip, mac, d)

LanSpec == LanInit /\ [][LanNext]_lanVars

-----------------------------------------------------------------------------
(***************************************************************************)
(* Properties.                                                             *)
(***************************************************************************)
\* No datagram goes to a MAC its addressee has given up, also when cache
\* entries are pushed out and learnt again.
ArpIsCurrent == sent # Nothing => sent.mac = claimed[sent.ip]

\* The ring is a queue: what SYS_NET receives is what arrived since the
\* bind, once each and in order, also after the counters have wrapped.
Socket == INSTANCE UdpSocket WITH
    queue <- [i \in 1 .. Pending |-> udp_q[(udp_head + i - 1) % UDP_QUEUE]],
    got <- got, Datagrams <- Datagrams, Capacity <- UDP_QUEUE, Nothing <- Nothing
UdpIsFifo == Socket!Spec
=============================================================================
