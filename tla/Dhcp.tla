-------------------------------- MODULE Dhcp --------------------------------
(***************************************************************************)
(* The DHCP client of net.c, on the consoles of one LAN.  Every message    *)
(* is a broadcast; it stays on the LAN, to be received late, twice or      *)
(* never.  The servers (external) lease an address to one console only.    *)
(***************************************************************************)
EXTENDS Naturals

CONSTANTS
    Hosts,          \* consoles
    Servers,
    PoolSize,       \* addresses of each server
    DEADLINE,       \* DHCP_DEADLINE_MS
    RETRY,          \* DHCP_RETRY_MS
    SameTick        \* whether the consoles call net_init at the same tick

ASSUME DhcpAssumption ==
    {PoolSize, DEADLINE, RETRY} \subseteq Nat \ {0} /\ SameTick \in BOOLEAN

Pool == Servers \X (1 .. PoolSize)
Static(h) == <<h, 0>>                   \* from the last octet of its MAC

VARIABLES
    dh,             \* each console's client
    ticks,          \* system_ticks, to just after the deadline
    lan,            \* the messages broadcast so far
    lease           \* to whom each address is leased (external)

dhcpVars == <<dh, ticks, lan, lease>>

Addresses == Pool \cup {Static(h) : h \in Hosts}
Messages == [type : {"discover", "offer", "request", "ack"}, xid : Hosts, ip : Addresses]
DhcpStates == {"DISCOVER", "REQUEST", "BOUND", "FAILED"}

DhcpTypeOK ==
    /\ dh \in [Hosts -> [state : DhcpStates, ip : Addresses, offer : Addresses,
                         next_tx : 0 .. DEADLINE + RETRY]]
    /\ ticks \in 0 .. DEADLINE + 1
    /\ lan \subseteq [msg : Messages, from : Hosts \cup Servers]
    /\ lease \in [Pool -> SUBSET Hosts]

\* The transaction id is made of system_ticks alone.
Xid(h) == IF SameTick THEN CHOOSE x \in Hosts : TRUE ELSE h

\* net_init.
DhcpInit ==
    /\ dh = [h \in Hosts |-> [state |-> "DISCOVER", ip |-> Static(h),
                              offer |-> Static(h), next_tx |-> 0]]
    /\ ticks = 0 /\ lan = {}
    /\ lease = [a \in Pool |-> {}]

Broadcast(from, type, xid, ip) ==
    lan' = lan \cup {[from |-> from, msg |-> [type |-> type, xid |-> xid, ip |-> ip]]}

-----------------------------------------------------------------------------
Trying(h) == dh[h].state \in {"DISCOVER", "REQUEST"}

\* dhcp_poll, called by net_poll before it looks at what has arrived.
DeadlinePasses(h) ==
    /\ Trying(h) /\ ticks > DEADLINE
    /\ dh' = [dh EXCEPT ![h].state = "FAILED"]
    /\ UNCHANGED <<ticks, lan, lease>>

Transmit(h) ==
    /\ Trying(h) /\ ticks <= DEADLINE /\ ticks >= dh[h].next_tx
    /\ dh' = [dh EXCEPT ![h].next_tx = ticks + RETRY]
    /\ IF dh[h].state = "DISCOVER" THEN Broadcast(h, "discover", Xid(h), Static(h))
       ELSE Broadcast(h, "request", Xid(h), dh[h].offer)
    /\ UNCHANGED <<ticks, lease>>

\* dhcp_input: BOOTREPLYs of this transaction; whose hardware address they
\* name is not looked at.
For(h, m) == m.msg.xid = Xid(h)

RecvOffered(h, m) ==
    /\ m.msg.type = "offer" /\ For(h, m) /\ dh[h].state = "DISCOVER"
    /\ dh' = [dh EXCEPT ![h].state = "REQUEST", ![h].offer = m.msg.ip, ![h].next_tx = 0]
    /\ UNCHANGED <<ticks, lan, lease>>

\* Mutant: an ACK is taken in every state.
RecvAck_Late(h, m) ==
    /\ m.msg.type = "ack" /\ For(h, m)
    /\ dh' = [dh EXCEPT ![h].state = "BOUND", ![h].ip = m.msg.ip]
    /\ UNCHANGED <<ticks, lan, lease>>

RecvAck(h, m) ==
    /\ m.msg.type = "ack" /\ For(h, m) /\ dh[h].state = "REQUEST"
    /\ dh' = [dh EXCEPT ![h].state = "BOUND", ![h].ip = m.msg.ip]
    /\ UNCHANGED <<ticks, lan, lease>>

\* system_ticks; how far beyond the deadline it is no longer matters.
TickLan ==
    /\ ticks' = IF ticks <= DEADLINE THEN ticks + 1 ELSE ticks
    /\ UNCHANGED <<dh, lan, lease>>

-----------------------------------------------------------------------------
\* The servers: they offer what is not leased to another, and grant what is
\* requested of them under the same condition.
ServerOffers(s, m, a) ==
    /\ m.msg.type = "discover" /\ a[1] = s /\ lease[a] \subseteq {m.from}
    /\ Broadcast(s, "offer", m.msg.xid, a)
    /\ UNCHANGED <<dh, ticks, lease>>

ServerGrants(s, m) ==
    /\ m.msg.type = "request" /\ m.msg.ip \in Pool /\ m.msg.ip[1] = s
    /\ lease[m.msg.ip] \subseteq {m.from}
    /\ lease' = [lease EXCEPT ![m.msg.ip] = {m.from}]
    /\ Broadcast(s, "ack", m.msg.xid, m.msg.ip)
    /\ UNCHANGED <<dh, ticks>>

PollDhcp(h) == DeadlinePasses(h) \/ Transmit(h)

DhcpNext ==
    \/ TickLan
    \/ \E h \in Hosts : PollDhcp(h) \/ \E m \in lan : RecvOffered(h, m) \/ RecvAck(h, m)
    \/ \E s \in Servers, m \in lan : ServerGrants(s, m) \/ \E a \in Pool : ServerOffers(s, m, a)

DhcpSpec == DhcpInit /\ [][DhcpNext]_dhcpVars

-----------------------------------------------------------------------------
(***************************************************************************)
(* Properties.                                                             *)
(***************************************************************************)
Decided == INSTANCE Leases WITH
    Undecided <- <<>>,
    address <- [h \in Hosts |-> IF Trying(h) THEN <<>> ELSE dh[h].ip]

\* The address of a console is the lease it was granted or, after the
\* deadline, the static one.  Once announced it does not change under the
\* connections that use it, a late ACK comes too late, and no two consoles
\* have the same: net.c derives the static one from the MAC "so two consoles
\* on one LAN don't clash".  And whatever is received late, twice or never,
\* when the clock runs every console comes to an address.
AddressIsDecided ==
    /\ Decided!Spec
    /\ ticks > 0 ~> \A h \in Hosts : ~Trying(h)
=============================================================================
