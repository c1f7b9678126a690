------------------------------- MODULE MCNet --------------------------------
(***************************************************************************)
(* Everything on the LAN, for TLC.  The parts share the frames net_poll    *)
(* takes from the NIC but no state, so each is explored next to the        *)
(* others, not multiplied with them: a behaviour is one of one part.       *)
(***************************************************************************)
EXTENDS Beam, Http, Dhcp, Lan

CONSTANTS
    Parts,
    GamePeer    \* the peer a game plays with

VARIABLE part

netVars == <<part, beamVars, httpVars, dhcpVars, lanVars>>

NetInit == part \in Parts /\ BeamInit /\ HttpInit /\ DhcpInit /\ LanInit

Beaming == part = "beam" /\ UNCHANGED <<part, httpVars, dhcpVars, lanVars>>
Responding == part = "http" /\ UNCHANGED <<part, beamVars, dhcpVars, lanVars>>
Booting == part = "dhcp" /\ UNCHANGED <<part, beamVars, httpVars, lanVars>>
OnLan == UNCHANGED <<part, beamVars, httpVars, dhcpVars>>

\* The ARP cache with all peers and no game, and the game's socket with one
\* peer: apart from arp_learn, neither reads or writes what the other does.
Resolving == part = "arp" /\ OnLan /\ ~udp_port'
Playing == part = "udp" /\ OnLan /\ \A i \in DOMAIN arp_cache' :
    arp_cache'[i] # Nothing => arp_cache'[i].ip = GamePeer

NetNext ==
    \/ Beaming /\ BeamNext
    \/ Responding /\ HttpNext
    \/ Booting /\ DhcpNext
    \/ LanNext /\ (Resolving \/ Playing)

Safety == NetInit /\ [][NetNext]_netVars

\* Beaming's two loops poll and their deadlines pass; nothing obliges a
\* datagram to arrive.  The idle task gets the CPU again and again, and an
\* uploading peer repeats what has not been acknowledged until it gets
\* through.  The clock runs, and the network is polled.
NetSpec ==
    /\ Safety
    /\ \A c \in Consoles :
        /\ WF_netVars(Beaming /\ SenderStep(c))
        /\ WF_netVars(Beaming /\ ReceiverStep(c))
    /\ \A p \in Pollers :
        /\ WF_netVars(Responding /\ Work(p))
        /\ SF_netVars(Responding /\ FetchWanted(p))
    /\ WF_netVars(Booting /\ TickLan)
    /\ \A h \in Hosts : WF_netVars(Booting /\ PollDhcp(h))

NetTypeOK == BeamTypeOK /\ HttpTypeOK /\ DhcpTypeOK /\ LanTypeOK
=============================================================================
