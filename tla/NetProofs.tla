------------------------------ MODULE NetProofs -----------------------------
(***************************************************************************)
(* Safety of game beaming, of the ARP cache, of the socket behind SYS_NET, *)
(* of the DHCP client and of uploads, for any number of peers, consoles,   *)
(* servers and clients, every cache and ring size, every size of a game    *)
(* and every length of headers and bodies; and from them, of everything on *)
(* the LAN.                                                                *)
(***************************************************************************)
EXTENDS MCNet, TLAPS, FiniteSetTheorems, WellFoundedInduction

(***************************************************************************)
(* Game beaming: for any size of the game, any number of rounds and any    *)
(* number of beams, in both directions.                                    *)
(***************************************************************************)
\* beam_input looks at no datagram's sender, and with a third console two
\* beams can meet in one receiver.
TwoConsoles == \A c, d, e \in Consoles : c = d \/ d = e \/ c = e

-----------------------------------------------------------------------------
(***************************************************************************)
(* The invariant.                                                          *)
(***************************************************************************)
Data(m) == m.type \in {"page", "done"}
Sends(c) == role[c] = "send"
Active(d) == role[d] = "active"

\* All that d has received since it accepted is of moment s.
Stamped(d, s) ==
    /\ \A k \in rcv[d].bits : game[d].mem[k] = s
    /\ rcv[d].done => rcv[d].regs = s

\* The original has not been quit, or else d has had the game already.
MayTake(d, s) == s \in Moments /\ (home[s] \in {"open", "kept"} \/ d \in taken[s])

\* Sender c has heard from d, or may yet hear of an answer on its way; or d
\* has got everything.
Heard(c, d) ==
    snd[c].accepted \/ Complete(d) \/ \E m \in net : m.type = "accept" /\ m.to = c

\* What a console's role says of its screen, its peer and its game.
RoleFits(c) ==
    /\ role[c] \in {"send", "active"} => screen[c] = "game"
    /\ role[c] \in {"want", "active"} => rcv[c].peer \in Consoles \ {c}
    /\ Active(c) => game[c].adopted = FALSE
    /\ rcv[c].unique = Cardinality(rcv[c].bits)

\* A sender's memory is its moment's, still its own and nobody else's; an
\* answer it has seen was given by one who took it.
SenderFits(c) ==
    /\ snd[c].moment \in Moments /\ snd[c].moment <= now
    /\ \A k \in Chunks : game[c].mem[k] = snd[c].moment
    /\ home[snd[c].moment] = "open" /\ c \notin taken[snd[c].moment]
    /\ snd[c].accepted => snd[c].found \in Consoles \ {c}
    /\ snd[c].peer # NoConsole => snd[c].accepted /\ snd[c].peer \in Consoles \ {c}
    /\ snd[c].ack => taken[snd[c].moment] # {}
    /\ \A d \in Consoles : Sends(d) /\ snd[d].moment = snd[c].moment => c = d

\* The data on the net: one moment from each console, its sender's while it
\* sends, and good for whoever gets it.
DatagramFits(m) ==
    /\ m.from # m.to
    /\ m.type = "page" => m.chunk \in Chunks
    /\ Data(m) => MayTake(m.to, m.moment)
    /\ Data(m) /\ Sends(m.from) => m.moment = snd[m.from].moment
    /\ \A c \in Consoles : Data(m) /\ Sends(c) /\ m.moment = snd[c].moment => c = m.from
    /\ \A n \in net : Data(m) /\ Data(n) /\ m.from = n.from => m.moment = n.moment
    /\ m.type = "ack" /\ Sends(m.to) => taken[snd[m.to].moment] # {}

\* What a receiver has is of one moment.  That of a sender it has heard from
\* or may yet hear from, if there is one: a console that is still receiving
\* when its peer starts anew has to accept again before it gets anything.
ReceiverFits(d) ==
    /\ \/ rcv[d].bits = {} /\ ~rcv[d].done
       \/ \E s \in Moments : Stamped(d, s) /\ MayTake(d, s)
    /\ \A m \in net : Data(m) /\ m.to = d => Stamped(d, m.moment)
    /\ \A c \in Consoles \ {d} : Sends(c) /\ Heard(c, d) => Stamped(d, snd[c].moment)

RolesFit == \A c \in Consoles : RoleFits(c)
SendersFit == \A c \in Consoles : Sends(c) => SenderFits(c)
UnfrozenFit == \A s \in Moments : s > now => home[s] = "none" /\ taken[s] = {}
NetFits == \A m \in net : DatagramFits(m)
ReceiversFit == \A d \in Consoles : Active(d) => ReceiverFits(d)

BeamInv ==
    /\ BeamTypeOK /\ RolesFit /\ SendersFit /\ UnfrozenFit
    /\ NetFits /\ ReceiversFit /\ GameIsWhole

-----------------------------------------------------------------------------
LEMMA BeamNumbers ==
    /\ NumChunks \in Nat \ {0} /\ ATTEMPTS \in Nat \ {0} /\ MaxMoments \in Nat
    /\ NoConsole \notin Consoles
    /\ Fresh \notin Moments /\ Moments \subseteq States /\ Moments \subseteq Nat
    /\ Fresh \in States
BY BeamAssumption DEF Fresh, Moments, States

Games == [mem : [Chunks -> States], cpu : States, adopted : BOOLEAN]
Sendings == [moment : States, accepted : BOOLEAN, found : Consoles \cup {NoConsole},
             peer : Consoles \cup {NoConsole}, ack : BOOLEAN, tries : 0 .. ATTEMPTS]
Receivings == [peer : Consoles \cup {NoConsole}, bits : SUBSET Chunks,
               unique : 0 .. NumChunks, done : BOOLEAN, regs : States, tries : 0 .. ATTEMPTS]

LEMMA BeamTypes ==
    ASSUME BeamInv
    PROVE  /\ game \in [Consoles -> Games] /\ snd \in [Consoles -> Sendings]
           /\ rcv \in [Consoles -> Receivings]
           /\ role \in [Consoles -> {"idle", "send", "want", "active"}]
           /\ screen \in [Consoles -> {"launcher", "game"}]
           /\ home \in [Moments -> {"none", "open", "kept", "given"}]
           /\ taken \in [Moments -> SUBSET Consoles]
           /\ now \in {0} \cup Moments
           /\ \A m \in net : m \in Packets /\ m.from \in Consoles /\ m.to \in Consoles
BY DEF BeamInv, BeamTypeOK, Games, Sendings, Receivings, Packets

LEMMA ChunksFinite == IsFiniteSet(Chunks) /\ Cardinality(Chunks) = NumChunks /\ Chunks # {}
<1>1. NumChunks \in Nat /\ 1 \in 1 .. NumChunks
    BY BeamNumbers
<1>2. IsFiniteSet(1 .. NumChunks) /\ Cardinality(1 .. NumChunks) = NumChunks
    BY <1>1, FS_Interval
<1>. QED  BY <1>1, <1>2 DEF Chunks

LEMMA BitsFinite ==
    ASSUME NEW B \in SUBSET Chunks
    PROVE  /\ IsFiniteSet(B) /\ Cardinality(B) \in 0 .. NumChunks
           /\ Cardinality(B) >= NumChunks => B = Chunks
           /\ \A k \in Chunks : Cardinality(B \cup {k}) =
                IF k \in B THEN Cardinality(B) ELSE Cardinality(B) + 1
<1>1. /\ IsFiniteSet(B) /\ Cardinality(B) <= NumChunks
      /\ (Cardinality(B) = NumChunks => B = Chunks)
    BY ChunksFinite, FS_Subset
<1>2. Cardinality(B) \in Nat
    BY <1>1, FS_CardinalityType
<1>3. ASSUME NEW k \in Chunks
      PROVE  Cardinality(B \cup {k}) = IF k \in B THEN Cardinality(B) ELSE Cardinality(B) + 1
    BY <1>1, FS_AddElement
<1>. QED  BY <1>1, <1>2, <1>3, BeamNumbers

\* A receiver that is complete has the whole of one moment.
LEMMA CompleteIsWhole ==
    ASSUME BeamInv, NEW d \in Consoles, Active(d), Complete(d)
    PROVE  /\ rcv[d].regs \in Moments /\ MayTake(d, rcv[d].regs)
           /\ \A k \in Chunks : game[d].mem[k] = rcv[d].regs
<1>1. rcv[d].bits \in SUBSET Chunks /\ rcv[d].unique = Cardinality(rcv[d].bits)
    BY DEF BeamInv, BeamTypeOK, RolesFit, RoleFits
<1>2. rcv[d].bits = Chunks
    BY <1>1, BitsFinite DEF Complete
<1>3. PICK s \in Moments : Stamped(d, s) /\ MayTake(d, s)
    BY DEF BeamInv, ReceiversFit, ReceiverFits, Complete
<1>. QED  BY <1>2, <1>3 DEF Stamped, Complete

LEMMA BeamInitially == BeamInit => BeamInv /\ H!Init
<1>. SUFFICES ASSUME BeamInit PROVE BeamInv /\ H!Init
    OBVIOUS
<1>. USE DEF BeamInit, FreshGame, NoSend, NoReceive
<1>1. BeamTypeOK
    <2>1. 0 \in 0 .. ATTEMPTS /\ 0 \in 0 .. NumChunks
        BY BeamNumbers
    <2>. QED  BY <2>1, BeamNumbers DEF BeamTypeOK
<1>2. RolesFit
    <2>1. Cardinality({}) = 0
        BY FS_EmptySet
    <2>. QED  BY <2>1 DEF RolesFit, RoleFits, Active
<1>3. SendersFit /\ NetFits /\ ReceiversFit /\ GameIsWhole
    BY DEF SendersFit, SenderFits, NetFits, DatagramFits, ReceiversFit, ReceiverFits, GameIsWhole, Sends, Active
<1>4. UnfrozenFit
    BY DEF UnfrozenFit
<1>. QED  BY <1>1, <1>2, <1>3, <1>4 DEF BeamInv, H!Init

-----------------------------------------------------------------------------
(***************************************************************************)
(* The console around beam.c.                                              *)
(***************************************************************************)
\* A console that neither sends nor receives gets another game; whether it
\* waits for one may change too.
LEMMA GameChanges ==
    ASSUME BeamInv, NEW c \in Consoles, role[c] \notin {"send", "active"},
           screen' \in [Consoles -> {"launcher", "game"}],
           \A d \in Consoles \ {c} : screen'[d] = screen[d],
           game' = [game EXCEPT ![c] = FreshGame],
           UNCHANGED <<role, snd, rcv, net, now, history>>
    PROVE  BeamInv'
<1>1. /\ game' \in [Consoles -> Games]
      /\ \A d \in Consoles \ {c} : game'[d] = game[d]
      /\ game'[c].adopted = FALSE
    BY BeamNumbers DEF BeamInv, BeamTypeOK, Games, FreshGame
<1>2. BeamTypeOK'
    BY <1>1 DEF BeamInv, BeamTypeOK, Games, history
<1>3. RolesFit'
    BY <1>1 DEF BeamInv, RolesFit, RoleFits, Active
<1>4. SendersFit' /\ UnfrozenFit' /\ NetFits'
    BY <1>1 DEF BeamInv, SendersFit, SenderFits, UnfrozenFit, NetFits, DatagramFits, Sends, MayTake, history
<1>5. ReceiversFit'
    BY <1>1 DEF BeamInv, ReceiversFit, ReceiverFits, Active, Sends, Stamped, MayTake, Heard, Complete, history
<1>6. GameIsWhole'
    <2>1. ASSUME NEW x \in Consoles, game'[x].adopted PROVE game'[x] = game[x]
        <3>1. x # c
            BY <1>1, <2>1
        <3>. QED  BY <1>1, <3>1
    <2>. QED  BY <2>1 DEF BeamInv, GameIsWhole
<1>. QED  BY <1>2, <1>3, <1>4, <1>5, <1>6 DEF BeamInv

\* A console stops waiting for a game, or receiving one, or finds one offered.
LEMMA RoleChanges ==
    ASSUME BeamInv, NEW c \in Consoles, role[c] # "send", NEW r \in {"idle", "want"},
           NEW w \in {NoReceive} \cup {[NoReceive EXCEPT !.peer = p] : p \in Consoles \ {c}},
           r = "want" => w.peer \in Consoles \ {c},
           role' = [role EXCEPT ![c] = r], rcv' = [rcv EXCEPT ![c] = w],
           UNCHANGED <<screen, game, snd, net, now, history>>
    PROVE  BeamInv'
<1>0. 0 \in 0 .. ATTEMPTS /\ 0 \in 0 .. NumChunks /\ Cardinality({}) = 0
    BY BeamNumbers, FS_EmptySet
<1>1. /\ w \in Receivings /\ w.unique = 0 /\ w.bits = {}
      /\ BeamTypeOK'
    <2>1. w \in Receivings /\ w.unique = 0 /\ w.bits = {}
        <3>1. NoReceive \in Receivings /\ NoReceive.unique = 0 /\ NoReceive.bits = {}
            BY <1>0, BeamNumbers DEF NoReceive, Receivings
        <3>2. CASE w = NoReceive
            BY <3>1, <3>2
        <3>3. ASSUME NEW p \in Consoles \ {c}, w = [NoReceive EXCEPT !.peer = p]
              PROVE  w \in Receivings /\ w.unique = 0 /\ w.bits = {}
            BY <3>1, <3>3 DEF Receivings
        <3>. QED  BY <3>2, <3>3
    <2>. QED  BY <2>1 DEF BeamInv, BeamTypeOK, Receivings, history
<1>2. /\ \A d \in Consoles \ {c} : role'[d] = role[d] /\ rcv'[d] = rcv[d]
      /\ role'[c] = r /\ rcv'[c] = w
    BY DEF BeamInv, BeamTypeOK
<1>3. \A d \in Consoles : (Sends(d)' <=> Sends(d)) /\ (Active(d)' => Active(d) /\ d # c)
    BY <1>2 DEF Sends, Active
<1>4. RolesFit'
    <2>1. ASSUME NEW x \in Consoles, x # c PROVE role'[x] = role[x] /\ rcv'[x] = rcv[x]
        BY <1>2, <2>1
    <2>2. ASSUME NEW x \in Consoles, x # c PROVE RoleFits(x)'
        BY <2>1, <2>2 DEF BeamInv, RolesFit, RoleFits, Active
    <2>3. RoleFits(c)'
        BY <1>0, <1>1, <1>2 DEF RoleFits, Active
    <2>. QED  BY <2>2, <2>3 DEF RolesFit
<1>5. SendersFit' /\ UnfrozenFit' /\ NetFits' /\ GameIsWhole'
    <2>1. SendersFit'
        BY <1>3 DEF BeamInv, SendersFit, SenderFits, history
    <2>2. NetFits'
        <3>1. \A m \in net : m.from \in Consoles /\ m.to \in Consoles
            BY DEF BeamInv, BeamTypeOK, Packets
        <3>. QED  BY <1>3, <3>1 DEF BeamInv, NetFits, DatagramFits, MayTake, history
    <2>. QED  BY <2>1, <2>2 DEF BeamInv, UnfrozenFit, GameIsWhole, history
<1>6. ReceiversFit'
    BY <1>2, <1>3 DEF BeamInv, ReceiversFit, ReceiverFits, Stamped, MayTake, Heard, Complete, history
<1>. QED  BY <1>1, <1>4, <1>5, <1>6 DEF BeamInv

-----------------------------------------------------------------------------
(***************************************************************************)
(* The receiver.                                                           *)
(***************************************************************************)
\* A chunk is of the moment of what has come before.
LEMMA PageStep ==
    ASSUME TwoConsoles, BeamInv, NEW m \in net, NEW d \in Consoles, m.to = d, RecvPage(m)
    PROVE  BeamInv'
<1>. DEFINE r == [rcv[d] EXCEPT !.bits = rcv[d].bits \cup {m.chunk},
                                !.unique = IF m.chunk \in rcv[d].bits THEN rcv[d].unique
                                           ELSE rcv[d].unique + 1]
            g == [game[d] EXCEPT !.mem[m.chunk] = m.moment]
<1>1. /\ m.type = "page" /\ Active(d)
      /\ game' = [game EXCEPT ![d] = g]
      /\ rcv' = [rcv EXCEPT ![d] = r]
      /\ UNCHANGED <<screen, role, snd, net, now, home, taken>>
    BY DEF RecvPage, Active, history, BeamInv, BeamTypeOK
<1>2. m \in Packets /\ m.chunk \in Chunks /\ m.moment \in States /\ Data(m)
      /\ Stamped(d, m.moment) /\ MayTake(d, m.moment) /\ m.from # d /\ m.from \in Consoles
    BY <1>1 DEF BeamInv, BeamTypeOK, NetFits, DatagramFits, ReceiversFit, ReceiverFits, Packets, Data
<1>3. rcv[d].bits \in SUBSET Chunks /\ rcv[d].unique = Cardinality(rcv[d].bits)
    BY DEF BeamInv, BeamTypeOK, RolesFit, RoleFits
<1>4. /\ r.bits = rcv[d].bits \cup {m.chunk} /\ r.bits \in SUBSET Chunks
      /\ r.unique = Cardinality(r.bits) /\ r.unique \in 0 .. NumChunks
      /\ r.done = rcv[d].done /\ r.regs = rcv[d].regs
      /\ r.peer = rcv[d].peer /\ r.tries = rcv[d].tries
    <2>1. rcv[d].bits \cup {m.chunk} \in SUBSET Chunks
        BY <1>2, <1>3
    <2>2. Cardinality(rcv[d].bits \cup {m.chunk}) \in 0 .. NumChunks
        BY <2>1, BitsFinite
    <2>3. Cardinality(rcv[d].bits \cup {m.chunk})
            = IF m.chunk \in rcv[d].bits THEN Cardinality(rcv[d].bits)
              ELSE Cardinality(rcv[d].bits) + 1
        BY <1>2, <1>3, BitsFinite
    <2>. QED  BY <1>3, <2>1, <2>2, <2>3 DEF BeamInv, BeamTypeOK, Games, Receivings
<1>5. r \in Receivings
    <2>1. rcv[d] \in Receivings
        BY BeamTypes
    <2>2. r.peer \in Consoles \cup {NoConsole} /\ r.done \in BOOLEAN /\ r.regs \in States
          /\ r.tries \in 0 .. ATTEMPTS
        BY <1>4 DEF BeamInv, BeamTypeOK, Games, Receivings
    <2>. QED  BY <1>4, <2>1, <2>2 DEF Receivings
<1>6. /\ g \in Games
      /\ g.mem = [game[d].mem EXCEPT ![m.chunk] = m.moment]
      /\ g.adopted = FALSE
    <2>1. game[d] \in Games
        BY DEF BeamInv, BeamTypeOK, Games, Receivings
    <2>2. game[d].adopted = FALSE
        BY <1>1 DEF BeamInv, RolesFit, RoleFits
    <2>3. g.adopted = game[d].adopted
        BY <2>1
    <2>4. /\ g \in Games
          /\ g.mem = [game[d].mem EXCEPT ![m.chunk] = m.moment]
        BY <1>2, <2>1 DEF Games
    <2>. QED  BY <2>2, <2>3, <2>4
<1>. HIDE DEF r, g
<1>7. BeamTypeOK'
    BY <1>1, <1>5, <1>6 DEF BeamInv, BeamTypeOK, Games, Receivings
<1>8. /\ rcv'[d] = r /\ game'[d] = g
      /\ \A x \in Consoles : x # d => rcv'[x] = rcv[x] /\ game'[x] = game[x]
    BY <1>1 DEF BeamInv, BeamTypeOK, Games, Receivings
<1>9. RolesFit'
    <2>1. ASSUME NEW x \in Consoles, x # d PROVE RoleFits(x)'
        BY <1>1, <1>8, <2>1 DEF BeamInv, RolesFit, RoleFits, Active
    <2>2. RoleFits(d)'
        <3>1. /\ role'[d] \in {"send", "active"} => screen'[d] = "game"
              /\ role'[d] \in {"want", "active"} => rcv'[d].peer \in Consoles \ {d}
            BY <1>1, <1>4, <1>8 DEF BeamInv, RolesFit, RoleFits
        <3>2. game'[d].adopted = FALSE
            BY <1>6, <1>8
        <3>3. rcv'[d].unique = Cardinality(rcv'[d].bits)
            BY <1>4, <1>8
        <3>. QED  BY <3>1, <3>2, <3>3 DEF RoleFits
    <2>. QED  BY <2>1, <2>2 DEF RolesFit
<1>10. SendersFit' /\ UnfrozenFit' /\ NetFits'
    <2>1. \A c \in Consoles : Sends(c) => game'[c] = game[c]
        BY <1>1, <1>8 DEF Sends, Active
    <2>2. SendersFit'
        BY <1>1, <2>1 DEF BeamInv, SendersFit, SenderFits, Sends
    <2>. QED  BY <1>1, <2>2 DEF BeamInv, UnfrozenFit, NetFits, DatagramFits, Sends, MayTake
<1>11. Stamped(d, m.moment)'
    BY <1>2, <1>3, <1>4, <1>6, <1>8 DEF Stamped, BeamInv, BeamTypeOK
<1>12. ASSUME NEW x \in Consoles, x # d, NEW s PROVE Stamped(x, s)' <=> Stamped(x, s)
    BY <1>8, <1>12 DEF Stamped
<1>13. ReceiversFit'
    <2>1. ASSUME NEW n \in net, Data(n), n.to = d PROVE n.moment = m.moment
        <3>1. n.from = m.from
            BY <1>2, <2>1 DEF TwoConsoles, BeamInv, BeamTypeOK, NetFits, DatagramFits, Packets
        <3>. QED  BY <1>2, <2>1, <3>1 DEF BeamInv, NetFits, DatagramFits
    <2>2. ASSUME NEW c \in Consoles \ {d}, Sends(c) PROVE snd[c].moment = m.moment
        <3>1. c = m.from
            BY <1>2 DEF TwoConsoles
        <3>. QED  BY <1>2, <2>2, <3>1 DEF BeamInv, NetFits, DatagramFits
    <2>3. ReceiverFits(d)'
        BY <1>1, <1>2, <1>11, <2>1, <2>2 DEF ReceiverFits, MayTake, Sends
    <2>4. ASSUME NEW x \in Consoles, x # d, Active(x)' PROVE ReceiverFits(x)'
        <3>1. Active(x) /\ ReceiverFits(x)
            BY <1>1, <2>4 DEF Active, BeamInv, ReceiversFit
        <3>2. \A c \in Consoles \ {x} : ~Sends(c)'
            BY <1>1, <2>4 DEF TwoConsoles, Sends, Active
        <3>. QED  BY <1>1, <1>8, <1>12, <2>4, <3>1, <3>2 DEF ReceiverFits, MayTake
    <2>. QED  BY <2>3, <2>4 DEF ReceiversFit
<1>14. GameIsWhole'
    BY <1>6, <1>8 DEF BeamInv, GameIsWhole
<1>. QED  BY <1>7, <1>9, <1>10, <1>13, <1>14 DEF BeamInv

\* So are the registers.
LEMMA DoneStep ==
    ASSUME TwoConsoles, BeamInv, NEW m \in net, NEW d \in Consoles, m.to = d, RecvDone(m)
    PROVE  BeamInv'
<1>. DEFINE r == [rcv[d] EXCEPT !.done = TRUE, !.regs = m.moment]
<1>1. /\ m.type = "done" /\ Active(d)
      /\ rcv' = [rcv EXCEPT ![d] = r]
      /\ UNCHANGED <<screen, game, role, snd, net, now, home, taken>>
    BY DEF RecvDone, Active, history, BeamInv, BeamTypeOK
<1>2. m \in Packets /\ m.moment \in States /\ Data(m)
      /\ Stamped(d, m.moment) /\ MayTake(d, m.moment) /\ m.from # d /\ m.from \in Consoles
    BY <1>1 DEF BeamInv, BeamTypeOK, NetFits, DatagramFits, ReceiversFit, ReceiverFits,
                Packets, Data
<1>3. /\ r \in Receivings
      /\ r.bits = rcv[d].bits /\ r.unique = rcv[d].unique /\ r.peer = rcv[d].peer
      /\ r.regs = m.moment
    <2>1. rcv[d] \in Receivings
        BY BeamTypes
    <2>. QED  BY <1>2, <2>1 DEF Receivings
<1>. HIDE DEF r
<1>4. BeamTypeOK'
    BY <1>1, <1>3 DEF BeamInv, BeamTypeOK, Games, Receivings
<1>5. /\ rcv'[d] = r
      /\ \A x \in Consoles : x # d => rcv'[x] = rcv[x]
    BY <1>1 DEF BeamInv, BeamTypeOK, Games, Receivings
<1>6. RolesFit'
    <2>1. ASSUME NEW x \in Consoles, x # d PROVE RoleFits(x)'
        BY <1>1, <1>5, <2>1 DEF BeamInv, RolesFit, RoleFits, Active
    <2>2. RoleFits(d)'
        BY <1>1, <1>3, <1>5 DEF BeamInv, RolesFit, RoleFits, Active
    <2>. QED  BY <2>1, <2>2 DEF RolesFit
<1>7. SendersFit' /\ UnfrozenFit' /\ NetFits' /\ GameIsWhole'
    BY <1>1 DEF BeamInv, SendersFit, SenderFits, UnfrozenFit, NetFits, DatagramFits, Sends,
                MayTake, GameIsWhole
<1>8. Stamped(d, m.moment)'
    BY <1>1, <1>2, <1>3, <1>5 DEF Stamped
<1>9. ASSUME NEW x \in Consoles, x # d, NEW s PROVE Stamped(x, s)' <=> Stamped(x, s)
    BY <1>1, <1>5, <1>9 DEF Stamped
<1>10. ReceiversFit'
    <2>1. ASSUME NEW n \in net, Data(n), n.to = d PROVE n.moment = m.moment
        <3>1. n.from = m.from
            BY <1>2, <2>1 DEF TwoConsoles, BeamInv, BeamTypeOK, NetFits, DatagramFits, Packets
        <3>. QED  BY <1>2, <2>1, <3>1 DEF BeamInv, NetFits, DatagramFits
    <2>2. ASSUME NEW c \in Consoles \ {d}, Sends(c) PROVE snd[c].moment = m.moment
        <3>1. c = m.from
            BY <1>2 DEF TwoConsoles
        <3>. QED  BY <1>2, <2>2, <3>1 DEF BeamInv, NetFits, DatagramFits
    <2>3. ReceiverFits(d)'
        BY <1>1, <1>2, <1>8, <2>1, <2>2 DEF ReceiverFits, MayTake, Sends
    <2>4. ASSUME NEW x \in Consoles, x # d, Active(x)' PROVE ReceiverFits(x)'
        <3>1. Active(x) /\ ReceiverFits(x)
            BY <1>1, <2>4 DEF Active, BeamInv, ReceiversFit
        <3>2. \A c \in Consoles \ {x} : ~Sends(c)'
            BY <1>1, <2>4 DEF TwoConsoles, Sends, Active
        <3>. QED  BY <1>1, <1>5, <1>9, <2>4, <3>1, <3>2 DEF ReceiverFits, MayTake
    <2>. QED  BY <2>3, <2>4 DEF ReceiversFit
<1>. QED  BY <1>4, <1>6, <1>7, <1>10 DEF BeamInv

LEMMA AskAgainStep ==
    ASSUME BeamInv, NEW d \in Consoles, AskAgain(d)
    PROVE  BeamInv'
<1>. DEFINE r == [rcv[d] EXCEPT !.done = FALSE, !.tries = rcv[d].tries + 1]
<1>1. /\ Active(d) /\ rcv[d].tries < ATTEMPTS
      /\ rcv' = [rcv EXCEPT ![d] = r]
      /\ UNCHANGED <<screen, game, role, snd, net, now, home, taken>>
    BY DEF AskAgain, Active, history, BeamInv, BeamTypeOK
<1>2. /\ r \in Receivings
      /\ r.bits = rcv[d].bits /\ r.unique = rcv[d].unique /\ r.peer = rcv[d].peer
      /\ r.done = FALSE
    <2>1. rcv[d] \in Receivings
        BY BeamTypes
    <2>2. rcv[d].tries + 1 \in 0 .. ATTEMPTS
        BY <1>1, <2>1, BeamNumbers DEF Receivings
    <2>. QED  BY <2>1, <2>2 DEF Receivings
<1>. HIDE DEF r
<1>3. BeamTypeOK'
    BY <1>1, <1>2 DEF BeamInv, BeamTypeOK, Games, Receivings
<1>4. /\ rcv'[d] = r
      /\ \A x \in Consoles : x # d => rcv'[x] = rcv[x]
    BY <1>1 DEF BeamInv, BeamTypeOK, Games, Receivings
<1>5. RolesFit'
    <2>1. ASSUME NEW x \in Consoles, x # d PROVE RoleFits(x)'
        BY <1>1, <1>4, <2>1 DEF BeamInv, RolesFit, RoleFits, Active
    <2>2. RoleFits(d)'
        BY <1>1, <1>2, <1>4 DEF BeamInv, RolesFit, RoleFits, Active
    <2>. QED  BY <2>1, <2>2 DEF RolesFit
<1>6. SendersFit' /\ UnfrozenFit' /\ NetFits' /\ GameIsWhole'
    BY <1>1 DEF BeamInv, SendersFit, SenderFits, UnfrozenFit, NetFits, DatagramFits, Sends,
                MayTake, GameIsWhole
<1>7. ASSUME NEW x \in Consoles, NEW s PROVE Stamped(x, s) => Stamped(x, s)'
    BY <1>1, <1>2, <1>4 DEF Stamped
<1>8. \A x, c \in Consoles : Heard(c, x)' => Heard(c, x)
    BY <1>1, <1>2, <1>4 DEF Heard, Complete
<1>9. ASSUME NEW x \in Consoles, Active(x)' PROVE ReceiverFits(x)'
    <2>1. ReceiverFits(x)
        BY <1>1, <1>9 DEF Active, BeamInv, ReceiversFit
    <2>2. \/ rcv'[x].bits = {} /\ ~rcv'[x].done
          \/ \E s \in Moments : Stamped(x, s)' /\ MayTake(x, s)'
        BY <1>1, <1>2, <1>4, <1>7, <2>1 DEF ReceiverFits, MayTake
    <2>. QED  BY <1>1, <1>7, <1>8, <2>1, <2>2 DEF ReceiverFits, Sends
<1>10. ReceiversFit'
    BY <1>9 DEF ReceiversFit
<1>. QED  BY <1>3, <1>5, <1>6, <1>10 DEF BeamInv

\* The receiver starts from nothing each time it accepts.
LEMMA AcceptStep ==
    ASSUME TwoConsoles, BeamInv, NEW d \in Consoles, Accept(d)
    PROVE  BeamInv'
<1>. DEFINE r == [rcv[d] EXCEPT !.bits = {}, !.unique = 0, !.done = FALSE, !.tries = 1]
            g == [game[d] EXCEPT !.adopted = FALSE]
<1>0. PICK a : a = Ctrl("accept", d, rcv[d].peer)
    OBVIOUS
<1>1. /\ screen[d] = "game" /\ role[d] = "want"
      /\ role' = [role EXCEPT ![d] = "active"]
      /\ rcv' = [rcv EXCEPT ![d] = r] /\ game' = [game EXCEPT ![d] = g]
      /\ net' = net \cup {a}
      /\ UNCHANGED <<screen, snd, now, home, taken>>
    BY <1>0 DEF Accept, history, BeamInv, BeamTypeOK
<1>2. rcv[d].peer \in Consoles \ {d}
    BY <1>1 DEF BeamInv, RolesFit, RoleFits
<1>3. /\ r \in Receivings
      /\ r.bits = {} /\ r.unique = 0 /\ r.peer = rcv[d].peer /\ r.done = FALSE
    <2>1. rcv[d] \in Receivings
        BY BeamTypes
    <2>2. {} \in SUBSET Chunks /\ 0 \in 0 .. NumChunks /\ 1 \in 0 .. ATTEMPTS
        BY BeamNumbers
    <2>. QED  BY <2>1, <2>2 DEF Receivings
<1>4. /\ g \in Games
      /\ g.mem = game[d].mem /\ g.adopted = FALSE
    <2>1. game[d] \in Games
        BY BeamTypes
    <2>. QED  BY <2>1 DEF Games
<1>5. a \in Packets /\ a.type = "accept" /\ a.from = d /\ a.to = rcv[d].peer
    BY <1>0, <1>2, BeamNumbers DEF Ctrl, Packets
<1>. HIDE DEF r, g
<1>6. BeamTypeOK'
    BY <1>1, <1>3, <1>4, <1>5 DEF BeamInv, BeamTypeOK, Games, Receivings
<1>7. /\ rcv'[d] = r /\ game'[d] = g /\ role'[d] = "active"
      /\ \A x \in Consoles : x # d =>
            rcv'[x] = rcv[x] /\ game'[x] = game[x] /\ role'[x] = role[x]
    BY <1>1 DEF BeamInv, BeamTypeOK, Games, Receivings
<1>8. \A x \in Consoles : (Sends(x)' <=> Sends(x)) /\ (Sends(x) => x # d)
    BY <1>1, <1>7 DEF Sends
<1>9. RolesFit'
    <2>1. ASSUME NEW x \in Consoles, x # d PROVE RoleFits(x)'
        BY <1>1, <1>7, <2>1 DEF BeamInv, RolesFit, RoleFits, Active
    <2>2. Cardinality({}) = 0
        BY FS_EmptySet
    <2>3. RoleFits(d)'
        BY <1>1, <1>2, <1>3, <1>4, <1>7, <2>2 DEF RoleFits, Active
    <2>. QED  BY <2>1, <2>3 DEF RolesFit
<1>10. SendersFit' /\ UnfrozenFit'
    BY <1>1, <1>7, <1>8 DEF BeamInv, SendersFit, SenderFits, UnfrozenFit
<1>11. NetFits'
    <2>1. DatagramFits(a)'
        BY <1>2, <1>5 DEF DatagramFits, Data
    <2>2. ASSUME NEW m \in net PROVE DatagramFits(m)'
        <3>1. m.from \in Consoles /\ m.to \in Consoles
            BY DEF BeamInv, BeamTypeOK, Packets
        <3>. QED  BY <1>1, <1>5, <1>8, <3>1 DEF BeamInv, NetFits, DatagramFits, Data, MayTake
    <2>. QED  BY <1>1, <2>1, <2>2 DEF NetFits
<1>12. ReceiversFit'
    <2>1. ReceiverFits(d)'
        <3>1. \A s : Stamped(d, s)'
            BY <1>3, <1>7 DEF Stamped
        <3>. QED  BY <1>3, <1>7, <3>1 DEF ReceiverFits
    <2>2. ASSUME NEW x \in Consoles, x # d, Active(x)' PROVE ReceiverFits(x)'
        <3>1. Active(x) /\ ReceiverFits(x)
            BY <1>7, <2>2 DEF Active, BeamInv, ReceiversFit
        <3>2. \A c \in Consoles \ {x} : ~Sends(c)'
            BY <1>8, <2>2 DEF TwoConsoles
        <3>3. \A s : Stamped(x, s)' <=> Stamped(x, s)
            BY <1>7, <2>2 DEF Stamped
        <3>. QED  BY <1>1, <1>5, <1>7, <2>2, <3>1, <3>2, <3>3 DEF ReceiverFits, MayTake, Data
    <2>. QED  BY <2>1, <2>2 DEF ReceiversFit
<1>13. GameIsWhole'
    BY <1>4, <1>7 DEF BeamInv, GameIsWhole
<1>. QED  BY <1>6, <1>9, <1>10, <1>11, <1>12, <1>13 DEF BeamInv

\* Whoever resumes has one whole moment, and its sender's if that one waits.
LEMMA ResumeStep ==
    ASSUME TwoConsoles, BeamInv, NEW d \in Consoles, Resume(d)
    PROVE  BeamInv' /\ [H!Next]_<<home, taken>>
<1>0. PICK a : a = Ctrl("ack", d, rcv[d].peer)
    OBVIOUS
<1>00. PICK s : s = rcv[d].regs
    OBVIOUS
<1>1. /\ Active(d) /\ Complete(d) /\ s \in Moments /\ MayTake(d, s)
      /\ \A k \in Chunks : game[d].mem[k] = s
      /\ rcv[d].peer \in Consoles \ {d}
    BY <1>00, CompleteIsWhole DEF Resume, Active, BeamInv, RolesFit, RoleFits
<1>. DEFINE g == [game[d] EXCEPT !.cpu = s, !.adopted = TRUE]
<1>2. /\ role' = [role EXCEPT ![d] = "idle"]
      /\ game' = [game EXCEPT ![d] = g] /\ rcv' = [rcv EXCEPT ![d] = NoReceive]
      /\ net' = net \cup {a}
      /\ taken' = [taken EXCEPT ![s] = taken[s] \cup {d}]
      /\ UNCHANGED <<screen, snd, now, home>>
    BY <1>0, <1>00, <1>1 DEF Resume, BeamInv, BeamTypeOK
<1>3. g \in Games /\ g.mem = game[d].mem /\ g.cpu = s
    <2>1. game[d] \in Games /\ s \in States
        BY <1>1, BeamTypes, BeamNumbers
    <2>. QED  BY <2>1 DEF Games
<1>4. a \in Packets /\ a.type = "ack" /\ a.from = d /\ a.to = rcv[d].peer
    BY <1>0, <1>1, BeamNumbers DEF Ctrl, Packets
<1>. HIDE DEF g
<1>5. NoReceive \in Receivings /\ NoReceive.bits = {} /\ NoReceive.unique = 0
    <2>1. 0 \in 0 .. NumChunks /\ 0 \in 0 .. ATTEMPTS
        BY BeamNumbers
    <2>. QED  BY <2>1, BeamNumbers DEF NoReceive, Receivings
<1>6. BeamTypeOK'
    BY <1>1, <1>2, <1>3, <1>4, <1>5 DEF BeamInv, BeamTypeOK, Games, Receivings
<1>7. /\ rcv'[d] = NoReceive /\ game'[d] = g /\ role'[d] = "idle"
      /\ \A x \in Consoles : x # d =>
            rcv'[x] = rcv[x] /\ game'[x] = game[x] /\ role'[x] = role[x]
    BY <1>2 DEF BeamInv, BeamTypeOK
<1>8. /\ \A t \in Moments : taken[t] \subseteq taken'[t] /\ taken'[t] \subseteq taken[t] \cup {d}
      /\ d \in taken'[s]
      /\ \A t \in Moments : t # s => taken'[t] = taken[t]
    BY <1>1, <1>2 DEF BeamInv, BeamTypeOK
<1>9. \A x \in Consoles : (Sends(x)' <=> Sends(x)) /\ (Sends(x) => x # d)
    BY <1>1, <1>7 DEF Sends, Active
<1>10. RolesFit'
    <2>1. ASSUME NEW x \in Consoles, x # d PROVE RoleFits(x)'
        BY <1>2, <1>7, <2>1 DEF BeamInv, RolesFit, RoleFits, Active
    <2>2. Cardinality({}) = 0
        BY FS_EmptySet
    <2>3. RoleFits(d)'
        BY <1>5, <1>7, <2>2 DEF RoleFits, Active
    <2>. QED  BY <2>1, <2>3 DEF RolesFit
<1>11. SendersFit'
    <2>1. ASSUME NEW c \in Consoles, Sends(c) PROVE SenderFits(c)'
        <3>1. SenderFits(c) /\ c # d
            BY <1>9, <2>1 DEF BeamInv, SendersFit
        <3>. QED  BY <1>2, <1>7, <1>8, <1>9, <3>1 DEF SenderFits
    <2>. QED  BY <1>9, <2>1 DEF SendersFit
<1>12. UnfrozenFit'
    <2>1. ~ (s > now)
        BY <1>1 DEF MayTake, BeamInv, UnfrozenFit
    <2>. QED  BY <1>2, <1>8, <2>1 DEF BeamInv, UnfrozenFit
<1>13. NetFits'
    <2>1. ASSUME Sends(a.to)' PROVE taken'[snd[a.to].moment] # {}
        <3>1. Heard(a.to, d) /\ Sends(a.to) /\ a.to \in Consoles \ {d}
            BY <1>1, <1>4, <1>9, <2>1 DEF Heard
        <3>2. Stamped(d, snd[a.to].moment)
            BY <1>1, <3>1 DEF BeamInv, ReceiversFit, ReceiverFits
        <3>3. snd[a.to].moment = s
            BY <1>00, <1>1, <3>2 DEF Stamped, Complete
        <3>. QED  BY <1>8, <3>3
    <2>2. DatagramFits(a)'
        BY <1>1, <1>2, <1>4, <2>1 DEF DatagramFits, Data
    <2>3. ASSUME NEW m \in net PROVE DatagramFits(m)'
        <3>1. m.from \in Consoles /\ m.to \in Consoles /\ DatagramFits(m)
            BY BeamTypes DEF BeamInv, NetFits
        <3>2. \A c \in Consoles : Sends(c) => snd[c].moment \in Moments
            BY DEF BeamInv, SendersFit, SenderFits
        <3>3. Data(m) => MayTake(m.to, m.moment)'
            BY <1>2, <1>8, <3>1 DEF DatagramFits, MayTake
        <3>4. m.type = "ack" /\ Sends(m.to)' => taken'[snd'[m.to].moment] # {}
            BY <1>2, <1>8, <1>9, <3>1, <3>2 DEF DatagramFits
        <3>. QED  BY <1>2, <1>4, <1>9, <3>1, <3>3, <3>4 DEF DatagramFits, Data
    <2>. QED  BY <1>2, <2>2, <2>3 DEF NetFits
<1>14. ReceiversFit'
    <2>1. ASSUME NEW x \in Consoles, Active(x)' PROVE ReceiverFits(x)'
        <3>1. x # d /\ ReceiverFits(x)
            BY <1>7, <2>1 DEF Active, BeamInv, ReceiversFit
        <3>2. \A t : Stamped(x, t)' <=> Stamped(x, t)
            BY <1>7, <3>1 DEF Stamped
        <3>3. \A t : MayTake(x, t) => MayTake(x, t)'
            BY <1>2, <1>8 DEF MayTake
        <3>4. \A c \in Consoles : Heard(c, x)' => Heard(c, x)
            BY <1>2, <1>4, <1>7, <3>1 DEF Heard, Complete
        <3>. QED  BY <1>2, <1>4, <1>7, <1>9, <3>1, <3>2, <3>3, <3>4 DEF ReceiverFits, Data
    <2>. QED  BY <2>1 DEF ReceiversFit
<1>15. GameIsWhole'
    <2>1. ASSUME NEW x \in Consoles, game'[x].adopted
          PROVE  \E t \in Moments : game'[x].cpu = t /\ \A k \in Chunks : game'[x].mem[k] = t
        BY <1>1, <1>3, <1>7, <2>1 DEF BeamInv, GameIsWhole
    <2>. QED  BY <2>1 DEF GameIsWhole
<1>16. [H!Next]_<<home, taken>>
    <2>1. CASE home[s] \in {"open", "kept"}
        <3>1. H!Take(s, d)
            BY <1>2, <2>1 DEF H!Take
        <3>. QED  BY <1>1, <3>1 DEF H!Next
    <2>2. CASE d \in taken[s]
        BY <1>2, <2>2, BeamTypes
    <2>. QED  BY <1>1, <2>1, <2>2 DEF MayTake
<1>. QED  BY <1>6, <1>10, <1>11, <1>12, <1>13, <1>14, <1>15, <1>16 DEF BeamInv

-----------------------------------------------------------------------------
(***************************************************************************)
(* The sender.                                                             *)
(***************************************************************************)
\* What is put on the net is data of the sender's moment, or an offer; what
\* changes in its record keeps what makes it fit.
LEMMA SenderChanges ==
    ASSUME TwoConsoles, BeamInv, NEW c \in Consoles, Sends(c), NEW r \in Sendings,
           snd' = [snd EXCEPT ![c] = r],
           UNCHANGED <<screen, game, role, rcv, now, home, taken>>,
           r.moment = snd[c].moment,
           r.accepted => r.found \in Consoles \ {c},
           r.peer # NoConsole => r.accepted /\ r.peer \in Consoles \ {c},
           r.ack => taken[r.moment] # {},
           r.accepted => snd[c].accepted \/ \E m \in net : m.type = "accept" /\ m.to = c,
           NEW P \in SUBSET Packets, net' = net \cup P,
           \A m \in P : /\ m.from = c /\ m.to # c /\ m.type \in {"offer", "page", "done"}
                        /\ m.type = "page" => m.chunk \in Chunks
                        /\ Data(m) => m.moment = snd[c].moment /\ snd[c].accepted
    PROVE  BeamInv'
<1>1. BeamTypeOK'
    BY DEF BeamInv, BeamTypeOK, Sendings
<1>2. /\ snd'[c] = r
      /\ \A x \in Consoles : x # c => snd'[x] = snd[x]
      /\ \A x \in Consoles : snd'[x].moment = snd[x].moment
    BY DEF BeamInv, BeamTypeOK
<1>3. \A x \in Consoles : (Sends(x)' <=> Sends(x)) /\ (Active(x)' <=> Active(x))
    BY DEF Sends, Active
<1>4. SenderFits(c) /\ snd[c].moment \in Moments
    BY DEF BeamInv, SendersFit, SenderFits
<1>5. RolesFit' /\ UnfrozenFit' /\ GameIsWhole'
    BY <1>3 DEF BeamInv, RolesFit, RoleFits, UnfrozenFit, GameIsWhole
<1>6. SendersFit'
    <2>1. ASSUME NEW x \in Consoles, x # c, Sends(x) PROVE SenderFits(x)'
        BY <1>2, <1>3, <2>1 DEF BeamInv, SendersFit, SenderFits
    <2>2. SenderFits(c)'
        BY <1>2, <1>3, <1>4 DEF SenderFits
    <2>. QED  BY <1>3, <2>1, <2>2 DEF SendersFit
<1>7. NetFits'
    <2>1. ASSUME NEW m \in net PROVE DatagramFits(m)'
        <3>1. m.from \in Consoles /\ m.to \in Consoles /\ DatagramFits(m)
            BY BeamTypes DEF BeamInv, NetFits
        <3>2. \A n \in P : Data(m) /\ Data(n) /\ m.from = n.from => m.moment = n.moment
            BY <3>1 DEF DatagramFits
        <3>. QED  BY <1>2, <1>3, <3>1, <3>2 DEF DatagramFits, MayTake
    <2>2. ASSUME NEW m \in P PROVE DatagramFits(m)'
        <3>1. m.from = c /\ m.to \in Consoles /\ m.to # c /\ m.type # "ack"
              /\ (m.type = "page" => m.chunk \in Chunks)
              /\ (Data(m) => m.moment = snd[c].moment)
            BY DEF Packets
        <3>2. Data(m) => MayTake(m.to, m.moment)'
            BY <1>4, <3>1 DEF MayTake, SenderFits
        <3>3. \A x \in Consoles : Data(m) /\ Sends(x)' /\ m.moment = snd'[x].moment => x = c
            BY <1>2, <1>3, <1>4, <3>1 DEF SenderFits
        <3>4. \A n \in net' : Data(m) /\ Data(n) /\ m.from = n.from => m.moment = n.moment
            BY <3>1 DEF BeamInv, NetFits, DatagramFits
        <3>. QED  BY <1>2, <3>1, <3>2, <3>3, <3>4 DEF DatagramFits
    <2>. QED  BY <2>1, <2>2 DEF NetFits
<1>8. ReceiversFit'
    <2>1. ASSUME NEW x \in Consoles, Active(x) PROVE ReceiverFits(x)'
        <3>1. ReceiverFits(x) /\ x # c
            BY <2>1 DEF BeamInv, ReceiversFit, Active, Sends
        <3>2. \A t : (Stamped(x, t)' <=> Stamped(x, t)) /\ (MayTake(x, t)' <=> MayTake(x, t))
            BY DEF Stamped, MayTake
        <3>3. \A y \in Consoles : Sends(y) => y = c
            BY <2>1, <3>1 DEF TwoConsoles, Sends, Active
        <3>4. Heard(c, x)' => Heard(c, x)
            BY <1>2 DEF Heard, Complete
        <3>5. ASSUME NEW m \in P, Data(m), m.to = x PROVE Stamped(x, m.moment)
            BY <3>1, <3>5 DEF ReceiverFits, Heard
        <3>. QED  BY <1>2, <1>3, <3>1, <3>2, <3>3, <3>4, <3>5 DEF ReceiverFits
    <2>. QED  BY <1>3, <2>1 DEF ReceiversFit
<1>. QED  BY <1>1, <1>5, <1>6, <1>7, <1>8 DEF BeamInv

LEMMA OfferStep ==
    ASSUME TwoConsoles, BeamInv, NEW c \in Consoles, Offer(c)
    PROVE  BeamInv'
<1>0. PICK P : P = {[type |-> "offer", from |-> c, to |-> d, chunk |-> 0,
                     moment |-> snd[c].moment] : d \in Consoles \ {c}}
    OBVIOUS
<1>1. Sends(c) /\ net' = net \cup P /\ UNCHANGED <<screen, game, role, snd, rcv, now, home, taken>>
    BY <1>0 DEF Offer, Looking, Sends, history
<1>2. SenderFits(c) /\ snd[c] \in Sendings /\ snd' = [snd EXCEPT ![c] = snd[c]]
    BY <1>1, BeamTypes DEF BeamInv, SendersFit
<1>3. /\ P \in SUBSET Packets
      /\ \A m \in P : /\ m.from = c /\ m.to # c /\ m.type \in {"offer", "page", "done"}
                      /\ m.type = "page" => m.chunk \in Chunks
                      /\ Data(m) => m.moment = snd[c].moment /\ snd[c].accepted
    BY <1>0, <1>2 DEF Packets, Data, Sendings
<1>4. PICK r \in Sendings : r = snd[c]
    BY <1>2
<1>5. snd' = [snd EXCEPT ![c] = r]
    BY <1>2, <1>4
<1>. QED  BY <1>1, <1>2, <1>3, <1>4, <1>5, SenderChanges DEF SenderFits

LEMMA StreamStep ==
    ASSUME TwoConsoles, BeamInv, NEW c \in Consoles, Sends(c), snd[c].accepted,
           NEW to \in Consoles \ {c}, Stream(c, to), NEW n \in 0 .. ATTEMPTS,
           snd' = [snd EXCEPT ![c] = [snd[c] EXCEPT !.peer = to, !.tries = n]],
           UNCHANGED <<screen, game, role, rcv, now, home, taken>>
    PROVE  BeamInv'
<1>0. PICK P : P = {[type |-> "page", from |-> c, to |-> to, chunk |-> k,
                     moment |-> game[c].mem[k]] : k \in Chunks}
                   \cup {[type |-> "done", from |-> c, to |-> to, chunk |-> 0,
                          moment |-> snd[c].moment]}
    OBVIOUS
<1>1. net' = net \cup P
    BY <1>0 DEF Stream
<1>2. SenderFits(c) /\ snd[c] \in Sendings
    BY BeamTypes DEF BeamInv, SendersFit
<1>3. PICK r : r = [snd[c] EXCEPT !.peer = to, !.tries = n]
    OBVIOUS
<1>4. /\ r \in Sendings /\ r.peer = to
      /\ r.moment = snd[c].moment /\ r.accepted = snd[c].accepted
      /\ r.found = snd[c].found /\ r.ack = snd[c].ack
    BY <1>2, <1>3 DEF Sendings
<1>5. /\ P \in SUBSET Packets
      /\ \A m \in P : /\ m.from = c /\ m.to # c /\ m.type \in {"page", "done"}
                      /\ m.type = "page" => m.chunk \in Chunks
                      /\ m.moment = snd[c].moment
    BY <1>0, <1>2, BeamNumbers DEF Packets, SenderFits
<1>. QED  BY <1>1, <1>2, <1>3, <1>4, <1>5, SenderChanges DEF SenderFits

LEMMA StartStreamStep ==
    ASSUME TwoConsoles, BeamInv, NEW c \in Consoles, StartStream(c)
    PROVE  BeamInv'
<1>1. /\ Sends(c) /\ snd[c].accepted /\ Stream(c, snd[c].found)
      /\ snd' = [snd EXCEPT ![c] = [snd[c] EXCEPT !.peer = snd[c].found, !.tries = 1]]
      /\ UNCHANGED <<screen, game, role, rcv, now, home, taken>>
    BY DEF StartStream, Looking, Sends, history, BeamInv, BeamTypeOK
<1>2. snd[c].found \in Consoles \ {c} /\ 1 \in 0 .. ATTEMPTS
    BY <1>1, BeamNumbers DEF BeamInv, SendersFit, SenderFits
<1>. QED  BY <1>1, <1>2, StreamStep

LEMMA RestreamStep ==
    ASSUME TwoConsoles, BeamInv, NEW c \in Consoles, Restream(c)
    PROVE  BeamInv'
<1>0. snd[c] \in Sendings
    BY BeamTypes
<1>1. /\ Sends(c) /\ snd[c].peer # NoConsole /\ Stream(c, snd[c].peer)
      /\ snd' = [snd EXCEPT ![c] = [snd[c] EXCEPT !.tries = snd[c].tries + 1]]
      /\ UNCHANGED <<screen, game, role, rcv, now, home, taken>>
      /\ snd[c].tries < ATTEMPTS
    BY DEF Restream, Confirming, Sends, history, BeamInv, BeamTypeOK
<1>2. snd[c].accepted /\ snd[c].peer \in Consoles \ {c} /\ snd[c].tries + 1 \in 0 .. ATTEMPTS
    BY <1>0, <1>1, BeamNumbers DEF BeamInv, SendersFit, SenderFits, Sendings
<1>3. [snd[c] EXCEPT !.tries = snd[c].tries + 1]
        = [snd[c] EXCEPT !.peer = snd[c].peer, !.tries = snd[c].tries + 1]
    BY <1>0 DEF Sendings
<1>. QED  BY <1>1, <1>2, <1>3, StreamStep

LEMMA AcceptedStep ==
    ASSUME TwoConsoles, BeamInv, NEW m \in net, RecvAccept(m)
    PROVE  BeamInv'
<1>0. m.to \in Consoles /\ m.from \in Consoles /\ m.from # m.to
    BY BeamTypes DEF BeamInv, NetFits, DatagramFits
<1>1. PICK c \in Consoles : c = m.to
    BY <1>0
<1>2. PICK r : r = [snd[c] EXCEPT !.accepted = TRUE, !.found = m.from]
    OBVIOUS
<1>3. /\ m.type = "accept" /\ Sends(c)
      /\ snd' = [snd EXCEPT ![c] = r]
      /\ UNCHANGED <<screen, game, role, rcv, net, now, home, taken>>
    BY <1>1, <1>2 DEF RecvAccept, Sends, history, BeamInv, BeamTypeOK
<1>4. SenderFits(c) /\ snd[c] \in Sendings
    BY <1>3, BeamTypes DEF BeamInv, SendersFit
<1>5. /\ r \in Sendings /\ r.accepted /\ r.found = m.from
      /\ r.moment = snd[c].moment /\ r.peer = snd[c].peer /\ r.ack = snd[c].ack
    BY <1>0, <1>2, <1>4 DEF Sendings
<1>6. net' = net \cup {} /\ {} \in SUBSET Packets
    BY <1>3
<1>. QED  BY <1>0, <1>1, <1>3, <1>4, <1>5, <1>6, SenderChanges DEF SenderFits

LEMMA ConfirmationStep ==
    ASSUME TwoConsoles, BeamInv, NEW m \in net, RecvConfirmation(m)
    PROVE  BeamInv'
<1>0. m.to \in Consoles /\ DatagramFits(m)
    BY BeamTypes DEF BeamInv, NetFits
<1>1. PICK c \in Consoles : c = m.to
    BY <1>0
<1>2. PICK r : r = [snd[c] EXCEPT !.ack = TRUE]
    OBVIOUS
<1>3. /\ m.type = "ack" /\ Sends(c)
      /\ snd' = [snd EXCEPT ![c] = r]
      /\ UNCHANGED <<screen, game, role, rcv, net, now, home, taken>>
    BY <1>1, <1>2 DEF RecvConfirmation, Sends, history, BeamInv, BeamTypeOK
<1>4. SenderFits(c) /\ snd[c] \in Sendings /\ taken[snd[c].moment] # {}
    BY <1>0, <1>1, <1>3, BeamTypes DEF BeamInv, SendersFit, DatagramFits
<1>5. /\ r \in Sendings /\ r.accepted = snd[c].accepted /\ r.found = snd[c].found
      /\ r.moment = snd[c].moment /\ r.peer = snd[c].peer
    BY <1>2, <1>4 DEF Sendings
<1>6. net' = net \cup {} /\ {} \in SUBSET Packets
    BY <1>3
<1>. QED  BY <1>3, <1>4, <1>5, <1>6, SenderChanges DEF SenderFits

\* The session ends: with the game at home, or, once it was confirmed, gone.
LEMMA SessionEndStep ==
    ASSUME TwoConsoles, BeamInv, NEW c \in Consoles, Sends(c), NEW e \in {"kept", "given"},
           e = "given" => taken[snd[c].moment] # {},
           role' = [role EXCEPT ![c] = "idle"], snd' = [snd EXCEPT ![c] = NoSend],
           home' = [home EXCEPT ![snd[c].moment] = e],
           \/ UNCHANGED <<screen, game>>
           \/ /\ screen' = [screen EXCEPT ![c] = "launcher"]
              /\ game' = [game EXCEPT ![c] = FreshGame],
           UNCHANGED <<rcv, net, now, taken>>
    PROVE  BeamInv' /\ H!Next
<1>1. PICK s \in Moments : s = snd[c].moment
    BY DEF BeamInv, SendersFit, SenderFits
<1>2. SenderFits(c) /\ home[s] = "open" /\ c \notin taken[s] /\ ~ (s > now)
    <2>1. SenderFits(c)
        BY DEF BeamInv, SendersFit
    <2>. QED  BY <1>1, <2>1 DEF SenderFits, BeamInv, UnfrozenFit
<1>3. NoSend \in Sendings /\ FreshGame \in Games /\ FreshGame.adopted = FALSE
    <2>1. 0 \in 0 .. ATTEMPTS
        BY BeamNumbers
    <2>. QED  BY <2>1, BeamNumbers DEF NoSend, Sendings, FreshGame, Games
<1>4. BeamTypeOK'
    <2>1. /\ role' \in [Consoles -> {"idle", "send", "want", "active"}]
          /\ snd' \in [Consoles -> Sendings] /\ rcv' \in [Consoles -> Receivings]
          /\ home' \in [Moments -> {"none", "open", "kept", "given"}]
        BY <1>1, <1>3, BeamTypes
    <2>2. /\ screen' \in [Consoles -> {"launcher", "game"}]
          /\ game' \in [Consoles -> Games]
        BY <1>3, BeamTypes
    <2>. QED  BY <2>1, <2>2 DEF BeamInv, BeamTypeOK, Sendings, Receivings, Games
<1>5. /\ role'[c] = "idle" /\ game'[c] \in {game[c], FreshGame}
      /\ \A x \in Consoles : x # c => /\ role'[x] = role[x] /\ snd'[x] = snd[x]
                                      /\ screen'[x] = screen[x] /\ game'[x] = game[x]
      /\ home'[s] = e
      /\ \A t \in Moments : t # s => home'[t] = home[t]
    BY <1>1 DEF BeamInv, BeamTypeOK
<1>6. \A x \in Consoles : (Sends(x)' <=> Sends(x) /\ x # c) /\ (Active(x)' <=> Active(x))
                          /\ (Active(x) => x # c)
    BY <1>5 DEF Sends, Active
<1>7. RolesFit'
    BY <1>5, <1>6 DEF BeamInv, RolesFit, RoleFits
<1>8. SendersFit'
    <2>1. ASSUME NEW x \in Consoles, x # c, Sends(x) PROVE SenderFits(x)'
        <3>1. SenderFits(x) /\ snd[x].moment # s
            BY <1>1, <1>2, <2>1 DEF BeamInv, SendersFit, SenderFits
        <3>. QED  BY <1>5, <1>6, <2>1, <3>1 DEF SenderFits
    <2>. QED  BY <1>6, <2>1 DEF SendersFit
<1>9. UnfrozenFit'
    BY <1>2, <1>5 DEF BeamInv, UnfrozenFit
<1>10. ASSUME NEW x \in Consoles, x # c, NEW t, MayTake(x, t) PROVE MayTake(x, t)'
    <2>1. CASE t = s /\ e = "given"
        <3>1. PICK y \in Consoles : y \in taken[s]
            BY <1>1, <2>1, BeamTypes
        <3>2. y = x
            BY <1>2, <1>10, <3>1 DEF TwoConsoles
        <3>. QED  BY <2>1, <3>1, <3>2 DEF MayTake
    <2>2. CASE t = s /\ e = "kept"
        BY <1>5, <2>2 DEF MayTake
    <2>3. CASE t # s
        BY <1>5, <1>10, <2>3 DEF MayTake
    <2>. QED  BY <2>1, <2>2, <2>3
<1>11. NetFits'
    <2>1. ASSUME NEW m \in net PROVE DatagramFits(m)'
        <3>1. m.from \in Consoles /\ m.to \in Consoles /\ DatagramFits(m)
            BY BeamTypes DEF BeamInv, NetFits
        <3>2. Data(m) => MayTake(m.to, m.moment)'
            <4>1. CASE m.moment = s
                <5>1. Data(m) => m.to # c
                    BY <1>1, <3>1, <4>1 DEF DatagramFits
                <5>. QED  BY <1>10, <3>1, <5>1 DEF DatagramFits
            <4>2. CASE m.moment # s
                BY <1>5, <3>1, <4>2 DEF DatagramFits, MayTake
            <4>. QED  BY <4>1, <4>2
        <3>. QED  BY <1>5, <1>6, <3>1, <3>2 DEF DatagramFits
    <2>. QED  BY <2>1 DEF NetFits
<1>12. ReceiversFit'
    <2>1. ASSUME NEW x \in Consoles, Active(x) PROVE ReceiverFits(x)'
        <3>1. x # c /\ ReceiverFits(x)
            BY <1>6, <2>1 DEF BeamInv, ReceiversFit
        <3>2. \A t : Stamped(x, t)' <=> Stamped(x, t)
            BY <1>5, <3>1 DEF Stamped
        <3>3. \A t : MayTake(x, t) => MayTake(x, t)'
            BY <1>10, <3>1
        <3>4. \A y \in Consoles \ {x} : ~Sends(y)'
            BY <1>6, <3>1 DEF TwoConsoles
        <3>. QED  BY <3>1, <3>2, <3>3, <3>4 DEF ReceiverFits
    <2>. QED  BY <1>6, <2>1 DEF ReceiversFit
<1>13. GameIsWhole'
    <2>1. ASSUME NEW x \in Consoles, game'[x].adopted PROVE game'[x] = game[x]
        BY <1>3, <1>5, <2>1
    <2>. QED  BY <2>1 DEF BeamInv, GameIsWhole
<1>14. H!Next
    <2>1. CASE e = "kept"
        BY <1>1, <1>2, <2>1 DEF H!Next, H!Keep
    <2>2. CASE e = "given"
        BY <1>1, <1>2, <2>2 DEF H!Next, H!Give
    <2>. QED  BY <2>1, <2>2
<1>. QED  BY <1>4, <1>7, <1>8, <1>9, <1>11, <1>12, <1>13, <1>14 DEF BeamInv

\* Between two consoles every datagram is the caller's or for it: a beam
\* starts with nothing under way.
LEMMA BeamStartStep ==
    ASSUME TwoConsoles, BeamInv, NEW c \in Consoles, BeamStart(c)
    PROVE  BeamInv' /\ H!Next
<1>1. PICK s : s = now + 1
    OBVIOUS
<1>2. s \in Moments /\ ~ (now >= s) /\ s \in States
    BY <1>1, BeamTypes, BeamNumbers DEF BeamStart, Moments, States
<1>3. PICK g : g = [mem |-> [k \in Chunks |-> s], cpu |-> s, adopted |-> FALSE]
    OBVIOUS
<1>4. PICK r : r = [NoSend EXCEPT !.moment = s]
    OBVIOUS
<1>5. net' = {}
    <2>1. \A m \in net : c \in {m.from, m.to}
        BY BeamTypes DEF TwoConsoles, BeamInv, NetFits, DatagramFits
    <2>. QED  BY <2>1 DEF BeamStart, Late
<1>6. /\ screen[c] = "game" /\ role[c] \in {"idle", "want"} /\ Settled
      /\ now' = s
      /\ game' = [game EXCEPT ![c] = g] /\ role' = [role EXCEPT ![c] = "send"]
      /\ snd' = [snd EXCEPT ![c] = r] /\ rcv' = [rcv EXCEPT ![c] = NoReceive]
      /\ home' = [home EXCEPT ![s] = "open"]
      /\ UNCHANGED <<screen, taken>>
    BY <1>1, <1>3, <1>4 DEF BeamStart
<1>7. /\ g \in Games /\ r \in Sendings /\ NoReceive \in Receivings
      /\ NoReceive.bits = {} /\ NoReceive.unique = 0
      /\ r.moment = s /\ ~r.accepted /\ r.peer = NoConsole /\ ~r.ack
    <2>1. 0 \in 0 .. NumChunks /\ 0 \in 0 .. ATTEMPTS
        BY BeamNumbers
    <2>2. g \in Games
        BY <1>2, <1>3 DEF Games
    <2>3. r \in Sendings /\ r.moment = s /\ ~r.accepted /\ r.peer = NoConsole /\ ~r.ack
        BY <1>2, <1>4, <2>1, BeamNumbers DEF NoSend, Sendings
    <2>4. NoReceive \in Receivings /\ NoReceive.bits = {} /\ NoReceive.unique = 0
        BY <2>1, BeamNumbers DEF NoReceive, Receivings
    <2>. QED  BY <2>2, <2>3, <2>4
<1>8. BeamTypeOK'
    BY <1>2, <1>5, <1>6, <1>7 DEF BeamInv, BeamTypeOK, Games, Sendings, Receivings
<1>9. /\ role'[c] = "send" /\ snd'[c] = r /\ rcv'[c] = NoReceive /\ game'[c] = g
      /\ \A x \in Consoles : x # c => /\ role'[x] = role[x] /\ snd'[x] = snd[x]
                                      /\ rcv'[x] = rcv[x] /\ game'[x] = game[x]
      /\ home'[s] = "open"
      /\ \A t \in Moments : t # s => home'[t] = home[t]
    BY <1>2, <1>6 DEF BeamInv, BeamTypeOK
<1>10. home[s] = "none" /\ taken[s] = {}
    <2>1. UnfrozenFit
        BY DEF BeamInv
    <2>2. now \in Nat
        BY BeamNumbers DEF BeamInv, BeamTypeOK
    <2>3. s > now
        BY <1>1, <2>2
    <2>. QED  BY <1>2, <2>1, <2>3 DEF UnfrozenFit
<1>11. RolesFit'
    <2>1. ASSUME NEW x \in Consoles, x # c PROVE RoleFits(x)'
        BY <1>6, <1>9, <2>1 DEF BeamInv, RolesFit, RoleFits, Active
    <2>2. Cardinality({}) = 0
        BY FS_EmptySet
    <2>3. RoleFits(c)'
        BY <1>6, <1>7, <1>9, <2>2 DEF RoleFits, Active
    <2>. QED  BY <2>1, <2>3 DEF RolesFit
<1>12. \A x \in Consoles : x # c /\ Sends(x) => snd[x].moment # s
    BY <1>2 DEF BeamInv, SendersFit, SenderFits
<1>13. SendersFit'
    <2>1. ASSUME NEW x \in Consoles, x # c, Sends(x)' PROVE SenderFits(x)'
        <3>1. Sends(x) /\ SenderFits(x) /\ snd[x].moment # s
            BY <1>9, <1>12, <2>1 DEF Sends, BeamInv, SendersFit
        <3>2. snd[x].moment <= s
            <4>1. snd[x].moment \in Nat /\ snd[x].moment <= now
                BY <3>1, BeamNumbers DEF SenderFits
            <4>2. now \in Nat
                BY BeamNumbers DEF BeamInv, BeamTypeOK
            <4>. QED  BY <1>1, <4>1, <4>2
        <3>3. \A d \in Consoles : Sends(d)' /\ snd'[d].moment = snd'[x].moment => x = d
            BY <1>7, <1>9, <2>1, <3>1 DEF SenderFits, Sends
        <3>. QED  BY <1>6, <1>9, <2>1, <3>1, <3>2, <3>3 DEF SenderFits
    <2>2. SenderFits(c)'
        <3>1. \A k \in Chunks : game'[c].mem[k] = s
            BY <1>3, <1>9
        <3>2. \A d \in Consoles : Sends(d)' /\ snd'[d].moment = s => c = d
            BY <1>9, <1>12 DEF Sends
        <3>3. s <= now'
            BY <1>2, <1>6, BeamNumbers
        <3>. QED  BY <1>2, <1>6, <1>7, <1>9, <1>10, <3>1, <3>2, <3>3 DEF SenderFits
    <2>. QED  BY <2>1, <2>2 DEF SendersFit
<1>14. UnfrozenFit'
    <2>1. ASSUME NEW t \in Moments, t > now' PROVE t # s /\ t > now
        BY <1>1, <1>6, <2>1, BeamTypes, BeamNumbers
    <2>. QED  BY <1>6, <1>9, <2>1 DEF BeamInv, UnfrozenFit
<1>15. NetFits'
    BY <1>5 DEF NetFits
<1>16. ReceiversFit'
    <2>1. ASSUME NEW x \in Consoles, Active(x)' PROVE ReceiverFits(x)'
        <3>1. x # c /\ Active(x) /\ ReceiverFits(x)
            BY <1>9, <2>1 DEF Active, BeamInv, ReceiversFit
        <3>2. \A t : Stamped(x, t)' <=> Stamped(x, t)
            BY <1>9, <3>1 DEF Stamped
        <3>3. \A t : MayTake(x, t) => MayTake(x, t)'
            BY <1>6, <1>9 DEF MayTake
        <3>4. ~Complete(x)'
            BY <1>6, <1>9, <3>1 DEF Settled, Active, Complete
        <3>5. \A y \in Consoles \ {x} : y = c
            BY <3>1 DEF TwoConsoles
        <3>6. ~Heard(c, x)'
            BY <1>5, <1>7, <1>9, <3>4 DEF Heard
        <3>. QED  BY <1>5, <1>9, <3>1, <3>2, <3>3, <3>5, <3>6 DEF ReceiverFits
    <2>. QED  BY <2>1 DEF ReceiversFit
<1>17. GameIsWhole'
    BY <1>3, <1>9 DEF BeamInv, GameIsWhole
<1>18. H!Next
    BY <1>2, <1>6, <1>10 DEF H!Next, H!Freeze
<1>. QED  BY <1>8, <1>11, <1>13, <1>14, <1>15, <1>16, <1>17, <1>18 DEF BeamInv

-----------------------------------------------------------------------------
LEMMA BeamStep ==
    ASSUME TwoConsoles, BeamInv, [BeamNext]_beamVars
    PROVE  BeamInv' /\ [H!Next]_<<home, taken>>
<1>. USE DEF history
<1>1. ASSUME NEW c \in Consoles, Launch(c) \/ Quit(c)
      PROVE  BeamInv' /\ UNCHANGED <<home, taken>>
    <2>1. /\ role[c] \notin {"send", "active"}
          /\ game' = [game EXCEPT ![c] = FreshGame]
          /\ UNCHANGED <<role, snd, rcv, net, now, history>>
          /\ \E x \in {"launcher", "game"} : screen' = [screen EXCEPT ![c] = x]
        BY <1>1 DEF Launch, Quit, BeamInv, BeamTypeOK, RolesFit, RoleFits
    <2>2. /\ screen' \in [Consoles -> {"launcher", "game"}]
          /\ \A d \in Consoles \ {c} : screen'[d] = screen[d]
        BY <2>1, BeamTypes
    <2>. QED  BY <2>1, <2>2, GameChanges
<1>2. ASSUME NEW c \in Consoles, PendingExpires(c) \/ Mismatch(c) \/ Abandon(c)
      PROVE  BeamInv' /\ UNCHANGED <<home, taken>>
    <2>1. /\ role[c] # "send"
          /\ role' = [role EXCEPT ![c] = "idle"]
          /\ rcv' = [rcv EXCEPT ![c] = NoReceive]
          /\ UNCHANGED <<screen, game, snd, net, now, history>>
        BY <1>2 DEF PendingExpires, Mismatch, Abandon
    <2>. QED  BY <2>1, RoleChanges
<1>3. ASSUME NEW m \in net, RecvOffer(m) PROVE BeamInv' /\ UNCHANGED <<home, taken>>
    <2>1. m.to \in Consoles /\ m.from \in Consoles \ {m.to}
        BY BeamTypes DEF BeamInv, NetFits, DatagramFits
    <2>2. PICK w : w = [NoReceive EXCEPT !.peer = m.from]
        OBVIOUS
    <2>3. w.peer = m.from
        BY <2>2 DEF NoReceive
    <2>. QED  BY <1>3, <2>1, <2>2, <2>3, RoleChanges DEF RecvOffer
<1>4. ASSUME NEW c \in Consoles, Offer(c) \/ StartStream(c) \/ Restream(c) \/ AskAgain(c)
                                 \/ Accept(c)
      PROVE  BeamInv' /\ UNCHANGED <<home, taken>>
    <2>1. BeamInv'
        BY <1>4, OfferStep, StartStreamStep, RestreamStep, AskAgainStep, AcceptStep
    <2>. QED  BY <1>4, <2>1 DEF Offer, StartStream, Restream, AskAgain, Accept
<1>5. ASSUME NEW c \in Consoles, BeamStart(c) PROVE BeamInv' /\ H!Next
    BY <1>5, BeamStartStep
<1>6. ASSUME NEW c \in Consoles, GiveUp(c) PROVE BeamInv' /\ H!Next
    <2>1. /\ Sends(c) /\ role' = [role EXCEPT ![c] = "idle"] /\ snd' = [snd EXCEPT ![c] = NoSend]
          /\ home' = [home EXCEPT ![snd[c].moment] = "kept"]
          /\ UNCHANGED <<screen, game>> /\ UNCHANGED <<rcv, net, now, taken>>
        BY <1>6 DEF GiveUp, Looking, Confirming, Sends
    <2>. QED  BY <2>1, SessionEndStep
<1>7. ASSUME NEW c \in Consoles, Delivered(c) PROVE BeamInv' /\ H!Next
    <2>1. /\ Sends(c) /\ snd[c].ack
          /\ role' = [role EXCEPT ![c] = "idle"] /\ snd' = [snd EXCEPT ![c] = NoSend]
          /\ home' = [home EXCEPT ![snd[c].moment] = "given"]
          /\ screen' = [screen EXCEPT ![c] = "launcher"]
          /\ game' = [game EXCEPT ![c] = FreshGame] /\ UNCHANGED <<rcv, net, now, taken>>
        BY <1>7 DEF Delivered, Sends
    <2>2. taken[snd[c].moment] # {}
        BY <2>1 DEF BeamInv, SendersFit, SenderFits
    <2>. QED  BY <2>1, <2>2, SessionEndStep
<1>8. ASSUME NEW c \in Consoles, Resume(c) PROVE BeamInv' /\ [H!Next]_<<home, taken>>
    BY <1>8, ResumeStep
<1>9. ASSUME NEW m \in net, RecvAccept(m) \/ RecvConfirmation(m) \/ RecvPage(m) \/ RecvDone(m)
      PROVE  BeamInv' /\ UNCHANGED <<home, taken>>
    <2>1. m.to \in Consoles
        BY BeamTypes
    <2>2. BeamInv'
        BY <1>9, <2>1, AcceptedStep, ConfirmationStep, PageStep, DoneStep
    <2>. QED  BY <1>9, <2>2 DEF RecvAccept, RecvConfirmation, RecvPage, RecvDone
<1>10. CASE UNCHANGED beamVars
    BY <1>10 DEF beamVars, BeamInv, BeamTypeOK, RolesFit, RoleFits, SendersFit, SenderFits,
                 UnfrozenFit, NetFits, DatagramFits, ReceiversFit, ReceiverFits, GameIsWhole,
                 Sends, Active, Stamped, MayTake, Heard, Complete
<1>. QED  BY <1>1, <1>2, <1>3, <1>4, <1>5, <1>6, <1>7, <1>8, <1>9, <1>10
          DEF BeamNext, SenderStep, ReceiverStep

\* Between two consoles a game that was taken over runs on memory and registers
\* of one moment, whatever is lost, repeated or reordered.
THEOREM TakenOverIsWhole ==
    ASSUME TwoConsoles
    PROVE  BeamSpec => [](BeamTypeOK /\ GameIsWhole)
<1>1. BeamInv /\ [BeamNext]_beamVars => BeamInv'
    BY BeamStep
<1>2. BeamInit => BeamInv
    BY BeamInitially
<1>3. BeamInv => BeamTypeOK /\ GameIsWhole
    BY DEF BeamInv
<1>. QED  BY <1>1, <1>2, <1>3, PTL DEF BeamSpec

\* Between two consoles beam_send_current returns 1, and the local copy is
\* quit, only when the other has resumed that very moment.
THEOREM BeamLosesNoGame ==
    ASSUME TwoConsoles
    PROVE  BeamSpec => GameSurvives
<1>1. BeamInv /\ [BeamNext]_beamVars => BeamInv' /\ [H!Next]_<<home, taken>>
    BY BeamStep
<1>2. BeamInit => BeamInv /\ H!Init
    BY BeamInitially
<1>. QED  BY <1>1, <1>2, PTL DEF BeamSpec, GameSurvives, H!Spec, H!vars

-----------------------------------------------------------------------------
(***************************************************************************)
(* Natural numbers.                                                        *)
(***************************************************************************)
LEMMA FirstIsLeast ==
    ASSUME NEW S \in SUBSET Nat, S # {}
    PROVE  First(S) \in S
<1>1. \E m \in S : \A k \in S : ~ (<<k, m>> \in OpToRel(<, Nat))
    BY NatLessThanWellFounded, WFMin, Zenon
<1>2. PICK m \in S : \A k \in S : ~ (<<k, m>> \in OpToRel(<, Nat))
    BY <1>1
<1>3. ASSUME NEW k \in S PROVE m <= k
    <2>1. ~ (<<k, m>> \in OpToRel(<, Nat))
        BY <1>2
    <2>. QED  BY <2>1 DEF OpToRel
<1>. QED  BY <1>3 DEF First

LEMMA Quotient ==
    ASSUME NEW n \in Nat \ {0}, NEW a \in Nat
    PROVE  \E q \in Nat : \E r \in 0 .. n - 1 : a = n * q + r /\ a % n = r
BY a = n * (a \div n) + (a % n) /\ a % n \in 0 .. n - 1 /\ a \div n \in Nat

LEMMA ModUnique ==
    ASSUME NEW n \in Nat \ {0}, NEW q \in Nat, NEW r \in 0 .. n - 1
    PROVE  (n * q + r) % n = r
OBVIOUS

\* Less than two rounds of n: what a wrapped difference or successor is.
LEMMA ModOfTwo ==
    ASSUME NEW n \in Nat \ {0}, NEW a \in 0 .. n + n - 1
    PROVE  a % n = IF a < n THEN a ELSE a - n
<1>1. CASE a < n
    <2>1. a = n * 0 + a /\ a \in 0 .. n - 1
        BY <1>1
    <2>2. (n * 0 + a) % n = a
        BY <2>1, ModUnique
    <2>. QED  BY <1>1, <2>1, <2>2
<1>2. CASE a >= n
    <2>1. a = n * 1 + (a - n) /\ a - n \in 0 .. n - 1
        BY <1>2
    <2>2. (n * 1 + (a - n)) % n = a - n
        BY <2>1, ModUnique
    <2>. QED  BY <1>2, <2>1, <2>2
<1>. QED  BY <1>1, <1>2

\* The counters wrap at a multiple of the ring's size.
LEMMA ModShift ==
    ASSUME NEW n \in Nat \ {0}, NEW x \in Nat, NEW w \in Nat, w % n = 0
    PROVE  (x + w) % n = x % n
<1>1. PICK p \in Nat, r \in 0 .. n - 1 : x = n * p + r /\ x % n = r
    BY Quotient
<1>2. PICK q \in Nat : w = n * q
    <2>1. PICK q \in Nat, t \in 0 .. n - 1 : w = n * q + t /\ w % n = t
        BY Quotient
    <2>. QED  BY <2>1
<1>3. x + w = n * (p + q) + r /\ p + q \in Nat
    BY <1>1, <1>2
<1>. QED  BY <1>1, <1>3, ModUnique

\* Fewer than n steps apart are different places in a ring of n.
LEMMA ModDistinct ==
    ASSUME NEW n \in Nat \ {0}, NEW x \in Nat, NEW k \in 1 .. n - 1
    PROVE  (x + k) % n # x % n
<1>1. PICK p \in Nat, r \in 0 .. n - 1 : x = n * p + r /\ x % n = r
    BY Quotient
<1>2. CASE r + k < n
    <2>1. x + k = n * p + (r + k) /\ r + k \in 0 .. n - 1
        BY <1>1, <1>2
    <2>2. (x + k) % n = r + k
        BY <2>1, ModUnique
    <2>. QED  BY <2>2, <1>1
<1>3. CASE r + k >= n
    <2>1. x + k = n * (p + 1) + (r + k - n) /\ r + k - n \in 0 .. n - 1
          /\ p + 1 \in Nat
        BY <1>1, <1>3
    <2>2. (x + k) % n = r + k - n
        BY <2>1, ModUnique
    <2>. QED  BY <2>2, <1>1
<1>. QED  BY <1>2, <1>3

(***************************************************************************)
(* Sequences, point by point.                                              *)
(***************************************************************************)
LEMMA TailIs ==
    ASSUME NEW D, NEW s \in Seq(D), NEW t \in Seq(D), s # <<>>, Len(t) = Len(s) - 1,
           \A i \in 1 .. Len(s) - 1 : t[i] = s[i + 1]
    PROVE  t = Tail(s)
OBVIOUS

LEMMA AppendIs ==
    ASSUME NEW D, NEW s \in Seq(D), NEW t \in Seq(D), NEW d \in D, Len(t) = Len(s) + 1,
           \A i \in 1 .. Len(s) : t[i] = s[i], t[Len(t)] = d
    PROVE  Append(s, d) = t
OBVIOUS

-----------------------------------------------------------------------------
(***************************************************************************)
(* The ARP cache.                                                          *)
(***************************************************************************)
\* A peer has one entry at most, and it holds the MAC it gave last: an
\* update that finds the first entry leaves no other one behind.
CacheIsCurrent ==
    \A i \in DOMAIN arp_cache : arp_cache[i] # Nothing =>
        /\ arp_cache[i].mac = claimed[arp_cache[i].ip]
        /\ \A j \in DOMAIN arp_cache :
            arp_cache[j] # Nothing /\ arp_cache[j].ip = arp_cache[i].ip => i = j

ArpInv == LanTypeOK /\ CacheIsCurrent /\ ArpIsCurrent

LEMMA ArpInitially == LanInit => ArpInv
<1>. SUFFICES ASSUME LanInit PROVE ArpInv
    OBVIOUS
<1>1. LanTypeOK
    <2>1. ARP_CACHE \in Nat \ {0} /\ WORD \in Nat \ {0}
        BY LanAssumption
    <2>2. 0 \in 0 .. ARP_CACHE - 1 /\ 0 \in 0 .. WORD - 1
        BY <2>1
    <2>. QED  BY <2>2 DEF LanInit, LanTypeOK, Entries
<1>2. CacheIsCurrent /\ ArpIsCurrent
    BY DEF LanInit, CacheIsCurrent, ArpIsCurrent
<1>. QED  BY <1>1, <1>2 DEF ArpInv

\* The entry that is found is one that is known.
LEMMA FirstKnown ==
    ASSUME LanTypeOK, NEW ip \in Peers, Known(ip) # {}
    PROVE  /\ First(Known(ip)) \in 0 .. ARP_CACHE - 1
           /\ arp_cache[First(Known(ip))] # Nothing
           /\ arp_cache[First(Known(ip))].ip = ip
<1>1. Known(ip) \in SUBSET Nat
    BY DEF Known, LanTypeOK
<1>2. First(Known(ip)) \in Known(ip)
    BY <1>1, FirstIsLeast
<1>. QED  BY <1>2 DEF Known, LanTypeOK

\* arp_learn keeps the cache current.
LEMMA LearnKeepsCache ==
    ASSUME LanTypeOK, CacheIsCurrent, NEW ip \in Peers, NEW mac \in Macs, arp_learn(ip, mac)
    PROVE  /\ arp_cache' \in [0 .. ARP_CACHE - 1 -> Entries]
           /\ arp_next' \in 0 .. ARP_CACHE - 1
           /\ claimed' \in [Peers -> Macs \cup {Nothing}]
           /\ CacheIsCurrent'
<1>1. claimed' = [claimed EXCEPT ![ip] = mac] /\ claimed' \in [Peers -> Macs \cup {Nothing}]
    BY DEF arp_learn, LanTypeOK
<1>2. CASE Known(ip) = {}
    <2>1. /\ arp_cache' = [arp_cache EXCEPT ![arp_next] = [ip |-> ip, mac |-> mac]]
          /\ arp_next' = (arp_next + 1) % ARP_CACHE
        BY <1>2 DEF arp_learn, Remember
    <2>2. arp_next' \in 0 .. ARP_CACHE - 1
        BY <2>1, LanAssumption DEF LanTypeOK
    <2>3. arp_cache' \in [0 .. ARP_CACHE - 1 -> Entries]
        BY <2>1 DEF LanTypeOK, Entries
    <2>4. \A i \in 0 .. ARP_CACHE - 1 : arp_cache[i] # Nothing => arp_cache[i].ip # ip
        BY <1>2 DEF Known, LanTypeOK
    <2>5. CacheIsCurrent'
        BY <1>1, <2>1, <2>3, <2>4 DEF CacheIsCurrent, LanTypeOK, Entries
    <2>. QED  BY <1>1, <2>2, <2>3, <2>5
<1>3. CASE Known(ip) # {}
    <2>. DEFINE f == First(Known(ip))
    <2>1. f \in 0 .. ARP_CACHE - 1 /\ arp_cache[f] # Nothing /\ arp_cache[f].ip = ip
        BY <1>3, FirstKnown
    <2>2. arp_cache' = [arp_cache EXCEPT ![f].mac = mac] /\ arp_next' = arp_next
        BY <1>3 DEF arp_learn
    <2>. HIDE DEF f
    <2>3. arp_cache[f] \in [ip : Peers, mac : Macs]
        BY <2>1 DEF LanTypeOK, Entries
    <2>4. arp_cache' = [arp_cache EXCEPT ![f] = [ip |-> ip, mac |-> mac]]
        <3>1. [arp_cache[f] EXCEPT !.mac = mac] = [ip |-> ip, mac |-> mac]
            BY <2>1, <2>3
        <3>. QED  BY <2>2, <3>1
    <2>5. arp_cache' \in [0 .. ARP_CACHE - 1 -> Entries]
        BY <2>4 DEF LanTypeOK, Entries
    <2>6. CacheIsCurrent'
        BY <1>1, <2>1, <2>4, <2>5 DEF CacheIsCurrent, LanTypeOK, Entries
    <2>. QED  BY <1>1, <2>2, <2>5, <2>6 DEF LanTypeOK
<1>. QED  BY <1>2, <1>3

\* Only the addressee's entry is read, at the moment of sending.
LEMMA ReachIsCurrent ==
    ASSUME ArpInv, NEW ip \in Peers, Reach(ip)
    PROVE  ArpInv'
<1>1. /\ UNCHANGED <<arp_cache, arp_next, claimed, udp_port, udp_q, udp_head, udp_tail, got>>
      /\ IF arp_find(ip) = Nothing THEN sent' = Nothing
         ELSE sent' = [mac |-> arp_find(ip), ip |-> ip]
    BY DEF Reach, udpVars, arp_request, udp_tx, send_ip
<1>2. CASE arp_find(ip) = Nothing
    BY <1>1, <1>2 DEF ArpInv, LanTypeOK, CacheIsCurrent, ArpIsCurrent, Entries
<1>3. CASE arp_find(ip) # Nothing
    <2>1. Known(ip) # {} /\ arp_find(ip) = arp_cache[First(Known(ip))].mac
        BY <1>3 DEF arp_find
    <2>2. /\ First(Known(ip)) \in 0 .. ARP_CACHE - 1
          /\ arp_cache[First(Known(ip))] # Nothing
          /\ arp_cache[First(Known(ip))].ip = ip
        BY <2>1, FirstKnown DEF ArpInv
    <2>3. arp_find(ip) = claimed[ip] /\ arp_find(ip) \in Macs
        BY <2>1, <2>2 DEF ArpInv, LanTypeOK, CacheIsCurrent, Entries
    <2>4. sent' = [mac |-> claimed[ip], ip |-> ip] /\ sent' \in Entries
        BY <1>1, <1>3, <2>3 DEF Entries
    <2>. QED  BY <1>1, <2>4 DEF ArpInv, LanTypeOK, CacheIsCurrent, ArpIsCurrent
<1>. QED  BY <1>2, <1>3

LEMMA ArpStep == ArpInv /\ [LanNext]_lanVars => ArpInv'
<1>. SUFFICES ASSUME ArpInv, [LanNext]_lanVars PROVE ArpInv'
    OBVIOUS
<1>. USE LanAssumption
<1>1. CASE UdpBind
    BY <1>1 DEF UdpBind, ArpInv, LanTypeOK, CacheIsCurrent, ArpIsCurrent, Entries
<1>2. CASE UdpReceive
    <2>1. /\ UNCHANGED <<arp_cache, arp_next, claimed, udp_port, udp_q, udp_tail>>
          /\ sent' = Nothing
        BY <1>2 DEF UdpReceive
    <2>2. got' \in Datagrams \cup {Nothing} /\ udp_head' \in 0 .. WORD - 1
        BY <1>2 DEF UdpReceive, ArpInv, LanTypeOK, Slots
    <2>. QED  BY <2>1, <2>2 DEF ArpInv, LanTypeOK, CacheIsCurrent, ArpIsCurrent, Entries
<1>3. ASSUME NEW ip \in Peers, net_udp_send(ip) \/ net_beam_send(ip) PROVE ArpInv'
    BY <1>3, ReachIsCurrent DEF net_udp_send, net_beam_send
<1>4. ASSUME NEW ip \in Peers, NEW mac \in Macs, HandleArp(ip, mac) PROVE ArpInv'
    <2>1. arp_learn(ip, mac) /\ sent' = Nothing
          /\ UNCHANGED <<udp_port, udp_q, udp_head, udp_tail, got>>
        BY <1>4 DEF HandleArp, udpVars
    <2>. QED  BY <2>1, LearnKeepsCache DEF ArpInv, LanTypeOK, ArpIsCurrent, Entries
<1>5. ASSUME NEW ip \in Peers, NEW mac \in Macs, NEW d \in Datagrams, HandleUdp(ip, mac, d)
      PROVE  ArpInv'
    <2>1. arp_learn(ip, mac) /\ sent' = Nothing /\ UNCHANGED <<udp_port, udp_head, got>>
        BY <1>5 DEF HandleUdp
    <2>2. udp_q' \in [Slots -> Datagrams \cup {Nothing}]
        BY <1>5 DEF HandleUdp, ArpInv, LanTypeOK
    <2>3. udp_tail' \in 0 .. WORD - 1
        BY <1>5 DEF HandleUdp, ArpInv, LanTypeOK
    <2>. QED  BY <2>1, <2>2, <2>3, LearnKeepsCache DEF ArpInv, LanTypeOK, ArpIsCurrent, Entries
<1>6. CASE UNCHANGED lanVars
    BY <1>6 DEF lanVars, arpVars, udpVars, ArpInv, LanTypeOK, CacheIsCurrent, ArpIsCurrent
<1>. QED  BY <1>1, <1>2, <1>3, <1>4, <1>5, <1>6 DEF LanNext

\* No datagram of net.c goes to a MAC its addressee has given up, for every
\* number of peers and every size of the cache.
THEOREM SentIsCurrent == LanSpec => [](LanTypeOK /\ ArpIsCurrent)
<1>1. ArpInv => LanTypeOK /\ ArpIsCurrent
    BY DEF ArpInv
<1>. QED  BY <1>1, ArpInitially, ArpStep, PTL DEF LanSpec

-----------------------------------------------------------------------------
(***************************************************************************)
(* The socket's ring as a queue.                                           *)
(***************************************************************************)
\* Where the i-th waiting datagram lies when the head is h.
Place(h, i) == (h + i - 1) % UDP_QUEUE

Waiting == [i \in 1 .. Pending |-> udp_q[Place(udp_head, i)]]

SocketInv ==
    /\ Pending \in 0 .. UDP_QUEUE
    /\ \A i \in 1 .. Pending : udp_q[Place(udp_head, i)] \in Datagrams

LEMMA LanNumbers ==
    /\ UDP_QUEUE \in Nat \ {0} /\ WORD \in Nat \ {0}
    /\ WORD % UDP_QUEUE = 0 /\ UDP_QUEUE < WORD
BY LanAssumption

LEMMA DifferenceIs ==
    ASSUME NEW h \in 0 .. WORD - 1, NEW t \in 0 .. WORD - 1
    PROVE  (t + WORD - h) % WORD = IF t >= h THEN t - h ELSE t + WORD - h
<1>. DEFINE a == t + WORD - h
<1>1. a \in 0 .. WORD + WORD - 1 /\ (a < WORD <=> t < h) /\ WORD \in Nat \ {0}
    BY LanNumbers
<1>2. a % WORD = IF a < WORD THEN a ELSE a - WORD
    BY <1>1, ModOfTwo
<1>. QED  BY <1>1, <1>2

LEMMA PendingIs ==
    ASSUME udp_head \in 0 .. WORD - 1, udp_tail \in 0 .. WORD - 1
    PROVE  Pending = IF udp_tail >= udp_head THEN udp_tail - udp_head
                     ELSE udp_tail + WORD - udp_head
BY DifferenceIs DEF Pending

\* The next place is the same whether or not the counter has wrapped.
LEMMA NextWord ==
    ASSUME NEW c \in 0 .. WORD - 1
    PROVE  (c + 1) % WORD = IF c + 1 = WORD THEN 0 ELSE c + 1
<1>. DEFINE a == c + 1
<1>1. a \in 0 .. WORD + WORD - 1 /\ WORD \in Nat \ {0}
    BY LanNumbers
<1>. HIDE DEF a
<1>2. a % WORD = IF a < WORD THEN a ELSE a - WORD
    BY <1>1, ModOfTwo
<1>. QED  BY <1>1, <1>2 DEF a

LEMMA PlaceAfterWrap ==
    ASSUME NEW h \in 0 .. WORD - 1, NEW i \in Nat \ {0}
    PROVE  Place((h + 1) % WORD, i) = Place(h, i + 1)
<1>1. CASE h + 1 = WORD
    <2>1. (h + 1) % WORD = 0
        BY <1>1, NextWord
    <2>2. h + (i + 1) - 1 = (i - 1) + WORD /\ i - 1 \in Nat
        BY <1>1, LanNumbers
    <2>3. ((i - 1) + WORD) % UDP_QUEUE = (i - 1) % UDP_QUEUE
        BY <2>2, ModShift, LanNumbers
    <2>. QED  BY <2>1, <2>2, <2>3, LanNumbers DEF Place
<1>2. CASE h + 1 # WORD
    <2>1. (h + 1) % WORD = h + 1
        BY <1>2, NextWord
    <2>2. h + 1 + i - 1 = h + (i + 1) - 1
        BY LanNumbers
    <2>. QED  BY <2>1, <2>2 DEF Place
<1>. QED  BY <1>1, <1>2

LEMMA PlaceOfTail ==
    ASSUME udp_head \in 0 .. WORD - 1, udp_tail \in 0 .. WORD - 1
    PROVE  udp_tail % UDP_QUEUE = Place(udp_head, Pending + 1)
<1>. USE LanNumbers
<1>1. CASE udp_tail >= udp_head
    <2>1. udp_head + (Pending + 1) - 1 = udp_tail
        BY <1>1, PendingIs
    <2>. QED  BY <2>1 DEF Place
<1>2. CASE udp_tail < udp_head
    <2>. udp_tail \in Nat
        OBVIOUS
    <2>1. udp_head + (Pending + 1) - 1 = udp_tail + WORD
        BY <1>2, PendingIs
    <2>2. (udp_tail + WORD) % UDP_QUEUE = udp_tail % UDP_QUEUE
        BY ModShift
    <2>. QED  BY <2>1, <2>2 DEF Place
<1>. QED  BY <1>1, <1>2

LEMMA PlacesDiffer ==
    ASSUME NEW h \in 0 .. WORD - 1, NEW n \in 0 .. UDP_QUEUE - 1, NEW i \in 1 .. n
    PROVE  Place(h, i) # Place(h, n + 1)
<1>. USE LanNumbers
<1>1. (h + i - 1) + (n + 1 - i) = h + (n + 1) - 1 /\ h + i - 1 \in Nat
      /\ n + 1 - i \in 1 .. UDP_QUEUE - 1
    OBVIOUS
<1>. QED  BY <1>1, ModDistinct DEF Place

LEMMA PlaceIsSlot ==
    ASSUME NEW h \in 0 .. WORD - 1, NEW i \in Nat \ {0}
    PROVE  Place(h, i) \in Slots
<1>1. h + i - 1 \in Nat /\ UDP_QUEUE \in Nat \ {0}
    BY LanNumbers
<1>. QED  BY <1>1 DEF Place, Slots

LEMMA WaitingIsSeq ==
    ASSUME SocketInv
    PROVE  /\ Waiting \in Seq(Datagrams) /\ Len(Waiting) = Pending
           /\ \A i \in 1 .. Pending : Waiting[i] = udp_q[Place(udp_head, i)]
<1>1. Pending \in Nat
    BY LanNumbers DEF SocketInv
<1>2. Waiting \in [1 .. Pending -> Datagrams]
    BY DEF SocketInv, Waiting
<1>. QED  BY <1>1, <1>2 DEF Waiting

\* The two counters and what is in the ring, before and after a step.
LEMMA SocketInitially ==
    LanInit => SocketInv /\ Socket!Init
<1>. SUFFICES ASSUME LanInit PROVE SocketInv /\ Socket!Init
    OBVIOUS
<1>1. udp_head = 0 /\ udp_tail = 0 /\ got = Nothing
    BY DEF LanInit
<1>2. Pending = 0
    BY <1>1, PendingIs, LanNumbers
<1>3. SocketInv
    BY <1>2, LanNumbers DEF SocketInv
<1>. QED  BY <1>1, <1>2, <1>3 DEF Socket!Init

LEMMA BindStep ==
    ASSUME ArpInv, SocketInv, UdpBind
    PROVE  SocketInv' /\ Socket!Bind
<1>1. udp_head' = 0 /\ udp_tail' = 0 /\ got' = got
    BY DEF UdpBind
<1>2. Pending' = (0 + WORD - 0) % WORD
    BY <1>1 DEF Pending
<1>3. Pending' = 0
    BY <1>2, LanNumbers
<1>4. SocketInv'
    BY <1>3, LanNumbers DEF SocketInv
<1>. QED  BY <1>1, <1>3, <1>4 DEF Socket!Bind

LEMMA ReceiveStep ==
    ASSUME ArpInv, SocketInv, UdpReceive
    PROVE  SocketInv' /\ Socket!Receive
<1>0. LanTypeOK /\ LanTypeOK'
    BY ArpStep DEF ArpInv, LanNext
<1>1. udp_tail' = udp_tail /\ udp_q' = udp_q
    BY DEF UdpReceive
<1>2. Waiting \in Seq(Datagrams) /\ Len(Waiting) = Pending
      /\ \A i \in 1 .. Pending : Waiting[i] = udp_q[Place(udp_head, i)]
    BY WaitingIsSeq
<1>3. CASE udp_head = udp_tail
    <2>1. got' = Nothing /\ udp_head' = udp_head
        BY <1>3 DEF UdpReceive
    <2>2. Pending = 0 /\ Pending' = Pending
        BY <1>0, <1>1, <1>3, <2>1, PendingIs, LanNumbers DEF LanTypeOK, Pending
    <2>3. SocketInv'
        BY <1>1, <2>1, <2>2 DEF SocketInv, Place
    <2>4. Waiting = <<>> /\ Waiting' = Waiting
        BY <1>1, <2>1, <2>2 DEF Waiting, Place
    <2>. QED  BY <2>1, <2>3, <2>4 DEF Socket!Receive, Waiting, Place
<1>4. CASE udp_head # udp_tail
    <2>1. got' = udp_q[udp_head % UDP_QUEUE] /\ udp_head' = (udp_head + 1) % WORD
        BY <1>4 DEF UdpReceive
    <2>2. udp_head' = IF udp_head + 1 = WORD THEN 0 ELSE udp_head + 1
        BY <1>0, <2>1, NextWord DEF LanTypeOK
    <2>3. Pending \in Nat \ {0} /\ Pending' = Pending - 1
        <3>1. Pending = IF udp_tail >= udp_head THEN udp_tail - udp_head
                        ELSE udp_tail + WORD - udp_head
            BY <1>0, PendingIs DEF LanTypeOK
        <3>2. Pending' = IF udp_tail' >= udp_head' THEN udp_tail' - udp_head'
                         ELSE udp_tail' + WORD - udp_head'
            BY <1>0, DifferenceIs DEF LanTypeOK, Pending
        <3>. QED  BY <1>0, <1>1, <1>4, <2>2, <3>1, <3>2, LanNumbers DEF LanTypeOK
    <2>4. ASSUME NEW i \in Nat \ {0} PROVE Place(udp_head', i) = Place(udp_head, i + 1)
        BY <1>0, <2>1, PlaceAfterWrap DEF LanTypeOK
    <2>5. Pending \in 1 .. UDP_QUEUE /\ Pending' \in 0 .. UDP_QUEUE
          /\ \A i \in 1 .. Pending' : i \in Nat \ {0} /\ i + 1 \in 1 .. Pending
        BY <2>3, LanNumbers DEF SocketInv
    <2>6. SocketInv'
        BY <1>1, <2>4, <2>5 DEF SocketInv
    <2>7. Waiting # <<>> /\ Waiting' = Tail(Waiting)
        <3>1. Waiting' = [i \in 1 .. Pending' |-> udp_q[Place(udp_head', i)]]
            BY <1>1 DEF Waiting
        <3>2. Waiting' \in Seq(Datagrams) /\ Len(Waiting') = Pending'
            BY <1>1, <2>5, <2>6, <3>1 DEF SocketInv
        <3>3. \A i \in 1 .. Pending' : Waiting'[i] = Waiting[i + 1]
            BY <1>2, <2>4, <2>5, <3>1
        <3>4. Waiting # <<>> /\ Len(Waiting') = Len(Waiting) - 1
              /\ \A i \in 1 .. Len(Waiting) - 1 : Waiting'[i] = Waiting[i + 1]
            BY <1>2, <2>3, <3>2, <3>3
        <3>. QED  BY <1>2, <3>2, <3>4, TailIs
    <2>8. Head(Waiting) = udp_q[udp_head % UDP_QUEUE]
        <3>1. Head(Waiting) = Waiting[1] /\ 1 \in 1 .. Pending
            BY <1>2, <2>3
        <3>2. udp_head + 1 - 1 = udp_head
            BY <1>0, LanNumbers DEF LanTypeOK
        <3>. QED  BY <1>2, <3>1, <3>2 DEF Place
    <2>. QED  BY <2>1, <2>6, <2>7, <2>8 DEF Socket!Receive, Waiting, Place
<1>. QED  BY <1>3, <1>4

LEMMA DeliverStep ==
    ASSUME ArpInv, SocketInv, NEW ip \in Peers, NEW mac \in Macs, NEW d \in Datagrams,
           HandleUdp(ip, mac, d), ~Full
    PROVE  SocketInv' /\ Socket!Deliver
<1>0. LanTypeOK /\ LanTypeOK'
    BY ArpStep DEF ArpInv, LanNext
<1>1. /\ udp_q' = [udp_q EXCEPT ![udp_tail % UDP_QUEUE] = d]
      /\ udp_tail' = (udp_tail + 1) % WORD
      /\ udp_head' = udp_head /\ got' = got
    BY DEF HandleUdp
<1>2. Pending \in 0 .. UDP_QUEUE - 1
    BY LanNumbers DEF SocketInv, Full
<1>3. udp_tail' = IF udp_tail + 1 = WORD THEN 0 ELSE udp_tail + 1
    BY <1>0, <1>1, NextWord DEF LanTypeOK
<1>4. Pending' = Pending + 1
    <2>1. Pending = IF udp_tail >= udp_head THEN udp_tail - udp_head
                    ELSE udp_tail + WORD - udp_head
        BY <1>0, PendingIs DEF LanTypeOK
    <2>2. Pending' = IF udp_tail' >= udp_head' THEN udp_tail' - udp_head'
                     ELSE udp_tail' + WORD - udp_head'
        BY <1>0, DifferenceIs DEF LanTypeOK, Pending
    <2>. QED  BY <1>0, <1>1, <1>2, <1>3, <2>1, <2>2, LanNumbers DEF LanTypeOK
<1>5. udp_q' = [udp_q EXCEPT ![Place(udp_head, Pending + 1)] = d]
      /\ Place(udp_head, Pending + 1) \in Slots
    <2>1. udp_tail % UDP_QUEUE = Place(udp_head, Pending + 1)
        BY <1>0, PlaceOfTail DEF LanTypeOK
    <2>2. Place(udp_head, Pending + 1) \in Slots
        <3>1. Pending + 1 \in Nat \ {0}
            BY <1>2, LanNumbers
        <3>. QED  BY <1>0, <3>1, PlaceIsSlot DEF LanTypeOK
    <2>. QED  BY <1>1, <2>1, <2>2
<1>6. ASSUME NEW i \in 1 .. Pending
      PROVE  udp_q'[Place(udp_head, i)] = udp_q[Place(udp_head, i)]
    <2>1. Place(udp_head, i) # Place(udp_head, Pending + 1)
        BY <1>0, <1>2, PlacesDiffer DEF LanTypeOK
    <2>2. Place(udp_head, i) \in Slots
        BY <1>0, <1>2, PlaceIsSlot DEF LanTypeOK
    <2>. QED  BY <1>0, <1>5, <2>1, <2>2 DEF LanTypeOK
<1>7. udp_q'[Place(udp_head, Pending + 1)] = d
    BY <1>0, <1>5 DEF LanTypeOK
<1>8. SocketInv'
    <2>1. Pending' \in 0 .. UDP_QUEUE
          /\ \A i \in 1 .. Pending' : i \in 1 .. Pending \/ i = Pending + 1
        BY <1>2, <1>4, LanNumbers
    <2>. QED  BY <1>1, <1>6, <1>7, <2>1 DEF SocketInv
<1>9. Waiting' = Append(Waiting, d) /\ Len(Waiting) < UDP_QUEUE
    <2>1. Waiting \in Seq(Datagrams) /\ Len(Waiting) = Pending
          /\ \A i \in 1 .. Pending : Waiting[i] = udp_q[Place(udp_head, i)]
        BY WaitingIsSeq
    <2>2. Waiting' = [i \in 1 .. Pending + 1 |-> udp_q'[Place(udp_head, i)]]
        BY <1>1, <1>4 DEF Waiting
    <2>3. Waiting' \in Seq(Datagrams) /\ Len(Waiting') = Pending + 1
        BY <1>1, <1>2, <1>4, <1>8, <2>2 DEF SocketInv
    <2>4. /\ \A i \in 1 .. Len(Waiting) : Waiting'[i] = Waiting[i]
          /\ Waiting'[Len(Waiting')] = d
        BY <1>2, <1>6, <1>7, <2>1, <2>2, <2>3
    <2>5. Append(Waiting, d) = Waiting'
        BY <2>1, <2>3, <2>4, AppendIs
    <2>. QED  BY <1>2, <2>1, <2>5, LanNumbers
<1>. QED  BY <1>1, <1>8, <1>9 DEF Socket!Deliver, Waiting, Place

LEMMA SocketStutters ==
    ASSUME SocketInv, UNCHANGED <<udp_q, udp_head, udp_tail, got>>
    PROVE  SocketInv' /\ UNCHANGED <<Waiting, got>>
BY DEF SocketInv, Pending, Place, Waiting

LEMMA SocketStep ==
    ArpInv /\ SocketInv /\ [LanNext]_lanVars
        => SocketInv' /\ [Socket!Next]_<<Waiting, got>>
<1>. SUFFICES ASSUME ArpInv, SocketInv, [LanNext]_lanVars
              PROVE  SocketInv' /\ [Socket!Next]_<<Waiting, got>>
    OBVIOUS
<1>1. CASE UdpBind
    BY <1>1, BindStep DEF Socket!Next
<1>2. CASE UdpReceive
    BY <1>2, ReceiveStep DEF Socket!Next
<1>3. ASSUME NEW ip \in Peers, net_udp_send(ip) \/ net_beam_send(ip)
      PROVE  SocketInv' /\ UNCHANGED <<Waiting, got>>
    BY <1>3, SocketStutters DEF net_udp_send, net_beam_send, Reach, udpVars
<1>4. ASSUME NEW ip \in Peers, NEW mac \in Macs, HandleArp(ip, mac)
      PROVE  SocketInv' /\ UNCHANGED <<Waiting, got>>
    BY <1>4, SocketStutters DEF HandleArp, udpVars
<1>5. ASSUME NEW ip \in Peers, NEW mac \in Macs, NEW d \in Datagrams, HandleUdp(ip, mac, d)
      PROVE  SocketInv' /\ [Socket!Next]_<<Waiting, got>>
    <2>1. CASE Full
        BY <1>5, <2>1, SocketStutters DEF HandleUdp
    <2>2. CASE ~Full
        BY <1>5, <2>2, DeliverStep DEF Socket!Next
    <2>. QED  BY <2>1, <2>2
<1>6. CASE UNCHANGED lanVars
    BY <1>6, SocketStutters DEF lanVars, udpVars
<1>. QED  BY <1>1, <1>2, <1>3, <1>4, <1>5, <1>6 DEF LanNext

\* For every size of the ring that divides the word of its counters, SYS_NET's
\* socket is the queue of module UdpSocket.
THEOREM RingIsAQueue == LanSpec => UdpIsFifo
<1>1. Waiting = [i \in 1 .. Pending |-> udp_q[(udp_head + i - 1) % UDP_QUEUE]]
    BY DEF Waiting, Place
<1>2. LanInit => ArpInv /\ SocketInv /\ Socket!Init
    BY ArpInitially, SocketInitially
<1>3. ArpInv /\ SocketInv /\ [LanNext]_lanVars
        => ArpInv' /\ SocketInv' /\ [Socket!Next]_<<Waiting, got>>
    BY ArpStep, SocketStep
<1>. QED  BY <1>2, <1>3, PTL DEF LanSpec, UdpIsFifo, Socket!Spec, Waiting, Place

-----------------------------------------------------------------------------
(***************************************************************************)
(* The DHCP client, when no two consoles start at the same tick.           *)
(***************************************************************************)
\* What a console asks bears its own id; what was granted to an id is leased
\* to it for good.
MessagesAreTrue ==
    \A m \in lan :
        /\ m.msg.type = "request" => m.msg.xid = m.from
        /\ m.msg.type = "ack" => m.msg.ip \in Pool /\ lease[m.msg.ip] = {m.msg.xid}

\* A console's address is its lease once it is bound, the static one before
\* and without.
AddressesAreOwn ==
    \A h \in Hosts :
        IF dh[h].state = "BOUND" THEN dh[h].ip \in Pool /\ lease[dh[h].ip] = {h}
        ELSE dh[h].ip = Static(h)

DhcpInv == DhcpTypeOK /\ MessagesAreTrue /\ AddressesAreOwn

Address == [h \in Hosts |-> IF Trying(h) THEN <<>> ELSE dh[h].ip]

LEMMA DhcpNumbers ==
    /\ PoolSize \in Nat \ {0} /\ DEADLINE \in Nat \ {0} /\ RETRY \in Nat \ {0}
BY DhcpAssumption

LEMMA StaticIsOwn ==
    /\ \A h \in Hosts : Static(h) \in Addresses /\ Static(h) \notin Pool
    /\ \A h, g \in Hosts : Static(h) = Static(g) => h = g
    /\ Pool \subseteq Addresses
    /\ \A a \in Addresses : a # <<>>
<1>1. \A n \in 1 .. PoolSize : n # 0
    BY DhcpNumbers
<1>. QED  BY <1>1 DEF Static, Pool, Addresses

LEMMA DhcpInitially == DhcpInit => DhcpInv
<1>. SUFFICES ASSUME DhcpInit PROVE DhcpInv
    OBVIOUS
<1>1. DhcpTypeOK
    <2>1. 0 \in 0 .. DEADLINE + RETRY /\ 0 \in 0 .. DEADLINE + 1
        BY DhcpNumbers
    <2>. QED  BY <2>1, StaticIsOwn DEF DhcpInit, DhcpTypeOK, DhcpStates
<1>2. MessagesAreTrue /\ AddressesAreOwn
    BY DEF DhcpInit, MessagesAreTrue, AddressesAreOwn
<1>. QED  BY <1>1, <1>2 DEF DhcpInv

\* One console's record changes, and nothing else.
LEMMA HostStep ==
    ASSUME DhcpInv, NEW h \in Hosts,
           NEW r \in [state : DhcpStates, ip : Addresses, offer : Addresses,
                      next_tx : 0 .. DEADLINE + RETRY],
           dh' = [dh EXCEPT ![h] = r], UNCHANGED <<ticks, lan, lease>>,
           IF r.state = "BOUND" THEN r.ip \in Pool /\ lease[r.ip] = {h} ELSE r.ip = Static(h)
    PROVE  DhcpInv'
<1>1. DhcpTypeOK'
    BY DEF DhcpInv, DhcpTypeOK
<1>2. MessagesAreTrue'
    BY DEF DhcpInv, MessagesAreTrue
<1>3. AddressesAreOwn'
    BY DEF DhcpInv, DhcpTypeOK, AddressesAreOwn
<1>. QED  BY <1>1, <1>2, <1>3 DEF DhcpInv

\* A message is added, and nothing else.
LEMMA BroadcastIsTyped ==
    ASSUME DhcpTypeOK, NEW from \in Hosts \cup Servers,
           NEW type \in {"discover", "offer", "request", "ack"}, NEW xid \in Hosts,
           NEW ip \in Addresses, Broadcast(from, type, xid, ip)
    PROVE  lan' \subseteq [msg : Messages, from : Hosts \cup Servers]
BY DEF DhcpTypeOK, Broadcast, Messages

LEMMA DeadlineStep ==
    ASSUME DhcpInv, NEW h \in Hosts, DeadlinePasses(h)
    PROVE  /\ DhcpInv' /\ Trying(h) /\ UNCHANGED lease
           /\ dh' = [dh EXCEPT ![h] = [dh[h] EXCEPT !.state = "FAILED"]]
           /\ dh'[h].state = "FAILED" /\ dh'[h].ip = Static(h)
<1>. DEFINE r == [dh[h] EXCEPT !.state = "FAILED"]
<1>1. dh' = [dh EXCEPT ![h] = r] /\ UNCHANGED <<ticks, lan, lease>> /\ Trying(h)
    BY DEF DeadlinePasses
<1>2. /\ r \in [state : DhcpStates, ip : Addresses, offer : Addresses,
                next_tx : 0 .. DEADLINE + RETRY]
      /\ r.state = "FAILED" /\ r.ip = dh[h].ip
    BY DEF DhcpInv, DhcpTypeOK, DhcpStates
<1>3. r.ip = Static(h)
    BY <1>1, <1>2 DEF DhcpInv, AddressesAreOwn, Trying
<1>4. DhcpInv'
    <2>. HIDE DEF r
    <2>. QED  BY <1>1, <1>2, <1>3, HostStep
<1>. QED  BY <1>1, <1>2, <1>3, <1>4 DEF DhcpInv, DhcpTypeOK

LEMMA TransmitStep ==
    ASSUME ~SameTick, DhcpInv, NEW h \in Hosts, Transmit(h)
    PROVE  DhcpInv' /\ UNCHANGED <<Address, lease>>
<1>. DEFINE r == [dh[h] EXCEPT !.next_tx = ticks + RETRY]
<1>1. /\ dh' = [dh EXCEPT ![h] = r] /\ UNCHANGED <<ticks, lease>>
      /\ ticks \in 0 .. DEADLINE
    BY DhcpNumbers DEF Transmit, DhcpInv, DhcpTypeOK
<1>2. /\ r \in [state : DhcpStates, ip : Addresses, offer : Addresses,
                next_tx : 0 .. DEADLINE + RETRY]
      /\ r.state = dh[h].state /\ r.ip = dh[h].ip
    <2>1. ticks + RETRY \in 0 .. DEADLINE + RETRY
        BY <1>1, DhcpNumbers
    <2>. QED  BY <2>1 DEF DhcpInv, DhcpTypeOK
<1>3. PICK type \in {"discover", "request"}, ip \in Addresses :
        Broadcast(h, type, h, ip)
    BY StaticIsOwn DEF Transmit, Xid, DhcpInv, DhcpTypeOK
<1>4. DhcpTypeOK'
    BY <1>1, <1>2, <1>3, BroadcastIsTyped DEF DhcpInv, DhcpTypeOK
<1>5. MessagesAreTrue'
    BY <1>1, <1>3 DEF DhcpInv, MessagesAreTrue, Broadcast
<1>6. AddressesAreOwn'
    BY <1>1, <1>2 DEF DhcpInv, DhcpTypeOK, AddressesAreOwn
<1>7. \A g \in Hosts : dh'[g].state = dh[g].state /\ dh'[g].ip = dh[g].ip
    BY <1>1, <1>2 DEF DhcpInv, DhcpTypeOK
<1>. QED  BY <1>1, <1>4, <1>5, <1>6, <1>7 DEF DhcpInv, Address, Trying

LEMMA OfferedStep ==
    ASSUME DhcpInv, NEW h \in Hosts, NEW m \in lan, RecvOffered(h, m)
    PROVE  DhcpInv' /\ UNCHANGED <<Address, lease>>
<1>. DEFINE r == [dh[h] EXCEPT !.state = "REQUEST", !.offer = m.msg.ip, !.next_tx = 0]
<1>1. dh' = [dh EXCEPT ![h] = r] /\ UNCHANGED <<ticks, lan, lease>>
      /\ dh[h].state = "DISCOVER"
    BY DEF RecvOffered
<1>2. /\ r \in [state : DhcpStates, ip : Addresses, offer : Addresses,
                next_tx : 0 .. DEADLINE + RETRY]
      /\ r.state = "REQUEST" /\ r.ip = dh[h].ip
    <2>1. m.msg.ip \in Addresses /\ 0 \in 0 .. DEADLINE + RETRY
        BY DhcpNumbers DEF DhcpInv, DhcpTypeOK, Messages
    <2>2. "REQUEST" \in DhcpStates
        BY DEF DhcpStates
    <2>. QED  BY <2>1, <2>2 DEF DhcpInv, DhcpTypeOK
<1>3. r.ip = Static(h)
    BY <1>1, <1>2 DEF DhcpInv, AddressesAreOwn
<1>4. DhcpInv'
    <2>. HIDE DEF r
    <2>. QED  BY <1>1, <1>2, <1>3, HostStep
<1>5. \A g \in Hosts : Trying(g)' = Trying(g) /\ (~Trying(g) => dh'[g].ip = dh[g].ip)
    BY <1>1, <1>2 DEF Trying, DhcpInv, DhcpTypeOK
<1>. QED  BY <1>1, <1>4, <1>5 DEF Address

LEMMA AckStep ==
    ASSUME ~SameTick, DhcpInv, NEW h \in Hosts, NEW m \in lan, RecvAck(h, m)
    PROVE  /\ DhcpInv' /\ Trying(h) /\ UNCHANGED lease
           /\ dh' = [dh EXCEPT ![h] = [dh[h] EXCEPT !.state = "BOUND", !.ip = m.msg.ip]]
           /\ dh'[h].state = "BOUND" /\ dh'[h].ip = m.msg.ip
           /\ m.msg.ip \in Pool /\ lease[m.msg.ip] = {h}
<1>. DEFINE r == [dh[h] EXCEPT !.state = "BOUND", !.ip = m.msg.ip]
<1>1. dh' = [dh EXCEPT ![h] = r] /\ UNCHANGED <<ticks, lan, lease>> /\ Trying(h)
      /\ m.msg.type = "ack" /\ m.msg.xid = h
    BY DEF RecvAck, Trying, For, Xid
<1>2. /\ r \in [state : DhcpStates, ip : Addresses, offer : Addresses,
                next_tx : 0 .. DEADLINE + RETRY]
      /\ r.state = "BOUND" /\ r.ip = m.msg.ip
    BY DEF DhcpInv, DhcpTypeOK, DhcpStates, Messages
<1>3. m.msg.ip \in Pool /\ lease[m.msg.ip] = {h}
    BY <1>1 DEF DhcpInv, MessagesAreTrue
<1>4. DhcpInv'
    <2>. HIDE DEF r
    <2>. QED  BY <1>1, <1>2, <1>3, HostStep
<1>. QED  BY <1>1, <1>2, <1>3, <1>4 DEF DhcpInv, DhcpTypeOK

LEMMA OffersStep ==
    ASSUME DhcpInv, NEW s \in Servers, NEW m \in lan, NEW a \in Pool, ServerOffers(s, m, a)
    PROVE  DhcpInv' /\ UNCHANGED <<Address, lease>>
<1>1. Broadcast(s, "offer", m.msg.xid, a) /\ UNCHANGED <<dh, ticks, lease>>
    BY DEF ServerOffers
<1>2. DhcpTypeOK'
    <2>1. m.msg.xid \in Hosts /\ a \in Addresses
        BY StaticIsOwn DEF DhcpInv, DhcpTypeOK, Messages
    <2>2. lan' \subseteq [msg : Messages, from : Hosts \cup Servers]
        BY <1>1, <2>1, BroadcastIsTyped DEF DhcpInv
    <2>. QED  BY <1>1, <2>2 DEF DhcpInv, DhcpTypeOK
<1>3. MessagesAreTrue' /\ AddressesAreOwn'
    BY <1>1 DEF DhcpInv, MessagesAreTrue, AddressesAreOwn, Broadcast
<1>. QED  BY <1>1, <1>2, <1>3 DEF DhcpInv, Address, Trying

\* A server gives no lease to a second console, so none is taken away.
LEMMA GrantStep ==
    ASSUME DhcpInv, NEW s \in Servers, NEW m \in lan, ServerGrants(s, m)
    PROVE  DhcpInv' /\ UNCHANGED Address
<1>1. /\ lease' = [lease EXCEPT ![m.msg.ip] = {m.from}] /\ lease[m.msg.ip] \subseteq {m.from}
      /\ Broadcast(s, "ack", m.msg.xid, m.msg.ip) /\ UNCHANGED <<dh, ticks>>
      /\ m.msg.ip \in Pool /\ m.msg.type = "request"
    BY DEF ServerGrants
<1>2. m.msg.xid \in Hosts /\ m.msg.xid = m.from
    BY <1>1 DEF DhcpInv, DhcpTypeOK, MessagesAreTrue, Messages
<1>3. DhcpTypeOK'
    <2>1. lan' \subseteq [msg : Messages, from : Hosts \cup Servers]
        BY <1>1, <1>2, StaticIsOwn, BroadcastIsTyped DEF DhcpInv
    <2>. QED  BY <1>1, <1>2, <2>1 DEF DhcpInv, DhcpTypeOK
<1>4. \A x : \A a \in Pool : lease[a] = {x} => lease'[a] = {x}
    BY <1>1 DEF DhcpInv, DhcpTypeOK
<1>5. lease'[m.msg.ip] = {m.msg.xid}
    BY <1>1, <1>2 DEF DhcpInv, DhcpTypeOK
<1>6. MessagesAreTrue'
    BY <1>1, <1>2, <1>4, <1>5 DEF DhcpInv, MessagesAreTrue, Broadcast
<1>7. AddressesAreOwn'
    BY <1>1, <1>4 DEF DhcpInv, AddressesAreOwn
<1>. QED  BY <1>1, <1>3, <1>6, <1>7 DEF DhcpInv, Address, Trying

\* The one step of a console that gives it an address: it was free.
LEMMA DecideStep ==
    ASSUME DhcpInv, NEW h \in Hosts, Trying(h), NEW a \in Addresses,
           dh' = [dh EXCEPT ![h] = dh'[h]], ~Trying(h)', dh'[h].ip = a,
           a = Static(h) \/ (a \in Pool /\ lease[a] = {h})
    PROVE  Decided!Decide(h)
<1>1. Address[h] = <<>>
    BY DEF Address
<1>2. Address' = [Address EXCEPT ![h] = a]
    BY DEF Address, Trying, DhcpInv, DhcpTypeOK
<1>3. ASSUME NEW g \in Hosts PROVE Address[g] # a
    <2>1. CASE Trying(g)
        BY <2>1, StaticIsOwn DEF Address
    <2>2. CASE ~Trying(g)
        <3>1. g # h /\ Address[g] = dh[g].ip
            BY <2>2 DEF Address
        <3>2. IF dh[g].state = "BOUND" THEN dh[g].ip \in Pool /\ lease[dh[g].ip] = {g}
              ELSE dh[g].ip = Static(g)
            BY DEF DhcpInv, AddressesAreOwn
        <3>3. CASE dh[g].ip \in Pool /\ lease[dh[g].ip] = {g}
            <4>1. CASE a = Static(h)
                BY <3>1, <3>3, <4>1, StaticIsOwn
            <4>2. CASE lease[a] = {h}
                <5>1. {g} # {h}
                    BY <3>1
                <5>2. dh[g].ip # a
                    BY <3>3, <4>2, <5>1
                <5>. QED  BY <3>1, <5>2
            <4>. QED  BY <4>1, <4>2
        <3>4. CASE dh[g].ip = Static(g)
            <4>1. Static(g) # Static(h) /\ Static(g) \notin Pool
                BY <3>1, StaticIsOwn
            <4>. QED  BY <3>1, <3>4, <4>1
        <3>. QED  BY <3>2, <3>3, <3>4
    <2>. QED  BY <2>1, <2>2
<1>. QED  BY <1>1, <1>2, <1>3 DEF Decided!Decide, Decided!Free, Address

LEMMA DhcpStep ==
    ASSUME ~SameTick, DhcpInv, [DhcpNext]_dhcpVars
    PROVE  DhcpInv' /\ [Decided!Next]_Address
<1>1. CASE TickLan
    <2>1. ticks' \in 0 .. DEADLINE + 1 /\ UNCHANGED <<dh, lan, lease>>
        BY <1>1, DhcpNumbers DEF TickLan, DhcpInv, DhcpTypeOK
    <2>. QED  BY <2>1 DEF DhcpInv, DhcpTypeOK, MessagesAreTrue, AddressesAreOwn, Address, Trying
<1>2. ASSUME NEW h \in Hosts, DeadlinePasses(h) PROVE DhcpInv' /\ Decided!Next
    <2>1. /\ DhcpInv' /\ Trying(h)
          /\ dh' = [dh EXCEPT ![h] = [dh[h] EXCEPT !.state = "FAILED"]]
          /\ dh'[h].state = "FAILED" /\ dh'[h].ip = Static(h)
        BY <1>2, DeadlineStep
    <2>2. dh' = [dh EXCEPT ![h] = dh'[h]]
        BY <2>1 DEF DhcpInv, DhcpTypeOK
    <2>3. ~Trying(h)' /\ Static(h) \in Addresses
        BY <2>1, StaticIsOwn DEF Trying
    <2>. QED  BY <2>1, <2>2, <2>3, DecideStep DEF Decided!Next
<1>3. ASSUME NEW h \in Hosts, Transmit(h) PROVE DhcpInv' /\ UNCHANGED Address
    BY <1>3, TransmitStep
<1>4. ASSUME NEW h \in Hosts, NEW m \in lan, RecvOffered(h, m)
      PROVE  DhcpInv' /\ UNCHANGED Address
    BY <1>4, OfferedStep
<1>5. ASSUME NEW h \in Hosts, NEW m \in lan, RecvAck(h, m) PROVE DhcpInv' /\ Decided!Next
    <2>1. /\ DhcpInv' /\ Trying(h)
          /\ dh' = [dh EXCEPT ![h] = [dh[h] EXCEPT !.state = "BOUND", !.ip = m.msg.ip]]
          /\ dh'[h].state = "BOUND" /\ dh'[h].ip = m.msg.ip
          /\ m.msg.ip \in Pool /\ lease[m.msg.ip] = {h}
        BY <1>5, AckStep
    <2>2. dh' = [dh EXCEPT ![h] = dh'[h]]
        BY <2>1 DEF DhcpInv, DhcpTypeOK
    <2>3. ~Trying(h)' /\ m.msg.ip \in Addresses
        BY <2>1, StaticIsOwn DEF Trying
    <2>. QED  BY <2>1, <2>2, <2>3, DecideStep DEF Decided!Next
<1>6. ASSUME NEW s \in Servers, NEW m \in lan, ServerGrants(s, m)
      PROVE  DhcpInv' /\ UNCHANGED Address
    BY <1>6, GrantStep
<1>7. ASSUME NEW s \in Servers, NEW m \in lan, NEW a \in Pool, ServerOffers(s, m, a)
      PROVE  DhcpInv' /\ UNCHANGED Address
    BY <1>7, OffersStep
<1>8. CASE UNCHANGED dhcpVars
    BY <1>8 DEF dhcpVars, DhcpInv, DhcpTypeOK, MessagesAreTrue, AddressesAreOwn, Address, Trying
<1>. QED  BY <1>1, <1>2, <1>3, <1>4, <1>5, <1>6, <1>7, <1>8 DEF DhcpNext, PollDhcp

\* When no two consoles draw the same transaction id, an address is decided on
\* once and for good, and no other console of the LAN has it: the safety half
\* of AddressIsDecided, for any number of consoles, servers and addresses.
THEOREM AddressIsOwn ==
    ASSUME ~SameTick
    PROVE  DhcpSpec => [](DhcpTypeOK /\ AddressesAreOwn) /\ Decided!Spec
<1>1. DhcpInit => DhcpInv /\ Decided!Init
    BY DhcpInitially DEF DhcpInit, Decided!Init, Trying
<1>2. DhcpInv /\ [DhcpNext]_dhcpVars => DhcpInv' /\ [Decided!Next]_Address
    BY DhcpStep
<1>3. DhcpInv => DhcpTypeOK /\ AddressesAreOwn
    BY DEF DhcpInv
<1>. QED  BY <1>1, <1>2, <1>3, PTL DEF DhcpSpec, Decided!Spec, Address

-----------------------------------------------------------------------------
(***************************************************************************)
(* Uploads, when only one task polls the network.                          *)
(***************************************************************************)
\* net_poll is not reentered: no game polls while the idle task is inside.
OnePoller == \E p : Pollers = {p}

Connections ==
    [state : {"LISTEN", "SYN_RCVD", "ESTAB", "FIN_SENT"},
     peer : Clients \cup {NoClient}, rcv_nxt : 1 .. HeadLen + BodyLen + 1,
     req_len : 0 .. REQ_CAP, uploading : BOOLEAN,
     body_have : 0 .. BodyLen, name : Clients \cup {NoClient}]
Pollings ==
    [pc : {"out", "handle", "save", "answer"}, name : Clients \cup {NoClient},
     data : Seq(Cells), ok : BOOLEAN]
Buffers == [1 .. BodyLen -> Cells]

HttpTypes ==
    /\ conn \in Connections /\ upload_buf \in Buffers /\ frame_in \in Frames
    /\ poller \in [Pollers -> Pollings]
    /\ \A p \in Pollers : Len(poller[p].data) <= BodyLen
    /\ file \in [Clients -> {<<>>} \cup Buffers] /\ told \subseteq Clients

\* The first n units in b are those of c's file.
Staged(b, c, n) == \A i \in 1 .. n : b[i] = <<c, HeadLen + i>>

\* Connection k has taken from its peer's stream what it says: all of the
\* headers so far, then as much of the body as b holds, unless units that did
\* not fit have been acknowledged.
TakenIn(k, b) ==
    /\ k.peer \in Clients
    /\ ~k.uploading => k.rcv_nxt = k.req_len + 1
    /\ k.uploading =>
        /\ k.name = k.peer
        /\ HeadLen + k.body_have < k.rcv_nxt
        /\ k.rcv_nxt = HeadLen + k.body_have + 1 => Staged(b, k.peer, k.body_have)

Receives(k) == k.state \in {"SYN_RCVD", "ESTAB"}

\* What poller state q says of the connection, the buffer and the files.
PollFits(q, k, b, f) ==
    /\ q.pc \in {"out", "handle"} => q.data = <<>> /\ (Receives(k) => TakenIn(k, b))
    /\ q.pc \in {"save", "answer"} => k.peer \in Clients
    /\ q.pc = "save" =>
        /\ q.name = k.peer /\ Staged(b, k.peer, BodyLen)
        /\ Staged(q.data, k.peer, Len(q.data))
    /\ q.pc = "answer" /\ q.ok => f[k.peer] = Body(k.peer)

HttpInv ==
    /\ HttpTypes /\ UploadIsWhole
    /\ \A p \in Pollers : PollFits(poller[p], conn, upload_buf, file)

LEMMA HttpNumbers ==
    /\ HeadLen \in Nat \ {0} /\ BodyLen \in Nat \ {0} /\ REQ_CAP \in Nat \ {0}
    /\ HeadLen <= REQ_CAP /\ NoClient \notin Clients
BY HttpAssumption

LEMMA FrameIs ==
    ASSUME NEW f \in Frames
    PROVE  /\ f.client \in Clients /\ f.type \in {"syn", "rst", "seg"} /\ f.fin \in BOOLEAN
           /\ f.last \in 0 .. HeadLen + BodyLen /\ f.first \in 0 .. HeadLen + BodyLen
           /\ f.first <= f.last /\ f.last <= StreamLen(f.client)
           /\ StreamLen(f.client) = IF http_route(f.client) THEN HeadLen ELSE HeadLen + BodyLen
BY HttpNumbers DEF Frames, Units, WellFormed, StreamLen, http_route

LEMMA NoFrameIs == NoFrame \in Frames
<1>1. (CHOOSE c \in Clients : TRUE) \in Clients
    BY HttpAssumption
<1>2. PICK c \in Clients : NoFrame = [type |-> "rst", client |-> c, first |-> 0, last |-> 0,
                                      fin |-> FALSE]
    BY <1>1 DEF NoFrame
<1>3. StreamLen(c) \in Nat
    BY HttpNumbers DEF StreamLen
<1>. QED  BY <1>2, <1>3 DEF Frames, WellFormed

LEMMA SequenceIs ==
    ASSUME NEW S, NEW s \in Seq(S)
    PROVE  s \in [1 .. Len(s) -> S]
OBVIOUS

LEMMA BodyIsStaged ==
    ASSUME NEW b \in Buffers, NEW c \in Clients, Staged(b, c, BodyLen)
    PROVE  b = Body(c)
BY DEF Buffers, Staged, Body

LEMMA HttpInitially == HttpInit => HttpInv
<1>. SUFFICES ASSUME HttpInit PROVE HttpInv
    OBVIOUS
<1>1. conn \in Connections
    BY HttpNumbers DEF HttpInit, Connections
<1>2. upload_buf \in Buffers
    BY DEF HttpInit, Blank, Buffers, Cells
<1>3. frame_in \in Frames
    BY NoFrameIs DEF HttpInit
<1>4. /\ Outside \in Pollings /\ Len(Outside.data) = 0
      /\ Outside.pc = "out" /\ Outside.data = <<>>
    BY DEF Outside, Pollings
<1>5. poller \in [Pollers -> Pollings] /\ \A p \in Pollers : poller[p] = Outside
    BY <1>4 DEF HttpInit
<1>6. file \in [Clients -> {<<>>} \cup Buffers] /\ told \subseteq Clients
    BY DEF HttpInit
<1>7. HttpTypes
    BY <1>1, <1>2, <1>3, <1>4, <1>5, <1>6, HttpNumbers DEF HttpTypes
<1>8. UploadIsWhole
    BY DEF HttpInit, UploadIsWhole, FileIsWhole
<1>9. \A p \in Pollers : PollFits(poller[p], conn, upload_buf, file)
    BY <1>4, <1>5 DEF HttpInit, PollFits, Receives
<1>. QED  BY <1>7, <1>8, <1>9 DEF HttpInv

\* The poller goes out, with connection k.
LEMMA LeaveStep ==
    ASSUME HttpInv, NEW p, Pollers = {p}, NEW k \in Connections, NEW b \in Buffers,
           Leave(p), conn' = k, upload_buf' = b, UNCHANGED file,
           told' \subseteq Clients, UploadIsWhole',
           Receives(k) => TakenIn(k, b)
    PROVE  HttpInv'
<1>1. /\ Outside \in Pollings /\ Len(Outside.data) = 0
      /\ Outside.pc = "out" /\ Outside.data = <<>>
    BY DEF Outside, Pollings
<1>2. poller' \in [Pollers -> Pollings] /\ \A q \in Pollers : poller'[q] = Outside
    BY <1>1 DEF Leave, HttpInv, HttpTypes
<1>3. frame_in' \in Frames
    BY NoFrameIs DEF Leave, Release, HttpInv, HttpTypes
<1>4. HttpTypes'
    BY <1>1, <1>2, <1>3, HttpNumbers DEF HttpInv, HttpTypes
<1>5. PollFits(Outside, k, b, file)
    BY <1>1 DEF PollFits
<1>. QED  BY <1>2, <1>4, <1>5 DEF HttpInv

\* The poller has staged all of its peer's file and goes on to save it.
LEMMA SaveStep ==
    ASSUME HttpInv, NEW p, Pollers = {p}, NEW k \in Connections, NEW b \in Buffers,
           Handling(p), Save(p, k.peer), conn' = k, upload_buf' = b, UNCHANGED <<file, told>>,
           k.peer \in Clients, Staged(b, k.peer, BodyLen)
    PROVE  HttpInv'
<1>. PICK q : q = poller[p]
    OBVIOUS
<1>1. /\ q \in Pollings /\ q.data = <<>> /\ q.pc = "handle"
      /\ poller \in [Pollers -> Pollings] /\ p \in Pollers
    BY DEF HttpInv, HttpTypes, PollFits, Handling
<1>. PICK s : s = [q EXCEPT !.pc = "save", !.name = k.peer]
    OBVIOUS
<1>2. s \in Pollings /\ s.pc = "save" /\ s.name = k.peer /\ s.data = <<>>
    BY <1>1 DEF Pollings
<1>3. poller' = [poller EXCEPT ![p] = s]
    BY <1>1 DEF Save
<1>4. poller' \in [Pollers -> Pollings] /\ \A r \in Pollers : poller'[r] = s
    BY <1>1, <1>2, <1>3
<1>5. frame_in' \in Frames
    BY NoFrameIs DEF Save, Release, HttpInv, HttpTypes
<1>6. HttpTypes'
    <2>1. Len(s.data) <= BodyLen
        <3>1. Len(s.data) = 0
            BY <1>2
        <3>. QED  BY <3>1, HttpNumbers
    <2>2. \A r \in Pollers : Len(poller'[r].data) <= BodyLen
        BY <1>4, <2>1
    <2>. QED  BY <1>4, <1>5, <2>2 DEF HttpInv, HttpTypes
<1>7. PollFits(s, k, b, file)
    BY <1>2 DEF PollFits, Staged
<1>8. UploadIsWhole'
    BY DEF HttpInv, UploadIsWhole, FileIsWhole
<1>. QED  BY <1>4, <1>6, <1>7, <1>8 DEF HttpInv

\* Units of the connection's stream go where they belong.
LEMMA StageIs ==
    ASSUME HttpInv, NEW at \in 0 .. BodyLen, NEW first \in Nat, NEW n \in Nat,
           first \in 1 .. HeadLen + BodyLen, first + n <= HeadLen + BodyLen + 1,
           conn.peer \in Clients, Stage(at, first, n)
    PROVE  /\ upload_buf' \in Buffers
           /\ first = HeadLen + at + 1 /\ Staged(upload_buf, conn.peer, at)
                => \A m \in 0 .. BodyLen : m <= at + n => Staged(upload_buf', conn.peer, m)
<1>1. \A i \in 1 .. BodyLen : i \in at + 1 .. at + n =>
            first + i - at - 1 \in 1 .. HeadLen + BodyLen
    BY HttpNumbers
<1>2. \A i \in 1 .. BodyLen : upload_buf'[i] =
            IF i \in at + 1 .. at + n THEN <<conn.peer, first + i - at - 1>> ELSE upload_buf[i]
    BY DEF Stage
<1>3. upload_buf \in Buffers
    BY DEF HttpInv, HttpTypes
<1>4. upload_buf' \in Buffers
    <2>1. \A i \in 1 .. BodyLen : i \in at + 1 .. at + n =>
                <<conn.peer, first + i - at - 1>> \in Cells
        BY <1>1 DEF Cells, Units
    <2>2. \A i \in 1 .. BodyLen : upload_buf[i] \in Cells
        BY <1>3 DEF Buffers
    <2>. QED  BY <2>1, <2>2 DEF Stage, Buffers
<1>5. ASSUME first = HeadLen + at + 1, Staged(upload_buf, conn.peer, at),
             NEW m \in 0 .. BodyLen, m <= at + n, NEW i \in 1 .. m
      PROVE  upload_buf'[i] = <<conn.peer, HeadLen + i>>
    <2>1. i \in 1 .. BodyLen
        BY HttpNumbers
    <2>2. CASE i <= at
        <3>1. i \in 1 .. at /\ i \notin at + 1 .. at + n
            BY <2>1, <2>2
        <3>2. upload_buf[i] = <<conn.peer, HeadLen + i>>
            BY <1>5, <3>1 DEF Staged
        <3>. QED  BY <1>2, <2>1, <3>1, <3>2
    <2>3. CASE i > at
        <3>1. i \in at + 1 .. at + n /\ first + i - at - 1 = HeadLen + i
            BY <1>5, <2>3, HttpNumbers
        <3>. QED  BY <1>2, <2>1, <3>1
    <2>. QED  BY <2>2, <2>3
<1>. QED  BY <1>4, <1>5 DEF Staged

LEMMA HttpStep == OnePoller /\ HttpInv /\ [HttpNext]_httpVars => HttpInv'
<1>. SUFFICES ASSUME OnePoller, HttpInv, [HttpNext]_httpVars PROVE HttpInv'
    OBVIOUS
<1>. PICK p : Pollers = {p}
    BY DEF OnePoller
<1>t. /\ conn \in Connections /\ upload_buf \in Buffers /\ frame_in \in Frames
      /\ poller \in [Pollers -> Pollings] /\ poller[p] \in Pollings
      /\ Len(poller[p].data) <= BodyLen
      /\ file \in [Clients -> {<<>>} \cup Buffers] /\ told \subseteq Clients
    BY DEF HttpInv, HttpTypes
<1>c. /\ conn.state \in {"LISTEN", "SYN_RCVD", "ESTAB", "FIN_SENT"}
      /\ conn.peer \in Clients \cup {NoClient} /\ conn.name \in Clients \cup {NoClient}
      /\ conn.rcv_nxt \in 1 .. HeadLen + BodyLen + 1
      /\ conn.req_len \in 0 .. REQ_CAP /\ conn.uploading \in BOOLEAN
      /\ conn.body_have \in 0 .. BodyLen
    BY <1>t DEF Connections
<1>f. PollFits(poller[p], conn, upload_buf, file)
    BY DEF HttpInv
<1>h. Handling(p) /\ Receives(conn) => TakenIn(conn, upload_buf)
    BY <1>f DEF PollFits, Handling
<1>w. UNCHANGED <<file, told>> => UploadIsWhole' /\ told' \subseteq Clients
    BY <1>t DEF HttpInv, UploadIsWhole, FileIsWhole
\* Of a frame in order, what fits is taken.
<1>n. ASSUME InOrder, NEW space \in Nat
      PROVE  /\ frame_in.first = conn.rcv_nxt /\ frame_in.last + 1 \in 1 .. HeadLen + BodyLen + 1
             /\ frame_in.first <= frame_in.last
             /\ Taken(space) \in 0 .. space
             /\ Taken(space) = (IF frame_in.last - frame_in.first + 1 < space
                                THEN frame_in.last - frame_in.first + 1 ELSE space)
    BY <1>t, <1>c, <1>n, FrameIs, HttpNumbers DEF InOrder, Taken
<1>1. ASSUME NEW f \in Frames, Fetch(p, f) PROVE HttpInv'
    <2>. PICK q : q = poller[p]
        OBVIOUS
    <2>. PICK s : s = [q EXCEPT !.pc = "handle"]
        OBVIOUS
    <2>1. q \in Pollings /\ q.pc = "out"
        BY <1>1, <1>t DEF Fetch
    <2>2. s \in Pollings /\ s.pc = "handle" /\ s.data = q.data
        BY <2>1 DEF Pollings
    <2>3. poller' = [poller EXCEPT ![p] = s] /\ frame_in' = f
          /\ UNCHANGED <<conn, upload_buf, file, told>>
        BY <1>1, <1>t DEF Fetch
    <2>4. poller' \in [Pollers -> Pollings] /\ poller'[p] = s
        BY <1>t, <2>2, <2>3
    <2>5. HttpTypes'
        BY <1>t, <2>2, <2>3, <2>4 DEF HttpTypes
    <2>6. PollFits(s, conn, upload_buf, file)
        BY <1>f, <2>1, <2>2 DEF PollFits
    <2>7. UploadIsWhole'
        BY <1>w, <2>3
    <2>. QED  BY <2>3, <2>4, <2>5, <2>6, <2>7 DEF HttpInv
<1>2. ASSUME HandleRst(p) PROVE HttpInv'
    <2>1. conn' \in Connections /\ conn'.state = "LISTEN"
        BY <1>2, <1>t DEF HandleRst, Connections
    <2>2. ~Receives(conn')
        BY <2>1 DEF Receives
    <2>. QED  BY <1>2, <1>t, <1>w, <2>1, <2>2, LeaveStep DEF HandleRst
<1>3. ASSUME HandleSyn(p) PROVE HttpInv'
    <2>1. frame_in.client \in Clients
        BY <1>t, FrameIs
    <2>. PICK k : k = conn'
        OBVIOUS
    <2>2. k \in Connections /\ k.peer = frame_in.client /\ ~k.uploading
          /\ k.rcv_nxt = 1 /\ k.req_len = 0
        <3>1. 1 \in 1 .. HeadLen + BodyLen + 1 /\ 0 \in 0 .. REQ_CAP /\ 0 \in 0 .. BodyLen
            BY HttpNumbers
        <3>2. k = [conn EXCEPT !.state = "SYN_RCVD", !.peer = frame_in.client,
                               !.rcv_nxt = 1, !.req_len = 0, !.uploading = FALSE,
                               !.body_have = 0]
            BY <1>3 DEF HandleSyn
        <3>. QED  BY <1>t, <2>1, <3>1, <3>2 DEF Connections
    <2>3. upload_buf' \in Buffers
        <3>1. Blank \in Buffers
            BY DEF Blank, Buffers, Cells
        <3>. QED  BY <1>3, <1>t, <3>1 DEF HandleSyn, Unstage
    <2>4. TakenIn(k, upload_buf')
        BY <2>1, <2>2 DEF TakenIn
    <2>. QED  BY <1>3, <1>w, <2>2, <2>3, <2>4, LeaveStep DEF HandleSyn
<1>4. ASSUME HandleOther(p) PROVE HttpInv'
    <2>1. conn' \in Connections /\ (conn' = conn \/ conn'.state = "LISTEN")
        BY <1>4, <1>t DEF HandleOther, Connections
    <2>2. Receives(conn') => TakenIn(conn', upload_buf)
        BY <1>4, <1>h, <2>1 DEF HandleOther, Receives
    <2>. QED  BY <1>4, <1>t, <1>w, <2>1, <2>2, LeaveStep DEF HandleOther
<1>r. Receiving => Receives(conn) /\ conn.peer = frame_in.client /\ conn.peer \in Clients
    BY <1>t, FrameIs DEF Receiving, FromPeer, Receives
<1>a. AfterFin("ESTAB") \in {"ESTAB", "FIN_SENT"}
    BY DEF AfterFin
<1>5. ASSUME HandleNoData(p) PROVE HttpInv'
    <2>1. /\ conn' \in Connections /\ conn'.peer = conn.peer /\ conn'.name = conn.name
          /\ conn'.uploading = conn.uploading /\ conn'.rcv_nxt = conn.rcv_nxt
          /\ conn'.req_len = conn.req_len /\ conn'.body_have = conn.body_have
        BY <1>5, <1>t, <1>a DEF HandleNoData, Connections
    <2>2. TakenIn(conn', upload_buf)
        BY <1>5, <1>h, <1>r, <2>1 DEF HandleNoData, TakenIn
    <2>. QED  BY <1>5, <1>t, <1>w, <2>1, <2>2, LeaveStep DEF HandleNoData
\* The requests: what is held of the headers and of what came with them.
<1>q. ASSUME Requesting(p)
      PROVE  /\ Handling(p) /\ InOrder /\ Receives(conn) /\ ~conn.uploading
             /\ conn.rcv_nxt = conn.req_len + 1 /\ conn.peer \in Clients
             /\ conn.peer = frame_in.client
             /\ Held = (IF frame_in.last < REQ_CAP THEN frame_in.last ELSE REQ_CAP)
             /\ Held \in 0 .. REQ_CAP /\ frame_in.last \in 0 .. HeadLen + BodyLen
    <2>1. Handling(p) /\ InOrder /\ Receiving /\ ~conn.uploading
        BY <1>q DEF Requesting
    <2>2. conn.rcv_nxt = conn.req_len + 1
        BY <1>h, <1>r, <2>1 DEF TakenIn
    <2>. PICK space \in Nat : space = REQ_CAP - conn.req_len
        BY <1>c, HttpNumbers
    <2>3. /\ frame_in.first = conn.rcv_nxt /\ frame_in.first <= frame_in.last
          /\ Taken(space) = (IF frame_in.last - frame_in.first + 1 < space
                             THEN frame_in.last - frame_in.first + 1 ELSE space)
        BY <1>n, <2>1
    <2>4. frame_in.last \in 0 .. HeadLen + BodyLen
        BY <1>t, FrameIs
    <2>5. Held = conn.req_len + Taken(space)
        BY DEF Held
    <2>6. /\ Held = (IF frame_in.last < REQ_CAP THEN frame_in.last ELSE REQ_CAP)
          /\ Held \in 0 .. REQ_CAP
        BY <1>c, <2>2, <2>3, <2>4, <2>5, HttpNumbers
    <2>. QED  BY <1>r, <2>1, <2>2, <2>4, <2>6
<1>6. ASSUME HandleHeaders(p) PROVE HttpInv'
    <2>1. Held = frame_in.last /\ frame_in.last + 1 \in 1 .. HeadLen + BodyLen + 1
        BY <1>6, <1>q, HttpNumbers DEF HandleHeaders
    <2>2. /\ conn' \in Connections /\ conn'.peer = conn.peer
          /\ conn'.uploading = conn.uploading /\ conn'.rcv_nxt = frame_in.last + 1
          /\ conn'.req_len = Held
        BY <1>6, <1>q, <1>t, <1>a, <2>1 DEF HandleHeaders, Connections
    <2>3. TakenIn(conn', upload_buf)
        BY <1>6, <1>q, <2>1, <2>2 DEF HandleHeaders, TakenIn
    <2>. QED  BY <1>6, <1>t, <1>w, <2>2, <2>3, LeaveStep DEF HandleHeaders
<1>7. ASSUME HandleGet(p) PROVE HttpInv'
    <2>1. frame_in.last + 1 \in 1 .. HeadLen + BodyLen + 1 /\ Held \in 0 .. REQ_CAP
        BY <1>7, <1>q, HttpNumbers DEF HandleGet
    <2>2. conn' \in Connections /\ conn'.state = "FIN_SENT"
        BY <1>7, <1>t, <2>1 DEF HandleGet, Connections
    <2>3. ~Receives(conn')
        BY <2>2 DEF Receives
    <2>. QED  BY <1>7, <1>t, <1>w, <2>2, <2>3, LeaveStep DEF HandleGet
<1>8. ASSUME HandlePost(p) PROVE HttpInv'
    <2>. PICK already : already = Held - HeadLen
        OBVIOUS
    <2>. PICK state : state = IF already >= BodyLen THEN "ESTAB" ELSE AfterFin("ESTAB")
        OBVIOUS
    <2>1. /\ Requesting(p) /\ Held >= HeadLen
          /\ conn' = [conn EXCEPT !.state = state,
                                !.req_len = Held, !.rcv_nxt = frame_in.last + 1,
                                !.uploading = ~(already >= BodyLen),
                                !.body_have = already, !.name = conn.peer]
          /\ Stage(0, HeadLen + 1, already)
          /\ IF already >= BodyLen THEN Save(p, conn.peer) ELSE Leave(p)
          /\ UNCHANGED <<file, told>>
        BY <1>8 DEF HandlePost
    <2>2. /\ already \in 0 .. BodyLen /\ HeadLen + already <= frame_in.last
          /\ frame_in.last + 1 \in 1 .. HeadLen + BodyLen + 1
          /\ Held \in 0 .. REQ_CAP /\ conn.peer \in Clients
        BY <1>q, <2>1, HttpNumbers
    <2>3. state \in {"ESTAB", "FIN_SENT"}
        BY <1>a
    <2>. PICK k : k = conn'
        OBVIOUS
    <2>4. /\ k \in Connections /\ k.peer = conn.peer /\ k.name = conn.peer
          /\ k.uploading = ~(already >= BodyLen)
          /\ k.rcv_nxt = frame_in.last + 1 /\ k.body_have = already
        BY <1>t, <2>1, <2>2, <2>3 DEF Connections
    <2>5. upload_buf' \in Buffers /\ Staged(upload_buf', conn.peer, already)
        <3>1. Staged(upload_buf, conn.peer, 0)
            BY DEF Staged
        <3>2. /\ 0 \in 0 .. BodyLen /\ HeadLen + 1 \in 1 .. HeadLen + BodyLen
              /\ HeadLen + 1 = HeadLen + 0 + 1 /\ already <= 0 + already
              /\ HeadLen + 1 + already <= HeadLen + BodyLen + 1 /\ already \in Nat
              /\ HeadLen + 1 \in Nat
            BY <2>2, HttpNumbers
        <3>. QED  BY <2>1, <2>2, <3>1, <3>2, StageIs
    <2>6. CASE already >= BodyLen
        <3>1. already = BodyLen
            BY <2>2, <2>6, HttpNumbers
        <3>2. Save(p, k.peer) /\ Handling(p) /\ UNCHANGED <<file, told>>
            BY <1>q, <2>1, <2>4, <2>6
        <3>3. Staged(upload_buf', k.peer, BodyLen) /\ k.peer \in Clients
            BY <2>2, <2>4, <2>5, <3>1
        <3>. QED  BY <2>4, <2>5, <3>2, <3>3, SaveStep
    <2>7. CASE ~(already >= BodyLen)
        <3>1. HeadLen + already < frame_in.last + 1
            BY <1>q, <2>1, <2>2, HttpNumbers
        <3>2. TakenIn(k, upload_buf')
            BY <2>2, <2>4, <2>5, <2>7, <3>1 DEF TakenIn
        <3>3. Leave(p) /\ UNCHANGED <<file, told>>
            BY <2>1, <2>7
        <3>. QED  BY <1>w, <2>4, <2>5, <3>2, <3>3, LeaveStep
    <2>. QED  BY <2>6, <2>7
<1>9. ASSUME HandleBody(p) PROVE HttpInv'
    <2>. PICK n : n = Taken(BodyLen - conn.body_have)
        OBVIOUS
    <2>. PICK state :
            state = IF conn.body_have + n >= BodyLen THEN "ESTAB" ELSE AfterFin("ESTAB")
        OBVIOUS
    <2>1. /\ Handling(p) /\ Receiving /\ InOrder /\ conn.uploading
          /\ Stage(conn.body_have, frame_in.first, n)
          /\ conn' = [conn EXCEPT !.state = state, !.body_have = @ + n,
                                  !.rcv_nxt = frame_in.last + 1]
          /\ IF conn.body_have + n >= BodyLen THEN Save(p, conn.name) ELSE Leave(p)
          /\ UNCHANGED <<file, told>>
        BY <1>9 DEF HandleBody
    <2>2. /\ conn.peer \in Clients /\ conn.name = conn.peer
          /\ HeadLen + conn.body_have < conn.rcv_nxt
          /\ conn.rcv_nxt = HeadLen + conn.body_have + 1
                => Staged(upload_buf, conn.peer, conn.body_have)
        BY <1>h, <1>r, <2>1 DEF TakenIn
    <2>3. BodyLen - conn.body_have \in Nat
        BY <1>c, HttpNumbers
    <2>4. /\ n \in 0 .. BodyLen - conn.body_have
          /\ frame_in.first = conn.rcv_nxt /\ frame_in.first <= frame_in.last
          /\ frame_in.last + 1 \in 1 .. HeadLen + BodyLen + 1
          /\ n = (IF frame_in.last - frame_in.first + 1 < BodyLen - conn.body_have
                  THEN frame_in.last - frame_in.first + 1 ELSE BodyLen - conn.body_have)
        BY <1>n, <2>1, <2>3
    <2>5. /\ frame_in.last \in 0 .. HeadLen + BodyLen
          /\ frame_in.first \in 1 .. HeadLen + BodyLen /\ n \in Nat
          /\ frame_in.first + n <= HeadLen + BodyLen + 1
          /\ conn.body_have + n \in 0 .. BodyLen
          /\ HeadLen + (conn.body_have + n) < frame_in.last + 1
          /\ frame_in.last + 1 = HeadLen + (conn.body_have + n) + 1
                => conn.rcv_nxt = HeadLen + conn.body_have + 1
          /\ conn.body_have + n >= BodyLen => conn.rcv_nxt = HeadLen + conn.body_have + 1
        <3>. PICK have, nxt, last : have = conn.body_have /\ nxt = conn.rcv_nxt
                                   /\ last = frame_in.last
            OBVIOUS
        <3>1. /\ have \in 0 .. BodyLen /\ nxt \in 1 .. HeadLen + BodyLen + 1
              /\ last \in 0 .. HeadLen + BodyLen
            BY <1>c, <1>t, FrameIs
        <3>2. /\ n \in 0 .. BodyLen - have /\ nxt <= last /\ HeadLen + have < nxt
              /\ n = (IF last - nxt + 1 < BodyLen - have THEN last - nxt + 1 ELSE BodyLen - have)
            BY <2>2, <2>4
        <3>3. /\ nxt \in 1 .. HeadLen + BodyLen /\ n \in Nat
              /\ nxt + n <= HeadLen + BodyLen + 1 /\ have + n \in 0 .. BodyLen
              /\ HeadLen + (have + n) < last + 1
            BY <3>1, <3>2, HttpNumbers
        <3>4. /\ last + 1 = HeadLen + (have + n) + 1 => nxt = HeadLen + have + 1
              /\ have + n >= BodyLen => nxt = HeadLen + have + 1
            BY <3>1, <3>2, HttpNumbers
        <3>. QED  BY <2>4, <3>1, <3>3, <3>4
    <2>. PICK k : k = conn'
        OBVIOUS
    <2>6. state \in {"ESTAB", "FIN_SENT"}
        BY <1>a
    <2>7. /\ k \in Connections /\ k.peer = conn.peer /\ k.name = conn.peer
          /\ k.uploading /\ k.rcv_nxt = frame_in.last + 1 /\ k.body_have = conn.body_have + n
        BY <1>t, <2>1, <2>2, <2>4, <2>5, <2>6 DEF Connections
    <2>8. /\ upload_buf' \in Buffers
          /\ conn.rcv_nxt = HeadLen + conn.body_have + 1
                => Staged(upload_buf', conn.peer, conn.body_have + n)
        <3>1. /\ frame_in.first = conn.rcv_nxt /\ conn.body_have \in 0 .. BodyLen
              /\ frame_in.first \in Nat /\ conn.body_have + n <= conn.body_have + n
            BY <1>c, <2>4, <2>5
        <3>. QED  BY <2>1, <2>2, <2>5, <3>1, StageIs
    <2>9. CASE conn.body_have + n >= BodyLen
        <3>1. conn.body_have + n = BodyLen
            BY <2>5, <2>9, HttpNumbers
        <3>2. Save(p, k.peer) /\ UNCHANGED <<file, told>>
            BY <2>1, <2>2, <2>7, <2>9
        <3>3. Staged(upload_buf', k.peer, BodyLen) /\ k.peer \in Clients
            BY <2>2, <2>5, <2>7, <2>8, <2>9, <3>1
        <3>. QED  BY <2>1, <2>7, <2>8, <3>2, <3>3, SaveStep
    <2>10. CASE ~(conn.body_have + n >= BodyLen)
        <3>1. TakenIn(k, upload_buf')
            BY <2>2, <2>5, <2>7, <2>8 DEF TakenIn
        <3>. QED  BY <1>w, <2>1, <2>7, <2>8, <2>10, <3>1, LeaveStep
    <2>. QED  BY <2>9, <2>10
<1>10. ASSUME SaveUnit(p) PROVE HttpInv'
    <2>. PICK q : q = poller[p]
        OBVIOUS
    <2>. PICK d : d = Append(q.data, upload_buf[Len(q.data) + 1])
        OBVIOUS
    <2>. PICK s : s = [q EXCEPT !.data = d]
        OBVIOUS
    <2>1. /\ q \in Pollings /\ q.pc = "save" /\ Len(q.data) < BodyLen
          /\ poller' = [poller EXCEPT ![p] = s]
          /\ UNCHANGED <<conn, upload_buf, frame_in, file, told>>
        BY <1>10, <1>t DEF SaveUnit, Saving
    <2>2. q.data \in Seq(Cells) /\ Len(q.data) \in Nat /\ Len(q.data) + 1 \in 1 .. BodyLen
        BY <2>1, HttpNumbers DEF Pollings
    <2>3. d \in Seq(Cells) /\ Len(d) = Len(q.data) + 1
        BY <1>t, <2>2 DEF Buffers
    <2>4. \A i \in 1 .. Len(q.data) : d[i] = q.data[i]
        BY <2>2
    <2>5. d[Len(q.data) + 1] = upload_buf[Len(q.data) + 1]
        BY <2>2
    <2>6. s \in Pollings /\ s.pc = "save" /\ s.name = q.name /\ s.data = d
        BY <2>1, <2>3 DEF Pollings
    <2>7. poller' \in [Pollers -> Pollings] /\ poller'[p] = s
        BY <1>t, <2>1, <2>6
    <2>8. Len(s.data) <= BodyLen
        BY <2>1, <2>2, <2>3, <2>6, HttpNumbers
    <2>9. HttpTypes'
        BY <1>t, <2>1, <2>7, <2>8 DEF HttpTypes
    <2>10. PollFits(s, conn, upload_buf, file)
        <3>1. q.name = conn.peer /\ Staged(upload_buf, conn.peer, BodyLen) /\ conn.peer \in Clients
              /\ Staged(q.data, conn.peer, Len(q.data))
            BY <1>f, <2>1 DEF PollFits
        <3>2. ASSUME NEW i \in 1 .. Len(d) PROVE d[i] = <<conn.peer, HeadLen + i>>
            <4>1. i \in 1 .. Len(q.data) \/ i = Len(q.data) + 1
                BY <2>2, <2>3
            <4>2. CASE i \in 1 .. Len(q.data)
                BY <2>4, <3>1, <4>2 DEF Staged
            <4>3. CASE i = Len(q.data) + 1
                BY <2>2, <2>5, <3>1, <4>3 DEF Staged
            <4>. QED  BY <4>1, <4>2, <4>3
        <3>. QED  BY <2>6, <3>1, <3>2 DEF PollFits, Staged
    <2>11. UploadIsWhole'
        BY <1>w, <2>1
    <2>. QED  BY <2>1, <2>7, <2>9, <2>10, <2>11 DEF HttpInv
<1>11. ASSUME SaveDone(p) \/ SaveFails(p) PROVE HttpInv'
    <2>. PICK q : q = poller[p]
        OBVIOUS
    <2>1. q \in Pollings /\ q.pc = "save" /\ Len(q.data) <= BodyLen
        BY <1>11, <1>t DEF SaveDone, SaveFails, Saving
    <2>. PICK ok \in BOOLEAN : ok = (Len(q.data) = BodyLen /\ SaveDone(p))
        OBVIOUS
    <2>. PICK s : s = [q EXCEPT !.pc = "answer", !.ok = ok]
        OBVIOUS
    <2>2. /\ poller' = [poller EXCEPT ![p] = s]
          /\ UNCHANGED <<conn, upload_buf, frame_in, told>>
          /\ (file' = file /\ ~ok) \/ SaveDone(p)
        <3>1. CASE SaveDone(p)
            BY <1>t, <3>1 DEF SaveDone
        <3>2. CASE SaveFails(p) /\ ~SaveDone(p)
            BY <1>t, <3>2 DEF SaveFails
        <3>. QED  BY <1>11, <3>1, <3>2
    <2>3. s \in Pollings /\ s.pc = "answer" /\ s.data = q.data /\ s.ok = ok
        BY <2>1 DEF Pollings
    <2>4. poller' \in [Pollers -> Pollings] /\ poller'[p] = s
        BY <1>t, <2>2, <2>3
    <2>5. conn.peer \in Clients /\ q.name = conn.peer /\ Staged(q.data, conn.peer, Len(q.data))
        BY <1>f, <2>1 DEF PollFits
    <2>6. CASE SaveDone(p)
        <3>1. q.data \in Buffers /\ q.data = Body(conn.peer)
            <4>1. Len(q.data) = BodyLen /\ q.data \in Seq(Cells)
                BY <2>1, <2>6 DEF SaveDone, Pollings
            <4>2. q.data \in [1 .. BodyLen -> Cells]
                BY <4>1, SequenceIs
            <4>. QED  BY <2>5, <4>1, <4>2, BodyIsStaged DEF Buffers
        <3>2. file' = [file EXCEPT ![conn.peer] = Body(conn.peer)]
            BY <2>5, <2>6, <3>1 DEF SaveDone
        <3>3. file' \in [Clients -> {<<>>} \cup Buffers] /\ file'[conn.peer] = Body(conn.peer)
            BY <1>t, <2>5, <3>1, <3>2
        <3>4. UploadIsWhole'
            BY <1>t, <2>2, <2>5, <3>2 DEF HttpInv, UploadIsWhole, FileIsWhole
        <3>5. PollFits(s, conn, upload_buf, file')
            BY <2>3, <2>5, <3>3 DEF PollFits
        <3>6. HttpTypes'
            BY <1>t, <2>1, <2>2, <2>3, <2>4, <3>3 DEF HttpTypes
        <3>. QED  BY <2>2, <2>4, <3>4, <3>5, <3>6 DEF HttpInv
    <2>7. CASE file' = file /\ ~ok
        <3>1. PollFits(s, conn, upload_buf, file)
            BY <2>3, <2>5, <2>7 DEF PollFits
        <3>2. HttpTypes'
            BY <1>t, <2>1, <2>2, <2>3, <2>4, <2>7 DEF HttpTypes
        <3>. QED  BY <1>w, <2>2, <2>4, <2>7, <3>1, <3>2 DEF HttpInv
    <2>. QED  BY <2>2, <2>6, <2>7
<1>12. ASSUME Answer(p) PROVE HttpInv'
    <2>1. conn' \in Connections /\ conn'.state = "FIN_SENT"
        BY <1>12, <1>t DEF Answer, Connections
    <2>2. ~Receives(conn')
        BY <2>1 DEF Receives
    <2>3. conn.peer \in Clients /\ (poller[p].ok => file[conn.peer] = Body(conn.peer))
        BY <1>12, <1>f DEF Answer, PollFits
    <2>4. UploadIsWhole' /\ told' \subseteq Clients
        BY <1>12, <1>t, <2>3 DEF HttpInv, UploadIsWhole, FileIsWhole, Answer
    <2>. QED  BY <1>12, <1>t, <2>1, <2>2, <2>4, LeaveStep DEF Answer
<1>13. CASE UNCHANGED httpVars
    BY <1>13 DEF httpVars, HttpInv, HttpTypes, UploadIsWhole, FileIsWhole
<1>. QED
    BY <1>1, <1>2, <1>3, <1>4, <1>5, <1>6, <1>7, <1>8, <1>9, <1>10, <1>11, <1>12, <1>13
       DEF HttpNext, Work

\* While one task polls the network, the volume never holds anything under a
\* client's name but what that client posted, and the client that is told so
\* finds its file there: for any number of clients, any length of headers and
\* bodies, and frames lost, repeated and reordered at will.
THEOREM UploadStaysWhole ==
    ASSUME OnePoller
    PROVE  HttpSpec => [](HttpTypeOK /\ UploadIsWhole)
<1>1. OnePoller /\ HttpInv => HttpTypeOK /\ UploadIsWhole
    BY DEF HttpInv, HttpTypes, HttpTypeOK, Connections, Pollings, Buffers
<1>2. HttpInv /\ [HttpNext]_httpVars => HttpInv'
    BY HttpStep
<1>. QED  BY <1>1, <1>2, HttpInitially, PTL DEF HttpSpec

-----------------------------------------------------------------------------
(***************************************************************************)
(* Everything on the LAN.                                                  *)
(***************************************************************************)
LEMMA NetInitially == NetInit => BeamInit /\ HttpInit /\ DhcpInit /\ LanInit
BY DEF NetInit

\* A step of one part is no step of the others.
LEMMA NetStep ==
    [NetNext]_netVars =>
        /\ [BeamNext]_beamVars /\ [HttpNext]_httpVars
        /\ [DhcpNext]_dhcpVars /\ [LanNext]_lanVars
<1>. SUFFICES ASSUME [NetNext]_netVars
              PROVE  /\ [BeamNext]_beamVars /\ [HttpNext]_httpVars
                     /\ [DhcpNext]_dhcpVars /\ [LanNext]_lanVars
    OBVIOUS
<1>1. CASE Beaming /\ BeamNext
    BY <1>1 DEF Beaming
<1>2. CASE Responding /\ HttpNext
    BY <1>2 DEF Responding
<1>3. CASE Booting /\ DhcpNext
    BY <1>3 DEF Booting
<1>4. CASE LanNext /\ (Resolving \/ Playing)
    BY <1>4 DEF Resolving, Playing, OnLan
<1>5. CASE UNCHANGED netVars
    BY <1>5 DEF netVars
<1>. QED  BY <1>1, <1>2, <1>3, <1>4, <1>5 DEF NetNext

\* All of it in one behaviour: between two consoles that start at different
\* ticks, and with one task that polls the network, no part of the LAN is
\* ever in a wrong state.
THEOREM LanIsSafe ==
    ASSUME TwoConsoles, OnePoller, ~SameTick
    PROVE  NetSpec => /\ [](NetTypeOK /\ GameIsWhole /\ UploadIsWhole /\ ArpIsCurrent)
                      /\ GameSurvives /\ UdpIsFifo
<1>1. NetSpec => BeamSpec /\ HttpSpec /\ DhcpSpec /\ LanSpec
    BY NetInitially, NetStep, PTL DEF NetSpec, Safety, BeamSpec, HttpSpec, DhcpSpec, LanSpec
<1>2. BeamSpec => [](BeamTypeOK /\ GameIsWhole) /\ GameSurvives
    BY TakenOverIsWhole, BeamLosesNoGame
<1>3. HttpSpec => [](HttpTypeOK /\ UploadIsWhole)
    BY UploadStaysWhole
<1>4. DhcpSpec => [](DhcpTypeOK /\ AddressesAreOwn)
    BY AddressIsOwn
<1>5. BeamTypeOK /\ HttpTypeOK /\ DhcpTypeOK /\ LanTypeOK => NetTypeOK
    BY DEF NetTypeOK
<1>. QED  BY <1>1, <1>2, <1>3, <1>4, <1>5, SentIsCurrent, RingIsAQueue, PTL
=============================================================================
