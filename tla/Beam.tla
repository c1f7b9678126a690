-------------------------------- MODULE Beam --------------------------------
(***************************************************************************)
(* Game beaming (beam.c): a running game is frozen, its pages and CPU      *)
(* context are sent over UDP, and it goes on at another console.           *)
(*                                                                         *)
(* A moment is one frozen state of a game, 0 the fresh start of the ELF    *)
(* file both consoles have.  Memory and registers are compared by the      *)
(* moment they come from.  The LAN loses, repeats and reorders: a datagram *)
(* stays on the net, to be delivered never, once or again.                 *)
(***************************************************************************)
EXTENDS Naturals, FiniteSets

CONSTANTS
    Consoles,
    NumChunks,      \* 1 KiB chunks of the writable pages
    ATTEMPTS,       \* rounds of both sides (4)
    MaxMoments,     \* bound of the model: calls of beam_send_current
    NoConsole

ASSUME BeamAssumption ==
    /\ NumChunks \in Nat \ {0} /\ ATTEMPTS \in Nat \ {0} /\ MaxMoments \in Nat
    /\ NoConsole \notin Consoles

Chunks == 1 .. NumChunks
Fresh == 0
Moments == 1 .. MaxMoments
States == {Fresh} \cup Moments

VARIABLES
    screen,     \* "launcher", or "game": the game this is all about
    game,       \* its memory, chunk by chunk, and its registers
    role,       \* R_IDLE, R_SEND, R_WANT, R_ACTIVE
    snd,        \* beam_send_current's state, at each console
    rcv,        \* the receiver's state, at each console
    net,        \* datagrams under way
    now,        \* moments frozen so far
    home,       \* what became of the original of each moment (history)
    taken       \* who has resumed each moment, whole (history)

beamVars == <<screen, game, role, snd, rcv, net, now, home, taken>>

Packets ==
    [type : {"offer", "accept", "page", "done", "ack"},
     from : Consoles, to : Consoles, chunk : {0} \cup Chunks, moment : States]

BeamTypeOK ==
    /\ screen \in [Consoles -> {"launcher", "game"}]
    /\ game \in [Consoles -> [mem : [Chunks -> States], cpu : States,
                              adopted : BOOLEAN]]
    /\ role \in [Consoles -> {"idle", "send", "want", "active"}]
    /\ snd \in [Consoles -> [moment : States, accepted : BOOLEAN,
                             found : Consoles \cup {NoConsole},
                             peer : Consoles \cup {NoConsole},
                             ack : BOOLEAN, tries : 0 .. ATTEMPTS]]
    /\ rcv \in [Consoles -> [peer : Consoles \cup {NoConsole},
                             bits : SUBSET Chunks, unique : 0 .. NumChunks,
                             done : BOOLEAN, regs : States, tries : 0 .. ATTEMPTS]]
    /\ net \in SUBSET Packets
    /\ now \in {0} \cup Moments
    /\ home \in [Moments -> {"none", "open", "kept", "given"}]
    /\ taken \in [Moments -> SUBSET Consoles]

FreshGame == [mem |-> [k \in Chunks |-> Fresh], cpu |-> Fresh,
              adopted |-> FALSE]
NoSend == [moment |-> Fresh, accepted |-> FALSE, found |-> NoConsole,
           peer |-> NoConsole, ack |-> FALSE, tries |-> 0]
NoReceive == [peer |-> NoConsole, bits |-> {}, unique |-> 0,
              done |-> FALSE, regs |-> Fresh, tries |-> 0]

BeamInit ==
    /\ screen = [c \in Consoles |-> "launcher"]
    /\ game = [c \in Consoles |-> FreshGame]
    /\ role = [c \in Consoles |-> "idle"]
    /\ snd = [c \in Consoles |-> NoSend]
    /\ rcv = [c \in Consoles |-> NoReceive]
    /\ net = {} /\ now = 0
    /\ home = [s \in Moments |-> "none"]
    /\ taken = [s \in Moments |-> {}]

Ctrl(type, c, to) == [type |-> type, from |-> c, to |-> to, chunk |-> 0, moment |-> Fresh]

history == <<home, taken>>

-----------------------------------------------------------------------------
(***************************************************************************)
(* The console around beam.c.                                              *)
(***************************************************************************)
\* The player picks the game, or the launcher finds a beam that wants it
\* (SYS_BEAM_POLL).
Launch(c) ==
    /\ screen[c] = "launcher"
    /\ screen' = [screen EXCEPT ![c] = "game"]
    /\ game' = [game EXCEPT ![c] = FreshGame]
    /\ UNCHANGED <<role, snd, rcv, net, now, history>>

Quit(c) ==
    /\ screen[c] = "game" /\ role[c] \notin {"send", "active"}
    /\ screen' = [screen EXCEPT ![c] = "launcher"]
    /\ game' = [game EXCEPT ![c] = FreshGame]
    /\ UNCHANGED <<role, snd, rcv, net, now, history>>

\* beam_pending_game, asked by the launcher after r_want_deadline.
PendingExpires(c) ==
    /\ screen[c] = "launcher" /\ role[c] = "want"
    /\ role' = [role EXCEPT ![c] = "idle"]
    /\ rcv' = [rcv EXCEPT ![c] = NoReceive]
    /\ UNCHANGED <<screen, game, snd, net, now, history>>

-----------------------------------------------------------------------------
(***************************************************************************)
(* The sender, beam_send_current.                                          *)
(***************************************************************************)
\* Opening the menu and choosing BEAM takes longer than a datagram is under
\* way and than a receiver takes to answer a DONE.
Settled ==
    \A d \in Consoles : role[d] = "active" => ~ (rcv[d].done /\ rcv[d].unique >= NumChunks)
Late(c) == {m \in net : c \in {m.from, m.to}}

BeamStart(c) ==
    /\ screen[c] = "game" /\ role[c] \in {"idle", "want"}
    /\ Settled /\ net' = net \ Late(c)
    /\ now < MaxMoments
    /\ now' = now + 1
    /\ game' = [game EXCEPT ![c] = [mem |-> [k \in Chunks |-> now + 1], cpu |-> now + 1,
                                    adopted |-> FALSE]]
    /\ role' = [role EXCEPT ![c] = "send"]
    /\ snd' = [snd EXCEPT ![c] = [NoSend EXCEPT !.moment = now + 1]]
    /\ rcv' = [rcv EXCEPT ![c] = NoReceive]
    /\ home' = [home EXCEPT ![now + 1] = "open"]
    /\ UNCHANGED <<screen, taken>>

Looking(c) == role[c] = "send" /\ snd[c].peer = NoConsole
Confirming(c) == role[c] = "send" /\ snd[c].peer # NoConsole

\* send_offer, every 400 ms: a broadcast.
Offer(c) ==
    /\ Looking(c) /\ ~snd[c].accepted
    /\ net' = net \cup {[type |-> "offer", from |-> c, to |-> d, chunk |-> 0,
                         moment |-> snd[c].moment] : d \in Consoles \ {c}}
    /\ UNCHANGED <<screen, game, role, snd, rcv, now, history>>

\* stream_pages: every chunk, then DONE with the CPU context.
Stream(c, to) ==
    net' = net
        \cup {[type |-> "page", from |-> c, to |-> to, chunk |-> k,
               moment |-> game[c].mem[k]] : k \in Chunks}
        \cup {[type |-> "done", from |-> c, to |-> to, chunk |-> 0,
               moment |-> snd[c].moment]}

StartStream(c) ==
    /\ Looking(c) /\ snd[c].accepted /\ ~snd[c].ack
    /\ snd' = [snd EXCEPT ![c].peer = snd[c].found, ![c].tries = 1]
    /\ Stream(c, snd[c].found)
    /\ UNCHANGED <<screen, game, role, rcv, now, history>>

\* Mutant: rounds are not counted.
Restream_Uncounted(c) ==
    /\ Confirming(c) /\ ~snd[c].ack /\ snd[c].tries < ATTEMPTS
    /\ Stream(c, snd[c].peer)
    /\ UNCHANGED <<screen, game, role, snd, rcv, now, history>>

\* 2.5 s without an answer.  A NACK ends them at once, and does no more: it
\* is left out, at the receiver too.
Restream(c) ==
    /\ Confirming(c) /\ ~snd[c].ack /\ snd[c].tries < ATTEMPTS
    /\ snd' = [snd EXCEPT ![c].tries = @ + 1]
    /\ Stream(c, snd[c].peer)
    /\ UNCHANGED <<screen, game, role, rcv, now, history>>

\* Nobody accepted within 8 s, or nobody confirmed: the game stays here.
GiveUp(c) ==
    /\ \/ Looking(c) /\ ~snd[c].accepted
       \/ Confirming(c) /\ ~snd[c].ack /\ snd[c].tries = ATTEMPTS
    /\ role' = [role EXCEPT ![c] = "idle"]
    /\ snd' = [snd EXCEPT ![c] = NoSend]
    /\ home' = [home EXCEPT ![snd[c].moment] = "kept"]
    /\ UNCHANGED <<screen, game, rcv, net, now, taken>>

\* Mutant: running out of attempts counts as delivered.
Delivered_Unconfirmed(c) ==
    /\ role[c] = "send" /\ snd[c].accepted
    /\ snd[c].ack \/ snd[c].tries = ATTEMPTS
    /\ role' = [role EXCEPT ![c] = "idle"]
    /\ snd' = [snd EXCEPT ![c] = NoSend]
    /\ screen' = [screen EXCEPT ![c] = "launcher"]
    /\ game' = [game EXCEPT ![c] = FreshGame]
    /\ home' = [home EXCEPT ![snd[c].moment] = "given"]
    /\ UNCHANGED <<rcv, net, now, taken>>

\* 1 is returned, and the system menu quits the local copy.
Delivered(c) ==
    /\ role[c] = "send" /\ snd[c].accepted /\ snd[c].ack
    /\ role' = [role EXCEPT ![c] = "idle"]
    /\ snd' = [snd EXCEPT ![c] = NoSend]
    /\ screen' = [screen EXCEPT ![c] = "launcher"]
    /\ game' = [game EXCEPT ![c] = FreshGame]
    /\ home' = [home EXCEPT ![snd[c].moment] = "given"]
    /\ UNCHANGED <<rcv, net, now, taken>>

-----------------------------------------------------------------------------
(***************************************************************************)
(* beam_input: datagrams at console m.to.                                  *)
(***************************************************************************)
\* Whether the launcher or a game is on the screen is not looked at.
RecvOffer(m) ==
    /\ m.type = "offer" /\ role[m.to] = "idle"
    /\ role' = [role EXCEPT ![m.to] = "want"]
    /\ rcv' = [rcv EXCEPT ![m.to] = [NoReceive EXCEPT !.peer = m.from]]
    /\ UNCHANGED <<screen, game, snd, net, now, history>>

RecvAccept(m) ==
    /\ m.type = "accept" /\ role[m.to] = "send"
    /\ snd' = [snd EXCEPT ![m.to].accepted = TRUE, ![m.to].found = m.from]
    /\ UNCHANGED <<screen, game, role, rcv, net, now, history>>

\* Mutant: a chunk that comes twice counts twice.
RecvPage_CountsResends(m) ==
    /\ m.type = "page" /\ role[m.to] = "active"
    /\ game' = [game EXCEPT ![m.to].mem[m.chunk] = m.moment]
    /\ rcv' = [rcv EXCEPT ![m.to].bits = @ \cup {m.chunk},
                          ![m.to].unique = IF @ < NumChunks THEN @ + 1 ELSE @]
    /\ UNCHANGED <<screen, role, snd, net, now, history>>

RecvPage(m) ==
    /\ m.type = "page" /\ role[m.to] = "active"
    /\ game' = [game EXCEPT ![m.to].mem[m.chunk] = m.moment]
    /\ rcv' = [rcv EXCEPT ![m.to].bits = @ \cup {m.chunk},
                          ![m.to].unique = IF m.chunk \in rcv[m.to].bits THEN @ ELSE @ + 1]
    /\ UNCHANGED <<screen, role, snd, net, now, history>>

RecvDone(m) ==
    /\ m.type = "done" /\ role[m.to] = "active"
    /\ rcv' = [rcv EXCEPT ![m.to].done = TRUE, ![m.to].regs = m.moment]
    /\ UNCHANGED <<screen, game, role, snd, net, now, history>>

RecvConfirmation(m) ==
    /\ m.type = "ack" /\ role[m.to] = "send"
    /\ snd' = [snd EXCEPT ![m.to].ack = TRUE]
    /\ UNCHANGED <<screen, game, role, rcv, net, now, history>>

-----------------------------------------------------------------------------
(***************************************************************************)
(* The receiver, beam_on_present: any present of the game wanted.          *)
(***************************************************************************)
Mismatch(c) ==
    /\ screen[c] = "game" /\ role[c] = "want"
    /\ role' = [role EXCEPT ![c] = "idle"]
    /\ rcv' = [rcv EXCEPT ![c] = NoReceive]
    /\ UNCHANGED <<screen, game, snd, net, now, history>>

Accept(c) ==
    /\ screen[c] = "game" /\ role[c] = "want"
    /\ role' = [role EXCEPT ![c] = "active"]
    /\ rcv' = [rcv EXCEPT ![c].bits = {}, ![c].unique = 0, ![c].done = FALSE,
                          ![c].tries = 1]
    /\ game' = [game EXCEPT ![c].adopted = FALSE]
    /\ net' = net \cup {Ctrl("accept", c, rcv[c].peer)}
    /\ UNCHANGED <<screen, snd, now, history>>

Complete(c) == rcv[c].done /\ rcv[c].unique >= NumChunks

\* The registers go into this syscall's frame, the clock is taken over.
Resume(c) ==
    /\ role[c] = "active" /\ Complete(c)
    /\ role' = [role EXCEPT ![c] = "idle"]
    /\ game' = [game EXCEPT ![c].cpu = rcv[c].regs,
                            ![c].adopted = TRUE]
    /\ net' = net \cup {Ctrl("ack", c, rcv[c].peer)}
    /\ LET s == rcv[c].regs
           whole == s \in Moments /\ \A k \in Chunks : game[c].mem[k] = s
       IN  taken' = IF whole THEN [taken EXCEPT ![s] = @ \cup {c}] ELSE taken
    /\ rcv' = [rcv EXCEPT ![c] = NoReceive]
    /\ UNCHANGED <<screen, snd, now, home>>

\* Mutant: one round too many.
AskAgain_Late(c) ==
    /\ role[c] = "active" /\ ~Complete(c) /\ rcv[c].tries <= ATTEMPTS
    /\ rcv' = [rcv EXCEPT ![c].done = FALSE, ![c].tries = @ + 1]
    /\ UNCHANGED <<screen, game, role, snd, net, now, history>>

\* A round ended by DONE or by its 8 s, with chunks missing.
AskAgain(c) ==
    /\ role[c] = "active" /\ ~Complete(c) /\ rcv[c].tries < ATTEMPTS
    /\ rcv' = [rcv EXCEPT ![c].done = FALSE, ![c].tries = @ + 1]
    /\ UNCHANGED <<screen, game, role, snd, net, now, history>>

\* The last round ended so: the game goes on with what has arrived.
Abandon(c) ==
    /\ role[c] = "active" /\ ~Complete(c) /\ rcv[c].tries = ATTEMPTS
    /\ role' = [role EXCEPT ![c] = "idle"]
    /\ rcv' = [rcv EXCEPT ![c] = NoReceive]
    /\ UNCHANGED <<screen, game, snd, net, now, history>>

-----------------------------------------------------------------------------
SenderStep(c) == StartStream(c) \/ Restream(c) \/ GiveUp(c) \/ Delivered(c)
ReceiverStep(c) == Resume(c) \/ AskAgain(c) \/ Abandon(c)

BeamNext ==
    \/ \E c \in Consoles :
        \/ Launch(c) \/ Quit(c) \/ PendingExpires(c)
        \/ BeamStart(c) \/ Offer(c) \/ SenderStep(c)
        \/ Mismatch(c) \/ Accept(c) \/ ReceiverStep(c)
    \/ \E m \in net :
        \/ RecvOffer(m) \/ RecvAccept(m) \/ RecvPage(m) \/ RecvDone(m)
        \/ RecvConfirmation(m)

BeamSpec == BeamInit /\ [][BeamNext]_beamVars

-----------------------------------------------------------------------------
(***************************************************************************)
(* Properties.                                                             *)
(***************************************************************************)
\* A game that was taken over runs on one state of one game: memory and
\* registers of the same moment, whatever was lost, repeated, reordered or
\* sent again, and whichever earlier offers, games and transfers came first.
\* True between two consoles; with a third, beam_input takes what the sender
\* before repeats for part of the next transfer.
GameIsWhole ==
    \A c \in Consoles : game[c].adopted =>
        \E s \in Moments : game[c].cpu = s /\ \A k \in Chunks : game[c].mem[k] = s

\* beam_send_current returns 1, and the menu quits the local copy, only when
\* another console has resumed that very state: a game is never lost.
H == INSTANCE Handoff WITH home <- home, taken <- taken
GameSurvives == H!Spec

\* Neither side waits for ever: the player gets the console back, the game
\* moved or not, also when every datagram is lost.
SessionEnds ==
    \A c \in Consoles : role[c] \in {"send", "active"} ~> role[c] \notin {"send", "active"}
=============================================================================
