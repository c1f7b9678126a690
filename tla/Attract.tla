------------------------------- MODULE Attract -------------------------------
(***************************************************************************)
(* Attract mode (rewind.c, launcher.c): what the program in front reads    *)
(* from its pads is captured frame by frame; when a game the player chose  *)
(* is over, the capture becomes the demo of that game, and an idle         *)
(* launcher plays it back into a fresh instance.                           *)
(*                                                                         *)
(* A frame is a present and the pad read that follows it, as in            *)
(* arcade_frame.  As in Rewind, a game's memory is the sequence of what it *)
(* read.  The clock, recorded with the pads, is left out.                  *)
(***************************************************************************)
EXTENDS Naturals, Sequences

CONSTANTS
    Games,
    Launcher,
    Presses,        \* what a pad may report; NoPress: no button
    NoPress,
    NoSession,
    DEMO_FRAMES,
    DEMO_MIN,       \* shorter captures are not worth saving
    MaxPresents     \* bound of the model: presents of one process

Programs == Games \cup {Launcher}
NoProgram == "none"

ASSUME AttractAssumption ==
    /\ Launcher \notin Games /\ NoProgram \notin Programs /\ NoPress \in Presses
    /\ DEMO_FRAMES \in Nat \ {0} /\ DEMO_MIN \in 1 .. DEMO_FRAMES
    /\ MaxPresents \in Nat

Captured0 == 0 .. DEMO_FRAMES - 1
Sessions == UNION {[1 .. n -> Presses] : n \in 0 .. MaxPresents + DEMO_FRAMES}
Tapes == UNION {[1 .. n -> Presses] : n \in 0 .. DEMO_FRAMES}

VARIABLES
    front,          \* the program on the screen
    forPlayer,      \* the player launched it, the launcher will save its demo
    phase,          \* its next syscall: "present" or "read"
    owner,          \* owner_id: of a program that is gone, NoProgram
    frame,          \* present_counter
    memory,         \* what the game in front has read
    fed,            \* it has read something recorded (history)
    cap,            \* demo_cap_n and the pads of demo_cap; it is active unless a demo plays
    attract,        \* attract_active, _play, _cursor, _cancel, _game, demo_play;
                    \* mine: attract_owner is the program in front
    demo            \* the .DEM files; session: what the player's game had read (history)

attractVars == <<front, forPlayer, phase, owner, frame, memory, fed, cap, attract, demo>>

AttractTypeOK ==
    /\ front \in Programs /\ owner \in Programs \cup {NoProgram}
    /\ {forPlayer, fed} \subseteq BOOLEAN
    /\ phase \in {"present", "read"}
    /\ frame \in 0 .. MaxPresents
    /\ memory \in Sessions
    /\ cap \in [active : BOOLEAN, n : 0 .. DEMO_FRAMES, pads : [Captured0 -> Presses]]
    /\ attract \in [active : BOOLEAN, play : BOOLEAN, mine : BOOLEAN, cancel : BOOLEAN,
                    cursor : Nat, game : Games \cup {NoProgram}, tape : Tapes]
    /\ demo \in [Games -> [tape : Tapes, session : Sessions \cup {NoSession}]]

AttractInit ==
    /\ front = Launcher /\ forPlayer = FALSE /\ phase = "present"
    /\ owner = NoProgram /\ frame = 0 /\ memory = <<>> /\ fed = FALSE
    /\ cap = [active |-> FALSE, n |-> 0, pads |-> [i \in Captured0 |-> NoPress]]
    /\ attract = [active |-> FALSE, play |-> FALSE, mine |-> FALSE, cancel |-> FALSE,
                  cursor |-> 0, game |-> NoProgram, tape |-> <<>>]
    /\ demo = [g \in Games |-> [tape |-> <<>>, session |-> NoSession]]

-----------------------------------------------------------------------------
\* attract_is_current: by name, whoever the demo was armed for.
IsCurrent == attract.active /\ front = attract.game

Mine == owner = front

\* Mutant: the capture is appended to, whatever was rewound.
Captured_Appends(pad) ==
    IF cap.active /\ Mine /\ cap.n > 0
    THEN [cap EXCEPT !.pads[cap.n - 1] = pad]
    ELSE cap

Captured(pad) ==
    IF cap.active /\ Mine /\ frame < DEMO_FRAMES
    THEN [cap EXCEPT !.pads[frame] = pad]
    ELSE cap

Remember(pad) == memory' = IF front = Launcher THEN <<>> ELSE Append(memory, pad)

\* rewind_feed_pad, when a demo is fed and when the pads are live.
ReadRecorded(pad) ==
    /\ phase = "read" /\ IsCurrent
    /\ Remember(attract.tape[IF attract.play THEN attract.cursor + 1 ELSE 1])
    /\ attract' = [attract EXCEPT !.cancel = @ \/ pad # NoPress]
    /\ fed' = TRUE /\ phase' = "present"
    /\ UNCHANGED <<front, forPlayer, owner, frame, cap, demo>>

ReadLive(pad) ==
    /\ phase = "read" /\ ~IsCurrent
    /\ Remember(pad)
    /\ cap' = Captured(pad)
    /\ phase' = "present"
    /\ UNCHANGED <<front, forPlayer, owner, frame, fed, attract, demo>>

-----------------------------------------------------------------------------
(***************************************************************************)
(* rewind_on_present, and attract_end.                                     *)
(***************************************************************************)
\* A new process on the screen: the demo queued for it starts, or a capture.
FirstPresent ==
    /\ phase = "present" /\ ~Mine
    /\ owner' = front /\ frame' = 0 /\ phase' = "read"
    /\ IF IsCurrent /\ ~attract.play
       THEN /\ attract' = [attract EXCEPT !.play = TRUE, !.cursor = 0, !.mine = TRUE]
            /\ cap' = [cap EXCEPT !.active = FALSE]
       ELSE /\ cap' = [cap EXCEPT !.active = TRUE, !.n = 1]
            /\ UNCHANGED attract
    /\ UNCHANGED <<front, forPlayer, memory, fed, demo>>

DemoPlays == attract.active /\ attract.play /\ attract.mine

\* rewind_demo_save, called by the launcher as soon as the game it waited
\* for is gone; the file may fail to be written.
DemoSaved ==
    LET whole == Mine /\ ~fed IN
    \/ UNCHANGED demo
    \/ /\ forPlayer /\ cap.n >= DEMO_MIN
       /\ demo' = [demo EXCEPT ![front] =
            [tape |-> [i \in 1 .. cap.n |-> cap.pads[i - 1]],
             session |-> IF whole THEN memory ELSE NoSession]]

\* The game is gone, and the launcher goes on.
Over(att) ==
    /\ front' = Launcher /\ phase' = "present" /\ forPlayer' = FALSE
    /\ owner' = IF Mine THEN NoProgram ELSE owner
    /\ memory' = <<>> /\ fed' = FALSE
    /\ attract' = [att EXCEPT !.mine = FALSE]
    /\ DemoSaved
    /\ UNCHANGED <<frame, cap>>

\* Its deadline may pass at any present.
PresentDemo ==
    /\ phase = "present" /\ Mine /\ DemoPlays
    /\ LET next == [attract EXCEPT !.cursor = @ + 1] IN
       \/ /\ next.cursor < Len(attract.tape) /\ ~attract.cancel
          /\ attract' = next /\ phase' = "read"
          /\ UNCHANGED <<front, forPlayer, owner, frame, memory, fed, cap, demo>>
       \/ Over([next EXCEPT !.active = FALSE])

Presented ==
    IF cap.active /\ frame + 1 < DEMO_FRAMES THEN [cap EXCEPT !.n = frame + 2] ELSE cap

PresentLive ==
    /\ phase = "present" /\ Mine /\ ~DemoPlays /\ frame < MaxPresents
    /\ frame' = frame + 1
    /\ cap' = Presented
    /\ phase' = "read"
    /\ UNCHANGED <<front, forPlayer, owner, memory, fed, attract, demo>>

\* A present from which the player went back to that of an earlier frame, by
\* the menu or by a scrub; what becomes of the memory then is in Rewind.
PresentRewound(f) ==
    /\ phase = "present" /\ Mine /\ ~DemoPlays /\ f <= frame
    /\ frame' = f
    /\ memory' = SubSeq(memory, 1, IF front = Launcher THEN 0 ELSE f)
    /\ cap' = Presented
    /\ phase' = "read"
    /\ UNCHANGED <<front, forPlayer, owner, fed, attract, demo>>

-----------------------------------------------------------------------------
\* The launcher starts a game, or fails to.
Started(g, player) ==
    \/ /\ front' = g /\ forPlayer' = player /\ phase' = "present"
       /\ UNCHANGED <<owner, frame, memory, fed, cap, demo>>
    \/ UNCHANGED <<front, forPlayer, phase, owner, frame, memory, fed, cap, demo>>

\* The player's choice, or a beamed game, of which no demo is saved.
Choose(g) ==
    /\ front = Launcher /\ phase = "present" /\ Mine
    /\ \E player \in BOOLEAN : Started(g, player)
    /\ UNCHANGED attract

\* Idle, it starts the game of which rewind_arm_attract has loaded a demo.
ArmAttract(g) ==
    /\ front = Launcher /\ phase = "present" /\ Mine
    /\ demo[g].tape # <<>>
    /\ attract' = [active |-> TRUE, play |-> FALSE, mine |-> FALSE, cancel |-> FALSE,
                   cursor |-> 0, game |-> g, tape |-> demo[g].tape]
    /\ Started(g, FALSE)

\* The game exits, faults, is quit from the menu, or was never loaded.
GameEnds == front # Launcher /\ phase = "present" /\ Over(attract)

AttractNext ==
    \/ FirstPresent \/ PresentDemo \/ PresentLive \/ GameEnds
    \/ \E f \in 0 .. MaxPresents : PresentRewound(f)
    \/ \E pad \in Presses : ReadRecorded(pad) \/ ReadLive(pad)
    \/ \E g \in Games : Choose(g) \/ ArmAttract(g)

AttractSpec == AttractInit /\ [][AttractNext]_attractVars

-----------------------------------------------------------------------------
(***************************************************************************)
(* Properties.                                                             *)
(***************************************************************************)
\* A demo re-runs the session the player had, however it was rewound on the
\* way and whatever was captured before it: the game being played back has
\* read what the player's had, as far as both go.  Excepted are the files
\* saved for a session that never came to a present, which hold a capture of
\* the launcher, or that was fed from a demo itself.
DemoIsExact ==
    DemoPlays /\ demo[front].session # NoSession =>
        LET session == demo[front].session IN
        \A i \in DOMAIN memory \cap DOMAIN session : memory[i] = session[i]

\* "Any real button ends it": no program that read on after a button was
\* pressed, and after a present since, is fed from the demo still.
AnyButtonEndsIt == IsCurrent /\ phase = "read" => ~attract.cancel
=============================================================================
