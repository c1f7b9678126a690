------------------------------ MODULE PadFilter ------------------------------
(***************************************************************************)
(* What player 1's game sees of its controller: the press latch of         *)
(* gamepad.c, rewind.c's pad filter, which keeps the system chords         *)
(* SELECT+START (menu) and SELECT+L1 (scrub) from the game, and the menu   *)
(* and scrub loops, which read the same pad.  START stands for A and B in  *)
(* the menu.                                                               *)
(***************************************************************************)
EXTENDS Naturals

CONSTANTS
    COOLDOWN,   \* length of the cooldown (400 ms)
    Careless    \* whether the player may press or release SELECT second,
                \* on a keyboard, which repeats held keys

ASSUME FilterAssumption == COOLDOWN \in Nat \ {0} /\ Careless \in BOOLEAN

Buttons == {"SELECT", "START", "L1"}
MENU_CHORD == {"SELECT", "START"}
CHORD == {"SELECT", "L1"}

VARIABLES
    held,           \* buttons down
    latch,          \* pressed since the last gamepad_get_state
    filter,         \* rewind_filter_pad's static variables
    menu_requested,
    screen,         \* where the game is: running, or inside GFX_PRESENT
    prev,           \* what the menu saw on its last pass
    seen,           \* what the last PAD_READ gave the game, if that was just now
    combo,          \* whether the last press of SELECT was part of a chord (history)
    foreign         \* buttons whose last press was meant for the menu (history)

filterVars == <<held, latch, filter, menu_requested, screen, prev, seen, combo, foreign>>

FilterTypeOK ==
    /\ {held, latch, prev, seen, foreign} \subseteq SUBSET Buttons
    /\ filter \in [select_pending : BOOLEAN, menu_chord_was_down : BOOLEAN,
                   cooldown : 0 .. COOLDOWN]
    /\ {menu_requested, combo} \subseteq BOOLEAN
    /\ screen \in {"game", "replay", "scrub", "menu", "drain"}

FilterInit ==
    /\ held = {} /\ latch = {}
    /\ filter = [select_pending |-> FALSE, menu_chord_was_down |-> FALSE, cooldown |-> 0]
    /\ menu_requested = FALSE /\ screen = "game"
    /\ prev = {} /\ seen = {} /\ combo = FALSE /\ foreign = {}

Chorded(b) == MENU_CHORD \subseteq b \/ CHORD \subseteq b

-----------------------------------------------------------------------------
(***************************************************************************)
(* The player, and time.                                                   *)
(***************************************************************************)
PressButton(b) ==
    /\ b \notin held
    /\ b = "SELECT" => Careless \/ held = {}
    /\ held' = held \cup {b} /\ latch' = latch \cup {b}
    /\ combo' = \/ Chorded(held') /\ screen \notin {"menu", "drain"}
                \/ combo /\ b # "SELECT"
    /\ foreign' = IF screen \in {"menu", "drain"} THEN foreign \cup {b} ELSE foreign \ {b}
    /\ seen' = {}
    /\ UNCHANGED <<filter, menu_requested, screen, prev>>

ReleaseButton(b) ==
    /\ b \in held
    /\ Careless \/ b = "SELECT" \/ "SELECT" \notin held
    /\ held' = held \ {b}
    /\ seen' = {}
    /\ UNCHANGED <<latch, filter, menu_requested, screen, prev, combo, foreign>>

\* A keyboard sends the make code of a held key again and again.
RepeatButton(b) ==
    /\ Careless /\ b \in held
    /\ latch' = latch \cup {b}
    /\ seen' = {}
    /\ UNCHANGED <<held, filter, menu_requested, screen, prev, combo, foreign>>

\* A menu that was asked for opens within the cooldown.
Cool ==
    /\ filter.cooldown > 0 /\ ~menu_requested
    /\ filter' = [filter EXCEPT !.cooldown = @ - 1]
    /\ seen' = {}
    /\ UNCHANGED <<held, latch, menu_requested, screen, prev, combo, foreign>>

-----------------------------------------------------------------------------
(***************************************************************************)
(* SYS_PAD_READ: gamepad_get_state, then the filter.  During a replay the  *)
(* game gets the log instead, but the filter runs all the same.            *)
(***************************************************************************)
GetState == held \cup latch

Answer(b) == seen' = IF screen = "replay" THEN {} ELSE b

Swallow(chord) ==
    /\ filter' = [select_pending |-> FALSE, menu_chord_was_down |-> chord,
                  cooldown |-> COOLDOWN]
    /\ Answer({})

Settle(pending) ==
    filter' = [filter EXCEPT !.select_pending = pending, !.menu_chord_was_down = FALSE]

FilterMenuChord(st) ==
    /\ MENU_CHORD \subseteq st
    /\ menu_requested' = (menu_requested \/ ~filter.menu_chord_was_down)
    /\ Swallow(TRUE)

FilterScrubChord(st) ==
    /\ CHORD \subseteq st /\ ~ MENU_CHORD \subseteq st
    /\ Swallow(FALSE)
    /\ UNCHANGED menu_requested

FilterCooldown(st) ==
    /\ ~Chorded(st) /\ filter.cooldown > 0
    /\ Settle(filter.select_pending)
    /\ Answer(st \ (CHORD \cup MENU_CHORD))
    /\ UNCHANGED menu_requested

FilterWithhold(st) ==
    /\ ~Chorded(st) /\ filter.cooldown = 0 /\ "SELECT" \in st
    /\ Settle(TRUE)
    /\ Answer(st \ {"SELECT"})
    /\ UNCHANGED menu_requested

\* Mutant: a partner that shows up after SELECT is let go is not a chord.
Straddled_Never(st) == FALSE

\* SELECT was withheld and let go, and its partner only shows up now.
Straddled(st) ==
    filter.select_pending /\ "SELECT" \notin st /\ st \cap {"START", "L1"} # {}

FilterReassemble(st) ==
    /\ filter.cooldown = 0 /\ Straddled(st)
    /\ menu_requested' = (menu_requested \/ "START" \in st)
    /\ Swallow(FALSE)

FilterPass(st) ==
    /\ filter.cooldown = 0 /\ "SELECT" \notin st /\ ~Straddled(st)
    /\ Settle(FALSE)
    /\ Answer(IF filter.select_pending THEN st \cup {"SELECT"} ELSE st)
    /\ UNCHANGED menu_requested

PadRead ==
    /\ screen \in {"game", "replay"}
    /\ LET st == GetState IN
        \/ FilterMenuChord(st) \/ FilterScrubChord(st) \/ FilterCooldown(st)
        \/ FilterWithhold(st) \/ FilterReassemble(st) \/ FilterPass(st)
    /\ latch' = {}
    /\ UNCHANGED <<held, screen, prev, combo, foreign>>

-----------------------------------------------------------------------------
(***************************************************************************)
(* GFX_PRESENT: the scrub session and the system menu.                     *)
(***************************************************************************)
\* sysmenu_on_present's first test, once nothing is being scrubbed.
MaybeMenu ==
    /\ screen' = IF menu_requested THEN "menu" ELSE "game"
    /\ prev' = IF menu_requested THEN Buttons ELSE {}
    /\ menu_requested' = FALSE
    /\ seen' = {}

Present ==
    /\ screen = "game"
    /\ IF CHORD \subseteq held
       THEN screen' = "scrub" /\ seen' = {} /\ UNCHANGED <<prev, menu_requested>>
       ELSE MaybeMenu
    /\ UNCHANGED <<held, latch, filter, combo, foreign>>

\* The hold loop starts a hop, and the replay arrives.
HopOrArrive ==
    /\ \/ screen = "scrub" /\ CHORD \subseteq held /\ screen' = "replay"
       \/ screen = "replay" /\ screen' = "scrub"
    /\ seen' = {}
    /\ UNCHANGED <<held, latch, filter, menu_requested, prev, combo, foreign>>

LetGo ==
    /\ screen = "scrub" /\ ~ CHORD \subseteq held
    /\ MaybeMenu
    /\ UNCHANGED <<held, latch, filter, combo, foreign>>

\* One pass of the menu's loop.  A row is chosen with START: CONTINUE and
\* JUMP leave, a BEAM nobody takes does not.
MenuPass ==
    /\ screen = "menu"
    /\ latch' = {}
    /\ IF "START" \in GetState \ prev
       THEN \/ screen' = "drain" /\ prev' = {}
            \/ screen' = "menu" /\ prev' = Buttons
       ELSE screen' = "menu" /\ prev' = GetState
    /\ seen' = {}
    /\ UNCHANGED <<held, filter, menu_requested, combo, foreign>>

\* Mutant: the menu goes away while its buttons are still down.
Drained_Always == TRUE

Drained == GetState = {}

MenuDrain ==
    /\ screen = "drain"
    /\ latch' = {}
    /\ screen' = IF Drained THEN "game" ELSE "drain"
    /\ seen' = {}
    /\ UNCHANGED <<held, filter, menu_requested, prev, combo, foreign>>

FilterNext ==
    \/ \E b \in Buttons : PressButton(b) \/ ReleaseButton(b) \/ RepeatButton(b)
    \/ Cool \/ PadRead \/ Present \/ HopOrArrive \/ LetGo \/ MenuPass \/ MenuDrain

FilterSpec == FilterInit /\ [][FilterNext]_filterVars

-----------------------------------------------------------------------------
(***************************************************************************)
(* Properties.                                                             *)
(***************************************************************************)
\* A SELECT pressed for a system chord never reaches the game, where it
\* would mean QUIT, however the polls fall between the presses and releases.
ChordNeverLeaks == combo => "SELECT" \notin seen

\* What is pressed in the menu never reaches the game, neither as a held
\* button nor through the latch.
MenuKeepsItsPresses == seen \cap foreign = {}
=============================================================================
