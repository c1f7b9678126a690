------------------------------- MODULE Gamepad -------------------------------
(***************************************************************************)
(* Who plays with what (gamepad.c): the keyboard's two virtual pads and up *)
(* to two USB pads are sources, each assigned to a player slot or to none; *)
(* and the HID reports (usb.c) that feed them.  A source has one button.   *)
(* Of its state only the press latch is kept, not what is held.            *)
(***************************************************************************)
EXTENDS Integers, FiniteSets

CONSTANTS
    Pads,       \* USB pads, by their device address
    NoPad

ASSUME GamepadAssumption == NoPad \notin Pads

Keyboards == {"KEYBOARD_A", "KEYBOARD_B"}
UsbSources == {"USB_0", "USB_1"}
Sources == Keyboards \cup UsbSources
Players == {0, 1}
Spectator == -1

VARIABLES
    connected,      \* connected[s]
    src_latch,
    assignment,
    usb_addr,       \* the pad behind each USB source
    plugged,        \* pads that are there
    assigned        \* whether the player has used SYS_PAD_ASSIGN (history)

padVars == <<connected, src_latch, assignment, usb_addr, plugged, assigned>>

PadTypeOK ==
    /\ {connected, src_latch} \subseteq [Sources -> BOOLEAN]
    /\ assignment \in [Sources -> Players \cup {Spectator}]
    /\ usb_addr \in [UsbSources -> Pads \cup {NoPad}]
    /\ plugged \subseteq Pads /\ assigned \in BOOLEAN

DefaultKeyboard(p) == IF p = 0 THEN "KEYBOARD_A" ELSE "KEYBOARD_B"

PadInit ==
    /\ connected = [s \in Sources |-> s \in Keyboards]
    /\ src_latch = [s \in Sources |-> FALSE]
    /\ assignment = [s \in Sources |->
        IF s = "KEYBOARD_A" THEN 0 ELSE IF s = "KEYBOARD_B" THEN 1 ELSE Spectator]
    /\ usb_addr = [s \in UsbSources |-> NoPad]
    /\ plugged = {} /\ assigned = FALSE

-----------------------------------------------------------------------------
(***************************************************************************)
(* Reports.                                                                *)
(***************************************************************************)
\* gamepad_kb_hook, from IRQ1 and from a USB keyboard: a press, or a held
\* key that repeats.
Press(k) ==
    /\ src_latch' = [src_latch EXCEPT ![k] = TRUE]
    /\ UNCHANGED <<connected, assignment, usb_addr, plugged, assigned>>

PlugPad(a) ==
    /\ plugged' = plugged \cup {a}
    /\ UNCHANGED <<connected, src_latch, assignment, usb_addr, assigned>>

SourceOf(a) == {s \in UsbSources : usb_addr[s] = a}

\* gamepad_feed_usb.
Feed(s, newly) ==
    /\ src_latch' = [src_latch EXCEPT ![s] = @ \/ newly]
    /\ connected' = [connected EXCEPT ![s] = TRUE]

\* ds4_decode, of a pad that has its source.
Report(a, newly) ==
    /\ a \in plugged
    /\ \E s \in SourceOf(a) : Feed(s, newly)
    /\ UNCHANGED <<assignment, usb_addr, plugged, assigned>>

\* Mutant: a new pad always takes the first seat.
Taken_Never(s, p) == FALSE

Taken(s, p) == \E t \in UsbSources \ {s} : assignment[t] = p /\ connected[t]

FirstOf(S) == IF "USB_0" \in S THEN "USB_0" ELSE "USB_1"

\* ds4_decode's first report: gamepad_usb_source_for_addr gives it a source
\* and the first seat no other pad has; the keyboard that had it stands up.
ReportFirst(a, newly) ==
    LET s == FirstOf(SourceOf(NoPad))
        p == IF ~Taken(s, 0) THEN 0 ELSE IF ~Taken(s, 1) THEN 1 ELSE Spectator
    IN  /\ a \in plugged /\ SourceOf(a) = {} /\ SourceOf(NoPad) # {}
        /\ usb_addr' = [usb_addr EXCEPT ![s] = a]
        /\ assignment' = [t \in Sources |->
            IF t = s THEN p
            ELSE IF p # Spectator /\ t = DefaultKeyboard(p) /\ assignment[t] = p
            THEN Spectator ELSE assignment[t]]
        /\ Feed(s, newly)
        /\ UNCHANGED <<plugged, assigned>>

\* gamepad_usb_disconnect_addr: the seat goes back to its keyboard, if that
\* has none.
UnplugPad(a) ==
    /\ a \in plugged
    /\ plugged' = plugged \ {a}
    /\ LET S == SourceOf(a) IN
        /\ connected' = [s \in Sources |-> connected[s] /\ s \notin S]
        /\ src_latch' = [s \in Sources |-> src_latch[s] /\ s \notin S]
        /\ usb_addr' = [s \in UsbSources |-> IF s \in S THEN NoPad ELSE usb_addr[s]]
        /\ assignment' = [t \in Sources |->
            IF t \in S THEN Spectator
            ELSE IF t \in Keyboards /\ assignment[t] = Spectator
                    /\ \E s \in S, p \in Players : assignment[s] = p /\ DefaultKeyboard(p) = t
            THEN IF t = "KEYBOARD_A" THEN 0 ELSE 1
            ELSE assignment[t]]
    /\ UNCHANGED assigned

-----------------------------------------------------------------------------
(***************************************************************************)
(* The system calls.                                                       *)
(***************************************************************************)
\* gamepad_get_state: what the seat's sources latched is delivered.
Read(p) ==
    /\ src_latch' = [s \in Sources |->
        src_latch[s] /\ ~ (assignment[s] = p /\ connected[s])]
    /\ UNCHANGED <<connected, assignment, usb_addr, plugged, assigned>>

\* SYS_PAD_ASSIGN LIST: gamepad_unassigned_latched.
ListSources ==
    /\ src_latch' = [s \in Sources |-> src_latch[s] /\ assignment[s] # Spectator]
    /\ UNCHANGED <<connected, assignment, usb_addr, plugged, assigned>>

\* SYS_PAD_ASSIGN SET.
Assign(s, p) ==
    /\ assignment' = [assignment EXCEPT ![s] = p]
    /\ assigned' = TRUE
    /\ UNCHANGED <<connected, src_latch, usb_addr, plugged>>

PadNext ==
    \/ \E k \in Keyboards : Press(k)
    \/ \E a \in Pads : PlugPad(a) \/ UnplugPad(a)
        \/ \E newly \in BOOLEAN : Report(a, newly) \/ ReportFirst(a, newly)
    \/ ListSources
    \/ \E p \in Players : Read(p)
    \/ \E s \in Sources, p \in Players \cup {Spectator} : Assign(s, p)

PadSpec == PadInit /\ [][PadNext]_padVars

-----------------------------------------------------------------------------
(***************************************************************************)
(* Properties.                                                             *)
(***************************************************************************)
\* Until somebody assigns controllers by hand, each player has exactly one
\* controller, and every USB pad that reports has a player, whatever is
\* plugged and pulled, in whatever order.
SeatsAreFilled ==
    ~assigned =>
        /\ \A p \in Players :
            Cardinality({s \in Sources : assignment[s] = p /\ connected[s]}) = 1
        /\ \A s \in UsbSources : connected[s] => assignment[s] # Spectator
=============================================================================
