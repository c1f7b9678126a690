------------------------------ MODULE Keyboard -------------------------------
(***************************************************************************)
(* The keyboards behind the two virtual pads: a PS/2 keyboard whose bytes  *)
(* arrive by IRQ1 (keyboard.c), USB boot keyboards whose reports usb_poll  *)
(* turns into the same bytes (usb.c), and the hook that turns bytes into   *)
(* held buttons (gamepad.c).  usb_poll runs with interrupts on in the menu *)
(* and while scrubbing, so IRQ1 comes between its bytes; and a byte of     *)
(* IRQ1 may wait while usb_poll injects its own.                           *)
(*                                                                         *)
(* A key is a set-1 code with or without the E0 prefix.  The text side of  *)
(* the driver (modifiers, the ring of key events) is left out.             *)
(***************************************************************************)
EXTENDS Naturals, Sequences, FiniteSets, SequencesExt

CONSTANTS
    Codes,          \* codes that are a button
    Arrows,         \* those of them that are a button with the prefix, too
    UsbBoards,
    NoReport,
    FIFO,           \* bound of the model: bytes waiting in the PS/2 keyboard
    Mixing          \* whether a byte of one keyboard may come between the prefix
                    \* and the code of another

ASSUME KeyboardAssumption ==
    /\ IsFiniteSet(Codes) /\ Arrows \subseteq Codes
    /\ "ps2" \notin UsbBoards
    /\ \A keys \in SUBSET (Codes \X BOOLEAN) : keys # NoReport
    /\ FIFO \in Nat /\ Mixing \in BOOLEAN

AllKeys == Codes \X BOOLEAN                    \* <<code, prefixed>>
UsbKeys == {k \in AllKeys : k[2] <=> k[1] \in Arrows}   \* hid_usage_to_set1
KeyBoards == {"ps2"} \cup UsbBoards
E0 == <<"E0", "prefix">>
Bytes == {E0} \cup (Codes \X {"make", "break"})

VARIABLES
    down,           \* the keys that are down, per keyboard, as it has reported them
    irq1,           \* bytes the PS/2 keyboard has not delivered
    report,         \* of each USB keyboard, fetched and not decoded yet
    kbd_prev,           \* bootkbd_decode's, shared by all USB keyboards
    todo,           \* the bytes bootkbd_decode has still to inject
    kb_extended,
    buttons,        \* raw[KEYBOARD_A / _B].buttons
    half,           \* who has injected a prefix, and not yet its code (history)
    pulled          \* keys down on keyboards unplugged since the last report (history)

keyVars == <<down, irq1, report, kbd_prev, todo, kb_extended, buttons, half, pulled>>

KeyTypeOK ==
    /\ down \in [KeyBoards -> SUBSET AllKeys]
    /\ irq1 \in Seq(Bytes) /\ todo \in Seq(Bytes)
    /\ report \in [UsbBoards -> (SUBSET UsbKeys) \cup {NoReport}]
    /\ {kbd_prev, pulled} \subseteq SUBSET UsbKeys
    /\ kb_extended \in BOOLEAN
    /\ buttons \subseteq Codes
    /\ half \subseteq {"ps2", "usb"}

KeyInit ==
    /\ down = [b \in KeyBoards |-> {}] /\ irq1 = <<>>
    /\ report = [b \in UsbBoards |-> NoReport]
    /\ kbd_prev = {} /\ todo = <<>>
    /\ kb_extended = FALSE /\ buttons = {}
    /\ half = {} /\ pulled = {}

-----------------------------------------------------------------------------
\* keyboard_inject_scancode up to and with gamepad_kb_hook.
Button(code) == IF kb_extended /\ code \notin Arrows THEN {} ELSE {code}

\* Mutant: the prefix holds for all that follows.
Hook_KeepsPrefix(byte) ==
    IF byte = E0 THEN kb_extended' = TRUE /\ UNCHANGED buttons
    ELSE /\ UNCHANGED kb_extended
         /\ buttons' = IF byte[2] = "make" THEN buttons \cup Button(byte[1])
                       ELSE buttons \ Button(byte[1])

gamepad_kb_hook(byte) ==
    IF byte = E0 THEN kb_extended' = TRUE /\ UNCHANGED buttons
    ELSE /\ kb_extended' = FALSE
         /\ buttons' = IF byte[2] = "make" THEN buttons \cup Button(byte[1])
                       ELSE buttons \ Button(byte[1])

Inject(by, byte) ==
    /\ Mixing \/ half \subseteq {by}
    /\ gamepad_kb_hook(byte)
    /\ half' = IF byte = E0 THEN half \cup {by} ELSE half \ {by}

BytesOf(k, what) == (IF k[2] THEN <<E0>> ELSE <<>>) \o <<<<k[1], what>>>>

\* A key goes down, repeats or comes up.
Ps2Sends(k, what) ==
    /\ Len(irq1) + Len(BytesOf(k, what)) <= FIFO
    /\ irq1' = irq1 \o BytesOf(k, what)
    /\ UNCHANGED <<report, kbd_prev, todo, kb_extended, buttons, half, pulled>>

Ps2Make(k) == Ps2Sends(k, "make") /\ down' = [down EXCEPT !["ps2"] = @ \cup {k}]
Ps2Break(k) ==
    /\ k \in down["ps2"]
    /\ Ps2Sends(k, "break") /\ down' = [down EXCEPT !["ps2"] = @ \ {k}]

\* keyboard_irq_handler.
Irq1 ==
    /\ irq1 # <<>>
    /\ Inject("ps2", Head(irq1))
    /\ irq1' = Tail(irq1)
    /\ UNCHANGED <<down, report, kbd_prev, todo, pulled>>

-----------------------------------------------------------------------------
\* The controller fetches a report when keys have changed, several perhaps.
UsbReports(b, keys) ==
    /\ report[b] = NoReport /\ keys # down[b]
    /\ report' = [report EXCEPT ![b] = keys]
    /\ down' = [down EXCEPT ![b] = keys]
    /\ UNCHANGED <<irq1, kbd_prev, todo, kb_extended, buttons, half, pulled>>

\* What a keyboard has down when it is unplugged stays so in kbd_prev, until
\* another report of any keyboard.
UsbUnplug(b) ==
    /\ down' = [down EXCEPT ![b] = {}]
    /\ report' = [report EXCEPT ![b] = NoReport]
    /\ pulled' = pulled \cup kbd_prev
    /\ UNCHANGED <<irq1, kbd_prev, todo, kb_extended, buttons, half>>

\* bootkbd_decode: the releases, then the presses, in the order of the report.
AllBytes(keys, what) == FlattenSeq([i \in DOMAIN keys |-> BytesOf(keys[i], what)])

UsbDecode(b) ==
    /\ todo = <<>> /\ report[b] # NoReport
    /\ \E gone \in SetToSeqs(kbd_prev \ report[b]), new \in SetToSeqs(report[b] \ kbd_prev) :
        todo' = AllBytes(gone, "break") \o AllBytes(new, "make")
    /\ kbd_prev' = report[b]
    /\ report' = [report EXCEPT ![b] = NoReport]
    /\ pulled' = {}
    /\ UNCHANGED <<down, irq1, kb_extended, buttons, half>>

UsbInject ==
    /\ todo # <<>>
    /\ Inject("usb", Head(todo))
    /\ todo' = Tail(todo)
    /\ UNCHANGED <<down, irq1, report, kbd_prev, pulled>>

KeyNext ==
    \/ Irq1 \/ UsbInject
    \/ \E k \in AllKeys : Ps2Make(k) \/ Ps2Break(k)
    \/ \E b \in UsbBoards :
        \/ UsbDecode(b) \/ UsbUnplug(b)
        \/ \E keys \in SUBSET UsbKeys : UsbReports(b, keys)

KeySpec == KeyInit /\ [][KeyNext]_keyVars

-----------------------------------------------------------------------------
(***************************************************************************)
(* Properties.                                                             *)
(***************************************************************************)
Quiet ==
    /\ irq1 = <<>> /\ todo = <<>>
    /\ \A b \in UsbBoards : report[b] = NoReport

Accounted == (UNION {down[b] : b \in KeyBoards}) \cup pulled

\* A button is not held in a game when no key for it is: whatever keys were
\* pressed and released together on all keyboards, once everything has been
\* delivered a button that shows as held has a key that is down, or that was
\* on a keyboard since unplugged.  It is so unless Mixing: there is one
\* kb_extended, and a release that is taken for a prefixed one is lost.
NoStuckButton == Quiet => buttons \subseteq {k[1] : k \in Accounted}
=============================================================================
