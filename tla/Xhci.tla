-------------------------------- MODULE Xhci --------------------------------
(***************************************************************************)
(* The xHCI driver (xhci.c) for its one device: transfer rings with cycle  *)
(* bits, the event ring, enumeration and hot-plug, and rumble (usb.c,      *)
(* gamepad.c), whose control transfers wait with interrupts on, so that    *)
(* the idle task, which ends a buzz, transfers in the middle of the game's.*)
(*                                                                         *)
(* A control transfer is one TRB of its ring.  event_poll is one step.     *)
(***************************************************************************)
EXTENDS Naturals, Sequences

CONSTANTS
    XFER_RING_TRBS,     \* TRBs of a transfer ring with the link TRB (64)
    EVT_RING_TRBS,      \* events the controller can post unread (128)
    Errors              \* whether a transfer of a present device may fail

ASSUME XhciAssumption == XFER_RING_TRBS \in Nat \ {0, 1} /\ EVT_RING_TRBS \in Nat /\ Errors \in BOOLEAN

Slots == 0 .. XFER_RING_TRBS - 2
Rings == {"ep0", "int"}
Tasks == {"game", "idle"}
Done == XFER_RING_TRBS      \* no TRB: nobody waits for it

VARIABLES
    ring,       \* the driver's side of each ring: cycle bits, enq, cycle
    hc,         \* the controller's side: dequeue pointer and cycle, halted
    events,     \* the event ring's unread part
    wait,       \* the TRB each task's wait_event waits for
    doing,      \* what each task does around the wait
    hid,        \* devices[0].in_use, int_dci # 0, and rumble_active
    inserted,   \* "none", "new" since it was plugged in, or "ready"
    stale       \* whether the device met a ring whose cycle was 0 (history)

xhciVars == <<ring, hc, events, wait, doing, hid, inserted, stale>>

XhciTypeOK ==
    /\ ring \in [Rings -> [trb : [Slots -> {0, 1}], enq : Slots, cycle : {0, 1}]]
    /\ hc \in [Rings -> [deq : Slots, cycle : {0, 1}, halted : BOOLEAN]]
    /\ events \in Seq([ring : Rings, trb : Slots])
    /\ wait \in [Tasks -> Slots \cup {Done}]
    /\ doing \in [Tasks -> {"none", "describe", "configure", "rumble"}]
    /\ hid \in [in_use : BOOLEAN, pipe : BOOLEAN, rumble_active : BOOLEAN]
    /\ inserted \in {"none", "new", "ready"}
    /\ stale \in BOOLEAN

ring_init == [trb |-> [i \in Slots |-> 0], enq |-> 0, cycle |-> 1]

XhciInit ==
    /\ ring = [r \in Rings |-> ring_init]
    /\ hc = [r \in Rings |-> [deq |-> 0, cycle |-> 1, halted |-> FALSE]]
    /\ events = <<>>
    /\ wait = [t \in Tasks |-> Done] /\ doing = [t \in Tasks |-> "none"]
    /\ hid = [in_use |-> FALSE, pipe |-> FALSE, rumble_active |-> FALSE]
    /\ inserted = "none" /\ stale = FALSE

-----------------------------------------------------------------------------
(***************************************************************************)
(* Rings.                                                                  *)
(***************************************************************************)
\* A pointer that runs into the link TRB goes back to the start and toggles
\* its cycle bit.
After(i) == IF i = XFER_RING_TRBS - 2 THEN 0 ELSE i + 1
Toggled(i, cycle) == IF i = XFER_RING_TRBS - 2 THEN 1 - cycle ELSE cycle

ring_push(r) ==
    [trb |-> [r.trb EXCEPT ![r.enq] = r.cycle],
     enq |-> After(r.enq), cycle |-> Toggled(r.enq, r.cycle)]

\* The controller owns the TRB at its dequeue pointer.
Owned(r) == ~hc[r].halted /\ ring[r].trb[hc[r].deq] = hc[r].cycle
Room == Len(events) < EVT_RING_TRBS

\* Address Device and Configure Endpoint hand the controller a ring from
\* its start and with cycle 1, wherever the driver is in it.
Handed == [deq |-> 0, cycle |-> 1, halted |-> FALSE]

-----------------------------------------------------------------------------
(***************************************************************************)
(* The player and the controller.                                          *)
(***************************************************************************)
PlugIn ==
    /\ inserted = "none"
    /\ inserted' = "new"
    /\ UNCHANGED <<ring, hc, events, wait, doing, hid, stale>>

PullOut ==
    /\ inserted # "none"
    /\ inserted' = "none"
    /\ UNCHANGED <<ring, hc, events, wait, doing, hid, stale>>

Post(r) == events' = Append(events, [ring |-> r, trb |-> hc[r].deq])

\* A transfer completes, or, with no device to answer, fails and halts the
\* endpoint; both post an event.
RunTrb(r) ==
    /\ Owned(r) /\ Room
    /\ Post(r)
    /\ hc' = [hc EXCEPT ![r] =
        [deq |-> After(@.deq), cycle |-> Toggled(@.deq, @.cycle), halted |-> FALSE]]
    /\ inserted = "ready"
    /\ UNCHANGED <<ring, wait, doing, hid, inserted, stale>>

FailTrb(r) ==
    /\ Owned(r)
    /\ inserted = "ready" => Errors
    /\ Post(r)
    /\ hc' = [hc EXCEPT ![r].halted = TRUE]
    /\ UNCHANGED <<ring, wait, doing, hid, inserted, stale>>

-----------------------------------------------------------------------------
(***************************************************************************)
(* Transfers.                                                              *)
(***************************************************************************)
\* int_pipe_arm and what xhci_control pushes, in a state where the rings
\* are rs.
Arm(rs) == [rs EXCEPT !["int"] = ring_push(@)]

Submit(t, what) ==
    /\ ring' = [ring EXCEPT !["ep0"] = ring_push(@)]
    /\ wait' = [wait EXCEPT ![t] = ring["ep0"].enq]
    /\ doing' = [doing EXCEPT ![t] = what]

Waiting(t) == wait[t] # Done

\* Mutant: only xhci_poll looks after the interrupt pipe.
Sink_PollOnly(ev) ==
    ring' = IF ev.ring = "int" /\ hid.pipe /\ wait = [t \in Tasks |-> Done]
            THEN Arm(ring) ELSE ring

\* handle_transfer_event; what it does with a report is in Gamepad.
Sink(ev) == ring' = IF ev.ring = "int" /\ hid.pipe THEN Arm(ring) ELSE ring

\* An event that is not the one waited for: wait_event's, and xhci_poll's.
Dispatch(t) ==
    /\ events # <<>>
    /\ t = "idle" => Waiting(t)
    /\ Head(events) # [ring |-> "ep0", trb |-> wait[t]]
    /\ Sink(Head(events))
    /\ events' = Tail(events)
    /\ UNCHANGED <<hc, wait, doing, hid, inserted, stale>>

\* The transfer waited for has completed.
Answered(t) ==
    /\ events # <<>>
    /\ Head(events) = [ring |-> "ep0", trb |-> wait[t]]
    /\ events' = Tail(events)

\* Or it has not, within a second: its event may have been read by the
\* other task.
Expired == UNCHANGED events

EndWait(t) ==
    /\ wait' = [wait EXCEPT ![t] = Done]
    /\ doing' = [doing EXCEPT ![t] = "none"]

\* SET_REPORT, with the motors on for the game and off for the idle task;
\* xhci_control takes it for the one slot it has, whoever is in it now.
usb_set_rumble(t) ==
    /\ ~Waiting(t)
    /\ Submit(t, "rumble")
    /\ UNCHANGED <<hc, events, hid, inserted, stale>>

\* SYS_RUMBLE, of a seat with a USB pad.
gamepad_set_rumble == hid.in_use /\ usb_set_rumble("game")

\* In the idle task, when the buzz is over, also when its pad has left.
gamepad_rumble_idle_check == hid.rumble_active /\ usb_set_rumble("idle")

RumbleEnds(t) ==
    /\ doing[t] = "rumble"
    /\ Answered(t) \/ Expired
    /\ hid' = [hid EXCEPT !.rumble_active = (t = "game")]
    /\ EndWait(t)
    /\ UNCHANGED <<ring, hc, inserted, stale>>

-----------------------------------------------------------------------------
(***************************************************************************)
(* Hot-plug: xhci_check_ports, every 500 ms, in the game's usb_poll.       *)
(***************************************************************************)
\* A device that was replaced between two scans goes unnoticed.
Disconnect ==
    /\ ~Waiting("game") /\ hid.in_use /\ inserted = "none"
    /\ hid' = [hid EXCEPT !.in_use = FALSE, !.pipe = FALSE]
    /\ UNCHANGED <<ring, hc, events, wait, doing, inserted, stale>>

\* A port with a device, reset unless it is enabled, while none is in use.
\* The reset answers, or the device waits for the next scan.
Found == ~Waiting("game") /\ ~hid.in_use /\ inserted # "none"

\* xhci_enumerate_port: Enable Slot, Address Device, the descriptors.  The
\* commands wait for their completions, and read all events before them.
\* The new slot has no interrupt endpoint yet.
EnumerateAddress ==
    /\ Found
    /\ inserted' = "ready"
    /\ hc' = [hc EXCEPT !["ep0"] = Handed, !["int"].halted = TRUE]
    /\ events' = <<>>
    /\ Submit("game", "describe")
    /\ UNCHANGED <<hid, stale>>

\* Configure Endpoint, SET_CONFIGURATION.
EnumerateConfigure ==
    /\ doing["game"] = "describe" /\ events # <<>>
    /\ Head(events) = [ring |-> "ep0", trb |-> wait["game"]]
    /\ events' = <<>>
    /\ hc' = [hc EXCEPT !["int"] = Handed]
    /\ stale' = (ring["int"].cycle = 0)
    /\ hid' = [hid EXCEPT !.pipe = TRUE]
    /\ Submit("game", "configure")
    /\ UNCHANGED inserted

EnumerateFails ==
    /\ doing["game"] = "describe" /\ (Answered("game") \/ Expired)
    /\ EndWait("game")
    /\ UNCHANGED <<ring, hc, hid, inserted, stale>>

\* Whatever SET_CONFIGURATION says, the pipe starts.
EnumerateEnds ==
    /\ doing["game"] = "configure" /\ (Answered("game") \/ Expired)
    /\ ring' = Arm(ring)
    /\ hid' = [hid EXCEPT !.in_use = TRUE]
    /\ EndWait("game")
    /\ UNCHANGED <<hc, inserted, stale>>

XhciNext ==
    \/ PlugIn \/ PullOut \/ Disconnect
    \/ EnumerateAddress \/ EnumerateConfigure \/ EnumerateFails \/ EnumerateEnds
    \/ \E r \in Rings : RunTrb(r) \/ FailTrb(r)
    \/ gamepad_set_rumble \/ gamepad_rumble_idle_check
    \/ \E t \in Tasks : Dispatch(t) \/ RumbleEnds(t)

XhciSpec == XhciInit /\ [][XhciNext]_xhciVars

-----------------------------------------------------------------------------
(***************************************************************************)
(* Properties.                                                             *)
(***************************************************************************)
\* While a device is in use, its interrupt pipe always has a TRB the
\* controller will come to, or an event that makes the driver queue one,
\* whichever task reads the event and whatever it waits for.  What the
\* driver does not survive: an endpoint that halts, a device replaced
\* between two scans, and one that met a ring whose cycle bit was 0.
PipeIsArmed ==
    hid.in_use /\ inserted = "ready" /\ ~hc["int"].halted /\ ~stale =>
        \/ Owned("int")
        \/ \E i \in DOMAIN events : events[i].ring = "int"
=============================================================================
