-------------------------------- MODULE Uhci --------------------------------
(***************************************************************************)
(* The UHCI driver (uhci.c) and the controller's interrupt queue: hot-plug,*)
(* enumeration with its retries, and the chain of one transfer descriptor  *)
(* (TD) per root port through which HID reports arrive.                    *)
(*                                                                         *)
(* uhci_poll is a sequence of steps, between which the controller goes on  *)
(* and devices come and go.  A control transfer is part of the step that   *)
(* waits for it; it may fail.                                              *)
(***************************************************************************)
EXTENDS Integers, FiniteSets

CONSTANTS
    MaxPads     \* devices plugged in at the same time

Ports == {0, 1}
NoPort == -1

ASSUME UhciAssumption == MaxPads \in 0 .. Cardinality(Ports)

VARIABLES
    attached,   \* what is on each port: "none", "new", or "ready" (has an address)
    tracked,    \* ports_connected and devices[port].in_use
    td,         \* int_td: its status and its link
    element,    \* qh_int->element_link
    pollStep    \* what uhci_poll does next, and for which port

uhciVars == <<attached, tracked, td, element, pollStep>>

Links == Ports \cup {NoPort}

UhciTypeOK ==
    /\ attached \in [Ports -> {"none", "new", "ready"}]
    /\ tracked \in [Ports -> [connected : BOOLEAN, in_use : BOOLEAN]]
    /\ td \in [Ports -> [status : {"empty", "active", "report", "error"}, link : Links]]
    /\ element \in Links
    /\ pollStep \in [do : {"check", "retry", "harvest"}, port : Ports]

UhciInit ==
    /\ attached = [p \in Ports |-> "none"]
    /\ tracked = [p \in Ports |-> [connected |-> FALSE, in_use |-> FALSE]]
    /\ td = [p \in Ports |-> [status |-> "empty", link |-> NoPort]]
    /\ element = NoPort
    /\ pollStep = [do |-> "check", port |-> 0]

-----------------------------------------------------------------------------
(***************************************************************************)
(* The player and the controller.                                          *)
(***************************************************************************)
Plug(p) ==
    /\ attached[p] = "none"
    /\ Cardinality({q \in Ports : attached[q] # "none"}) < MaxPads
    /\ attached' = [attached EXCEPT ![p] = "new"]
    /\ UNCHANGED <<tracked, td, element, pollStep>>

Unplug(p) ==
    /\ attached[p] # "none"
    /\ attached' = [attached EXCEPT ![p] = "none"]
    /\ UNCHANGED <<tracked, td, element, pollStep>>

\* The controller runs the TD the queue points to, and moves on only when
\* it has completed.  No answer is an error, and retires the TD.
RunTd ==
    /\ element # NoPort /\ td[element].status = "active"
    /\ IF attached[element] = "ready"
       THEN /\ td' = [td EXCEPT ![element].status = "report"]
            /\ element' = td[element].link
       ELSE /\ td' = [td EXCEPT ![element].status = "error"]
            /\ UNCHANGED element
    /\ UNCHANGED <<attached, tracked, pollStep>>

-----------------------------------------------------------------------------
(***************************************************************************)
(* The driver.                                                             *)
(***************************************************************************)
LowestOf(S) == IF 0 \in S THEN 0 ELSE IF 1 \in S THEN 1 ELSE NoPort

\* uhci_start_interrupt_pipe: this port's TD afresh, and the chain over the
\* devices in use.
StartPipe(p, used) ==
    /\ td' = [q \in Ports |->
        [status |-> IF q = p THEN "active" ELSE td[q].status,
         link |-> IF q \in used \/ q = p
                  THEN IF q = 0 /\ used = Ports THEN 1 ELSE NoPort
                  ELSE td[q].link]]
    /\ element' = LowestOf(used)

InUse == {p \in Ports : tracked[p].in_use}

\* uhci_control, to address 0 ("new") or to the device's own ("ready"): it
\* fails or times out; or the device does what it is asked to, and the
\* transfer may fail still.
uhci_control(device, at, done) ==
    {[ok |-> FALSE, device |-> device]} \cup
    {[ok |-> ok, device |-> done] : ok \in {b \in BOOLEAN : device = at}}

usb_get_descriptor(device, at) == uhci_control(device, at, device)
usb_set_address(device) == uhci_control(device, "new", "ready")
usb_set_configuration(device) == uhci_control(device, "ready", device)

uhci_reset_port(device) == IF device = "none" THEN "none" ELSE "new"

Succeeded(outcomes) == {o \in outcomes : o.ok}

\* uhci_enumerate_port up to the pipe: one failed transfer ends it, except
\* the last, "already configured".
Enumerated(device) ==
    LET found == usb_get_descriptor(device, "new")
        addressed == UNION {usb_set_address(o.device) : o \in Succeeded(found)}
        described == UNION {usb_get_descriptor(o.device, "ready") : o \in Succeeded(addressed)}
        configured == UNION {usb_set_configuration(o.device) : o \in Succeeded(described)}
        failed == {o \in found \cup addressed \cup described : ~o.ok}
    IN  {[in_use |-> FALSE, device |-> o.device] : o \in failed} \cup
        {[in_use |-> TRUE, device |-> o.device] : o \in configured}

EnumeratePort(p) ==
    \E o \in Enumerated(uhci_reset_port(attached[p])) :
        /\ attached' = [attached EXCEPT ![p] = o.device]
        /\ tracked' = [tracked EXCEPT ![p] = [connected |-> TRUE, in_use |-> o.in_use]]
        /\ IF o.in_use THEN StartPipe(p, InUse \cup {p}) ELSE UNCHANGED <<td, element>>

\* Mutant: the chain is not rebuilt when a device goes.
Gone_KeepsChain(p) ==
    /\ tracked' = [tracked EXCEPT ![p] = [connected |-> FALSE, in_use |-> FALSE]]
    /\ td' = [td EXCEPT ![p].status = "active"]
    /\ UNCHANGED <<attached, element>>

Gone(p) ==
    /\ tracked' = [tracked EXCEPT ![p] = [connected |-> FALSE, in_use |-> FALSE]]
    /\ StartPipe(p, InUse \ {p})
    /\ UNCHANGED attached

Proceed ==
    pollStep' = IF pollStep.port = 0 THEN [pollStep EXCEPT !.port = 1]
                ELSE [do |-> CASE pollStep.do = "check" -> "retry"
                               [] pollStep.do = "retry" -> "harvest"
                               [] pollStep.do = "harvest" -> "check",
                      port |-> 0]

\* uhci_check_ports compares levels: a device that was replaced since the
\* last poll goes unnoticed.
CheckPort(p) ==
    /\ pollStep = [do |-> "check", port |-> p]
    /\ Proceed
    /\ LET now == attached[p] # "none" IN
        \/ now /\ ~tracked[p].connected /\ EnumeratePort(p)
        \/ ~now /\ tracked[p].connected /\ Gone(p)
        \/ now = tracked[p].connected /\ UNCHANGED <<attached, tracked, td, element>>

\* Every two seconds.
RetryPort(p) ==
    /\ pollStep = [do |-> "retry", port |-> p]
    /\ Proceed
    /\ \/ tracked[p].connected /\ ~tracked[p].in_use /\ EnumeratePort(p)
       \/ UNCHANGED <<attached, tracked, td, element>>

Rearm(p) ==
    /\ td' = [td EXCEPT ![p].status = "active"]
    /\ element' = p

\* uhci_service_interrupt_pipe; what it does with the report is in Gamepad.
Harvest(p) ==
    /\ pollStep = [do |-> "harvest", port |-> p]
    /\ Proceed
    /\ IF tracked[p].in_use /\ td[p].status # "active" THEN Rearm(p)
       ELSE UNCHANGED <<td, element>>
    /\ UNCHANGED <<attached, tracked>>

PollStep == \E p \in Ports : CheckPort(p) \/ RetryPort(p) \/ Harvest(p)

UhciNext ==
    \/ RunTd \/ PollStep
    \/ \E p \in Ports : Plug(p) \/ Unplug(p)

UhciSpec == UhciInit /\ [][UhciNext]_uhciVars

-----------------------------------------------------------------------------
(***************************************************************************)
(* Properties.                                                             *)
(***************************************************************************)
\* The device the driver uses is listened to: another report of it always
\* gets through, unless it leaves.  The driver promises it for one device,
\* which may move between ports, vanish in mid-transfer and come back.
PadIsHeard ==
    \A p \in Ports :
        tracked[p].in_use /\ attached[p] = "ready"
            ~> td[p].status = "report" \/ ~tracked[p].in_use \/ attached[p] # "ready"
=============================================================================
