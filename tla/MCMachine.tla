------------------------------ MODULE MCMachine ------------------------------
(***************************************************************************)
(* The parts of one console around its games, for TLC: keyboards, pads and *)
(* their buses, memory, demos, players and scores.  The parts call each    *)
(* other but share no state, so a behaviour is one of one part, as in      *)
(* MCNet.                                                                  *)
(***************************************************************************)
EXTENDS PadFilter, Gamepad, Keyboard, Uhci, Xhci, Heap, AddressSpaces, Attract, Picker, Scores

CONSTANT Parts

VARIABLE part

inputVars == <<filterVars, padVars, keyVars, uhciVars, xhciVars>>
memoryVars == <<heapVars, spaceVars>>
playerVars == <<attractVars, pickerVars, scoreVars>>
machineVars == <<part, inputVars, memoryVars, playerVars>>

MachineInit ==
    /\ part \in Parts
    /\ FilterInit /\ PadInit /\ KeyInit /\ UhciInit /\ XhciInit
    /\ heap_init /\ SpaceInit
    /\ AttractInit /\ PickerInit /\ ScoresInit

OneInput == UNCHANGED <<part, memoryVars, playerVars>>
Filtering == part = "filter" /\ OneInput /\ UNCHANGED <<padVars, keyVars, uhciVars, xhciVars>>
Routing == part = "pads" /\ OneInput /\ UNCHANGED <<filterVars, keyVars, uhciVars, xhciVars>>
Typing == part = "keys" /\ OneInput /\ UNCHANGED <<filterVars, padVars, uhciVars, xhciVars>>
OnUhci == part = "uhci" /\ OneInput /\ UNCHANGED <<filterVars, padVars, keyVars, xhciVars>>
OnXhci == part = "xhci" /\ OneInput /\ UNCHANGED <<filterVars, padVars, keyVars, uhciVars>>
Allocating == part = "heap" /\ UNCHANGED <<part, inputVars, spaceVars, playerVars>>
Loading == part = "spaces" /\ UNCHANGED <<part, inputVars, heapVars, playerVars>>
OnePlayer == UNCHANGED <<part, inputVars, memoryVars>>
Attracting == part = "attract" /\ OnePlayer /\ UNCHANGED <<pickerVars, scoreVars>>
Picking == part = "picker" /\ OnePlayer /\ UNCHANGED <<attractVars, scoreVars>>
Scoring == part = "scores" /\ OnePlayer /\ UNCHANGED <<attractVars, pickerVars>>

MachineNext ==
    \/ Filtering /\ FilterNext
    \/ Routing /\ PadNext
    \/ Typing /\ KeyNext
    \/ OnUhci /\ UhciNext
    \/ OnXhci /\ XhciNext
    \/ Allocating /\ HeapNext
    \/ Loading /\ SpaceNext
    \/ Attracting /\ AttractNext
    \/ Picking /\ PickerNext
    \/ Scoring /\ ScoresNext

\* The UHCI controller goes through its list every frame, and the program in
\* front, a game, the launcher or the menu, reads the pad again and again,
\* which polls the ports.
MachineSpec ==
    /\ MachineInit /\ [][MachineNext]_machineVars
    /\ WF_machineVars(OnUhci /\ RunTd)
    /\ WF_machineVars(OnUhci /\ PollStep)

MachineTypeOK ==
    /\ FilterTypeOK /\ PadTypeOK /\ KeyTypeOK /\ UhciTypeOK /\ XhciTypeOK
    /\ HeapTypeOK /\ SpaceTypeOK
    /\ AttractTypeOK /\ PickerTypeOK /\ ScoresTypeOK
=============================================================================
