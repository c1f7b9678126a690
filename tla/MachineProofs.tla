---------------------------- MODULE MachineProofs ----------------------------
(***************************************************************************)
(* Safety of everything around the games of one console, in the one        *)
(* behaviour that TLC checks: from the proofs about its parts.             *)
(***************************************************************************)
EXTENDS MCMachine, InputProofs, MemoryProofs, PlayerProofs

\* The specifications of the parts.
InputSpecs == FilterSpec /\ PadSpec /\ KeySpec /\ UhciSpec /\ XhciSpec
MemorySpecs == HeapSpec /\ SpaceSpec
PlayerSpecs == AttractSpec /\ PickerSpec /\ ScoresSpec

LEMMA MachineInitially ==
  MachineInit =>
    /\ FilterInit /\ PadInit /\ KeyInit /\ UhciInit /\ XhciInit
    /\ heap_init /\ SpaceInit
    /\ AttractInit /\ PickerInit /\ ScoresInit
BY DEF MachineInit

\* A step of one part is no step of the others.
LEMMA MachineStep ==
  [MachineNext]_machineVars =>
    /\ [FilterNext]_filterVars /\ [PadNext]_padVars /\ [KeyNext]_keyVars
    /\ [UhciNext]_uhciVars /\ [XhciNext]_xhciVars
    /\ [HeapNext]_heapVars /\ [SpaceNext]_spaceVars
    /\ [AttractNext]_attractVars /\ [PickerNext]_pickerVars /\ [ScoresNext]_scoreVars
<1> SUFFICES ASSUME [MachineNext]_machineVars
             PROVE  /\ [FilterNext]_filterVars /\ [PadNext]_padVars /\ [KeyNext]_keyVars
                    /\ [UhciNext]_uhciVars /\ [XhciNext]_xhciVars
                    /\ [HeapNext]_heapVars /\ [SpaceNext]_spaceVars
                    /\ [AttractNext]_attractVars /\ [PickerNext]_pickerVars
                    /\ [ScoresNext]_scoreVars
  OBVIOUS
<1>1. CASE Filtering /\ FilterNext
  BY <1>1 DEF Filtering, OneInput, memoryVars, playerVars
<1>2. CASE Routing /\ PadNext
  BY <1>2 DEF Routing, OneInput, memoryVars, playerVars
<1>3. CASE Typing /\ KeyNext
  BY <1>3 DEF Typing, OneInput, memoryVars, playerVars
<1>4. CASE OnUhci /\ UhciNext
  BY <1>4 DEF OnUhci, OneInput, memoryVars, playerVars
<1>5. CASE OnXhci /\ XhciNext
  BY <1>5 DEF OnXhci, OneInput, memoryVars, playerVars
<1>6. CASE Allocating /\ HeapNext
  BY <1>6 DEF Allocating, inputVars, playerVars
<1>7. CASE Loading /\ SpaceNext
  BY <1>7 DEF Loading, inputVars, playerVars
<1>8. CASE Attracting /\ AttractNext
  BY <1>8 DEF Attracting, OnePlayer, inputVars, memoryVars
<1>9. CASE Picking /\ PickerNext
  BY <1>9 DEF Picking, OnePlayer, inputVars, memoryVars
<1>10. CASE Scoring /\ ScoresNext
  BY <1>10 DEF Scoring, OnePlayer, inputVars, memoryVars
<1>11. CASE UNCHANGED machineVars
  BY <1>11 DEF machineVars, inputVars, memoryVars, playerVars
<1> QED
  BY <1>1, <1>2, <1>3, <1>4, <1>5, <1>6, <1>7, <1>8, <1>9, <1>10, <1>11 DEF MachineNext

\* All of it in one behaviour: for a player who presses SELECT first and lets
\* it go first, and keyboards whose bytes do not mix, no part of the console
\* is ever in a wrong state.
THEOREM MachineIsSafe ==
  ASSUME ~Careless, ~Mixing
  PROVE  MachineSpec => [](/\ MachineTypeOK
                           /\ ChordNeverLeaks /\ MenuKeepsItsPresses /\ SeatsAreFilled
                           /\ NoStuckButton /\ PipeIsArmed
                           /\ HeapIsSound /\ SpacesAreDisjoint
                           /\ DemoIsExact /\ SessionIsAsPicked /\ BoardKeepsTheBest)
<1>1. MachineSpec => InputSpecs /\ MemorySpecs /\ PlayerSpecs
  BY MachineInitially, MachineStep, PTL
  DEF MachineSpec, InputSpecs, MemorySpecs, PlayerSpecs, FilterSpec, PadSpec, KeySpec, UhciSpec,
      XhciSpec, HeapSpec, SpaceSpec, AttractSpec, PickerSpec, ScoresSpec
<1>2. InputSpecs => /\ [](FilterTypeOK /\ MenuKeepsItsPresses) /\ []ChordNeverLeaks
                    /\ [](PadTypeOK /\ SeatsAreFilled)
                    /\ []KeyTypeOK /\ []NoStuckButton
                    /\ []UhciTypeOK /\ [](XhciTypeOK /\ PipeIsArmed)
  BY MenuPressesStay, ChordIsSwallowed, SeatsStayFilled, KeyboardTypes, NoButtonSticks, UhciTypes,
     PipeStaysArmed DEF InputSpecs
<1>3. MemorySpecs => [](HeapTypeOK /\ HeapIsSound) /\ [](SpaceTypeOK /\ SpacesAreDisjoint)
  BY HeapStaysSound, SpacesStayDisjoint DEF MemorySpecs
<1>4. PlayerSpecs => /\ [](AttractTypeOK /\ DemoIsExact)
                     /\ [](PickerTypeOK /\ SessionIsAsPicked)
                     /\ [](ScoresTypeOK /\ BoardKeepsTheBest)
  BY DemoIsTheSession, SessionIsConfirmed, BoardIsTheTop DEF PlayerSpecs
<1>5. /\ FilterTypeOK /\ PadTypeOK /\ KeyTypeOK /\ UhciTypeOK /\ XhciTypeOK
      /\ HeapTypeOK /\ SpaceTypeOK
      /\ AttractTypeOK /\ PickerTypeOK /\ ScoresTypeOK
      => MachineTypeOK
  BY DEF MachineTypeOK
<1> QED
  BY <1>1, <1>2, <1>3, <1>4, <1>5, PTL
=============================================================================
