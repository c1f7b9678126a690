----------------------------- MODULE InputProofs -----------------------------
(***************************************************************************)
(* Proofs about what the players hold: the pad filter (PadFilter), who     *)
(* plays with what (Gamepad), the keys behind its buttons (Keyboard), and  *)
(* the pads' buses (Uhci, Xhci).                                           *)
(***************************************************************************)
EXTENDS PadFilter, Gamepad, Keyboard, Uhci, Xhci, FiniteSetTheorems, WellFoundedInduction,
        TLAPS

(***************************************************************************)
(* The pad filter.                                                         *)
(***************************************************************************)
\* A button of Buttons other than SELECT completes one of the two chords.
Meets(b) == "START" \in b \/ "L1" \in b

\* What holds however the player presses: a cooldown withholds nothing, the
\* menu opens while the cooldown still runs, and outside the menu neither
\* the buttons held nor the latch nor the withheld SELECT were meant for it.
Withheld ==
    /\ filter.cooldown > 0 => ~filter.select_pending
    /\ screen \in {"menu", "drain"} => ~filter.select_pending
    /\ filter.select_pending => "SELECT" \notin foreign

Requested == menu_requested => filter.cooldown > 0

Separate == screen \notin {"menu", "drain"} => foreign \cap (held \cup latch) = {}

FilterInv == FilterTypeOK /\ Withheld /\ Requested /\ Separate /\ MenuKeepsItsPresses

\* What holds of a player who presses SELECT first and lets it go first: the
\* SELECT of a chord, held, latched or withheld, still has its partner.
Accompanied ==
    /\ combo /\ "SELECT" \in held => Meets(held)
    /\ combo /\ "SELECT" \in latch => Meets(latch)
    /\ combo /\ filter.select_pending => Meets(latch)

ChordInv == Accompanied /\ ChordNeverLeaks

\* A set of buttons holds a chord exactly when it has SELECT and a partner.
LEMMA ChordHasPartner == \A b : Chorded(b) <=> "SELECT" \in b /\ Meets(b)
  BY DEF Chorded, Meets, MENU_CHORD, CHORD

\* The actions other than PAD_READ show the game nothing.
Unseen == seen' = {} /\ UNCHANGED filter

LEMMA FilterInitially == FilterInit => FilterInv /\ ChordInv
<1> SUFFICES ASSUME FilterInit PROVE FilterInv /\ ChordInv
  OBVIOUS
<1> USE DEF FilterInit
<1>1. FilterTypeOK
  <2>1. filter \in [select_pending : BOOLEAN, menu_chord_was_down : BOOLEAN,
                    cooldown : 0 .. COOLDOWN]
    BY FilterAssumption
  <2>2. {held, latch, prev, seen, foreign} \subseteq SUBSET Buttons
    OBVIOUS
  <2>3. {menu_requested, combo} \subseteq BOOLEAN
    OBVIOUS
  <2>4. QED
    BY <2>1, <2>2, <2>3 DEF FilterTypeOK
<1>2. /\ Withheld /\ Requested /\ Separate /\ MenuKeepsItsPresses
      /\ ChordInv
  BY DEF Withheld, Requested, Separate, MenuKeepsItsPresses, ChordInv, Accompanied,
         ChordNeverLeaks
<1>3. QED
  BY <1>1, <1>2 DEF FilterInv

\* The filter's variables keep their types whatever the filter decides.
LEMMA FilterTypeStep == FilterTypeOK /\ [FilterNext]_filterVars => FilterTypeOK'
<1> SUFFICES ASSUME FilterTypeOK, [FilterNext]_filterVars PROVE FilterTypeOK'
  OBVIOUS
<1> USE FilterAssumption DEF FilterTypeOK
<1>1. ASSUME NEW b \in Buttons, PressButton(b) PROVE FilterTypeOK'
  BY <1>1 DEF PressButton
<1>2. ASSUME NEW b \in Buttons, ReleaseButton(b) PROVE FilterTypeOK'
  BY <1>2 DEF ReleaseButton
<1>3. ASSUME NEW b \in Buttons, RepeatButton(b) PROVE FilterTypeOK'
  BY <1>3 DEF RepeatButton
<1>4. ASSUME Cool PROVE FilterTypeOK'
  BY <1>4 DEF Cool
<1>5. ASSUME PadRead PROVE FilterTypeOK'
  <2> USE <1>5 DEF PadRead
  <2> PICK st : st = GetState
    OBVIOUS
  <2>1. st \subseteq Buttons
    BY DEF GetState
  <2>2. /\ filter' \in [select_pending : BOOLEAN, menu_chord_was_down : BOOLEAN,
                        cooldown : 0 .. COOLDOWN]
        /\ menu_requested' \in BOOLEAN
    <3> USE DEF Swallow, Settle
    <3>1. CASE FilterMenuChord(st)
      BY <3>1 DEF FilterMenuChord
    <3>2. CASE FilterScrubChord(st)
      BY <3>2 DEF FilterScrubChord
    <3>3. CASE FilterReassemble(st)
      BY <3>3 DEF FilterReassemble
    <3>4. CASE FilterCooldown(st)
      BY <3>4 DEF FilterCooldown
    <3>5. CASE FilterWithhold(st) \/ FilterPass(st)
      BY <3>5 DEF FilterWithhold, FilterPass
    <3>6. QED
      BY <3>1, <3>2, <3>3, <3>4, <3>5
  <2>3. seen' \subseteq Buttons
    <3>1. CASE FilterPass(st)
      BY <2>1, <3>1 DEF FilterPass, Answer, Buttons
    <3>2. CASE ~FilterPass(st)
      BY <2>1, <3>2 DEF FilterMenuChord, FilterScrubChord, FilterCooldown,
                        FilterWithhold, FilterReassemble, Swallow, Answer
    <3>3. QED
      BY <3>1, <3>2
  <2>4. QED
    BY <2>2, <2>3
<1>6. ASSUME Present \/ HopOrArrive \/ LetGo PROVE FilterTypeOK'
  BY <1>6 DEF Present, HopOrArrive, LetGo, MaybeMenu
<1>7. ASSUME MenuPass \/ MenuDrain PROVE FilterTypeOK'
  BY <1>7 DEF MenuPass, MenuDrain, GetState
<1>8. CASE UNCHANGED filterVars
  BY <1>8 DEF filterVars
<1>9. QED
  BY <1>1, <1>2, <1>3, <1>4, <1>5, <1>6, <1>7, <1>8 DEF FilterNext

\* However the player presses, every step keeps the presses of the menu
\* apart from the game's.
LEMMA FilterStep == FilterInv /\ [FilterNext]_filterVars => FilterInv'
<1> SUFFICES ASSUME FilterInv, [FilterNext]_filterVars PROVE FilterInv'
  OBVIOUS
<1>0. FilterTypeOK'
  BY FilterTypeStep DEF FilterInv
<1> DEFINE Apart == Withheld /\ Requested /\ Separate /\ MenuKeepsItsPresses
<1>1. ASSUME NEW b \in Buttons, PressButton(b) PROVE Apart'
  BY <1>1 DEF FilterInv, PressButton, Withheld, Requested, Separate, MenuKeepsItsPresses
<1>2. ASSUME NEW b \in Buttons, ReleaseButton(b) PROVE Apart'
  BY <1>2 DEF FilterInv, ReleaseButton, Withheld, Requested, Separate, MenuKeepsItsPresses
<1>3. ASSUME NEW b \in Buttons, RepeatButton(b) PROVE Apart'
  BY <1>3 DEF FilterInv, RepeatButton, Withheld, Requested, Separate, MenuKeepsItsPresses
<1>4. ASSUME Cool PROVE Apart'
  <2>1. Withheld' /\ Requested'
    BY <1>4, FilterAssumption DEF FilterInv, FilterTypeOK, Cool, Withheld, Requested
  <2>2. Separate' /\ MenuKeepsItsPresses'
    BY <1>4 DEF FilterInv, Cool, Separate, MenuKeepsItsPresses
  <2>3. QED
    BY <2>1, <2>2
<1>5. ASSUME PadRead PROVE Apart'
  <2> PICK st : st = GetState
    OBVIOUS
  <2>1. st \cap foreign = {} /\ screen \in {"game", "replay"}
    BY <1>5 DEF FilterInv, PadRead, Separate, GetState
  <2>2. Separate'
    BY <1>5 DEF FilterInv, PadRead, Separate
  <2>3. Withheld' /\ Requested'
    <3> USE <1>5, <2>1, FilterAssumption
          DEF FilterInv, FilterTypeOK, PadRead, Withheld, Requested, Swallow, Settle
    <3>1. CASE FilterMenuChord(st) \/ FilterScrubChord(st) \/ FilterReassemble(st)
      BY <3>1 DEF FilterMenuChord, FilterScrubChord, FilterReassemble
    <3>2. CASE FilterCooldown(st)
      BY <3>2 DEF FilterCooldown
    <3>3. CASE FilterWithhold(st)
      BY <3>3 DEF FilterWithhold
    <3>4. CASE FilterPass(st)
      BY <3>4 DEF FilterPass
    <3>5. QED
      BY <3>1, <3>2, <3>3, <3>4
  <2>4. MenuKeepsItsPresses'
    <3>1. CASE FilterPass(st)
      BY <1>5, <2>1, <3>1 DEF FilterInv, PadRead, Withheld, FilterPass, Answer,
                              MenuKeepsItsPresses
    <3>2. CASE ~FilterPass(st)
      BY <1>5, <2>1, <3>2 DEF PadRead, FilterMenuChord, FilterScrubChord, FilterCooldown,
                              FilterWithhold, FilterReassemble, Swallow, Answer,
                              MenuKeepsItsPresses
    <3>3. QED
      BY <3>1, <3>2
  <2>5. QED
    BY <2>2, <2>3, <2>4
<1>6. ASSUME Present \/ HopOrArrive \/ LetGo PROVE Apart'
  BY <1>6 DEF FilterInv, Present, HopOrArrive, LetGo, MaybeMenu, Withheld, Requested,
              Separate, MenuKeepsItsPresses
<1>7. ASSUME MenuPass \/ MenuDrain PROVE Apart'
  BY <1>7 DEF FilterInv, MenuPass, MenuDrain, Drained, GetState, Withheld, Requested,
              Separate, MenuKeepsItsPresses
<1>8. ASSUME UNCHANGED filterVars PROVE Apart'
  BY <1>8 DEF FilterInv, filterVars, Withheld, Requested, Separate, MenuKeepsItsPresses
<1> HIDE DEF Apart
<1>9. Apart'
  BY <1>1, <1>2, <1>3, <1>4, <1>5, <1>6, <1>7, <1>8 DEF FilterNext
<1>10. QED
  BY <1>0, <1>9 DEF FilterInv, Apart

\* As long as SELECT goes down first and comes up first, every step keeps
\* the partner of a chord's SELECT where the filter will see it.
LEMMA ChordStep ==
    ~Careless /\ FilterInv /\ ChordInv /\ [FilterNext]_filterVars => ChordInv'
<1> SUFFICES ASSUME ~Careless, FilterInv, ChordInv, [FilterNext]_filterVars
             PROVE  ChordInv'
  OBVIOUS
<1> USE DEF ChordInv, Accompanied, ChordNeverLeaks
<1>1. ASSUME NEW b \in Buttons, PressButton(b) PROVE ChordInv'
  \* The press of a partner completes a chord or finds one; SELECT goes down
  \* alone.
  <2>1. combo' => b # "SELECT"
    BY <1>1 DEF PressButton, Chorded, MENU_CHORD, CHORD
  <2>2. combo' => Meets(held') /\ Meets(latch')
    BY <1>1, <2>1 DEF PressButton, Meets, Buttons
  <2>3. seen' = {}
    BY <1>1 DEF PressButton
  <2>4. QED
    BY <2>2, <2>3
<1>2. ASSUME NEW b \in Buttons, ReleaseButton(b) PROVE ChordInv'
  BY <1>2 DEF ReleaseButton, Meets
<1>3. ASSUME NEW b \in Buttons, RepeatButton(b) PROVE ChordInv'
  BY <1>3 DEF RepeatButton
<1>4. ASSUME Cool PROVE ChordInv'
  BY <1>4 DEF FilterInv, FilterTypeOK, Cool, Meets
<1>5. ASSUME PadRead PROVE ChordInv'
  <2> PICK st : st = GetState
    OBVIOUS
  <2>1. combo /\ "SELECT" \in st => Chorded(st)
    BY ChordHasPartner DEF GetState, Meets
  <2>2. combo /\ filter.select_pending => Meets(st)
    BY DEF GetState, Meets
  <2>3. combo' = combo /\ held' = held /\ latch' = {}
    BY <1>5 DEF PadRead
  <2>4. combo => ~filter'.select_pending /\ "SELECT" \notin seen'
    <3> USE <1>5 DEF FilterInv, FilterTypeOK, PadRead, Withheld
    <3>1. CASE FilterMenuChord(st) \/ FilterScrubChord(st) \/ FilterReassemble(st)
      BY <3>1 DEF FilterMenuChord, FilterScrubChord, FilterReassemble, Swallow, Answer
    <3>2. CASE FilterCooldown(st)
      BY <3>2 DEF FilterCooldown, Settle, Answer, CHORD
    <3>3. CASE FilterWithhold(st)
      BY <2>1, <3>3 DEF FilterWithhold
    <3>4. CASE FilterPass(st)
      BY <2>2, <3>4 DEF FilterPass, Straddled, Settle, Answer, Meets
    <3>5. QED
      BY <3>1, <3>2, <3>3, <3>4
  <2>5. QED
    BY <2>3, <2>4 DEF Meets
<1>6. ASSUME Present \/ HopOrArrive \/ LetGo PROVE ChordInv'
  BY <1>6 DEF Present, HopOrArrive, LetGo, MaybeMenu, Meets
<1>7. ASSUME MenuPass \/ MenuDrain PROVE ChordInv'
  BY <1>7 DEF FilterInv, MenuPass, MenuDrain, Withheld, Meets
<1>8. CASE UNCHANGED filterVars
  BY <1>8 DEF filterVars, Meets
<1>9. QED
  BY <1>1, <1>2, <1>3, <1>4, <1>5, <1>6, <1>7, <1>8 DEF FilterNext

\* What is pressed in the menu never reaches the game, whatever the player
\* does with the buttons.
THEOREM MenuPressesStay == FilterSpec => [](FilterTypeOK /\ MenuKeepsItsPresses)
<1>1. FilterInv => FilterTypeOK /\ MenuKeepsItsPresses
  BY DEF FilterInv
<1>2. QED
  BY <1>1, FilterInitially, FilterStep, PTL DEF FilterSpec

\* The SELECT of a system chord never reaches the game, for a player who
\* presses it first and lets it go first.
THEOREM ChordIsSwallowed ==
  ASSUME ~Careless
  PROVE  FilterSpec => []ChordNeverLeaks
<1>1. FilterInv /\ ChordInv /\ [FilterNext]_filterVars => (FilterInv /\ ChordInv)'
  BY FilterStep, ChordStep
<1>2. ChordInv => ChordNeverLeaks
  BY DEF ChordInv
<1>3. QED
  BY <1>1, <1>2, FilterInitially, PTL DEF FilterSpec

-----------------------------------------------------------------------------
(***************************************************************************)
(* Who plays with what.                                                    *)
(***************************************************************************)
\* A source is connected while a pad is behind it, and a pad has one source.
Wired ==
    /\ \A k \in Keyboards : connected[k]
    /\ \A s \in UsbSources : connected[s] <=> usb_addr[s] # NoPad
    /\ \A s, t \in UsbSources : s # t /\ connected[s] => usb_addr[s] # usb_addr[t]

\* The seat of p is taken by a USB pad.
Held(p) == \E t \in UsbSources : connected[t] /\ assignment[t] = p

\* Each pad has a seat of its own, and a keyboard its seat unless a pad has
\* it.
Seated ==
    /\ \A s \in UsbSources : assignment[s] # Spectator <=> connected[s]
    /\ \A s, t \in UsbSources : s # t /\ connected[s] => assignment[s] # assignment[t]
    /\ \A p \in Players :
        assignment[DefaultKeyboard(p)] = IF Held(p) THEN Spectator ELSE p

PadInv == PadTypeOK /\ Wired /\ (~assigned => Seated)

\* When the seats are taken so, each player has one source.
LEMMA SeatedIsFilled == PadInv => SeatsAreFilled
<1> SUFFICES ASSUME PadInv, ~assigned
             PROVE  /\ \A p \in Players :
                        Cardinality({s \in Sources : assignment[s] = p /\ connected[s]}) = 1
                    /\ \A s \in UsbSources : connected[s] => assignment[s] # Spectator
  BY DEF SeatsAreFilled
<1>1. ASSUME NEW p \in Players
      PROVE  \E h : {s \in Sources : assignment[s] = p /\ connected[s]} = {h}
  <2>1. /\ Wired /\ Seated
        /\ p # Spectator
    BY DEF PadInv, Players, Spectator
  <2>2. \A q \in Players : q # p => DefaultKeyboard(q) # DefaultKeyboard(p)
    BY DEF Players, DefaultKeyboard
  <2>3. \A k \in Keyboards : \E q \in Players : DefaultKeyboard(q) = k
    BY DEF Players, Keyboards, DefaultKeyboard
  <2>4. \A k \in Keyboards : assignment[k] = p => k = DefaultKeyboard(p) /\ ~Held(p)
    BY <2>1, <2>2, <2>3 DEF Seated
  <2>5. DefaultKeyboard(p) \in Keyboards
    BY DEF Keyboards, DefaultKeyboard
  <2>6. CASE Held(p)
    <3>1. PICK t \in UsbSources : connected[t] /\ assignment[t] = p
      BY <2>6 DEF Held
    <3>2. \A s \in UsbSources : s # t => assignment[s] # p
      BY <2>1, <3>1 DEF Seated
    <3>3. {s \in Sources : assignment[s] = p /\ connected[s]} = {t}
      BY <2>4, <2>6, <3>1, <3>2 DEF Sources
    <3>4. QED
      BY <3>3
  <2>7. CASE ~Held(p)
    <3>1. {s \in Sources : assignment[s] = p /\ connected[s]} = {DefaultKeyboard(p)}
      BY <2>1, <2>4, <2>5, <2>7 DEF Sources, Seated, Wired, Held
    <3>2. QED
      BY <3>1
  <2>8. QED
    BY <2>6, <2>7
<1>2. \A s \in UsbSources : connected[s] => assignment[s] # Spectator
  BY DEF PadInv, Seated
<1>3. QED
  BY <1>1, <1>2, FS_Singleton

LEMMA PadInitially == PadInit => PadInv
<1> SUFFICES ASSUME PadInit PROVE PadInv
  OBVIOUS
<1> USE DEF PadInit, Sources, Keyboards, UsbSources, Players, Spectator
<1>1. PadTypeOK
  <2>1. {connected, src_latch} \subseteq [Sources -> BOOLEAN]
    OBVIOUS
  <2>2. assignment \in [Sources -> Players \cup {Spectator}]
    OBVIOUS
  <2>3. QED
    BY <2>1, <2>2 DEF PadTypeOK
<1>2. Wired
  BY DEF Wired
<1>3. Seated
  BY DEF Seated, Held, DefaultKeyboard
<1>4. QED
  BY <1>1, <1>2, <1>3 DEF PadInv

LEMMA PadTypeStep == PadTypeOK /\ [PadNext]_padVars => PadTypeOK'
<1> SUFFICES ASSUME PadTypeOK, [PadNext]_padVars PROVE PadTypeOK'
  OBVIOUS
<1> USE DEF PadTypeOK
<1>1. ASSUME NEW k \in Keyboards, Press(k) PROVE PadTypeOK'
  BY <1>1 DEF Press
<1>2. ASSUME NEW a \in Pads, PlugPad(a) PROVE PadTypeOK'
  BY <1>2 DEF PlugPad
<1>3. ASSUME NEW a \in Pads, UnplugPad(a) PROVE PadTypeOK'
  <2> USE <1>3 DEF UnplugPad
  <2>1. connected' \in [Sources -> BOOLEAN] /\ src_latch' \in [Sources -> BOOLEAN]
    BY DEF Sources
  <2>2. usb_addr' \in [UsbSources -> Pads \cup {NoPad}]
    OBVIOUS
  <2>3. assignment' \in [Sources -> Players \cup {Spectator}]
    BY DEF Players
  <2>4. QED
    BY <2>1, <2>2, <2>3
<1>4. ASSUME NEW a \in Pads, NEW newly \in BOOLEAN, Report(a, newly) PROVE PadTypeOK'
  <2>1. PICK s \in UsbSources : Feed(s, newly)
    BY <1>4 DEF Report, SourceOf
  <2>2. QED
    BY <1>4, <2>1 DEF Report, Feed
<1>5. ASSUME NEW a \in Pads, NEW newly \in BOOLEAN, ReportFirst(a, newly)
      PROVE  PadTypeOK'
  <2> DEFINE s == FirstOf(SourceOf(NoPad))
             p == IF ~Taken(s, 0) THEN 0 ELSE IF ~Taken(s, 1) THEN 1 ELSE Spectator
  <2>1. p \in Players \cup {Spectator} /\ s \in UsbSources
    BY DEF Players, UsbSources, FirstOf
  <2>2. /\ usb_addr' = [usb_addr EXCEPT ![s] = a]
        /\ assignment' = [t \in Sources |->
            IF t = s THEN p
            ELSE IF p # Spectator /\ t = DefaultKeyboard(p) /\ assignment[t] = p
            THEN Spectator ELSE assignment[t]]
        /\ Feed(s, newly)
        /\ UNCHANGED <<plugged, assigned>>
    BY <1>5 DEF ReportFirst
  <2> HIDE DEF s, p
  <2>3. assignment' \in [Sources -> Players \cup {Spectator}]
    BY <2>1, <2>2
  <2>4. QED
    BY <2>1, <2>2, <2>3 DEF Feed
<1>6. ASSUME ListSources \/ \E p \in Players : Read(p) PROVE PadTypeOK'
  <2>1. src_latch' \in [Sources -> BOOLEAN]
    BY <1>6 DEF ListSources, Read
  <2>2. QED
    BY <1>6, <2>1 DEF ListSources, Read
<1>7. ASSUME NEW s \in Sources, NEW p \in Players \cup {Spectator}, Assign(s, p)
      PROVE  PadTypeOK'
  BY <1>7 DEF Assign
<1>8. CASE UNCHANGED padVars
  BY <1>8 DEF padVars
<1>9. QED
  BY <1>1, <1>2, <1>3, <1>4, <1>5, <1>6, <1>7, <1>8 DEF PadNext

LEMMA PadStep == PadInv /\ [PadNext]_padVars => PadInv'
<1> SUFFICES ASSUME PadInv, [PadNext]_padVars PROVE PadInv'
  OBVIOUS
<1>0. PadTypeOK'
  BY PadTypeStep DEF PadInv
<1> DEFINE Good == Wired /\ (~assigned => Seated)
<1>g. Wired /\ (~assigned => Seated)
  BY DEF PadInv
<1>t. PadTypeOK
  BY DEF PadInv
\* An action that leaves the wires and the seats alone.
<1>u. ASSUME UNCHANGED <<connected, assignment, usb_addr, assigned>> PROVE Good'
  BY <1>g, <1>u DEF Wired, Seated, Held
<1>1. ASSUME NEW k \in Keyboards, Press(k) PROVE Good'
  BY <1>1, <1>u DEF Press
<1>2. ASSUME NEW a \in Pads, PlugPad(a) PROVE Good'
  BY <1>2, <1>u DEF PlugPad
<1>3. ASSUME NEW a \in Pads, UnplugPad(a) PROVE Good'
  <2> DEFINE S == SourceOf(a)
  <2>1. /\ connected' = [s \in Sources |-> connected[s] /\ s \notin S]
        /\ usb_addr' = [s \in UsbSources |-> IF s \in S THEN NoPad ELSE usb_addr[s]]
        /\ assignment' = [t \in Sources |->
            IF t \in S THEN Spectator
            ELSE IF t \in Keyboards /\ assignment[t] = Spectator
                    /\ \E s \in S, p \in Players : assignment[s] = p /\ DefaultKeyboard(p) = t
            THEN IF t = "KEYBOARD_A" THEN 0 ELSE 1
            ELSE assignment[t]]
        /\ assigned' = assigned
    BY <1>3 DEF UnplugPad
  <2>2. \A s \in UsbSources : s \in S <=> usb_addr[s] = a
    BY DEF SourceOf
  <2>3. S \subseteq UsbSources
    BY DEF SourceOf
  <2>4. a # NoPad
    BY GamepadAssumption
  <2> HIDE DEF S
  <2>5. Wired'
    BY <1>g, <2>1, <2>2, <2>3, <2>4 DEF Wired, Sources, Keyboards, UsbSources
  <2>6. ASSUME ~assigned PROVE Seated'
    <3>1. CASE S = {}
      BY <1>g, <1>t, <2>1, <2>6, <3>1 DEF PadTypeOK, Seated, Held, Sources
    <3>2. CASE S # {}
      <4>1. PICK s \in UsbSources : S = {s} /\ connected[s]
        BY <1>g, <2>2, <2>3, <2>4, <3>2 DEF Wired
      <4>2. QED
        BY <1>g, <1>t, <2>1, <2>6, <4>1 DEF PadTypeOK, Seated, Held, Sources, Keyboards,
           UsbSources, Players, DefaultKeyboard, Spectator
    <3>3. QED
      BY <3>1, <3>2
  <2>7. QED
    BY <2>1, <2>5, <2>6
<1>4. ASSUME NEW a \in Pads, NEW newly \in BOOLEAN, Report(a, newly) PROVE Good'
  <2>1. PICK s \in UsbSources : usb_addr[s] = a /\ Feed(s, newly)
    BY <1>4 DEF Report, SourceOf
  <2>2. connected[s] = TRUE
    BY <1>g, <1>t, <2>1, GamepadAssumption DEF Wired, PadTypeOK, Sources
  <2>3. connected' = connected
    BY <1>t, <2>1, <2>2 DEF Feed, PadTypeOK
  <2>4. QED
    BY <1>4, <1>u, <2>3 DEF Report
<1>5. ASSUME NEW a \in Pads, NEW newly \in BOOLEAN, ReportFirst(a, newly) PROVE Good'
  <2> DEFINE s == FirstOf(SourceOf(NoPad))
             p == IF ~Taken(s, 0) THEN 0 ELSE IF ~Taken(s, 1) THEN 1 ELSE Spectator
  <2>1. s \in UsbSources /\ usb_addr[s] = NoPad
    BY <1>5 DEF ReportFirst, FirstOf, SourceOf, UsbSources
  <2>2. /\ \A t \in UsbSources : usb_addr[t] # a
        /\ usb_addr' = [usb_addr EXCEPT ![s] = a]
        /\ connected' = [connected EXCEPT ![s] = TRUE]
        /\ assignment' = [t \in Sources |->
            IF t = s THEN p
            ELSE IF p # Spectator /\ t = DefaultKeyboard(p) /\ assignment[t] = p
            THEN Spectator ELSE assignment[t]]
        /\ assigned' = assigned
    BY <1>5 DEF ReportFirst, Feed, SourceOf
  <2>3. ~assigned => p \in Players /\ \A t \in UsbSources \ {s} : assignment[t] # p
    \* The other source has one seat at most, and none unless it is connected.
    BY <1>g, <2>1 DEF Seated, Taken, Players, UsbSources, Spectator
  <2>4. a # NoPad
    BY GamepadAssumption
  <2> HIDE DEF s, p
  <2>5. Wired'
    BY <1>g, <1>t, <2>1, <2>2, <2>4 DEF PadTypeOK, Wired, Sources, Keyboards, UsbSources
  <2>6. ASSUME ~assigned PROVE Seated'
    BY <1>g, <1>t, <2>1, <2>2, <2>3, <2>6 DEF PadTypeOK, Wired, Seated, Held, Sources,
       Keyboards, UsbSources, Players, DefaultKeyboard, Spectator
  <2>7. QED
    BY <2>2, <2>5, <2>6
<1>6. ASSUME ListSources \/ \E p \in Players : Read(p) PROVE Good'
  BY <1>6, <1>u DEF ListSources, Read
<1>7. ASSUME NEW s \in Sources, NEW p \in Players \cup {Spectator}, Assign(s, p)
      PROVE  Good'
  BY <1>g, <1>7 DEF Assign, Wired
<1>8. ASSUME UNCHANGED padVars PROVE Good'
  BY <1>8, <1>u DEF padVars
<1> HIDE DEF Good
<1>9. Good'
  BY <1>1, <1>2, <1>3, <1>4, <1>5, <1>6, <1>7, <1>8 DEF PadNext
<1>10. QED
  BY <1>0, <1>9 DEF PadInv, Good

\* Whatever is plugged and pulled, and in whatever order, each player has
\* one controller and every pad that reports a player, until somebody
\* assigns controllers by hand.
THEOREM SeatsStayFilled == PadSpec => [](PadTypeOK /\ SeatsAreFilled)
<1>1. PadInv => PadTypeOK /\ SeatsAreFilled
  BY SeatedIsFilled DEF PadInv
<1>2. QED
  BY <1>1, PadInitially, PadStep, PTL DEF PadSpec

-----------------------------------------------------------------------------
(***************************************************************************)
(* The interrupt pipe of an xHCI pad.                                      *)
(***************************************************************************)
Trbs == XFER_RING_TRBS - 1      \* a ring's TRBs without the link TRB
RingStates == [trb : [Slots -> {0, 1}], enq : Slots, cycle : {0, 1}]
Pointers == [deq : Slots, cycle : {0, 1}, halted : BOOLEAN]
Events == [ring : Rings, trb : Slots]

\* The events of the interrupt pipe among s, and how many they are.
Reports(s) == {i \in 1 .. Len(s) : s[i].ring = "int"}
Pending(s) == Cardinality(Reports(s))

\* The TRBs before the enqueue pointer are of this turn, the others of the
\* last one.
Written(r) == \A i \in Slots : r.trb[i] = IF i < r.enq THEN r.cycle ELSE 1 - r.cycle

\* The controller is in the driver's turn and not ahead of it, or one turn
\* behind and has still to pass the place where the driver is.
InTurn(r, h) == IF h.cycle = r.cycle THEN h.deq <= r.enq ELSE r.enq <= h.deq

\* The TRBs queued that the controller has not come to.
Queued(r, h) == IF h.cycle = r.cycle THEN r.enq - h.deq ELSE r.enq + Trbs - h.deq

\* While the pipe runs, what is queued and what waits to be read again never
\* fill the ring, and are never nothing while the device is in use; while
\* the pipe is being started there is room for its first TRB.
Armed ==
    hid.pipe /\ ~hc["int"].halted /\ ~stale =>
        LET all == Queued(ring["int"], hc["int"]) + Pending(events) IN
            /\ InTurn(ring["int"], hc["int"])
            /\ all <= Trbs
            /\ hid.in_use => 1 <= all
            /\ doing["game"] = "configure" => all < Trbs

\* What the game does while it enumerates, no device is in use.
Enumerating ==
    /\ doing["game"] \in {"describe", "configure"} => Waiting("game") /\ ~hid.in_use
    /\ doing["game"] = "configure" => hid.pipe
    /\ hid.in_use => hid.pipe

XhciInv ==
    /\ XhciTypeOK /\ Enumerating /\ Armed
    /\ \A r \in Rings : Written(ring[r])

LEMMA TrbsAre == Trbs \in Nat \ {0} /\ Slots = 0 .. Trbs - 1 /\ Done \notin Slots
  BY XhciAssumption DEF Trbs, Slots, Done

LEMMA PendingType ==
  ASSUME NEW s \in Seq(Events)
  PROVE  Pending(s) \in Nat /\ IsFiniteSet(Reports(s)) /\ (Pending(s) = 0 <=> Reports(s) = {})
<1>1. IsFiniteSet(1 .. Len(s))
  BY FS_Interval
<1>2. IsFiniteSet(Reports(s))
  BY <1>1, FS_Subset DEF Reports
<1>3. QED
  BY <1>2, FS_CardinalityType, FS_EmptySet DEF Pending

LEMMA NothingPending == Pending(<<>>) = 0
<1>1. Reports(<<>>) = {}
  BY DEF Reports
<1>2. QED
  BY <1>1, FS_EmptySet DEF Pending

\* The events after one more has been posted.
LEMMA PendingAppend ==
  ASSUME NEW s \in Seq(Events), NEW e \in Events
  PROVE  Pending(Append(s, e)) = Pending(s) + (IF e.ring = "int" THEN 1 ELSE 0)
<1>1. /\ Len(Append(s, e)) = Len(s) + 1 /\ Len(s) \in Nat
      /\ \A i \in 1 .. Len(s) : Append(s, e)[i] = s[i]
      /\ Append(s, e)[Len(s) + 1] = e
  OBVIOUS
<1>2. CASE e.ring = "int"
  <2>1. Reports(Append(s, e)) = Reports(s) \cup {Len(s) + 1} /\ Len(s) + 1 \notin Reports(s)
    BY <1>1, <1>2 DEF Reports
  <2>2. QED
    BY <1>2, <2>1, PendingType, FS_AddElement DEF Pending
<1>3. CASE e.ring # "int"
  <2>1. Reports(Append(s, e)) = Reports(s)
    BY <1>1, <1>3 DEF Reports
  <2>2. QED
    BY <1>3, <2>1, PendingType DEF Pending
<1>4. QED
  BY <1>2, <1>3

\* The events after the first has been read.
LEMMA PendingTail ==
  ASSUME NEW s \in Seq(Events), s # <<>>
  PROVE  /\ Pending(Tail(s)) = Pending(s) - (IF Head(s).ring = "int" THEN 1 ELSE 0)
         /\ Tail(s) \in Seq(Events)
<1>1. /\ Tail(s) \in Seq(Events) /\ Len(Tail(s)) = Len(s) - 1 /\ Len(s) \in Nat \ {0}
      /\ \A i \in 1 .. Len(s) - 1 : Tail(s)[i] = s[i + 1]
      /\ Head(s) = s[1]
  OBVIOUS
<1> DEFINE f == [i \in Reports(Tail(s)) |-> i + 1]
<1>2. f \in Bijection(Reports(Tail(s)), Reports(s) \ {1})
  <2>1. f \in [Reports(Tail(s)) -> Reports(s) \ {1}]
    BY <1>1 DEF Reports
  <2>2. \A i, j \in Reports(Tail(s)) : f[i] = f[j] => i = j
    BY <1>1 DEF Reports
  <2>3. ASSUME NEW j \in Reports(s) \ {1}
        PROVE  \E i \in Reports(Tail(s)) : f[i] = j
    <3>1. j - 1 \in Reports(Tail(s))
      BY <1>1 DEF Reports
    <3>2. f[j - 1] = j
      BY <1>1, <3>1 DEF Reports
    <3>3. QED
      BY <3>1, <3>2
  <2> HIDE DEF f
  <2>4. f \in Injection(Reports(Tail(s)), Reports(s) \ {1})
    BY <2>1, <2>2 DEF Injection, IsInjective
  <2>5. f \in Surjection(Reports(Tail(s)), Reports(s) \ {1})
    BY <2>1, <2>3 DEF Surjection
  <2>6. QED
    BY <2>4, <2>5 DEF Bijection
<1>3. IsFiniteSet(Reports(Tail(s))) /\ IsFiniteSet(Reports(s))
  BY <1>1, PendingType
<1>4. Pending(Tail(s)) = Cardinality(Reports(s) \ {1})
  BY <1>2, <1>3, FS_Bijection DEF ExistsBijection, Pending
<1>5. 1 \in Reports(s) <=> Head(s).ring = "int"
  BY <1>1 DEF Reports
<1>6. Cardinality(Reports(s) \ {1}) = IF 1 \in Reports(s) THEN Pending(s) - 1 ELSE Pending(s)
  BY <1>3, FS_RemoveElement DEF Pending
<1>7. QED
  BY <1>1, <1>3, <1>4, <1>5, <1>6, PendingType

\* A pointer moves on by one, and from the last TRB to the first, where it
\* starts a turn.
LEMMA PointerMoves ==
  ASSUME NEW i \in Slots, NEW c \in {0, 1}
  PROVE  /\ i \in 0 .. Trbs - 1
         /\ After(i) = IF i = Trbs - 1 THEN 0 ELSE i + 1
         /\ Toggled(i, c) = IF i = Trbs - 1 THEN 1 - c ELSE c
         /\ After(i) \in Slots /\ Toggled(i, c) \in {0, 1}
<1>1. Trbs - 1 = XFER_RING_TRBS - 2 /\ i \in 0 .. Trbs - 1
  BY TrbsAre, XhciAssumption DEF Trbs
<1>2. /\ After(i) = IF i = Trbs - 1 THEN 0 ELSE i + 1
      /\ Toggled(i, c) = IF i = Trbs - 1 THEN 1 - c ELSE c
  BY <1>1 DEF After, Toggled
<1>3. QED
  BY <1>1, <1>2, TrbsAre

\* A TRB is queued where there is room for one.
LEMMA PushQueues ==
  ASSUME NEW r \in RingStates, Written(r)
  PROVE  /\ ring_push(r) \in RingStates /\ Written(ring_push(r))
         /\ \A h \in Pointers : InTurn(r, h) /\ Queued(r, h) < Trbs =>
                /\ InTurn(ring_push(r), h)
                /\ Queued(ring_push(r), h) = Queued(r, h) + 1
<1>1. PICK e, c, trb : e = After(r.enq) /\ c = Toggled(r.enq, r.cycle)
                       /\ trb = [r.trb EXCEPT ![r.enq] = r.cycle]
  OBVIOUS
<1>2. ring_push(r) = [trb |-> trb, enq |-> e, cycle |-> c]
  BY <1>1 DEF ring_push
<1>3. r.trb \in [Slots -> {0, 1}] /\ r.enq \in Slots /\ r.cycle \in {0, 1}
  BY DEF RingStates
<1>4. /\ r.enq \in 0 .. Trbs - 1
      /\ e = (IF r.enq = Trbs - 1 THEN 0 ELSE r.enq + 1)
      /\ c = (IF r.enq = Trbs - 1 THEN 1 - r.cycle ELSE r.cycle)
      /\ e \in Slots /\ c \in {0, 1}
  BY <1>1, <1>3, PointerMoves
<1>5. trb \in [Slots -> {0, 1}]
  BY <1>1, <1>3
<1>6. ring_push(r) \in RingStates
  BY <1>2, <1>4, <1>5 DEF RingStates
<1>7. Written(ring_push(r))
  <2> SUFFICES ASSUME NEW i \in Slots PROVE trb[i] = IF i < e THEN c ELSE 1 - c
    BY <1>2 DEF Written
  <2>1. trb[i] = IF i = r.enq THEN r.cycle ELSE IF i < r.enq THEN r.cycle ELSE 1 - r.cycle
    BY <1>1, <1>3 DEF Written
  <2>2. i \in 0 .. Trbs - 1 /\ Trbs \in Nat
    BY TrbsAre
  <2>3. QED
    BY <1>3, <1>4, <2>1, <2>2
<1>8. ASSUME NEW h \in Pointers, InTurn(r, h), Queued(r, h) < Trbs
      PROVE  InTurn(ring_push(r), h) /\ Queued(ring_push(r), h) = Queued(r, h) + 1
  <2>1. h.deq \in 0 .. Trbs - 1 /\ h.cycle \in {0, 1} /\ Trbs \in Nat
    BY TrbsAre DEF Pointers
  <2>2. /\ InTurn(ring_push(r), h) = (IF h.cycle = c THEN h.deq <= e ELSE e <= h.deq)
        /\ Queued(ring_push(r), h)
             = (IF h.cycle = c THEN e - h.deq ELSE e + Trbs - h.deq)
    BY <1>2 DEF InTurn, Queued
  <2>3. QED
    BY <1>3, <1>4, <1>8, <2>1, <2>2 DEF InTurn, Queued
<1>9. QED
  BY <1>6, <1>7, <1>8

\* The controller takes a TRB where there is one.
LEMMA TakeUnqueues ==
  ASSUME NEW r \in RingStates, Written(r), NEW h \in Pointers
  PROVE  /\ InTurn(r, h) => (r.trb[h.deq] = h.cycle <=> 0 < Queued(r, h))
         /\ \A k : k = [deq |-> After(h.deq), cycle |-> Toggled(h.deq, h.cycle),
                        halted |-> FALSE] =>
                /\ k \in Pointers
                /\ InTurn(r, h) /\ 0 < Queued(r, h) =>
                       InTurn(r, k) /\ Queued(r, k) = Queued(r, h) - 1
<1>1. /\ h.deq \in Slots /\ h.cycle \in {0, 1}
      /\ r.enq \in Slots /\ r.cycle \in {0, 1}
      /\ Slots = 0 .. Trbs - 1 /\ Trbs \in Nat
  BY TrbsAre DEF RingStates, Pointers
<1>2. ASSUME InTurn(r, h) PROVE r.trb[h.deq] = h.cycle <=> 0 < Queued(r, h)
  <2>1. r.trb[h.deq] = IF h.deq < r.enq THEN r.cycle ELSE 1 - r.cycle
    BY <1>1 DEF Written
  <2>2. QED
    BY <1>1, <1>2, <2>1 DEF InTurn, Queued
<1>3. PICK d, c : d = After(h.deq) /\ c = Toggled(h.deq, h.cycle)
  OBVIOUS
<1>4. /\ d = (IF h.deq = Trbs - 1 THEN 0 ELSE h.deq + 1)
      /\ c = (IF h.deq = Trbs - 1 THEN 1 - h.cycle ELSE h.cycle)
      /\ d \in Slots /\ c \in {0, 1}
  BY <1>1, <1>3, PointerMoves
<1>5. ASSUME NEW k, k = [deq |-> d, cycle |-> c, halted |-> FALSE] PROVE k \in Pointers
  BY <1>4, <1>5 DEF Pointers
<1>6. ASSUME NEW k, k = [deq |-> d, cycle |-> c, halted |-> FALSE],
             InTurn(r, h), 0 < Queued(r, h)
      PROVE  InTurn(r, k) /\ Queued(r, k) = Queued(r, h) - 1
  <2>1. k.deq = d /\ k.cycle = c
    BY <1>6
  <2>2. QED
    BY <1>1, <1>4, <1>6, <2>1 DEF InTurn, Queued
<1>7. QED
  BY <1>2, <1>3, <1>5, <1>6

\* What is queued and waits to be read is a number.
LEMMA QueuedType ==
  ASSUME NEW r \in RingStates, NEW h \in Pointers
  PROVE  Queued(r, h) \in Int
<1>1. r.enq \in Slots /\ h.deq \in Slots
  BY DEF RingStates, Pointers
<1>2. QED
  BY <1>1, TrbsAre DEF Queued

LEMMA XhciInitially == XhciInit => XhciInv
<1> SUFFICES ASSUME XhciInit PROVE XhciInv
  OBVIOUS
<1>0. 0 \in Slots
  BY TrbsAre
<1>1. ring_init \in RingStates /\ Written(ring_init)
  BY <1>0, TrbsAre DEF ring_init, RingStates, Written
<1>2. /\ ring \in [Rings -> RingStates] /\ hc \in [Rings -> Pointers]
      /\ \A r \in Rings : Written(ring[r])
  BY <1>0, <1>1 DEF XhciInit, Pointers
<1>3. XhciTypeOK
  <2>1. /\ events \in Seq([ring : Rings, trb : Slots])
        /\ wait \in [Tasks -> Slots \cup {Done}]
        /\ doing \in [Tasks -> {"none", "describe", "configure", "rumble"}]
        /\ hid \in [in_use : BOOLEAN, pipe : BOOLEAN, rumble_active : BOOLEAN]
    BY DEF XhciInit
  <2>2. inserted \in {"none", "new", "ready"} /\ stale \in BOOLEAN
    BY DEF XhciInit
  <2>3. QED
    BY <1>2, <2>1, <2>2 DEF XhciTypeOK, RingStates, Pointers
<1>4. Enumerating /\ Armed
  <2>1. doing["game"] = "none" /\ ~hid.in_use /\ ~hid.pipe
    BY DEF XhciInit, Tasks
  <2>2. QED
    BY <2>1 DEF Enumerating, Armed
<1>5. QED
  BY <1>2, <1>3, <1>4 DEF XhciInv

\* What a transfer's event being read leaves of the others.
LEMMA AnswerIsNoReport ==
  ASSUME XhciTypeOK, NEW t \in Tasks, Answered(t) \/ Expired
  PROVE  Pending(events') = Pending(events) /\ events' \in Seq(Events)
<1>1. events \in Seq(Events)
  BY DEF XhciTypeOK, Events
<1>2. CASE Answered(t)
  <2>1. events # <<>> /\ Head(events).ring # "int" /\ events' = Tail(events)
    BY <1>2 DEF Answered
  <2>2. QED
    BY <1>1, <2>1, PendingTail, PendingType
<1>3. CASE Expired
  BY <1>1, <1>3 DEF Expired
<1>4. QED
  BY <1>2, <1>3

LEMMA XhciStep == XhciInv /\ [XhciNext]_xhciVars => XhciInv'
<1> SUFFICES ASSUME XhciInv, [XhciNext]_xhciVars PROVE XhciInv'
  OBVIOUS
<1>t. /\ ring \in [Rings -> RingStates] /\ hc \in [Rings -> Pointers]
      /\ events \in Seq(Events)
      /\ wait \in [Tasks -> Slots \cup {Done}]
      /\ doing \in [Tasks -> {"none", "describe", "configure", "rumble"}]
      /\ hid \in [in_use : BOOLEAN, pipe : BOOLEAN, rumble_active : BOOLEAN]
      /\ inserted \in {"none", "new", "ready"} /\ stale \in BOOLEAN
  BY DEF XhciInv, XhciTypeOK, RingStates, Pointers, Events
<1>e. Enumerating /\ Armed /\ (\A r \in Rings : Written(ring[r])) /\ XhciTypeOK
  BY DEF XhciInv
<1>n. Pending(events) \in Nat /\ Queued(ring["int"], hc["int"]) \in Int
      /\ Trbs \in Nat \ {0}
  BY <1>t, PendingType, QueuedType, TrbsAre DEF Rings
<1> DEFINE Typed ==
              /\ ring \in [Rings -> RingStates] /\ hc \in [Rings -> Pointers]
              /\ events \in Seq(Events)
              /\ wait \in [Tasks -> Slots \cup {Done}]
              /\ doing \in [Tasks -> {"none", "describe", "configure", "rumble"}]
              /\ hid \in [in_use : BOOLEAN, pipe : BOOLEAN, rumble_active : BOOLEAN]
              /\ inserted \in {"none", "new", "ready"} /\ stale \in BOOLEAN
           Rung == \A r \in Rings : Written(ring[r])
           Good == Typed /\ Enumerating /\ Armed /\ Rung
\* A TRB queued on one of the rings.
<1>p. ASSUME NEW q \in Rings, ring' = [ring EXCEPT ![q] = ring_push(@)]
      PROVE  /\ ring' \in [Rings -> RingStates] /\ Rung'
             /\ ring'[q] = ring_push(ring[q])
             /\ \A r \in Rings \ {q} : ring'[r] = ring[r]
  <2>1. ring_push(ring[q]) \in RingStates /\ Written(ring_push(ring[q]))
    BY <1>t, <1>e, PushQueues
  <2>2. QED
    BY <1>t, <1>e, <1>p, <2>1
<1>s. ASSUME NEW t \in Tasks, NEW what \in {"describe", "configure", "rumble"},
             Submit(t, what)
      PROVE  /\ ring' \in [Rings -> RingStates] /\ Rung' /\ ring'["int"] = ring["int"]
             /\ wait' \in [Tasks -> Slots \cup {Done}] /\ wait'[t] \in Slots
             /\ doing' \in [Tasks -> {"none", "describe", "configure", "rumble"}]
             /\ doing'[t] = what
             /\ \A u \in Tasks \ {t} : wait'[u] = wait[u] /\ doing'[u] = doing[u]
  <2>1. ring["ep0"].enq \in Slots
    BY <1>t DEF Rings, RingStates
  <2>2. QED
    BY <1>t, <1>p, <1>s, <2>1 DEF Submit, Rings
<1>w. ASSUME NEW t \in Tasks, EndWait(t)
      PROVE  /\ wait' \in [Tasks -> Slots \cup {Done}]
             /\ doing' \in [Tasks -> {"none", "describe", "configure", "rumble"}]
             /\ doing'[t] = "none"
             /\ \A u \in Tasks \ {t} : wait'[u] = wait[u] /\ doing'[u] = doing[u]
  BY <1>t, <1>w DEF EndWait
<1>1. ASSUME PlugIn \/ PullOut PROVE Good'
  BY <1>1, <1>t, <1>e DEF PlugIn, PullOut, Enumerating, Armed, Waiting
<1>2. ASSUME Disconnect PROVE Good'
  BY <1>2, <1>t, <1>e DEF Disconnect, Enumerating, Armed, Waiting
<1>3. ASSUME EnumerateAddress PROVE Good'
  <2>1. Submit("game", "describe") /\ UNCHANGED <<hid, stale>> /\ ~hid.in_use
        /\ events' = <<>> /\ inserted' = "ready"
        /\ hc' = [hc EXCEPT !["ep0"] = Handed, !["int"].halted = TRUE]
    BY <1>3 DEF EnumerateAddress, Found
  <2>2. hc' \in [Rings -> Pointers] /\ hc'["int"].halted
    <3>1. Handed \in Pointers
      BY TrbsAre DEF Handed, Pointers
    <3>2. [hc["int"] EXCEPT !.halted = TRUE] \in Pointers
      BY <1>t DEF Rings, Pointers
    <3>3. hc'["int"] = [hc["int"] EXCEPT !.halted = TRUE]
      BY <1>t, <2>1 DEF Rings
    <3>4. hc["int"] \in Pointers
      BY <1>t DEF Rings
    <3>5. [hc["int"] EXCEPT !.halted = TRUE].halted
      BY <3>4 DEF Pointers
    <3>6. hc' \in [Rings -> Pointers]
      BY <1>t, <2>1, <3>1, <3>2 DEF Rings
    <3>7. QED
      BY <3>3, <3>5, <3>6
  <2>3. Typed' /\ Rung'
    BY <1>s, <1>t, <2>1, <2>2 DEF Tasks
  <2>4. Enumerating'
    BY <1>s, <1>e, <2>1, TrbsAre DEF Enumerating, Waiting, Tasks
  <2>5. Armed'
    BY <2>2 DEF Armed
  <2>6. QED
    BY <2>3, <2>4, <2>5
<1>4. ASSUME EnumerateConfigure PROVE Good'
  <2>1. Submit("game", "configure") /\ doing["game"] = "describe"
        /\ events' = <<>> /\ hc' = [hc EXCEPT !["int"] = Handed]
        /\ stale' = (ring["int"].cycle = 0) /\ hid' = [hid EXCEPT !.pipe = TRUE]
        /\ inserted' = inserted
    BY <1>4 DEF EnumerateConfigure
  <2>2. /\ hc' \in [Rings -> Pointers] /\ hc'["int"] = Handed
        /\ Handed \in Pointers
    <3>1. Handed \in Pointers
      BY TrbsAre DEF Handed, Pointers
    <3>2. QED
      BY <1>t, <2>1, <3>1 DEF Rings
  <2>3. /\ hid' \in [in_use : BOOLEAN, pipe : BOOLEAN, rumble_active : BOOLEAN]
        /\ hid'.pipe /\ hid'.in_use = hid.in_use
    BY <1>t, <2>1
  <2>4. Typed' /\ Rung'
    BY <1>s, <1>t, <2>1, <2>2, <2>3 DEF Tasks
  <2>5. ~hid.in_use
    BY <1>e, <2>1 DEF Enumerating
  <2>6. Enumerating'
    BY <1>s, <2>1, <2>3, <2>5, TrbsAre DEF Enumerating, Waiting, Tasks
  <2>7. Armed'
    <3> SUFFICES ASSUME ~stale' PROVE /\ InTurn(ring["int"], Handed)
                                      /\ 0 <= Queued(ring["int"], Handed)
                                      /\ Queued(ring["int"], Handed) < Trbs
      BY <1>s, <1>n, <2>1, <2>2, <2>3, <2>5, NothingPending, QueuedType DEF Armed, Tasks
    <3>1. ring["int"].cycle = 1 /\ ring["int"].enq \in 0 .. Trbs - 1
      BY <1>t, <2>1, TrbsAre DEF Rings, RingStates
    <3>2. Handed.cycle = 1 /\ Handed.deq = 0
      BY DEF Handed
    <3>3. QED
      BY <1>n, <3>1, <3>2 DEF InTurn, Queued
  <2>8. QED
    BY <2>4, <2>6, <2>7
<1>5. ASSUME EnumerateFails PROVE Good'
  <2>1. Pending(events') = Pending(events) /\ events' \in Seq(Events)
    BY <1>5, <1>e, AnswerIsNoReport DEF EnumerateFails, Tasks
  <2>2. EndWait("game") /\ UNCHANGED <<ring, hc, hid, inserted, stale>>
    BY <1>5 DEF EnumerateFails
  <2>3. Typed' /\ Rung'
    BY <1>t, <1>e, <1>w, <2>1, <2>2 DEF Tasks
  <2>4. Enumerating'
    BY <1>e, <1>w, <2>2 DEF Enumerating, Waiting, Tasks
  <2>5. Armed'
    BY <1>e, <1>w, <2>1, <2>2 DEF Armed, Tasks
  <2>6. QED
    BY <2>3, <2>4, <2>5
<1>6. ASSUME EnumerateEnds PROVE Good'
  <2>1. Pending(events') = Pending(events) /\ events' \in Seq(Events)
    BY <1>6, <1>e, AnswerIsNoReport DEF EnumerateEnds, Tasks
  <2>2. EndWait("game") /\ UNCHANGED <<hc, inserted, stale>> /\ doing["game"] = "configure"
        /\ ring' = [ring EXCEPT !["int"] = ring_push(@)]
        /\ hid' = [hid EXCEPT !.in_use = TRUE]
    BY <1>6 DEF EnumerateEnds, Arm
  <2>3. /\ hid' \in [in_use : BOOLEAN, pipe : BOOLEAN, rumble_active : BOOLEAN]
        /\ hid'.pipe = hid.pipe /\ hid.pipe
    BY <1>t, <1>e, <2>2 DEF Enumerating
  <2>4. Typed' /\ Rung'
    BY <1>p, <1>t, <1>w, <2>1, <2>2, <2>3 DEF Tasks, Rings
  <2>5. Enumerating'
    BY <1>w, <2>2, <2>3 DEF Enumerating, Waiting, Tasks
  <2>6. Armed'
    <3> SUFFICES ASSUME ~hc["int"].halted, ~stale
                 PROVE  /\ InTurn(ring'["int"], hc["int"])
                        /\ Queued(ring'["int"], hc["int"]) + Pending(events) <= Trbs
                        /\ 1 <= Queued(ring'["int"], hc["int"]) + Pending(events)
      BY <1>w, <2>1, <2>2, <2>3 DEF Armed, Tasks
    <3>1. /\ InTurn(ring["int"], hc["int"])
          /\ Queued(ring["int"], hc["int"]) + Pending(events) < Trbs
          /\ 0 <= Queued(ring["int"], hc["int"])
      <4>1. Armed /\ hid.pipe /\ doing["game"] = "configure"
        BY <1>e, <2>2, <2>3
      <4>2. /\ InTurn(ring["int"], hc["int"])
            /\ Queued(ring["int"], hc["int"]) + Pending(events) < Trbs
        BY <4>1 DEF Armed
      <4>3. 0 <= Queued(ring["int"], hc["int"])
        BY <1>t, <4>2, TrbsAre DEF InTurn, Queued, Rings, RingStates, Pointers
      <4>4. QED
        BY <4>2, <4>3
    <3>2. ring'["int"] = ring_push(ring["int"])
      BY <1>p, <2>2 DEF Rings
    <3>3. /\ ring["int"] \in RingStates /\ Written(ring["int"]) /\ hc["int"] \in Pointers
      BY <1>t, <1>e DEF Rings
    <3>4. Queued(ring["int"], hc["int"]) < Trbs
      BY <1>n, <3>1
    <3>5. /\ InTurn(ring'["int"], hc["int"])
          /\ Queued(ring'["int"], hc["int"]) = Queued(ring["int"], hc["int"]) + 1
      BY <3>1, <3>2, <3>3, <3>4, PushQueues
    <3>6. QED
      BY <1>n, <3>1, <3>5
  <2>7. QED
    BY <2>4, <2>5, <2>6
<1>7. ASSUME NEW r \in Rings, RunTrb(r) PROVE Good'
  <2> PICK k : k = [deq |-> After(hc[r].deq), cycle |-> Toggled(hc[r].deq, hc[r].cycle),
                    halted |-> FALSE]
    OBVIOUS
  <2> PICK e : e = [ring |-> r, trb |-> hc[r].deq]
    OBVIOUS
  <2>1. /\ ~hc[r].halted /\ ring[r].trb[hc[r].deq] = hc[r].cycle
        /\ events' = Append(events, e) /\ hc' = [hc EXCEPT ![r] = k]
        /\ UNCHANGED <<ring, wait, doing, hid, inserted, stale>>
    BY <1>7 DEF RunTrb, Owned, Post
  <2>2. ring[r] \in RingStates /\ Written(ring[r]) /\ hc[r] \in Pointers
    BY <1>t, <1>e
  <2>3. k \in Pointers /\ e \in Events /\ e.ring = r
    BY <2>2, TakeUnqueues DEF Events, Pointers
  <2>4. Typed' /\ Rung' /\ Enumerating'
    BY <1>t, <1>e, <2>1, <2>3 DEF Enumerating, Waiting
  <2>5. Pending(events') = Pending(events) + (IF r = "int" THEN 1 ELSE 0)
    BY <1>t, <2>1, <2>3, PendingAppend
  <2>6. CASE r = "int"
    <3> SUFFICES ASSUME hid.pipe, ~stale
                 PROVE  /\ InTurn(ring[r], k)
                        /\ Queued(ring[r], k) + Pending(events')
                            = Queued(ring[r], hc[r]) + Pending(events)
      BY <1>t, <1>e, <2>1, <2>4, <2>6 DEF Armed, Rings
    <3>1. InTurn(ring[r], hc[r])
      BY <1>e, <2>1, <2>6 DEF Armed
    <3>2. InTurn(ring[r], k) /\ Queued(ring[r], k) = Queued(ring[r], hc[r]) - 1
      BY <2>1, <2>2, <3>1, TakeUnqueues
    <3>3. QED
      BY <1>n, <2>5, <2>6, <3>2
  <2>7. CASE r # "int"
    <3>1. hc'["int"] = hc["int"] /\ Pending(events') = Pending(events)
      BY <1>t, <1>n, <2>1, <2>5, <2>7 DEF Rings
    <3>2. Armed'
      BY <1>e, <2>1, <3>1 DEF Armed
    <3>3. QED
      BY <2>4, <3>2
  <2>8. QED
    BY <2>6, <2>7
<1>8. ASSUME NEW r \in Rings, FailTrb(r) PROVE Good'
  <2> PICK e : e = [ring |-> r, trb |-> hc[r].deq]
    OBVIOUS
  <2> PICK k : k = [hc[r] EXCEPT !.halted = TRUE]
    OBVIOUS
  <2>1. /\ events' = Append(events, e) /\ hc' = [hc EXCEPT ![r] = k]
        /\ UNCHANGED <<ring, wait, doing, hid, inserted, stale>>
    BY <1>8 DEF FailTrb, Post
  <2>2. hc[r] \in Pointers
    BY <1>t
  <2>3. k \in Pointers /\ k.halted /\ e \in Events /\ e.ring = r
    BY <2>2 DEF Events, Pointers
  <2>4. Typed' /\ Rung' /\ Enumerating'
    BY <1>t, <1>e, <2>1, <2>3 DEF Enumerating, Waiting
  <2>5. Pending(events') = Pending(events) + (IF r = "int" THEN 1 ELSE 0)
    BY <1>t, <2>1, <2>3, PendingAppend
  <2>6. CASE r = "int"
    <3>1. hc'["int"].halted
      BY <1>t, <2>1, <2>3, <2>6
    <3>2. QED
      BY <2>4, <3>1 DEF Armed
  <2>7. CASE r # "int"
    <3>1. hc'["int"] = hc["int"] /\ Pending(events') = Pending(events)
      BY <1>t, <1>n, <2>1, <2>5, <2>7 DEF Rings
    <3>2. Armed'
      BY <1>e, <2>1, <3>1 DEF Armed
    <3>3. QED
      BY <2>4, <3>2
  <2>8. QED
    BY <2>6, <2>7
<1>9. ASSUME gamepad_set_rumble \/ gamepad_rumble_idle_check PROVE Good'
  <2>1. PICK t \in Tasks : usb_set_rumble(t)
    BY <1>9 DEF gamepad_set_rumble, gamepad_rumble_idle_check, Tasks
  <2>2. /\ Submit(t, "rumble") /\ UNCHANGED <<hc, events, hid, inserted, stale>>
        /\ ~Waiting(t)
    BY <2>1 DEF usb_set_rumble
  <2>3. Typed' /\ Rung'
    BY <1>t, <1>s, <2>2
  <2>4. Enumerating'
    BY <1>e, <1>s, <2>2 DEF Enumerating, Waiting, Tasks
  <2>5. Armed'
    BY <1>e, <1>s, <2>2 DEF Armed, Tasks
  <2>6. QED
    BY <2>3, <2>4, <2>5
<1>10. ASSUME NEW t \in Tasks, Dispatch(t) PROVE Good'
  <2>1. /\ events # <<>> /\ events' = Tail(events)
        /\ ring' = IF Head(events).ring = "int" /\ hid.pipe THEN Arm(ring) ELSE ring
        /\ UNCHANGED <<hc, wait, doing, hid, inserted, stale>>
    BY <1>10 DEF Dispatch, Sink
  <2>2. /\ Pending(events') = Pending(events) - (IF Head(events).ring = "int" THEN 1 ELSE 0)
        /\ events' \in Seq(Events)
    BY <1>t, <2>1, PendingTail
  <2>3. Enumerating'
    BY <1>e, <2>1 DEF Enumerating, Waiting
  <2>4. CASE Head(events).ring = "int" /\ hid.pipe
    <3>1. ring' = [ring EXCEPT !["int"] = ring_push(@)]
      BY <2>1, <2>4 DEF Arm
    <3>2. Typed' /\ Rung' /\ ring'["int"] = ring_push(ring["int"])
      BY <1>p, <1>t, <2>1, <2>2, <3>1 DEF Rings
    <3>3. Armed'
      <4> SUFFICES ASSUME ~hc["int"].halted, ~stale
                   PROVE  /\ InTurn(ring'["int"], hc["int"])
                          /\ Queued(ring'["int"], hc["int"]) + Pending(events')
                               = Queued(ring["int"], hc["int"]) + Pending(events)
        BY <1>e, <2>1, <2>4 DEF Armed
      <4>1. /\ InTurn(ring["int"], hc["int"])
            /\ Queued(ring["int"], hc["int"]) + Pending(events) <= Trbs
        BY <1>e, <2>4 DEF Armed
      <4>2. Pending(events) >= 1
        BY <1>n, <1>t, <2>2, <2>4, PendingType
      <4>3. Queued(ring["int"], hc["int"]) < Trbs
        BY <1>n, <4>1, <4>2
      <4>4. ring["int"] \in RingStates /\ Written(ring["int"]) /\ hc["int"] \in Pointers
        BY <1>t, <1>e DEF Rings
      <4>5. /\ InTurn(ring'["int"], hc["int"])
            /\ Queued(ring'["int"], hc["int"]) = Queued(ring["int"], hc["int"]) + 1
        BY <3>2, <4>1, <4>3, <4>4, PushQueues
      <4>6. QED
        BY <1>n, <2>2, <2>4, <4>5
    <3>4. QED
      BY <2>3, <3>2, <3>3
  <2>5. CASE ~ (Head(events).ring = "int" /\ hid.pipe)
    <3>1. ring' = ring /\ Typed' /\ Rung'
      BY <1>t, <1>e, <2>1, <2>2, <2>5
    <3>2. Armed'
      BY <1>e, <1>n, <2>1, <2>2, <2>5, <3>1 DEF Armed
    <3>3. QED
      BY <2>3, <3>1, <3>2
  <2>6. QED
    BY <2>4, <2>5
<1>11. ASSUME NEW t \in Tasks, RumbleEnds(t) PROVE Good'
  <2>1. Pending(events') = Pending(events) /\ events' \in Seq(Events)
    BY <1>11, <1>e, AnswerIsNoReport DEF RumbleEnds
  <2>2. EndWait(t) /\ UNCHANGED <<ring, hc, inserted, stale>> /\ doing[t] = "rumble"
        /\ hid' = [hid EXCEPT !.rumble_active = (t = "game")]
    BY <1>11 DEF RumbleEnds
  <2>3. /\ hid' \in [in_use : BOOLEAN, pipe : BOOLEAN, rumble_active : BOOLEAN]
        /\ hid'.pipe = hid.pipe /\ hid'.in_use = hid.in_use
    BY <1>t, <2>2
  <2>4. Typed' /\ Rung'
    BY <1>t, <1>e, <1>w, <2>1, <2>2, <2>3
  <2>5. Enumerating'
    BY <1>e, <1>w, <2>2, <2>3 DEF Enumerating, Waiting, Tasks
  <2>6. Armed'
    BY <1>e, <1>w, <2>1, <2>2, <2>3 DEF Armed, Tasks
  <2>7. QED
    BY <2>4, <2>5, <2>6
<1>12. ASSUME UNCHANGED xhciVars PROVE Good'
  BY <1>t, <1>e, <1>12 DEF xhciVars, Enumerating, Armed, Waiting
<1>13. Good' => XhciInv'
  BY DEF XhciInv, XhciTypeOK, RingStates, Pointers, Events
<1> HIDE DEF Good
<1>14. Good'
  BY <1>1, <1>2, <1>3, <1>4, <1>5, <1>6, <1>7, <1>8, <1>9, <1>10, <1>11, <1>12
     DEF XhciNext
<1>15. QED
  BY <1>13, <1>14

\* While a device is in use, its interrupt pipe always has a TRB to come to,
\* or an event that makes the driver queue one, for rings of every length.
THEOREM PipeStaysArmed == XhciSpec => [](XhciTypeOK /\ PipeIsArmed)
<1>1. XhciInv => XhciTypeOK /\ PipeIsArmed
  <2> SUFFICES ASSUME XhciInv, hid.in_use, ~hc["int"].halted, ~stale
               PROVE  Owned("int") \/ \E i \in DOMAIN events : events[i].ring = "int"
    BY DEF XhciInv, PipeIsArmed
  <2>1. /\ ring["int"] \in RingStates /\ hc["int"] \in Pointers /\ Written(ring["int"])
        /\ events \in Seq(Events)
    BY DEF XhciInv, XhciTypeOK, Rings, RingStates, Pointers, Events
  <2>2. /\ InTurn(ring["int"], hc["int"])
        /\ 1 <= Queued(ring["int"], hc["int"]) + Pending(events)
    BY DEF XhciInv, Enumerating, Armed
  <2>3. CASE 0 < Queued(ring["int"], hc["int"])
    BY <2>1, <2>2, <2>3, TakeUnqueues DEF Owned
  <2>4. CASE ~ (0 < Queued(ring["int"], hc["int"]))
    <3>1. Pending(events) # 0
      BY <2>1, <2>2, <2>4, QueuedType, PendingType
    <3>2. Reports(events) # {}
      BY <2>1, <3>1, PendingType
    <3>3. QED
      BY <2>1, <3>2 DEF Reports
  <2>5. QED
    BY <2>3, <2>4
<1>2. QED
  BY <1>1, XhciInitially, XhciStep, PTL DEF XhciSpec

-----------------------------------------------------------------------------
(***************************************************************************)
(* The keyboards.  What is held is accounted for from the bytes on their   *)
(* way: each is of one key, the prefix before it or not.                   *)
(***************************************************************************)
\* The keys that are a button.
Plays(k) == k[2] => k[1] \in Arrows

\* Byte i of q is one of key k, where h is who has sent a prefix before q.
Prefixed(q, h, i) == (i = 1 /\ h # {}) \/ (i # 1 /\ q[i - 1] = E0)
IsOf(q, h, i, k) == q[i][1] = k[1] /\ (k[2] <=> Prefixed(q, h, i))

\* Every prefix is followed by its code.
Whole(q, h) ==
    /\ \A i \in 1 .. Len(q) : q[i] = E0 => i < Len(q) /\ q[i + 1] # E0
    /\ h # {} => q # <<>> /\ q[1] # E0

\* Key k comes up after byte i of q.
Comes(q, h, i, k) == \E j \in i + 1 .. Len(q) : q[j][2] = "break" /\ IsOf(q, h, j, k)

FromPs2 == half \cap {"ps2"}
FromUsb == half \cap {"usb"}

\* The one kb_extended is the prefix of the one keyboard that has sent half a key.
Halves ==
    /\ half \in {{}, {"ps2"}, {"usb"}}
    /\ kb_extended <=> half # {}
    /\ Whole(irq1, FromPs2) /\ Whole(todo, FromUsb)

\* A press on its way is of a key that is still down, or that comes up later.
PressesArePaired ==
    /\ \A i \in 1 .. Len(irq1), k \in AllKeys :
        irq1[i][2] = "make" /\ IsOf(irq1, FromPs2, i, k)
            => k \in down["ps2"] \/ Comes(irq1, FromPs2, i, k)
    /\ \A i \in 1 .. Len(todo), k \in AllKeys :
        todo[i][2] = "make" /\ IsOf(todo, FromUsb, i, k) => k \in kbd_prev

\* A button is held for a key: one that is down, or whose release is on its way.
Supports(k) ==
    \/ k \in down["ps2"] \cup kbd_prev
    \/ Comes(irq1, FromPs2, 0, k) \/ Comes(todo, FromUsb, 0, k)
ButtonsAreSupported == \A c \in buttons : \E k \in AllKeys : k[1] = c /\ Plays(k) /\ Supports(k)

\* What bootkbd_decode remembers is down, was on a keyboard unplugged, or is
\* about to be replaced.
ReportsAreKept ==
    /\ \A b \in UsbBoards : report[b] # NoReport => report[b] = down[b]
    /\ (\A b \in UsbBoards : report[b] = NoReport) =>
        kbd_prev \subseteq (UNION {down[b] : b \in UsbBoards}) \cup pulled

KeyInv ==
    /\ KeyTypeOK /\ Halves /\ PressesArePaired /\ ButtonsAreSupported /\ ReportsAreKept

(***************************************************************************)
(* Numbers.                                                                *)
(***************************************************************************)
LEMMA LeastOf ==
  ASSUME NEW S \in SUBSET Nat, S # {}
  PROVE  \E m \in S : \A k \in S : m <= k
<1>1. \E m \in S : \A k \in S : ~ (<<k, m>> \in OpToRel(<, Nat))
  BY NatLessThanWellFounded, WFMin, Zenon
<1>2. PICK m \in S : \A k \in S : ~ (<<k, m>> \in OpToRel(<, Nat))
  BY <1>1
<1>3. ASSUME NEW k \in S PROVE m <= k
  <2>1. ~ (<<k, m>> \in OpToRel(<, Nat))
    BY <1>2
  <2>2. QED
    BY <2>1 DEF OpToRel
<1>4. QED
  BY <1>3

LEMMA EveryNumber ==
  ASSUME NEW S \in SUBSET Nat, 0 \in S, \A i \in S : i + 1 \in S
  PROVE  S = Nat
<1> PICK U : U = Nat \ S
  OBVIOUS
<1>1. ASSUME U # {} PROVE FALSE
  <2>1. U \in SUBSET Nat
    OBVIOUS
  <2>2. PICK m \in U : \A k \in U : m <= k
    BY <1>1, <2>1, LeastOf
  <2>3. m \in Nat /\ m # 0 /\ m - 1 \in Nat /\ ~(m <= m - 1) /\ m - 1 + 1 = m
    BY <2>2
  <2>4. m - 1 \notin U
    BY <2>2, <2>3
  <2>5. m - 1 \in S
    BY <2>3, <2>4
  <2> QED
    BY <2>2, <2>3, <2>5
<1> QED
  BY <1>1

(***************************************************************************)
(* The keyboards: how the bytes of keys follow each other.                 *)
(***************************************************************************)
LEMMA BytesAre ==
  /\ E0 \in Bytes /\ E0[2] = "prefix"
  /\ \A b \in Bytes : b # E0 => b[1] \in Codes /\ b[2] \in {"make", "break"} /\ b = <<b[1], b[2]>>
  /\ \A c \in Codes : \A w \in {"make", "break"} : <<c, w>> \in Bytes /\ <<c, w>> # E0
<1>1. ASSUME NEW c \in Codes, NEW w \in {"make", "break"}
      PROVE  <<c, w>> \in Bytes /\ <<c, w>> # E0
  BY DEF Bytes, E0
<1>2. ASSUME NEW b \in Bytes, b # E0
      PROVE  b[1] \in Codes /\ b[2] \in {"make", "break"} /\ b = <<b[1], b[2]>>
  BY <1>2 DEF Bytes
<1>3. E0 \in Bytes /\ E0[2] = "prefix"
  BY DEF Bytes, E0
<1> QED
  BY <1>1, <1>2, <1>3

\* One queue after another: the keys stay what they are.
LEMMA InARow ==
  ASSUME NEW p \in Seq(Bytes), NEW q \in Seq(Bytes), NEW h,
         Whole(p, h), Whole(q, {}), h # {} => p # <<>>
  PROVE  /\ p \o q \in Seq(Bytes) /\ Len(p \o q) = Len(p) + Len(q) /\ Whole(p \o q, h)
         /\ \A i \in 1 .. Len(p) : /\ (p \o q)[i] = p[i]
                                   /\ \A k : IsOf(p \o q, h, i, k) <=> IsOf(p, h, i, k)
         /\ \A i \in 1 .. Len(q) :
             /\ (p \o q)[Len(p) + i] = q[i]
             /\ \A k : IsOf(p \o q, h, Len(p) + i, k) <=> IsOf(q, {}, i, k)
<1>1. PICK r : r = p \o q
  OBVIOUS
<1>2. /\ r \in Seq(Bytes) /\ Len(r) = Len(p) + Len(q)
      /\ Len(p) \in Nat /\ Len(q) \in Nat
      /\ \A i \in 1 .. Len(p) : r[i] = p[i]
      /\ \A i \in 1 .. Len(q) : r[Len(p) + i] = q[i]
  BY <1>1
<1>3. ASSUME NEW i \in 1 .. Len(p) PROVE \A k : IsOf(r, h, i, k) <=> IsOf(p, h, i, k)
  <2>1. i # 1 => i - 1 \in 1 .. Len(p)
    BY <1>2
  <2>2. r[i] = p[i] /\ (i # 1 => r[i - 1] = p[i - 1])
    BY <1>2, <2>1
  <2> QED
    BY <2>2 DEF IsOf, Prefixed
<1>4. Len(p) > 0 => p[Len(p)] # E0
  BY <1>2 DEF Whole
<1>5. ASSUME NEW i \in 1 .. Len(q)
      PROVE  \A k : IsOf(r, h, Len(p) + i, k) <=> IsOf(q, {}, i, k)
  <2>1. CASE i # 1
    <3>1. i - 1 \in 1 .. Len(q) /\ Len(p) + i # 1 /\ Len(p) + i - 1 = Len(p) + (i - 1)
      BY <1>2, <2>1
    <3>2. r[Len(p) + i - 1] = q[i - 1] /\ r[Len(p) + i] = q[i]
      BY <1>2, <3>1
    <3> QED
      BY <2>1, <3>1, <3>2 DEF IsOf, Prefixed
  <2>2. CASE i = 1 /\ Len(p) = 0
    <3>1. p = <<>> /\ h = {} /\ Len(p) + i = 1 /\ r[1] = q[1]
      BY <1>2, <2>2
    <3> QED
      BY <2>2, <3>1 DEF IsOf, Prefixed
  <2>3. CASE i = 1 /\ Len(p) # 0
    <3>1. Len(p) + i # 1 /\ Len(p) + i - 1 = Len(p) /\ r[Len(p)] # E0 /\ r[Len(p) + i] = q[1]
      BY <1>2, <1>4, <2>3
    <3> QED
      BY <2>3, <3>1 DEF IsOf, Prefixed
  <2> QED
    BY <1>2, <2>1, <2>2, <2>3
<1>6. Whole(r, h)
  <2>1. ASSUME NEW i \in 1 .. Len(r), r[i] = E0 PROVE i < Len(r) /\ r[i + 1] # E0
    <3>1. CASE i \in 1 .. Len(p)
      <4>1. p[i] = E0
        BY <1>2, <2>1, <3>1
      <4>2. i < Len(p) /\ p[i + 1] # E0
        BY <3>1, <4>1 DEF Whole
      <4>3. i + 1 \in 1 .. Len(p)
        BY <1>2, <3>1, <4>2
      <4> QED
        BY <1>2, <3>1, <4>2, <4>3
    <3>2. CASE i \notin 1 .. Len(p)
      <4>1. PICK j \in 1 .. Len(q) : i = Len(p) + j
        <5>1. i - Len(p) \in 1 .. Len(q) /\ i = Len(p) + (i - Len(p))
          BY <1>2, <3>2
        <5> QED
          BY <5>1
      <4>2. q[j] = E0
        BY <1>2, <2>1, <4>1
      <4>3. j < Len(q) /\ q[j + 1] # E0
        BY <4>2 DEF Whole
      <4>4. j + 1 \in 1 .. Len(q) /\ i + 1 = Len(p) + (j + 1)
        BY <1>2, <4>1, <4>3
      <4>5. r[i + 1] = q[j + 1]
        BY <1>2, <4>4
      <4> QED
        BY <1>2, <4>1, <4>3, <4>5
    <3> QED
      BY <3>1, <3>2
  <2>2. h # {} => r # <<>> /\ r[1] # E0
    <3>1. h # {} => Len(p) > 0 /\ p[1] # E0
      BY <1>2 DEF Whole
    <3> QED
      BY <1>2, <3>1
  <2> QED
    BY <2>1, <2>2 DEF Whole
<1> QED
  BY <1>1, <1>2, <1>3, <1>5, <1>6

\* What a keyboard sends for a key.
LEMMA BytesOfKey ==
  ASSUME NEW k \in AllKeys, NEW w \in {"make", "break"}, NEW s, s = BytesOf(k, w)
  PROVE  /\ s \in Seq(Bytes) /\ Len(s) \in Nat /\ Len(s) > 0 /\ Whole(s, {})
         /\ \A i \in 1 .. Len(s) :
             s[i] = E0 \/ (s[i][2] = w /\ \A l \in AllKeys : IsOf(s, {}, i, l) => l = k)
         /\ s[Len(s)][2] = w /\ IsOf(s, {}, Len(s), k)
<1>1. k[1] \in Codes /\ k[2] \in BOOLEAN /\ k = <<k[1], k[2]>>
  BY DEF AllKeys
<1>2. PICK b : b = <<k[1], w>>
  OBVIOUS
<1>3. b \in Bytes /\ b # E0 /\ E0 \in Bytes /\ b[1] = k[1] /\ b[2] = w
  BY <1>1, <1>2, BytesAre
<1>4. ASSUME NEW l \in AllKeys, l[1] = k[1], l[2] <=> k[2] PROVE l = k
  <2>1. l[2] \in BOOLEAN /\ l = <<l[1], l[2]>>
    BY DEF AllKeys
  <2>2. l[2] = k[2]
    BY <1>1, <1>4, <2>1, Zenon
  <2> QED
    BY <1>1, <1>4, <2>1, <2>2, Zenon
<1>5. CASE k[2]
  <2>1. s = <<E0>> \o <<b>>
    BY <1>2, <1>5, Zenon DEF BytesOf
  <2>2. s \in Seq(Bytes) /\ Len(s) = 2 /\ s[1] = E0 /\ s[2] = b
    BY <1>3, <2>1
  <2>3. \A l : IsOf(s, {}, 2, l) <=> k[1] = l[1] /\ l[2]
    BY <1>3, <2>2 DEF IsOf, Prefixed
  <2>4. Whole(s, {})
    BY <1>3, <2>2 DEF Whole
  <2>5. \A l \in AllKeys : IsOf(s, {}, 2, l) => l = k
    BY <1>4, <1>5, <2>3, Zenon
  <2>6. IsOf(s, {}, 2, k)
    BY <1>5, <2>3, Zenon
  <2>7. \A i \in 1 .. Len(s) : i = 1 \/ i = 2
    BY <2>2
  <2>8. Len(s) \in Nat /\ Len(s) > 0
    BY <2>2
  <2> QED
    BY <1>3, <2>2, <2>4, <2>5, <2>6, <2>7, <2>8, Zenon
<1>6. CASE ~k[2]
  <2>1. s = <<>> \o <<b>>
    BY <1>2, <1>6, Zenon DEF BytesOf
  <2>2. s \in Seq(Bytes) /\ Len(s) = 1 /\ s[1] = b
    BY <1>3, <2>1
  <2>3. \A l : IsOf(s, {}, 1, l) <=> k[1] = l[1] /\ ~l[2]
    BY <1>3, <2>2 DEF IsOf, Prefixed
  <2>4. Whole(s, {})
    BY <1>3, <2>2 DEF Whole
  <2>5. \A l \in AllKeys : IsOf(s, {}, 1, l) => l = k
    BY <1>4, <1>6, <2>3, Zenon
  <2>6. IsOf(s, {}, 1, k)
    BY <1>6, <2>3, Zenon
  <2>7. \A i \in 1 .. Len(s) : i = 1
    BY <2>2
  <2>8. Len(s) \in Nat /\ Len(s) > 0
    BY <2>2
  <2> QED
    BY <1>3, <2>2, <2>4, <2>5, <2>6, <2>7, <2>8, Zenon
<1> QED
  BY <1>5, <1>6, Zenon

\* q is the bytes of the keys of ks, each told to be what.
Spells(q, ks, what) ==
    /\ q \in Seq(Bytes) /\ Whole(q, {})
    /\ \A i \in 1 .. Len(q) :
        q[i] = E0 \/ (q[i][2] = what /\ \A l \in AllKeys : IsOf(q, {}, i, l) => l \in ks)
    /\ \A k \in ks : \E i \in 1 .. Len(q) : q[i][2] = what /\ IsOf(q, {}, i, k)

LEMMA OneMoreKey ==
  ASSUME NEW p, NEW ks, NEW k \in AllKeys, NEW w \in {"make", "break"}, Spells(p, ks, w)
  PROVE  Spells(p \o BytesOf(k, w), ks \cup {k}, w)
<1> PICK s : s = BytesOf(k, w)
  OBVIOUS
<1> PICK r : r = p \o s
  OBVIOUS
<1>1. /\ s \in Seq(Bytes) /\ Len(s) \in Nat /\ Len(s) > 0 /\ Whole(s, {})
      /\ \A i \in 1 .. Len(s) :
          s[i] = E0 \/ (s[i][2] = w /\ \A l \in AllKeys : IsOf(s, {}, i, l) => l = k)
      /\ s[Len(s)][2] = w /\ IsOf(s, {}, Len(s), k)
  BY BytesOfKey
<1>2. p \in Seq(Bytes) /\ Whole(p, {}) /\ Len(p) \in Nat
  <2>1. p \in Seq(Bytes) /\ Whole(p, {})
    BY Zenon DEF Spells
  <2> QED
    BY <2>1
<1>3. /\ r \in Seq(Bytes) /\ Len(r) = Len(p) + Len(s) /\ Whole(r, {})
      /\ \A i \in 1 .. Len(p) : r[i] = p[i] /\ \A l : IsOf(r, {}, i, l) <=> IsOf(p, {}, i, l)
      /\ \A i \in 1 .. Len(s) :
          /\ r[Len(p) + i] = s[i]
          /\ \A l : IsOf(r, {}, Len(p) + i, l) <=> IsOf(s, {}, i, l)
  <2>1. {} # {} => p # <<>>
    OBVIOUS
  <2> QED
    BY <1>1, <1>2, <2>1, InARow
<1>4. ASSUME NEW i \in 1 .. Len(r)
      PROVE  r[i] = E0 \/ (r[i][2] = w /\ \A l \in AllKeys : IsOf(r, {}, i, l) => l \in ks \cup {k})
  <2>1. CASE i \in 1 .. Len(p)
    <3>1. p[i] = E0 \/ (p[i][2] = w /\ \A l \in AllKeys : IsOf(p, {}, i, l) => l \in ks)
      BY <2>1 DEF Spells
    <3> QED
      BY <1>3, <2>1, <3>1
  <2>2. CASE i \notin 1 .. Len(p)
    <3>1. i - Len(p) \in 1 .. Len(s) /\ i = Len(p) + (i - Len(p))
      BY <1>1, <1>2, <1>3, <2>2
    <3>2. PICK j \in 1 .. Len(s) : i = Len(p) + j
      BY <3>1
    <3> QED
      BY <1>1, <1>3, <3>2
  <2> QED
    BY <2>1, <2>2
<1>5. ASSUME NEW l \in ks \cup {k}
      PROVE  \E i \in 1 .. Len(r) : r[i][2] = w /\ IsOf(r, {}, i, l)
  <2>1. CASE l \in ks
    <3>1. PICK i \in 1 .. Len(p) : p[i][2] = w /\ IsOf(p, {}, i, l)
      BY <2>1 DEF Spells
    <3>2. i \in 1 .. Len(r)
      BY <1>1, <1>2, <1>3
    <3> QED
      BY <1>3, <3>1, <3>2
  <2>2. CASE l = k
    <3>1. Len(s) \in 1 .. Len(s) /\ Len(p) + Len(s) \in 1 .. Len(r)
      BY <1>1, <1>2, <1>3
    <3> QED
      BY <1>1, <1>3, <2>2, <3>1
  <2> QED
    BY <2>1, <2>2
<1> QED
  BY <1>3, <1>4, <1>5 DEF Spells

\* What FlattenSeq of the community modules computes.
LEMMA FlattenExists ==
  ASSUME NEW seqs, NEW n \in Nat
  PROVE  \E f : f = [i \in 1 .. n |-> IF i = 1 THEN seqs[i] ELSE f[i - 1] \o seqs[i]]
<1> DEFINE Rule(f, m) == f = [i \in 1 .. m |-> IF i = 1 THEN seqs[i] ELSE f[i - 1] \o seqs[i]]
           S == {m \in Nat : \E f : Rule(f, m)}
<1>1. 0 \in S
  <2>1. Rule([i \in {} |-> seqs[i]], 0)
    OBVIOUS
  <2> QED
    BY <2>1
<1>2. ASSUME NEW m \in S PROVE m + 1 \in S
  <2>1. PICK f : Rule(f, m)
    OBVIOUS
  <2>2. PICK last : last = IF m + 1 = 1 THEN seqs[m + 1] ELSE f[m] \o seqs[m + 1]
    OBVIOUS
  <2>3. PICK g : g = [i \in 1 .. m + 1 |-> IF i = m + 1 THEN last ELSE f[i]]
    OBVIOUS
  <2>4. m \in Nat /\ DOMAIN g = 1 .. m + 1 /\ g[m + 1] = last /\ \A i \in 1 .. m : g[i] = f[i]
    BY <2>3
  <2>5. ASSUME NEW i \in 1 .. m + 1
        PROVE  g[i] = IF i = 1 THEN seqs[i] ELSE g[i - 1] \o seqs[i]
    <3>1. CASE i = m + 1
      <4>1. i # 1 => m \in 1 .. m /\ i - 1 = m
        BY <2>4, <3>1
      <4> QED
        BY <2>2, <2>4, <3>1, <4>1
    <3>2. CASE i # m + 1
      <4>1. i \in 1 .. m /\ (i # 1 => i - 1 \in 1 .. m)
        BY <2>4, <3>2
      <4>2. f[i] = IF i = 1 THEN seqs[i] ELSE f[i - 1] \o seqs[i]
        BY <2>1, <4>1
      <4> QED
        BY <2>4, <4>1, <4>2
    <3> QED
      BY <3>1, <3>2
  <2>6. Rule(g, m + 1)
    <3>1. g = [i \in DOMAIN g |-> g[i]]
      BY <2>3
    <3> QED
      BY <2>4, <2>5, <3>1
  <2>7. m + 1 \in Nat
    BY <2>4
  <2> QED
    BY <2>6, <2>7, Zenon
<1>3. S = Nat
  <2> HIDE DEF S
  <2>1. S \in SUBSET Nat
    BY DEF S
  <2> QED
    BY <1>1, <1>2, <2>1, EveryNumber
<1> QED
  BY <1>3

LEMMA Flattened ==
  ASSUME NEW seqs, Len(seqs) \in Nat, Len(seqs) # 0
  PROVE  \E f : /\ f[1] = seqs[1]
                /\ \A i \in 2 .. Len(seqs) : f[i] = f[i - 1] \o seqs[i]
                /\ FlattenSeq(seqs) = f[Len(seqs)]
<1> DEFINE n == Len(seqs)
           g == CHOOSE f : f = [i \in 1 .. n |-> IF i = 1 THEN seqs[i] ELSE f[i - 1] \o seqs[i]]
<1>1. g = [i \in 1 .. n |-> IF i = 1 THEN seqs[i] ELSE g[i - 1] \o seqs[i]]
  <2>1. \E f : f = [i \in 1 .. n |-> IF i = 1 THEN seqs[i] ELSE f[i - 1] \o seqs[i]]
    BY FlattenExists
  <2> QED
    BY <2>1, Zenon
<1>2. FlattenSeq(seqs) = g[n]
  BY Zenon DEF FlattenSeq
<1> HIDE DEF g
<1>3. g[1] = seqs[1]
  <2>1. 1 \in 1 .. n
    OBVIOUS
  <2> QED
    BY <1>1, <2>1
<1>4. ASSUME NEW i \in 2 .. n PROVE g[i] = g[i - 1] \o seqs[i]
  <2>1. i \in 1 .. n /\ i # 1
    OBVIOUS
  <2> QED
    BY <1>1, <2>1
<1> QED
  BY <1>2, <1>3, <1>4

LEMMA NothingToSay == \A w : Spells(<<>>, {}, w)
<1> SUFFICES ASSUME NEW w PROVE Spells(<<>>, {}, w)
  OBVIOUS
<1>1. <<>> \in Seq(Bytes) /\ Len(<<>>) = 0 /\ 1 .. Len(<<>>) = {}
  OBVIOUS
<1> QED
  BY <1>1 DEF Spells, Whole

\* All the bytes of some keys, in any order of the keys.
LEMMA AllBytesSpell ==
  ASSUME NEW n \in Nat, NEW ks \in SUBSET AllKeys, NEW keys \in [1 .. n -> ks],
         \A k \in ks : \E i \in 1 .. n : keys[i] = k, NEW w \in {"make", "break"}
  PROVE  Spells(AllBytes(keys, w), ks, w)
<1> PICK seqs : seqs = [i \in DOMAIN keys |-> BytesOf(keys[i], w)]
  OBVIOUS
<1>1. /\ AllBytes(keys, w) = FlattenSeq(seqs)
      /\ \A i \in 1 .. n : seqs[i] = BytesOf(keys[i], w) /\ keys[i] \in AllKeys
  BY DEF AllBytes
<1>2. DOMAIN seqs = 1 .. n /\ Len(seqs) = n
  OBVIOUS
<1>3. CASE n = 0
  <2>1. seqs = <<>> /\ ks = {}
    BY <1>2, <1>3
  <2>2. FlattenSeq(seqs) = seqs
    BY <1>2, <1>3, Zenon DEF FlattenSeq
  <2> QED
    BY <1>1, <2>1, <2>2, NothingToSay
<1>4. CASE n # 0
  <2>1. PICK f : /\ f[1] = seqs[1]
                 /\ \A i \in 2 .. n : f[i] = f[i - 1] \o seqs[i]
                 /\ FlattenSeq(seqs) = f[n]
    BY <1>2, <1>4, Flattened
  <2> DEFINE Told(m) == {keys[j] : j \in 1 .. m}
             S == {m \in Nat : m + 1 <= n => Spells(f[m + 1], Told(m + 1), w)}
  <2>2. 0 \in S
    <3>1. 1 \in 1 .. n /\ Told(1) = {} \cup {keys[1]}
      BY <1>4
    <3>2. BytesOf(keys[1], w) \in Seq(Bytes)
      BY <1>1, <3>1, BytesOfKey
    <3>3. f[1] = <<>> \o BytesOf(keys[1], w)
      BY <1>1, <2>1, <3>1, <3>2
    <3>4. keys[1] \in AllKeys
      BY <1>1, <3>1
    <3>5. Spells(<<>> \o BytesOf(keys[1], w), {} \cup {keys[1]}, w)
      BY <3>4, NothingToSay, OneMoreKey, Zenon
    <3>6. Spells(f[1], Told(1), w)
      BY <3>1, <3>3, <3>5, Zenon
    <3> QED
      BY <3>6
  <2>3. ASSUME NEW m \in S PROVE m + 1 \in S
    <3>1. m \in Nat /\ m + 1 \in Nat
      OBVIOUS
    <3>2. ASSUME m + 1 + 1 <= n PROVE Spells(f[m + 1 + 1], Told(m + 1 + 1), w)
      <4>1. PICK i : i = m + 1 + 1
        OBVIOUS
      <4>2. i \in 2 .. n /\ i \in 1 .. n /\ i - 1 = m + 1 /\ m + 1 <= n
        BY <3>1, <3>2, <4>1
      <4>3. f[i] = f[i - 1] \o BytesOf(keys[i], w)
        BY <1>1, <2>1, <4>2
      <4>4. Spells(f[i - 1], Told(i - 1), w)
        BY <4>2
      <4>5. Told(i) = Told(i - 1) \cup {keys[i]}
        BY <4>2
      <4> QED
        <5> HIDE DEF Told, S
        <5>1. keys[i] \in AllKeys
          BY <1>1, <4>2
        <5>2. Spells(f[i - 1] \o BytesOf(keys[i], w), Told(i - 1) \cup {keys[i]}, w)
          <6> PICK q, t : q = f[i - 1] /\ t = Told(i - 1)
            OBVIOUS
          <6>0. Spells(q, t, w)
            BY <4>4
          <6>1. Spells(q \o BytesOf(keys[i], w), t \cup {keys[i]}, w)
            BY <5>1, <6>0, OneMoreKey
          <6> QED
            BY <6>1
        <5> QED
          BY <4>1, <4>3, <4>5, <5>2, Zenon
    <3> QED
      BY <3>1, <3>2
  <2>4. n - 1 \in S
    <3> HIDE DEF S
    <3>1. S \in SUBSET Nat
      BY DEF S
    <3>2. S = Nat
      BY <2>2, <2>3, <3>1, EveryNumber
    <3> QED
      BY <1>4, <3>2
  <2>5. n - 1 + 1 = n
    OBVIOUS
  <2>6. Spells(f[n], Told(n), w)
    <3> HIDE DEF Told
    <3> QED
      BY <2>4, <2>5
  <2>7. Told(n) = ks
    OBVIOUS
  <2> QED
    BY <1>1, <2>1, <2>6, <2>7
<1> QED
  BY <1>3, <1>4

\* Keys are finitely many, and SetToSeqs orders all of them.
LEMMA OrderedKeys ==
  ASSUME NEW ks \in SUBSET AllKeys, NEW keys \in SetToSeqs(ks), NEW w \in {"make", "break"}
  PROVE  Spells(AllBytes(keys, w), ks, w)
<1>1. IsFiniteSet(ks)
  <2>1. IsFiniteSet(BOOLEAN)
    <3>1. PICK yes, no : yes = TRUE /\ no = FALSE
      BY Zenon
    <3>2. IsFiniteSet({yes})
      BY FS_Singleton
    <3>3. IsFiniteSet({yes} \cup {no})
      BY <3>2, FS_AddElement
    <3>4. BOOLEAN = {yes} \cup {no}
      BY <3>1, Zenon
    <3> QED
      BY <3>3, <3>4, Zenon
  <2>2. IsFiniteSet(AllKeys)
    BY <2>1, KeyboardAssumption, FS_Product DEF AllKeys
  <2> QED
    BY <2>2, FS_Subset
<1> DEFINE n == Cardinality(ks)
<1>2. n \in Nat
  BY <1>1, FS_CardinalityType
<1>3. keys \in [1 .. n -> ks] /\ \A i, j \in 1 .. n : i # j => keys[i] # keys[j]
  BY DEF SetToSeqs
<1>4. keys \in Injection(1 .. n, ks)
  BY <1>3 DEF Injection, IsInjective
<1>5. Cardinality(1 .. n) = n
  BY <1>2, FS_Interval
<1>6. keys \in Surjection(1 .. n, ks)
  BY <1>1, <1>4, <1>5, FS_Injection
<1>7. \A k \in ks : \E i \in 1 .. n : keys[i] = k
  BY <1>6 DEF Surjection
<1> HIDE DEF n
<1> QED
  BY <1>2, <1>3, <1>7, AllBytesSpell

\* The first byte is taken: the others stay what they are.
LEMMA HeadGone ==
  ASSUME NEW q \in Seq(Bytes), q # <<>>, NEW h, Whole(q, h),
         NEW g, g # {} <=> q[1] = E0
  PROVE  /\ Tail(q) \in Seq(Bytes) /\ Len(Tail(q)) = Len(q) - 1 /\ Whole(Tail(q), g)
         /\ \A i \in 1 .. Len(Tail(q)) :
             /\ i + 1 \in 1 .. Len(q) /\ Tail(q)[i] = q[i + 1]
             /\ \A k : IsOf(Tail(q), g, i, k) <=> IsOf(q, h, i + 1, k)
         /\ \A i \in Nat : \A k : Comes(q, h, i + 1, k) => Comes(Tail(q), g, i, k)
         /\ \A k : Comes(q, h, 0, k)
             => Comes(Tail(q), g, 0, k) \/ (q[1][2] = "break" /\ IsOf(q, h, 1, k))
<1> PICK r : r = Tail(q)
  OBVIOUS
<1>1. /\ r \in Seq(Bytes) /\ Len(r) = Len(q) - 1 /\ Len(q) \in Nat /\ Len(q) >= 1
      /\ \A i \in 1 .. Len(r) : i + 1 \in 1 .. Len(q) /\ r[i] = q[i + 1]
  OBVIOUS
<1>2. ASSUME NEW i \in 1 .. Len(r) PROVE \A k : IsOf(r, g, i, k) <=> IsOf(q, h, i + 1, k)
  <2>1. r[i] = q[i + 1] /\ i + 1 # 1 /\ i + 1 - 1 = i
    BY <1>1
  <2>2. CASE i = 1
    BY <2>1, <2>2 DEF IsOf, Prefixed
  <2>3. CASE i # 1
    <3>1. i - 1 \in 1 .. Len(r) /\ i - 1 + 1 = i
      BY <1>1, <2>3
    <3>2. r[i - 1] = q[i]
      BY <1>1, <3>1
    <3> QED
      BY <2>1, <2>3, <3>2 DEF IsOf, Prefixed
  <2> QED
    BY <2>2, <2>3
<1>3. Whole(r, g)
  <2>1. ASSUME NEW i \in 1 .. Len(r), r[i] = E0 PROVE i < Len(r) /\ r[i + 1] # E0
    <3>1. q[i + 1] = E0 /\ i + 1 \in 1 .. Len(q)
      BY <1>1, <2>1
    <3>2. i + 1 < Len(q) /\ q[i + 1 + 1] # E0
      BY <3>1 DEF Whole
    <3>3. i + 1 \in 1 .. Len(r)
      BY <1>1, <3>2
    <3> QED
      BY <1>1, <3>2, <3>3
  <2>2. ASSUME g # {} PROVE r # <<>> /\ r[1] # E0
    <3>1. 1 \in 1 .. Len(q) /\ q[1] = E0
      BY <1>1, <2>2
    <3>2. 1 < Len(q) /\ q[1 + 1] # E0
      BY <3>1 DEF Whole
    <3>3. 1 \in 1 .. Len(r)
      BY <1>1, <3>2
    <3>4. r[1] = q[1 + 1]
      BY <1>1, <3>3
    <3>5. r # <<>>
      <4>1. Len(r) # 0
        BY <1>1, <3>3
      <4> QED
        BY <4>1
    <3> QED
      BY <3>2, <3>4, <3>5
  <2> QED
    BY <2>1, <2>2 DEF Whole
<1>4. ASSUME NEW i \in Nat, NEW k, NEW j \in i + 1 + 1 .. Len(q), q[j][2] = "break", IsOf(q, h, j, k)
      PROVE  Comes(r, g, i, k)
  <2>1. j - 1 \in 1 .. Len(r) /\ j - 1 \in i + 1 .. Len(r) /\ j - 1 + 1 = j
    BY <1>1
  <2>2. r[j - 1][2] = "break" /\ IsOf(r, g, j - 1, k)
    BY <1>1, <1>2, <1>4, <2>1
  <2> QED
    BY <2>1, <2>2 DEF Comes
<1>5. ASSUME NEW i \in Nat, NEW k, Comes(q, h, i + 1, k) PROVE Comes(r, g, i, k)
  BY <1>4, <1>5 DEF Comes
<1>6. ASSUME NEW k, Comes(q, h, 0, k)
      PROVE  Comes(r, g, 0, k) \/ (q[1][2] = "break" /\ IsOf(q, h, 1, k))
  <2>1. PICK j \in 0 + 1 .. Len(q) : q[j][2] = "break" /\ IsOf(q, h, j, k)
    BY <1>6 DEF Comes
  <2>2. j = 1 \/ j \in 0 + 1 + 1 .. Len(q)
    BY <1>1
  <2> QED
    BY <1>4, <2>1, <2>2
<1> QED
  BY <1>1, <1>2, <1>3, <1>5, <1>6

\* A key is put behind what is on its way.
Sent(p, k, w) == p \o BytesOf(k, w)

LEMMA KeySent ==
  ASSUME NEW p \in Seq(Bytes), NEW h, Whole(p, h), NEW k \in AllKeys, NEW w \in {"make", "break"}
  PROVE  LET r == Sent(p, k, w) IN
         /\ r \in Seq(Bytes) /\ Whole(r, h)
         /\ \A i \in 1 .. Len(r), l \in AllKeys : r[i][2] = "make" /\ IsOf(r, h, i, l) =>
             \/ i \in 1 .. Len(p) /\ p[i][2] = "make" /\ IsOf(p, h, i, l)
             \/ l = k /\ w = "make"
         /\ \A i \in Nat : \A l : Comes(p, h, i, l) => Comes(r, h, i, l)
         /\ \A i \in 0 .. Len(p) : w = "break" => Comes(r, h, i, k)
<1> PICK r : r = Sent(p, k, w)
  OBVIOUS
<1> PICK s : s = BytesOf(k, w)
  OBVIOUS
<1>0. r = p \o s
  BY Zenon DEF Sent
<1>1. /\ s \in Seq(Bytes) /\ Len(s) \in Nat /\ Len(s) > 0 /\ Whole(s, {})
      /\ \A i \in 1 .. Len(s) :
          s[i] = E0 \/ (s[i][2] = w /\ \A l \in AllKeys : IsOf(s, {}, i, l) => l = k)
      /\ s[Len(s)][2] = w /\ IsOf(s, {}, Len(s), k)
  BY BytesOfKey
<1>2. Len(p) \in Nat /\ (h # {} => p # <<>>)
  BY DEF Whole
<1>3. /\ r \in Seq(Bytes) /\ Len(r) = Len(p) + Len(s) /\ Whole(r, h)
      /\ \A i \in 1 .. Len(p) : r[i] = p[i] /\ \A l : IsOf(r, h, i, l) <=> IsOf(p, h, i, l)
      /\ \A i \in 1 .. Len(s) :
          /\ r[Len(p) + i] = s[i]
          /\ \A l : IsOf(r, h, Len(p) + i, l) <=> IsOf(s, {}, i, l)
  BY <1>0, <1>1, <1>2, InARow
<1>4. ASSUME NEW i \in 1 .. Len(r), NEW l \in AllKeys, r[i][2] = "make", IsOf(r, h, i, l)
      PROVE  \/ i \in 1 .. Len(p) /\ p[i][2] = "make" /\ IsOf(p, h, i, l)
             \/ l = k /\ w = "make"
  <2>1. CASE i \in 1 .. Len(p)
    BY <1>3, <1>4, <2>1
  <2>2. CASE i \notin 1 .. Len(p)
    <3>1. i - Len(p) \in 1 .. Len(s) /\ i = Len(p) + (i - Len(p))
      BY <1>1, <1>2, <1>3, <2>2
    <3>2. PICK j \in 1 .. Len(s) : i = Len(p) + j
      BY <3>1
    <3>3. s[j][2] = "make" /\ IsOf(s, {}, j, l)
      BY <1>3, <1>4, <3>2
    <3>4. s[j] # E0
      BY <3>3, BytesAre
    <3> QED
      BY <1>1, <3>3, <3>4
  <2> QED
    BY <2>1, <2>2
<1>5. ASSUME NEW i \in Nat, NEW l, Comes(p, h, i, l) PROVE Comes(r, h, i, l)
  <2>1. PICK j \in i + 1 .. Len(p) : p[j][2] = "break" /\ IsOf(p, h, j, l)
    BY <1>5 DEF Comes
  <2>2. j \in 1 .. Len(p) /\ j \in i + 1 .. Len(r)
    BY <1>1, <1>2, <1>3
  <2> QED
    BY <1>3, <2>1, <2>2 DEF Comes
<1>6. ASSUME NEW i \in 0 .. Len(p), w = "break" PROVE Comes(r, h, i, k)
  <2>1. Len(s) \in 1 .. Len(s) /\ Len(p) + Len(s) \in i + 1 .. Len(r)
    BY <1>1, <1>2, <1>3
  <2>2. r[Len(p) + Len(s)][2] = "break" /\ IsOf(r, h, Len(p) + Len(s), k)
    BY <1>1, <1>3, <1>6, <2>1
  <2> QED
    BY <2>1, <2>2 DEF Comes
<1> QED
  BY <1>3, <1>4, <1>5, <1>6

\* What bootkbd_decode injects.
LEMMA Decoded ==
  ASSUME NEW gone \in SUBSET AllKeys, NEW new \in SUBSET AllKeys,
         NEW p, NEW q, Spells(p, gone, "break"), Spells(q, new, "make"), NEW r, r = p \o q
  PROVE  /\ r \in Seq(Bytes) /\ Whole(r, {})
         /\ \A i \in 1 .. Len(r), l \in AllKeys :
             r[i][2] = "make" /\ IsOf(r, {}, i, l) => l \in new
         /\ \A l \in gone : Comes(r, {}, 0, l)
<1>1. /\ p \in Seq(Bytes) /\ Whole(p, {}) /\ q \in Seq(Bytes) /\ Whole(q, {})
      /\ \A i \in 1 .. Len(p) : p[i] = E0 \/ p[i][2] = "break"
      /\ \A k \in gone : \E i \in 1 .. Len(p) : p[i][2] = "break" /\ IsOf(p, {}, i, k)
      /\ \A i \in 1 .. Len(q) :
          q[i] = E0 \/ \A l \in AllKeys : IsOf(q, {}, i, l) => l \in new
  BY DEF Spells
<1>2. Len(p) \in Nat /\ Len(q) \in Nat
  BY <1>1
<1>3. /\ r \in Seq(Bytes) /\ Len(r) = Len(p) + Len(q) /\ Whole(r, {})
      /\ \A i \in 1 .. Len(p) : r[i] = p[i] /\ \A l : IsOf(r, {}, i, l) <=> IsOf(p, {}, i, l)
      /\ \A i \in 1 .. Len(q) :
          /\ r[Len(p) + i] = q[i]
          /\ \A l : IsOf(r, {}, Len(p) + i, l) <=> IsOf(q, {}, i, l)
  BY <1>1, InARow
<1>4. ASSUME NEW i \in 1 .. Len(r), NEW l \in AllKeys, r[i][2] = "make", IsOf(r, {}, i, l)
      PROVE  l \in new
  <2>1. r[i] # E0
    BY <1>4, BytesAre
  <2>2. i \notin 1 .. Len(p)
    BY <1>1, <1>3, <1>4, <2>1
  <2>3. i - Len(p) \in 1 .. Len(q) /\ i = Len(p) + (i - Len(p))
    BY <1>2, <1>3, <2>2
  <2>4. PICK j \in 1 .. Len(q) : i = Len(p) + j
    BY <2>3
  <2>5. q[j] # E0 /\ IsOf(q, {}, j, l)
    BY <1>3, <1>4, <2>1, <2>4
  <2> QED
    BY <1>1, <2>5
<1>5. ASSUME NEW l \in gone PROVE Comes(r, {}, 0, l)
  <2>1. PICK i \in 1 .. Len(p) : p[i][2] = "break" /\ IsOf(p, {}, i, l)
    BY <1>1
  <2>2. i \in 0 + 1 .. Len(r)
    BY <1>2, <1>3
  <2> QED
    BY <1>3, <2>1, <2>2 DEF Comes
<1> QED
  BY <1>3, <1>4, <1>5

(***************************************************************************)
(* The keyboards: the steps.                                               *)
(***************************************************************************)
\* The types, one by one.
KeyTypes ==
    /\ down \in [KeyBoards -> SUBSET AllKeys]
    /\ irq1 \in Seq(Bytes) /\ todo \in Seq(Bytes)
    /\ report \in [UsbBoards -> (SUBSET UsbKeys) \cup {NoReport}]
    /\ kbd_prev \in SUBSET UsbKeys /\ pulled \in SUBSET UsbKeys
    /\ kb_extended \in BOOLEAN /\ buttons \subseteq Codes /\ half \subseteq {"ps2", "usb"}

LEMMA KeyTypesAre ==
  /\ KeyTypeOK <=> KeyTypes
  /\ KeyTypeOK' <=> KeyTypes'
  /\ UsbKeys \subseteq AllKeys
<1>1. {kbd_prev, pulled} \subseteq SUBSET UsbKeys
        <=> kbd_prev \in SUBSET UsbKeys /\ pulled \in SUBSET UsbKeys
  OBVIOUS
<1>2. {kbd_prev', pulled'} \subseteq SUBSET UsbKeys
        <=> kbd_prev' \in SUBSET UsbKeys /\ pulled' \in SUBSET UsbKeys
  OBVIOUS
<1> QED
  BY <1>1, <1>2, Zenon DEF KeyTypeOK, KeyTypes, UsbKeys

LEMMA KeysInitially == KeyInit => KeyInv
<1> SUFFICES ASSUME KeyInit PROVE KeyInv
  OBVIOUS
<1>1. /\ irq1 = <<>> /\ todo = <<>> /\ half = {} /\ kbd_prev = {} /\ buttons = {} /\ pulled = {}
      /\ kb_extended = FALSE /\ report = [b \in UsbBoards |-> NoReport]
      /\ down = [b \in KeyBoards |-> {}]
  BY DEF KeyInit
<1>2. <<>> \in Seq(Bytes) /\ 1 .. Len(<<>>) = {}
  OBVIOUS
<1>3. KeyTypeOK
  <2>1. down \in [KeyBoards -> SUBSET AllKeys]
    BY <1>1
  <2>2. report \in [UsbBoards -> (SUBSET UsbKeys) \cup {NoReport}]
    BY <1>1
  <2>3. /\ irq1 \in Seq(Bytes) /\ todo \in Seq(Bytes)
        /\ kbd_prev \in SUBSET UsbKeys /\ pulled \in SUBSET UsbKeys
        /\ kb_extended \in BOOLEAN /\ buttons \subseteq Codes /\ half \subseteq {"ps2", "usb"}
    BY <1>1, <1>2
  <2> QED
    BY <2>1, <2>2, <2>3, KeyTypesAre, Zenon DEF KeyTypes
<1>4. Halves
  <2>1. Whole(<<>>, {})
    BY <1>2 DEF Whole
  <2>2. FromPs2 = {} /\ FromUsb = {}
    BY <1>1 DEF FromPs2, FromUsb
  <2> QED
    BY <1>1, <2>1, <2>2 DEF Halves
<1>5. PressesArePaired
  BY <1>1, <1>2 DEF PressesArePaired
<1>6. ButtonsAreSupported /\ ReportsAreKept
  BY <1>1 DEF ButtonsAreSupported, ReportsAreKept
<1> QED
  BY <1>3, <1>4, <1>5, <1>6 DEF KeyInv

\* What a byte does, to the flag and to the buttons.
LEMMA InjectKeepsTypes ==
  ASSUME KeyTypeOK, NEW by \in {"ps2", "usb"}, NEW byte \in Bytes, Inject(by, byte)
  PROVE  kb_extended' \in BOOLEAN /\ buttons' \subseteq Codes /\ half' \subseteq {"ps2", "usb"}
<1>1. kb_extended \in BOOLEAN /\ buttons \subseteq Codes /\ half \subseteq {"ps2", "usb"}
  BY DEF KeyTypeOK
<1>2. half' = IF byte = E0 THEN half \cup {by} ELSE half \ {by}
  BY DEF Inject
<1>3. CASE byte = E0
  BY <1>1, <1>2, <1>3 DEF Inject, gamepad_kb_hook
<1>4. CASE byte # E0
  <2>1. byte[1] \in Codes /\ Button(byte[1]) \subseteq Codes
    BY <1>4, BytesAre DEF Button
  <2> QED
    BY <1>1, <1>2, <1>4, <2>1 DEF Inject, gamepad_kb_hook
<1> QED
  BY <1>3, <1>4

LEMMA KeyTypesStep == KeyTypeOK /\ [KeyNext]_keyVars => KeyTypeOK'
<1> SUFFICES ASSUME KeyTypeOK, KeyTypes, [KeyNext]_keyVars PROVE KeyTypes'
  BY KeyTypesAre
<1>1. CASE Irq1
  <2>1. irq1 \in Seq(Bytes) /\ irq1 # <<>>
    BY <1>1 DEF Irq1, KeyTypes
  <2>2. Head(irq1) \in Bytes /\ Tail(irq1) \in Seq(Bytes)
    BY <2>1
  <2>3. kb_extended' \in BOOLEAN /\ buttons' \subseteq Codes /\ half' \subseteq {"ps2", "usb"}
    BY <1>1, <2>2, InjectKeepsTypes DEF Irq1
  <2> QED
    BY <1>1, <2>2, <2>3 DEF Irq1, KeyTypes
<1>2. CASE UsbInject
  <2>1. todo \in Seq(Bytes) /\ todo # <<>>
    BY <1>2 DEF UsbInject, KeyTypes
  <2>2. Head(todo) \in Bytes /\ Tail(todo) \in Seq(Bytes)
    BY <2>1
  <2>3. kb_extended' \in BOOLEAN /\ buttons' \subseteq Codes /\ half' \subseteq {"ps2", "usb"}
    BY <1>2, <2>2, InjectKeepsTypes DEF UsbInject
  <2> QED
    BY <1>2, <2>2, <2>3 DEF UsbInject, KeyTypes
<1>3. ASSUME NEW k \in AllKeys, NEW w \in {"make", "break"}, Ps2Sends(k, w),
             down' \in [KeyBoards -> SUBSET AllKeys]
      PROVE  KeyTypes'
  <2>1. BytesOf(k, w) \in Seq(Bytes)
    BY BytesOfKey
  <2>2. irq1' \in Seq(Bytes)
    BY <1>3, <2>1 DEF Ps2Sends, KeyTypes
  <2> QED
    BY <1>3, <2>2 DEF Ps2Sends, KeyTypes
<1>4. CASE \E k \in AllKeys : Ps2Make(k) \/ Ps2Break(k)
  <2>1. PICK k \in AllKeys : Ps2Make(k) \/ Ps2Break(k)
    BY <1>4
  <2>2. down' \in [KeyBoards -> SUBSET AllKeys]
    BY <2>1 DEF Ps2Make, Ps2Break, KeyTypes
  <2> QED
    BY <1>3, <2>1, <2>2 DEF Ps2Make, Ps2Break
<1>5. ASSUME NEW b \in UsbBoards, UsbDecode(b) PROVE KeyTypes'
  <2>1. report[b] \in SUBSET UsbKeys /\ kbd_prev \in SUBSET UsbKeys /\ UsbKeys \subseteq AllKeys
    BY <1>5, KeyTypesAre DEF UsbDecode, KeyTypes
  <2> PICK off, on : off = kbd_prev \ report[b] /\ on = report[b] \ kbd_prev
    OBVIOUS
  <2>2. PICK gone \in SetToSeqs(off), new \in SetToSeqs(on) :
          todo' = AllBytes(gone, "break") \o AllBytes(new, "make")
    BY <1>5 DEF UsbDecode
  <2>3. off \in SUBSET AllKeys /\ on \in SUBSET AllKeys
    BY <2>1
  <2>4. Spells(AllBytes(gone, "break"), off, "break") /\ Spells(AllBytes(new, "make"), on, "make")
    BY <2>3, OrderedKeys
  <2>5. todo' \in Seq(Bytes)
    BY <2>2, <2>3, <2>4, Decoded
  <2>6. /\ kbd_prev' = report[b] /\ report' = [report EXCEPT ![b] = NoReport] /\ pulled' = {}
        /\ UNCHANGED <<down, irq1, kb_extended, buttons, half>>
    BY <1>5, Zenon DEF UsbDecode
  <2>7. report' \in [UsbBoards -> (SUBSET UsbKeys) \cup {NoReport}]
    BY <2>6 DEF KeyTypes
  <2> QED
    BY <2>1, <2>5, <2>6, <2>7 DEF KeyTypes
<1>6. ASSUME NEW b \in UsbBoards, UsbUnplug(b) PROVE KeyTypes'
  <2>1. b \in KeyBoards
    BY DEF KeyBoards
  <2>2. /\ down' = [down EXCEPT ![b] = {}] /\ report' = [report EXCEPT ![b] = NoReport]
        /\ pulled' = pulled \cup kbd_prev
        /\ UNCHANGED <<irq1, kbd_prev, todo, kb_extended, buttons, half>>
    BY <1>6, Zenon DEF UsbUnplug
  <2>3. report' \in [UsbBoards -> (SUBSET UsbKeys) \cup {NoReport}]
    BY <2>2 DEF KeyTypes
  <2>4. down' \in [KeyBoards -> SUBSET AllKeys]
    BY <2>1, <2>2 DEF KeyTypes
  <2> QED
    BY <2>2, <2>3, <2>4 DEF KeyTypes
<1>7. ASSUME NEW b \in UsbBoards, NEW keys \in SUBSET UsbKeys, UsbReports(b, keys)
      PROVE  KeyTypes'
  <2>1. b \in KeyBoards /\ keys \in SUBSET AllKeys
    BY DEF KeyBoards, UsbKeys
  <2> QED
    BY <1>7, <2>1 DEF UsbReports, KeyTypes
<1>8. CASE UNCHANGED keyVars
  BY <1>8 DEF keyVars, KeyTypes
<1> QED
  BY <1>1, <1>2, <1>4, <1>5, <1>6, <1>7, <1>8 DEF KeyNext

\* The bytes of a keyboard are well formed, and each is the only one's that
\* has half a key under way.
LEMMA Injected ==
  ASSUME KeyTypeOK, Halves, ~Mixing, NEW by \in {"ps2", "usb"}, NEW byte \in Bytes,
         Inject(by, byte)
  PROVE  /\ half \subseteq {by} /\ half' \subseteq {by} /\ half' \in {{}, {"ps2"}, {"usb"}}
         /\ half' # {} <=> byte = E0
         /\ kb_extended' <=> half' # {}
<1>1. half \subseteq {by}
  BY DEF Inject
<1>2. half' = IF byte = E0 THEN half \cup {by} ELSE half \ {by}
  BY DEF Inject
<1>3. kb_extended' <=> byte = E0
  BY DEF Inject, gamepad_kb_hook
<1> QED
  BY <1>1, <1>2, <1>3

LEMMA HeldFor ==
  ASSUME KeyTypeOK, Halves, ~Mixing, NEW by \in {"ps2", "usb"}, NEW q, q[1] \in Bytes,
         Inject(by, q[1]), NEW c \in buttons'
  PROVE  \/ /\ c \in buttons
            /\ \A k \in AllKeys : k[1] = c /\ Plays(k)
                => ~(q[1][2] = "break" /\ IsOf(q, half \cap {by}, 1, k))
         \/ \E k \in AllKeys :
             k[1] = c /\ Plays(k) /\ q[1][2] = "make" /\ IsOf(q, half \cap {by}, 1, k)
<1>1. half \subseteq {by} /\ half \cap {by} = half
  BY DEF Inject
<1>2. \A k : IsOf(q, half \cap {by}, 1, k) <=> (q[1][1] = k[1] /\ (k[2] <=> kb_extended))
  BY <1>1 DEF IsOf, Prefixed, Halves
<1>3. CASE q[1] = E0
  <2>1. buttons' = buttons
    BY <1>3 DEF Inject, gamepad_kb_hook
  <2>2. q[1][2] # "break"
    BY <1>3, BytesAre
  <2> QED
    BY <2>1, <2>2
<1>4. CASE q[1] # E0 /\ q[1][2] = "make"
  <2>1. c \in buttons \/ c \in Button(q[1][1])
    BY <1>4 DEF Inject, gamepad_kb_hook
  <2>2. ASSUME c \in Button(q[1][1])
        PROVE  \E k \in AllKeys : k[1] = c /\ Plays(k) /\ IsOf(q, half \cap {by}, 1, k)
    <3>1. c = q[1][1] /\ (kb_extended => c \in Arrows)
      BY <2>2 DEF Button
    <3>2. c \in Codes /\ kb_extended \in BOOLEAN
      BY <1>4, <3>1, BytesAre DEF KeyTypeOK
    <3>3. PICK k : k = <<c, kb_extended>>
      OBVIOUS
    <3>4. k \in AllKeys /\ k[1] = c /\ k[2] = kb_extended
      BY <3>2, <3>3 DEF AllKeys
    <3>5. Plays(k)
      BY <3>1, <3>4, Zenon DEF Plays
    <3>6. IsOf(q, half \cap {by}, 1, k)
      BY <1>2, <3>1, <3>4, Zenon
    <3> QED
      BY <3>4, <3>5, <3>6
  <2> QED
    BY <1>4, <2>1, <2>2
<1>5. CASE q[1] # E0 /\ q[1][2] # "make"
  <2>1. c \in buttons /\ c \notin Button(q[1][1])
    BY <1>5 DEF Inject, gamepad_kb_hook
  <2>2. ASSUME NEW k \in AllKeys, k[1] = c, Plays(k) PROVE ~IsOf(q, half \cap {by}, 1, k)
    <3>1. q[1][1] = k[1] => kb_extended /\ c \notin Arrows
      BY <2>1, <2>2 DEF Button
    <3> QED
      BY <1>2, <2>2, <3>1, Zenon DEF Plays
  <2> QED
    BY <2>1, <2>2
<1> QED
  BY <1>3, <1>4, <1>5

LEMMA Irq1Step ==
  ASSUME KeyInv, KeyTypeOK', ~Mixing, Irq1
  PROVE  KeyInv'
<1> USE DEF Supports
<1>1. KeyTypeOK /\ Halves /\ PressesArePaired /\ ButtonsAreSupported /\ ReportsAreKept
  BY DEF KeyInv
<1> PICK q : q = irq1
  OBVIOUS
<1>2. /\ q \in Seq(Bytes) /\ q # <<>> /\ Inject("ps2", Head(q)) /\ irq1' = Tail(q)
      /\ UNCHANGED <<down, report, kbd_prev, todo, pulled>>
  BY <1>1 DEF Irq1, KeyTypeOK
<1>3. Head(q) = q[1] /\ q[1] \in Bytes
  BY <1>2
<1>4. /\ half \subseteq {"ps2"} /\ half' \subseteq {"ps2"} /\ half' \in {{}, {"ps2"}, {"usb"}}
      /\ half' # {} <=> q[1] = E0
      /\ kb_extended' <=> half' # {}
  BY <1>1, <1>2, <1>3, Injected
<1>5. FromPs2 = half \cap {"ps2"} /\ FromPs2' = half' /\ FromUsb = {} /\ FromUsb' = {}
  BY <1>4 DEF FromPs2, FromUsb
<1> PICK r, h, g : r = Tail(q) /\ h = FromPs2 /\ g = FromPs2'
  OBVIOUS
<1>6. Whole(q, h) /\ Whole(todo, FromUsb)
  BY <1>1 DEF Halves
<1>7. /\ Whole(r, g)
      /\ \A i \in 1 .. Len(r) :
          /\ i + 1 \in 1 .. Len(q) /\ r[i] = q[i + 1]
          /\ \A k : IsOf(r, g, i, k) <=> IsOf(q, h, i + 1, k)
      /\ \A i \in Nat : \A k : Comes(q, h, i + 1, k) => Comes(r, g, i, k)
      /\ \A k : Comes(q, h, 0, k)
          => Comes(r, g, 0, k) \/ (q[1][2] = "break" /\ IsOf(q, h, 1, k))
  <2>1. g # {} <=> q[1] = E0
    BY <1>4, <1>5
  <2> QED
    BY <1>2, <1>6, <2>1, HeadGone
<1>8. Halves'
  BY <1>2, <1>4, <1>5, <1>6, <1>7 DEF Halves
<1>9. PressesArePaired'
  <2>1. ASSUME NEW i \in 1 .. Len(r), NEW k \in AllKeys, r[i][2] = "make", IsOf(r, g, i, k)
        PROVE  k \in down["ps2"] \/ Comes(r, g, i, k)
    <3>1. i + 1 \in 1 .. Len(q) /\ q[i + 1][2] = "make" /\ IsOf(q, h, i + 1, k)
      BY <1>7, <2>1
    <3>2. k \in down["ps2"] \/ Comes(q, h, i + 1, k)
      BY <1>1, <3>1 DEF PressesArePaired
    <3> QED
      BY <1>7, <3>2
  <2>2. \A i \in 1 .. Len(todo), k \in AllKeys :
          todo[i][2] = "make" /\ IsOf(todo, FromUsb, i, k) => k \in kbd_prev
    BY <1>1 DEF PressesArePaired
  <2> QED
    BY <1>2, <1>5, <2>1, <2>2 DEF PressesArePaired
<1>10. ButtonsAreSupported'
  <2> SUFFICES ASSUME NEW c \in buttons'
               PROVE  \E k \in AllKeys : k[1] = c /\ Plays(k) /\ Supports(k)'
    BY DEF ButtonsAreSupported
  <2>1. \A k : Supports(k)' <=>
          k \in down["ps2"] \cup kbd_prev \/ Comes(r, g, 0, k) \/ Comes(todo, FromUsb, 0, k)
    BY <1>2, <1>5
  <2>2. CASE c \in buttons /\ \A k \in AllKeys : k[1] = c /\ Plays(k)
              => ~(q[1][2] = "break" /\ IsOf(q, h, 1, k))
    <3>1. PICK k \in AllKeys : k[1] = c /\ Plays(k) /\ Supports(k)
      BY <1>1, <2>2 DEF ButtonsAreSupported
    <3>2. Supports(k)'
      BY <1>7, <2>1, <2>2, <3>1
    <3> QED
      BY <3>1, <3>2
  <2>3. CASE \E k \in AllKeys : k[1] = c /\ Plays(k) /\ q[1][2] = "make" /\ IsOf(q, h, 1, k)
    <3>1. PICK k \in AllKeys : k[1] = c /\ Plays(k) /\ q[1][2] = "make" /\ IsOf(q, h, 1, k)
      BY <2>3
    <3>2. 1 \in 1 .. Len(q)
      BY <1>2
    <3>3. k \in down["ps2"] \/ Comes(q, h, 1, k)
      BY <1>1, <3>1, <3>2 DEF PressesArePaired
    <3>4. Comes(q, h, 1, k) => Comes(r, g, 0, k)
      <4>1. 0 \in Nat /\ 0 + 1 = 1
        OBVIOUS
      <4> QED
        BY <1>7, <4>1
    <3> QED
      BY <2>1, <3>1, <3>3, <3>4
  <2> QED
    <3>1. "ps2" \in {"ps2", "usb"} /\ Inject("ps2", q[1])
      BY <1>2, <1>3
    <3>2. \/ /\ c \in buttons
             /\ \A k \in AllKeys : k[1] = c /\ Plays(k)
                 => ~(q[1][2] = "break" /\ IsOf(q, half \cap {"ps2"}, 1, k))
          \/ \E k \in AllKeys :
              k[1] = c /\ Plays(k) /\ q[1][2] = "make" /\ IsOf(q, half \cap {"ps2"}, 1, k)
      BY <1>1, <1>3, <3>1, HeldFor, Zenon
    <3>3. half \cap {"ps2"} = h
      BY <1>5
    <3> QED
      <4> HIDE DEF Supports
      <4> QED
        BY <2>2, <2>3, <3>2, <3>3, Zenon
<1>11. ReportsAreKept'
  BY <1>1, <1>2 DEF ReportsAreKept
<1> QED
  BY <1>8, <1>9, <1>10, <1>11 DEF KeyInv

LEMMA UsbInjectStep ==
  ASSUME KeyInv, KeyTypeOK', ~Mixing, UsbInject
  PROVE  KeyInv'
<1> USE DEF Supports
<1>1. KeyTypeOK /\ Halves /\ PressesArePaired /\ ButtonsAreSupported /\ ReportsAreKept
  BY DEF KeyInv
<1> PICK q : q = todo
  OBVIOUS
<1>2. /\ q \in Seq(Bytes) /\ q # <<>> /\ Inject("usb", Head(q)) /\ todo' = Tail(q)
      /\ UNCHANGED <<down, irq1, report, kbd_prev, pulled>>
  BY <1>1 DEF UsbInject, KeyTypeOK
<1>3. Head(q) = q[1] /\ q[1] \in Bytes
  BY <1>2
<1>4. /\ half \subseteq {"usb"} /\ half' \subseteq {"usb"} /\ half' \in {{}, {"ps2"}, {"usb"}}
      /\ half' # {} <=> q[1] = E0
      /\ kb_extended' <=> half' # {}
  BY <1>1, <1>2, <1>3, Injected
<1>5. FromUsb = half \cap {"usb"} /\ FromUsb' = half' /\ FromPs2 = {} /\ FromPs2' = {}
  BY <1>4 DEF FromPs2, FromUsb
<1> PICK r, h, g : r = Tail(q) /\ h = FromUsb /\ g = FromUsb'
  OBVIOUS
<1>6. Whole(q, h) /\ Whole(irq1, FromPs2)
  BY <1>1 DEF Halves
<1>7. /\ Whole(r, g)
      /\ \A i \in 1 .. Len(r) :
          /\ i + 1 \in 1 .. Len(q) /\ r[i] = q[i + 1]
          /\ \A k : IsOf(r, g, i, k) <=> IsOf(q, h, i + 1, k)
      /\ \A k : Comes(q, h, 0, k)
          => Comes(r, g, 0, k) \/ (q[1][2] = "break" /\ IsOf(q, h, 1, k))
  <2>1. g # {} <=> q[1] = E0
    BY <1>4, <1>5
  <2> QED
    BY <1>2, <1>6, <2>1, HeadGone
<1>8. Halves'
  BY <1>2, <1>4, <1>5, <1>6, <1>7 DEF Halves
<1>9. PressesArePaired'
  <2>1. ASSUME NEW i \in 1 .. Len(r), NEW k \in AllKeys, r[i][2] = "make", IsOf(r, g, i, k)
        PROVE  k \in kbd_prev
    <3>1. i + 1 \in 1 .. Len(q) /\ q[i + 1][2] = "make" /\ IsOf(q, h, i + 1, k)
      BY <1>7, <2>1
    <3> QED
      BY <1>1, <3>1 DEF PressesArePaired
  <2>2. \A i \in 1 .. Len(irq1), k \in AllKeys :
          irq1[i][2] = "make" /\ IsOf(irq1, FromPs2, i, k)
            => k \in down["ps2"] \/ Comes(irq1, FromPs2, i, k)
    BY <1>1 DEF PressesArePaired
  <2> QED
    BY <1>2, <1>5, <2>1, <2>2 DEF PressesArePaired
<1>10. ButtonsAreSupported'
  <2> SUFFICES ASSUME NEW c \in buttons'
               PROVE  \E k \in AllKeys : k[1] = c /\ Plays(k) /\ Supports(k)'
    BY DEF ButtonsAreSupported
  <2>1. \A k : Supports(k)' <=>
          k \in down["ps2"] \cup kbd_prev \/ Comes(irq1, FromPs2, 0, k) \/ Comes(r, g, 0, k)
    BY <1>2, <1>5
  <2>2. CASE c \in buttons /\ \A k \in AllKeys : k[1] = c /\ Plays(k)
              => ~(q[1][2] = "break" /\ IsOf(q, h, 1, k))
    <3>1. PICK k \in AllKeys : k[1] = c /\ Plays(k) /\ Supports(k)
      BY <1>1, <2>2 DEF ButtonsAreSupported
    <3>2. Supports(k)'
      BY <1>7, <2>1, <2>2, <3>1
    <3> QED
      BY <3>1, <3>2
  <2>3. CASE \E k \in AllKeys : k[1] = c /\ Plays(k) /\ q[1][2] = "make" /\ IsOf(q, h, 1, k)
    <3>1. PICK k \in AllKeys : k[1] = c /\ Plays(k) /\ q[1][2] = "make" /\ IsOf(q, h, 1, k)
      BY <2>3
    <3>2. 1 \in 1 .. Len(q)
      BY <1>2
    <3>3. k \in kbd_prev
      BY <1>1, <3>1, <3>2 DEF PressesArePaired
    <3> QED
      BY <2>1, <3>1, <3>3
  <2> QED
    <3>1. "usb" \in {"ps2", "usb"} /\ Inject("usb", q[1])
      BY <1>2, <1>3
    <3>2. \/ /\ c \in buttons
             /\ \A k \in AllKeys : k[1] = c /\ Plays(k)
                 => ~(q[1][2] = "break" /\ IsOf(q, half \cap {"usb"}, 1, k))
          \/ \E k \in AllKeys :
              k[1] = c /\ Plays(k) /\ q[1][2] = "make" /\ IsOf(q, half \cap {"usb"}, 1, k)
      BY <1>1, <1>3, <3>1, HeldFor, Zenon
    <3>3. half \cap {"usb"} = h
      BY <1>5
    <3> QED
      <4> HIDE DEF Supports
      <4> QED
        BY <2>2, <2>3, <3>2, <3>3, Zenon
<1>11. ReportsAreKept'
  BY <1>1, <1>2 DEF ReportsAreKept
<1> QED
  BY <1>8, <1>9, <1>10, <1>11 DEF KeyInv

LEMMA Ps2Step ==
  ASSUME KeyInv, KeyTypeOK', NEW k \in AllKeys, Ps2Make(k) \/ Ps2Break(k)
  PROVE  KeyInv'
<1> USE DEF Supports
<1>1. KeyTypeOK /\ Halves /\ PressesArePaired /\ ButtonsAreSupported /\ ReportsAreKept
  BY DEF KeyInv
<1>2. PICK w \in {"make", "break"} :
        /\ Ps2Sends(k, w)
        /\ w = "make" => down' = [down EXCEPT !["ps2"] = @ \cup {k}]
        /\ w = "break" => down' = [down EXCEPT !["ps2"] = @ \ {k}]
  <2>1. CASE Ps2Make(k)
    BY <2>1 DEF Ps2Make
  <2>2. CASE Ps2Break(k)
    BY <2>2 DEF Ps2Break
  <2> QED
    BY <2>1, <2>2
<1>11. PICK p, h : p = irq1 /\ h = FromPs2
  OBVIOUS
<1>12. PICK r : r = Sent(p, k, w)
  OBVIOUS
<1>3. /\ irq1' = r
      /\ UNCHANGED <<report, kbd_prev, todo, kb_extended, buttons, half, pulled>>
      /\ FromPs2' = h /\ FromUsb' = FromUsb
  BY <1>11, <1>12, <1>2 DEF Ps2Sends, Sent, FromPs2, FromUsb
<1>4. /\ \A b \in UsbBoards : down'[b] = down[b]
      /\ \A l : l \in down["ps2"] => l \in down'["ps2"] \/ (l = k /\ w = "break")
      /\ w = "make" => k \in down'["ps2"]
  <2>1. "ps2" \in KeyBoards /\ \A b \in UsbBoards : b \in KeyBoards /\ b # "ps2"
    BY KeyboardAssumption DEF KeyBoards
  <2>2. down \in [KeyBoards -> SUBSET AllKeys]
    BY <1>1 DEF KeyTypeOK
  <2> QED
    BY <1>2, <2>1, <2>2
<1>5. p \in Seq(Bytes) /\ Whole(p, h) /\ Whole(todo, FromUsb)
  BY <1>11, <1>1 DEF KeyTypeOK, Halves
<1>6. /\ r \in Seq(Bytes) /\ Whole(r, h)
      /\ \A i \in 1 .. Len(r), l \in AllKeys : r[i][2] = "make" /\ IsOf(r, h, i, l) =>
          \/ i \in 1 .. Len(p) /\ p[i][2] = "make" /\ IsOf(p, h, i, l)
          \/ l = k /\ w = "make"
      /\ \A i \in Nat : \A l : Comes(p, h, i, l) => Comes(r, h, i, l)
      /\ \A i \in 0 .. Len(p) : w = "break" => Comes(r, h, i, k)
  BY <1>5, <1>12, KeySent
<1>7. Halves'
  BY <1>11, <1>1, <1>3, <1>5, <1>6 DEF Halves
<1>8. PressesArePaired'
  <2>1. ASSUME NEW i \in 1 .. Len(r), NEW l \in AllKeys, r[i][2] = "make", IsOf(r, h, i, l)
        PROVE  l \in down'["ps2"] \/ Comes(r, h, i, l)
    <3>1. CASE i \in 1 .. Len(p) /\ p[i][2] = "make" /\ IsOf(p, h, i, l)
      <4>1. l \in down["ps2"] \/ Comes(p, h, i, l)
        BY <1>11, <1>1, <3>1 DEF PressesArePaired
      <4>2. i \in Nat /\ i \in 0 .. Len(p)
        BY <1>5, <3>1
      <4> QED
        BY <1>4, <1>6, <4>1, <4>2
    <3>2. CASE l = k /\ w = "make"
      BY <1>4, <3>2
    <3> QED
      BY <1>6, <2>1, <3>1, <3>2
  <2>2. \A i \in 1 .. Len(todo), l \in AllKeys :
          todo[i][2] = "make" /\ IsOf(todo, FromUsb, i, l) => l \in kbd_prev
    BY <1>1 DEF PressesArePaired
  <2> QED
    BY <1>11, <1>3, <2>1, <2>2 DEF PressesArePaired
<1>9. ButtonsAreSupported'
  <2> SUFFICES ASSUME NEW c \in buttons
               PROVE  \E l \in AllKeys : l[1] = c /\ Plays(l) /\ Supports(l)'
    BY <1>3 DEF ButtonsAreSupported
  <2>1. PICK l \in AllKeys : l[1] = c /\ Plays(l) /\ Supports(l)
    BY <1>1 DEF ButtonsAreSupported
  <2>2. 0 \in Nat /\ 0 \in 0 .. Len(p)
    BY <1>5
  <2>3. Supports(l)'
    BY <1>11, <1>3, <1>4, <1>6, <2>1, <2>2
  <2> QED
    BY <2>1, <2>3
<1>10. ReportsAreKept'
  BY <1>1, <1>3, <1>4 DEF ReportsAreKept
<1> QED
  BY <1>7, <1>8, <1>9, <1>10 DEF KeyInv

\* What a USB keyboard has sent, or taken with it, moves no byte.
LEMMA UsbBoardStep ==
  ASSUME KeyInv, KeyTypeOK', NEW b \in UsbBoards,
         UsbUnplug(b) \/ \E keys \in SUBSET UsbKeys : UsbReports(b, keys)
  PROVE  KeyInv'
<1>1. KeyTypeOK /\ Halves /\ PressesArePaired /\ ButtonsAreSupported /\ ReportsAreKept
  BY DEF KeyInv
<1>2. "ps2" # b /\ b \in KeyBoards /\ \A a \in UsbBoards : a \in KeyBoards
  BY KeyboardAssumption DEF KeyBoards
<1>3. down \in [KeyBoards -> SUBSET AllKeys] /\ DOMAIN report = UsbBoards
  BY <1>1 DEF KeyTypeOK
<1>4. /\ UNCHANGED <<irq1, kbd_prev, todo, kb_extended, buttons, half>>
      /\ down'["ps2"] = down["ps2"]
  <2>1. CASE UsbUnplug(b)
    BY <1>2, <1>3, <2>1 DEF UsbUnplug
  <2>2. CASE \E keys \in SUBSET UsbKeys : UsbReports(b, keys)
    BY <1>2, <1>3, <2>2 DEF UsbReports
  <2> QED
    BY <2>1, <2>2
<1>5. FromPs2' = FromPs2 /\ FromUsb' = FromUsb /\ \A l : Supports(l)' <=> Supports(l)
  BY <1>4 DEF FromPs2, FromUsb, Supports
<1>6. Halves' /\ PressesArePaired' /\ ButtonsAreSupported'
  BY <1>1, <1>4, <1>5 DEF Halves, PressesArePaired, ButtonsAreSupported
<1>7. ReportsAreKept'
  <2>1. CASE UsbUnplug(b)
    <3>1. /\ down' = [down EXCEPT ![b] = {}] /\ report' = [report EXCEPT ![b] = NoReport]
          /\ pulled' = pulled \cup kbd_prev
      BY <2>1 DEF UsbUnplug
    <3>2. \A a \in UsbBoards : report'[a] # NoReport => report'[a] = down'[a]
      BY <1>1, <1>2, <1>3, <3>1 DEF ReportsAreKept
    <3>3. kbd_prev' \subseteq (UNION {down'[a] : a \in UsbBoards}) \cup pulled'
      BY <1>4, <3>1
    <3> QED
      BY <3>2, <3>3 DEF ReportsAreKept
  <2>2. CASE \E keys \in SUBSET UsbKeys : UsbReports(b, keys)
    <3>1. PICK keys \in SUBSET UsbKeys : UsbReports(b, keys)
      BY <2>2
    <3>2. report' = [report EXCEPT ![b] = keys] /\ down' = [down EXCEPT ![b] = keys]
      BY <3>1 DEF UsbReports
    <3>3. keys # NoReport
      BY KeyTypesAre, KeyboardAssumption DEF AllKeys
    <3>4. \A a \in UsbBoards : report'[a] # NoReport => report'[a] = down'[a]
      BY <1>1, <1>2, <1>3, <3>2 DEF ReportsAreKept
    <3>5. report'[b] # NoReport
      BY <1>3, <3>2, <3>3
    <3> QED
      BY <3>4, <3>5 DEF ReportsAreKept
  <2> QED
    BY <2>1, <2>2
<1> QED
  BY <1>6, <1>7 DEF KeyInv

LEMMA UsbDecodeStep ==
  ASSUME KeyInv, KeyTypeOK', NEW b \in UsbBoards, UsbDecode(b)
  PROVE  KeyInv'
<1>1. KeyTypeOK /\ Halves /\ PressesArePaired /\ ButtonsAreSupported /\ ReportsAreKept
  BY DEF KeyInv
<1>2. /\ todo = <<>> /\ report[b] # NoReport
      /\ kbd_prev' = report[b] /\ report' = [report EXCEPT ![b] = NoReport] /\ pulled' = {}
      /\ UNCHANGED <<down, irq1, kb_extended, buttons, half>>
  BY Zenon DEF UsbDecode
<1> PICK gone, new : gone = kbd_prev \ report[b] /\ new = report[b] \ kbd_prev
  OBVIOUS
<1>3. PICK first \in SetToSeqs(gone), then \in SetToSeqs(new) :
        todo' = AllBytes(first, "break") \o AllBytes(then, "make")
  BY DEF UsbDecode
<1>4. gone \in SUBSET AllKeys /\ new \in SUBSET AllKeys
  <2>1. report \in [UsbBoards -> (SUBSET UsbKeys) \cup {NoReport}] /\ kbd_prev \in SUBSET UsbKeys
    BY <1>1, KeyTypesAre, Zenon DEF KeyTypes
  <2>2. report[b] \in SUBSET UsbKeys
    BY <1>2, <2>1
  <2>3. UsbKeys \subseteq AllKeys
    BY KeyTypesAre
  <2> QED
    BY <2>1, <2>2, <2>3
<1> PICK p, q, r : p = AllBytes(first, "break") /\ q = AllBytes(then, "make") /\ r = p \o q
  OBVIOUS
<1>5. Spells(p, gone, "break") /\ Spells(q, new, "make")
  BY <1>4, OrderedKeys
<1>6. /\ Whole(r, {})
      /\ \A i \in 1 .. Len(r), l \in AllKeys : r[i][2] = "make" /\ IsOf(r, {}, i, l) => l \in new
      /\ \A l \in gone : Comes(r, {}, 0, l)
  BY <1>4, <1>5, Decoded
<1>7. FromPs2' = FromPs2 /\ FromUsb = {} /\ FromUsb' = {} /\ todo' = r
  <2>1. FromUsb # {} => todo # <<>>
    BY <1>1 DEF Halves, Whole
  <2> QED
    BY <1>2, <1>3, <2>1 DEF FromPs2, FromUsb
<1>8. Halves'
  BY <1>1, <1>2, <1>6, <1>7 DEF Halves
<1>9. PressesArePaired'
  <2>1. \A i \in 1 .. Len(irq1), k \in AllKeys :
          irq1[i][2] = "make" /\ IsOf(irq1, FromPs2, i, k)
            => k \in down["ps2"] \/ Comes(irq1, FromPs2, i, k)
    BY <1>1 DEF PressesArePaired
  <2>2. \A l \in new : l \in kbd_prev'
    BY <1>2
  <2> QED
    BY <1>2, <1>6, <1>7, <2>1, <2>2 DEF PressesArePaired
<1>10. ButtonsAreSupported'
  <2> SUFFICES ASSUME NEW c \in buttons
               PROVE  \E l \in AllKeys : l[1] = c /\ Plays(l) /\ Supports(l)'
    BY <1>2 DEF ButtonsAreSupported
  <2>1. PICK l \in AllKeys : l[1] = c /\ Plays(l) /\ Supports(l)
    BY <1>1 DEF ButtonsAreSupported
  <2>2. ~Comes(todo, FromUsb, 0, l)
    BY <1>2 DEF Comes
  <2>3. l \in kbd_prev => l \in gone \/ l \in kbd_prev'
    BY <1>2
  <2>4. Supports(l)'
    BY <1>2, <1>6, <1>7, <2>1, <2>2, <2>3 DEF Supports
  <2> QED
    BY <2>1, <2>4
<1>11. ReportsAreKept'
  <2>1. DOMAIN report = UsbBoards
    BY <1>1 DEF KeyTypeOK
  <2>2. kbd_prev' \subseteq UNION {down'[a] : a \in UsbBoards}
    <3>1. kbd_prev' = down'[b]
      BY <1>1, <1>2 DEF ReportsAreKept
    <3> QED
      BY <3>1
  <2> QED
    BY <1>1, <1>2, <2>1, <2>2 DEF ReportsAreKept
<1> QED
  BY <1>8, <1>9, <1>10, <1>11 DEF KeyInv

LEMMA KeyStep == KeyInv /\ ~Mixing /\ [KeyNext]_keyVars => KeyInv'
<1> SUFFICES ASSUME KeyInv, ~Mixing, [KeyNext]_keyVars PROVE KeyInv'
  OBVIOUS
<1>1. KeyTypeOK'
  BY KeyTypesStep DEF KeyInv
<1>2. CASE UNCHANGED keyVars
  <2>1. FromPs2' = FromPs2 /\ FromUsb' = FromUsb
    BY <1>2 DEF keyVars, FromPs2, FromUsb
  <2>2. Halves' /\ PressesArePaired'
    BY <1>2, <2>1 DEF keyVars, KeyInv, Halves, PressesArePaired
  <2>3. ButtonsAreSupported' /\ ReportsAreKept'
    BY <1>2, <2>1 DEF keyVars, KeyInv, ButtonsAreSupported, Supports, ReportsAreKept
  <2> QED
    BY <1>1, <2>2, <2>3 DEF KeyInv
<1> QED
  BY <1>1, <1>2, Irq1Step, UsbInjectStep, Ps2Step, UsbBoardStep, UsbDecodeStep DEF KeyNext

\* What reaches the buttons has the types of the driver, mixed or not.
THEOREM KeyboardTypes == KeySpec => []KeyTypeOK
<1>1. KeyInit => KeyTypeOK
  BY KeysInitially DEF KeyInv
<1> QED
  BY <1>1, KeyTypesStep, PTL DEF KeySpec

\* Unless a byte of one keyboard comes between the prefix and the code of
\* another, nothing is held in a game without a key for it.
THEOREM NoButtonSticks == ASSUME ~Mixing PROVE KeySpec => []NoStuckButton
<1>1. KeyInv => NoStuckButton
  <2> SUFFICES ASSUME KeyInv, Quiet, NEW c \in buttons
               PROVE  \E k \in Accounted : k[1] = c
    BY DEF NoStuckButton
  <2>1. PICK k \in AllKeys : k[1] = c /\ Supports(k)
    BY DEF KeyInv, ButtonsAreSupported
  <2>2. ~Comes(irq1, FromPs2, 0, k) /\ ~Comes(todo, FromUsb, 0, k)
    BY DEF Quiet, Comes
  <2>3. k \in down["ps2"] \cup kbd_prev
    BY <2>1, <2>2 DEF Supports
  <2>4. kbd_prev \subseteq (UNION {down[b] : b \in UsbBoards}) \cup pulled
    BY DEF KeyInv, ReportsAreKept, Quiet
  <2>5. "ps2" \in KeyBoards /\ UsbBoards \subseteq KeyBoards
    BY DEF KeyBoards
  <2>6. k \in Accounted
    BY <2>3, <2>4, <2>5 DEF Accounted
  <2> QED
    BY <2>1, <2>6
<1>2. KeyInv /\ [KeyNext]_keyVars => KeyInv'
  BY KeyStep
<1> QED
  BY <1>1, <1>2, KeysInitially, PTL DEF KeySpec

-----------------------------------------------------------------------------
(***************************************************************************)
(* The UHCI driver.                                                        *)
(***************************************************************************)
Devices == {"none", "new", "ready"}
Tracks == [connected : BOOLEAN, in_use : BOOLEAN]
Tds == [status : {"empty", "active", "report", "error"}, link : Links]

\* What a control transfer, and all of an enumeration, can end in.
LEMMA ControlEnds ==
  ASSUME NEW d \in Devices, NEW at, NEW done \in Devices, NEW o \in uhci_control(d, at, done)
  PROVE  o.ok \in BOOLEAN /\ o.device \in Devices
<1>1. uhci_control(d, at, done) =
        {[ok |-> FALSE, device |-> d]} \cup {[ok |-> b, device |-> done] : b \in {a \in BOOLEAN : d = at}}
  BY Zenon DEF uhci_control
<1>2. CASE o = [ok |-> FALSE, device |-> d]
  BY <1>2
<1>3. CASE \E b \in BOOLEAN : o = [ok |-> b, device |-> done]
  BY <1>3
<1> QED
  BY <1>1, <1>2, <1>3

LEMMA EnumerationEnds ==
  ASSUME NEW d \in Devices, NEW o \in Enumerated(d)
  PROVE  o.in_use \in BOOLEAN /\ o.device \in Devices
<1> DEFINE found == usb_get_descriptor(d, "new")
           addressed == UNION {usb_set_address(a.device) : a \in Succeeded(found)}
           described == UNION {usb_get_descriptor(a.device, "ready") : a \in Succeeded(addressed)}
           configured == UNION {usb_set_configuration(a.device) : a \in Succeeded(described)}
           failed == {a \in found \cup addressed \cup described : ~a.ok}
<1>1. \A a \in found : a.device \in Devices
  BY ControlEnds DEF usb_get_descriptor
<1>2. \A a \in addressed : a.device \in Devices
  <2> SUFFICES ASSUME NEW b \in Succeeded(found), NEW a \in usb_set_address(b.device)
               PROVE  a.device \in Devices
    OBVIOUS
  <2>1. b.device \in Devices /\ "ready" \in Devices
    BY <1>1 DEF Succeeded, Devices
  <2> QED
    BY <2>1, ControlEnds DEF usb_set_address
<1>3. \A a \in described : a.device \in Devices
  <2> SUFFICES ASSUME NEW b \in Succeeded(addressed), NEW a \in usb_get_descriptor(b.device, "ready")
               PROVE  a.device \in Devices
    OBVIOUS
  <2>1. b.device \in Devices
    BY <1>2 DEF Succeeded
  <2> QED
    BY <2>1, ControlEnds DEF usb_get_descriptor
<1>4. \A a \in configured : a.device \in Devices
  <2> SUFFICES ASSUME NEW b \in Succeeded(described), NEW a \in usb_set_configuration(b.device)
               PROVE  a.device \in Devices
    OBVIOUS
  <2>1. b.device \in Devices
    BY <1>3 DEF Succeeded
  <2> QED
    BY <2>1, ControlEnds DEF usb_set_configuration
<1>5. \/ \E a \in failed : o = [in_use |-> FALSE, device |-> a.device]
      \/ \E a \in configured : o = [in_use |-> TRUE, device |-> a.device]
  BY DEF Enumerated
<1>6. \A a \in failed : a.device \in Devices
  <2> HIDE DEF found, addressed, described
  <2> QED
    BY <1>1, <1>2, <1>3
<1>7. CASE \E a \in failed : o = [in_use |-> FALSE, device |-> a.device]
  <2> HIDE DEF failed
  <2> QED
    BY <1>6, <1>7
<1>8. CASE \E a \in configured : o = [in_use |-> TRUE, device |-> a.device]
  <2> HIDE DEF configured
  <2> QED
    BY <1>4, <1>8
<1> QED
  BY <1>5, <1>7, <1>8

LEMMA PipeTypes ==
  ASSUME UhciTypeOK, NEW p \in Ports, NEW used \in SUBSET Ports, StartPipe(p, used)
  PROVE  td' \in [Ports -> Tds] /\ element' \in Links
<1>1. td \in [Ports -> Tds]
  BY DEF UhciTypeOK, Tds
<1>2. ASSUME NEW q \in Ports
      PROVE  [status |-> IF q = p THEN "active" ELSE td[q].status,
              link |-> IF q \in used \/ q = p
                       THEN IF q = 0 /\ used = Ports THEN 1 ELSE NoPort
                       ELSE td[q].link] \in Tds
  BY <1>1 DEF Tds, Links, Ports, NoPort
<1>3. td' \in [Ports -> Tds]
  BY <1>2 DEF StartPipe
<1>4. element' \in Links
  BY DEF StartPipe, LowestOf, Links, Ports, NoPort
<1> QED
  BY <1>3, <1>4

LEMMA UhciTypesStep == UhciTypeOK /\ [UhciNext]_uhciVars => UhciTypeOK'
<1> SUFFICES ASSUME UhciTypeOK, [UhciNext]_uhciVars PROVE UhciTypeOK'
  OBVIOUS
<1> DEFINE Steps == [do : {"check", "retry", "harvest"}, port : Ports]
<1>1. /\ attached \in [Ports -> Devices] /\ tracked \in [Ports -> Tracks]
      /\ td \in [Ports -> Tds] /\ element \in Links /\ pollStep \in Steps
  BY DEF UhciTypeOK, Devices, Tracks, Tds
<1> DEFINE Kept == /\ attached' \in [Ports -> Devices] /\ tracked' \in [Ports -> Tracks]
                   /\ td' \in [Ports -> Tds] /\ element' \in Links /\ pollStep' \in Steps
<1>2. SUFFICES Kept
  BY DEF UhciTypeOK, Devices, Tracks, Tds
<1>3. CASE \E p \in Ports : Plug(p) \/ Unplug(p)
  BY <1>1, <1>3 DEF Plug, Unplug, Devices
<1>4. CASE RunTd
  <2>1. element \in Ports
    BY <1>1, <1>4 DEF RunTd, Links
  <2>2. td[element].link \in Links
    BY <1>1, <2>1 DEF Tds
  <2> QED
    BY <1>1, <1>4, <2>1, <2>2 DEF RunTd, Tds
<1>5. ASSUME NEW p \in Ports, EnumeratePort(p)
      PROVE  /\ attached' \in [Ports -> Devices] /\ tracked' \in [Ports -> Tracks]
             /\ td' \in [Ports -> Tds] /\ element' \in Links
  <2>1. uhci_reset_port(attached[p]) \in Devices
    BY <1>1 DEF uhci_reset_port, Devices
  <2>2. PICK o \in Enumerated(uhci_reset_port(attached[p])) :
          /\ attached' = [attached EXCEPT ![p] = o.device]
          /\ tracked' = [tracked EXCEPT ![p] = [connected |-> TRUE, in_use |-> o.in_use]]
          /\ IF o.in_use THEN StartPipe(p, InUse \cup {p}) ELSE UNCHANGED <<td, element>>
    BY <1>5 DEF EnumeratePort
  <2>3. o.in_use \in BOOLEAN /\ o.device \in Devices
    BY <2>1, EnumerationEnds
  <2>4. td' \in [Ports -> Tds] /\ element' \in Links
    <3>1. CASE o.in_use
      <4>1. InUse \cup {p} \in SUBSET Ports /\ StartPipe(p, InUse \cup {p})
        BY <2>2, <3>1 DEF InUse
      <4> QED
        BY <4>1, PipeTypes
    <3>2. CASE ~o.in_use
      BY <1>1, <2>2, <3>2
    <3> QED
      BY <3>1, <3>2
  <2>5. [connected |-> TRUE, in_use |-> o.in_use] \in Tracks
    BY <2>3 DEF Tracks
  <2> QED
    BY <1>1, <2>2, <2>3, <2>4, <2>5
<1>6. ASSUME NEW p \in Ports, Gone(p)
      PROVE  /\ attached' \in [Ports -> Devices] /\ tracked' \in [Ports -> Tracks]
             /\ td' \in [Ports -> Tds] /\ element' \in Links
  <2>1. InUse \ {p} \in SUBSET Ports
    BY DEF InUse
  <2>2. td' \in [Ports -> Tds] /\ element' \in Links
    BY <1>6, <2>1, PipeTypes DEF Gone
  <2>3. tracked' \in [Ports -> Tracks]
    BY <1>1, <1>6 DEF Gone, Tracks
  <2> QED
    BY <1>1, <1>6, <2>2, <2>3 DEF Gone
<1>7. ASSUME Proceed PROVE pollStep' \in Steps
  <2>1. pollStep.do \in {"check", "retry", "harvest"} /\ pollStep.port \in {0, 1}
    BY <1>1 DEF Ports
  <2>2. CASE pollStep.port = 0
    BY <1>1, <1>7, <2>2 DEF Proceed, Ports
  <2>3. CASE pollStep.port # 0
    BY <1>7, <2>1, <2>3 DEF Proceed, Ports
  <2> QED
    BY <2>2, <2>3
<1>8. ASSUME NEW p \in Ports, CheckPort(p) PROVE Kept
  BY <1>1, <1>5, <1>6, <1>7, <1>8 DEF CheckPort
<1>9. ASSUME NEW p \in Ports, RetryPort(p) PROVE Kept
  BY <1>1, <1>5, <1>7, <1>9 DEF RetryPort
<1>10. ASSUME NEW p \in Ports, Harvest(p) PROVE Kept
  <2>1. p \in Links
    BY DEF Links
  <2>2. td' \in [Ports -> Tds] /\ element' \in Links
    BY <1>1, <1>10, <2>1 DEF Harvest, Rearm, Tds
  <2> QED
    BY <1>1, <1>7, <1>10, <2>2 DEF Harvest
<1>11. CASE UNCHANGED uhciVars
  BY <1>1, <1>11 DEF uhciVars
<1> QED
  BY <1>3, <1>4, <1>8, <1>9, <1>10, <1>11 DEF UhciNext, PollStep

\* Whatever comes and goes at the ports, and whichever transfer fails, a TD
\* links to a port's TD or to none, and so does the queue.
THEOREM UhciTypes == UhciSpec => []UhciTypeOK
<1>1. UhciInit => UhciTypeOK
  BY DEF UhciInit, UhciTypeOK, Ports, Links, NoPort
<1> QED
  BY <1>1, UhciTypesStep, PTL DEF UhciSpec

=============================================================================
