------------------------------- MODULE Picker -------------------------------
(***************************************************************************)
(* Who is playing: the launcher's player picker, which keeps players as    *)
(* indices into a list of user profiles that can shrink under them, the    *)
(* profile file it writes through, and the names the kernel files scores   *)
(* under (session_set).  A frame is handled whole: several buttons may     *)
(* have gone down since the last one, and the handlers run in this order.  *)
(***************************************************************************)
EXTENDS Integers, Sequences, SequencesExt

CONSTANTS
    UserNames,      \* names that may be typed
    MAX_USERS,
    GUEST,          \* the session name of player 1 when nobody is picked
    Nobody          \* no second player; no name

ASSUME PickerAssumption ==
    MAX_USERS \in Nat \ {0} /\ GUEST \notin UserNames /\ Nobody \notin UserNames \cup {GUEST}

VARIABLES
    launcher,       \* the launcher's variables
    session,        \* the kernel's player1 and player2
    users_file,     \* USERS0.SAV; its `meant` is history
    meant,          \* who the players said they are (history)
    chosen          \* who player 1 will be when the picker is left (history)

pickerVars == <<launcher, session, users_file, meant, chosen>>

\* Indices count from 1; -1 is no index.
NO_USER == -1
Seats == [p1 : UserNames \cup {GUEST}, p2 : UserNames \cup {Nobody}]

PickerTypeOK ==
    /\ launcher.names \in Seq(UserNames) /\ Len(launcher.names) <= MAX_USERS
    /\ IsInjective(launcher.names)
    /\ {launcher.p1, launcher.p2, launcher.pending_p1} \subseteq
            {NO_USER} \cup 1 .. Len(launcher.names)
    /\ launcher.screen \in {"HOME", "USERS", "NAME"}
    /\ launcher.stage \in {1, 2}
    /\ launcher.screen = "USERS" =>
            launcher.sel \in 1 .. Len(launcher.names) + launcher.stage
    /\ {session, meant} \subseteq Seats

PickerInit ==
    /\ launcher = [names |-> <<>>, p1 |-> NO_USER, p2 |-> NO_USER, screen |-> "HOME",
                   stage |-> 1, sel |-> 1, pending_p1 |-> NO_USER]
    /\ session = [p1 |-> GUEST, p2 |-> Nobody]
    /\ users_file = [names |-> <<>>, p1 |-> NO_USER, p2 |-> NO_USER, meant |-> session]
    /\ meant = session
    /\ chosen = GUEST
-----------------------------------------------------------------------------
Named(l, i, otherwise) == IF i \in DOMAIN l.names THEN l.names[i] ELSE otherwise

apply_session(l) ==
    session' = [p1 |-> Named(l, l.p1, GUEST),
                p2 |-> IF l.p2 = l.p1 THEN Nobody ELSE Named(l, l.p2, Nobody)]

\* The write may fail; nobody looks at the result.
users_save(l) ==
    \/ users_file' = [names |-> l.names, p1 |-> l.p1, p2 |-> l.p2, meant |-> meant']
    \/ UNCHANGED users_file

pick_rows(l) == Len(l.names) + l.stage

\* What every index means once user i is gone.
Without_SkipsPending(l, i) ==
    LET Shift(j) == IF j = i THEN NO_USER ELSE IF j > i THEN j - 1 ELSE j IN
    [l EXCEPT !.names = RemoveAt(@, i), !.p1 = Shift(@), !.p2 = Shift(@)]

Without(l, i) ==
    LET Shift(j) == IF j = i THEN NO_USER ELSE IF j > i THEN j - 1 ELSE j IN
    [l EXCEPT !.names = RemoveAt(@, i), !.p1 = Shift(@), !.p2 = Shift(@),
              !.pending_p1 = Shift(@)]

Move(l, b) ==
    [l EXCEPT !.sel = IF "DOWN" \in b THEN (@ % pick_rows(l)) + 1 ELSE @]

Back(l, b) == IF "B" \in b THEN [l EXCEPT !.screen = "HOME"] ELSE l

Deletes(l, b) == "SELECT" \in b /\ l.sel <= Len(l.names)

user_delete(l, b) ==
    IF ~Deletes(l, b) THEN l
    ELSE LET w == Without(l, l.sel) IN
         [w EXCEPT !.sel = IF @ > pick_rows(w) THEN pick_rows(w) ELSE @]

\* The row under the cursor: + NEW USER, player 1, or player 2 and done.
Confirms(l, b) == "A" \in b /\ l.sel # Len(l.names) + 1 /\ l.stage = 2

Pick(l, b) ==
    IF "A" \notin b THEN l
    ELSE IF l.sel = Len(l.names) + 1 THEN [l EXCEPT !.screen = "NAME"]
    ELSE IF l.stage = 1
    THEN [l EXCEPT !.pending_p1 = l.sel, !.stage = 2,
                   !.sel = IF l.p2 # NO_USER /\ l.p2 # l.sel THEN l.p2
                           ELSE Len(l.names) + 2]
    ELSE [l EXCEPT !.p1 = l.pending_p1, !.screen = "HOME",
                   !.p2 = IF l.sel <= Len(l.names) /\ l.sel # l.pending_p1 THEN l.sel
                          ELSE NO_USER]

Forget(s, name) ==
    [p1 |-> IF s.p1 = name THEN GUEST ELSE s.p1, p2 |-> IF s.p2 = name THEN Nobody ELSE s.p2]

\* What the players mean by it, in names: l before a frame's delete and pick,
\* k between the two.
Mean(l, k, b) ==
    LET gone == IF Deletes(l, b) THEN l.names[l.sel] ELSE Nobody
        kept == IF chosen = gone THEN GUEST ELSE chosen
        other == IF k.sel <= Len(k.names) THEN k.names[k.sel] ELSE Nobody
    IN  /\ chosen' = IF "A" \in b /\ k.stage = 1 /\ k.sel <= Len(k.names)
                     THEN k.names[k.sel] ELSE kept
        /\ meant' = IF Confirms(k, b)
                    THEN [p1 |-> kept, p2 |-> IF other = kept THEN Nobody ELSE other]
                    ELSE Forget(meant, gone)

UsersFrame(b) ==
    /\ launcher.screen = "USERS"
    /\ LET l == Back(Move(launcher, b), b)
           k == user_delete(l, b)
           done == Pick(k, b)
       IN  /\ launcher' = done
           /\ Mean(l, k, b)
           /\ IF Deletes(l, b) \/ Confirms(k, b)
              THEN apply_session(done) /\ users_save(done)
              ELSE UNCHANGED <<session, users_file>>

\* Y on the home screen.
OpenUsers ==
    /\ launcher.screen = "HOME"
    /\ launcher' = [launcher EXCEPT !.screen = "USERS", !.stage = 1, !.pending_p1 = launcher.p1,
                                    !.sel = IF launcher.p1 = NO_USER THEN 1 ELSE launcher.p1]
    /\ chosen' = meant.p1
    /\ UNCHANGED <<session, users_file, meant>>

\* B on an empty name; START with a name refused: empty, or no room for it.
LeaveName ==
    /\ launcher.screen = "NAME"
    /\ launcher' = [launcher EXCEPT !.screen = "USERS"]
    /\ UNCHANGED <<session, users_file, meant, chosen>>

\* START: a name that exists already stands for its user.
name_commit(n) ==
    /\ launcher.screen = "NAME"
    /\ Len(launcher.names) < MAX_USERS
    /\ LET known == n \in ToSet(launcher.names)
           names == IF known THEN launcher.names ELSE Append(launcher.names, n)
           i == CHOOSE j \in DOMAIN names : names[j] = n
           named == [launcher EXCEPT !.names = names, !.screen = "USERS"]
       IN  /\ launcher' = IF launcher.stage = 1
                          THEN [named EXCEPT !.pending_p1 = i, !.stage = 2,
                                             !.sel = Len(names) + 2]
                          ELSE [named EXCEPT !.sel = i]
           /\ chosen' = IF launcher.stage = 1 THEN n ELSE chosen
           /\ UNCHANGED <<session, meant>>
           /\ IF known THEN UNCHANGED users_file ELSE users_save(named)

\* The console is switched off and on: users_load, then apply_session.
Reboot ==
    LET p(i) == IF i > Len(users_file.names) THEN NO_USER ELSE i
        l == [names |-> users_file.names, p1 |-> p(users_file.p1), p2 |-> p(users_file.p2),
              screen |-> "HOME", stage |-> 1, sel |-> 1, pending_p1 |-> NO_USER]
    IN  /\ launcher' = l
        /\ apply_session(l)
        /\ meant' = users_file.meant
        /\ chosen' = GUEST
        /\ UNCHANGED users_file

PickerNext ==
    \/ \E b \in SUBSET {"DOWN", "B", "SELECT", "A"} : UsersFrame(b)
    \/ OpenUsers
    \/ LeaveName
    \/ \E n \in UserNames : name_commit(n)
    \/ Reboot

PickerSpec == PickerInit /\ [][PickerNext]_pickerVars
-----------------------------------------------------------------------------
\* The kernel files scores under the names the players last confirmed, or
\* GUEST for one whose profile has been deleted since, however profiles are
\* added and deleted in between, with a half-made choice open, and across a
\* power cycle.
SessionIsAsPicked == session = meant
=============================================================================
