------------------------------ MODULE Handoff ------------------------------
(***************************************************************************)
(* What beaming promises a player (include/beam.h): a game sent to another *)
(* console lives on, here if the transfer failed, there if the caller was  *)
(* told it had succeeded.  A moment is one frozen state of one game.       *)
(*                                                                         *)
(* The converse is not promised: a console that never hears the answer     *)
(* keeps its copy of a game that was taken over.                           *)
(***************************************************************************)
CONSTANTS Moments, Consoles

VARIABLES
    home,       \* what has become of the original of each moment
    taken       \* the consoles that have resumed it, whole

vars == <<home, taken>>

Init ==
    /\ home = [s \in Moments |-> "none"]
    /\ taken = [s \in Moments |-> {}]

Freeze(s) ==
    /\ home[s] = "none"
    /\ home' = [home EXCEPT ![s] = "open"]
    /\ UNCHANGED taken

\* Also after the sender has given up: the receiver cannot know.
Take(s, c) ==
    /\ home[s] \in {"open", "kept"}
    /\ taken' = [taken EXCEPT ![s] = @ \cup {c}]
    /\ UNCHANGED home

Keep(s) ==
    /\ home[s] = "open"
    /\ home' = [home EXCEPT ![s] = "kept"]
    /\ UNCHANGED taken

\* The original may go only when somebody has the game.
Give(s) ==
    /\ home[s] = "open" /\ taken[s] # {}
    /\ home' = [home EXCEPT ![s] = "given"]
    /\ UNCHANGED taken

Next ==
    \E s \in Moments :
        \/ Freeze(s) \/ Keep(s) \/ Give(s)
        \/ \E c \in Consoles : Take(s, c)

Spec == Init /\ [][Next]_vars
=============================================================================
