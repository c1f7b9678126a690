----------------------------- MODULE SaveSlots -----------------------------
(***************************************************************************)
(* What the console promises a game about its saves ("memory card"         *)
(* semantics, include/fat32.h; the crash-safety comment of fat32.c): a     *)
(* save replaces the whole file or leaves it as it was, whatever happens   *)
(* on the way.  Fat32 implements this specification.                       *)
(*                                                                         *)
(* A file in suspect has met a disk error that fat32_save does not pass on *)
(* to its caller; nothing is promised about it until its next clean save.  *)
(***************************************************************************)
CONSTANTS Names, Versions, None, Torn

VARIABLES
    content,    \* what each file reads back as from the medium
    suspect,    \* files whose last save swallowed a disk error
    saving      \* the save in progress: a record, or None

vars == <<content, suspect, saving>>

Init ==
    /\ content = [n \in Names |-> None]
    /\ suspect = {}
    /\ saving = None

Begin(n, v) ==
    /\ saving = None
    /\ saving' = [name |-> n, ver |-> v, committed |-> FALSE]
    /\ UNCHANGED <<content, suspect>>

\* The new contents appear all at once.
Commit ==
    /\ saving # None /\ ~saving.committed
    /\ saving' = [saving EXCEPT !.committed = TRUE]
    /\ \/ /\ content' = [content EXCEPT ![saving.name] = saving.ver]
          /\ suspect' = suspect \ {saving.name}
       \/ /\ suspect' = suspect \cup {saving.name}
          /\ \E x \in Versions \cup {None, Torn} :
                content' = [content EXCEPT ![saving.name] = x]

\* Success is reported only once they are there, failure only if they are not.
Succeed ==
    /\ saving # None /\ saving.committed
    /\ saving' = None
    /\ UNCHANGED <<content, suspect>>

Fail ==
    /\ saving # None /\ ~saving.committed
    /\ saving' = None
    /\ UNCHANGED <<content, suspect>>

PowerCut ==
    /\ saving' = None
    /\ UNCHANGED <<content, suspect>>

\* A later write of the same FAT sector may mend a suspect file, or not.
Drift ==
    /\ UNCHANGED <<suspect, saving>>
    /\ LET before == content after == content'
       IN  \A n \in Names \ suspect : after[n] = before[n]

Next ==
    \/ \E n \in Names, v \in Versions : Begin(n, v)
    \/ Commit \/ Succeed \/ Fail \/ PowerCut \/ Drift

Spec == Init /\ [][Next]_vars
=============================================================================
