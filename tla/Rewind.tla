------------------------------- MODULE Rewind -------------------------------
(***************************************************************************)
(* Universal rewind (rewind.c): the snapshot ring, the log of what the     *)
(* game observed, and scrubbing by restoring a snapshot and letting the    *)
(* game re-execute the log.                                                *)
(*                                                                         *)
(* A game is a pure function of its memory and of what its syscalls        *)
(* return, so its memory is represented by the sequence of observations it *)
(* was computed from, and every live observation (pad state and tick) is   *)
(* a number never seen before: two memories are equal iff they were        *)
(* computed from the same observations.  A frame is one SYS_PAD_READ and   *)
(* one SYS_GFX_PRESENT, the loop of the SDK.                               *)
(***************************************************************************)
EXTENDS Naturals, Sequences, SequencesExt

CONSTANTS
    REWIND_SLOTS,       \* snapshots in the ring (6)
    SNAP_INTERVAL,      \* presents between snapshots (120)
    RECORDS,            \* frames in the log (1024)
    SCRUB_STEP,         \* SCRUB_STEP_FRAMES, frames per hop (8)
    MaxInputs           \* bound of the model: live frames of one process

ASSUME RingAssumption ==
    /\ REWIND_SLOTS \in Nat \ {0} /\ SNAP_INTERVAL \in Nat \ {0}
    /\ SCRUB_STEP \in Nat \ {0}
    /\ RECORDS \in Nat /\ RECORDS > REWIND_SLOTS * SNAP_INTERVAL
ASSUME InputsAssumption == MaxInputs \in Nat

Slots == 0 .. REWIND_SLOTS - 1
Frames == 0 .. MaxInputs
NoRecord == 0                   \* a log entry this process did not write

VARIABLES
    owned,          \* current_task->id = owner_id
    phase,          \* "run": in ring 3; "present": entering SYS_GFX_PRESENT;
                    \* "hold": in the scrub loop of rewind_post_blit
    game,           \* the process's writable memory
    nextInput,      \* the next live observation
    mode, presentCounter, replayCursor, replayUntil, justRestored,
    scrubbing, scrubAnchor,
    ringBase, ringCount, slotFrame, slotMem, presentsSinceSnap,
    recs, requested, popN,
    truth,          \* the memory at each live present of this timeline (history)
    scrubbed        \* some scrub has moved this timeline (history)

process == <<owned, phase, game, nextInput>>
replay == <<mode, presentCounter, replayCursor, replayUntil, justRestored,
            scrubbing, scrubAnchor>>
ring == <<ringBase, ringCount, slotFrame, slotMem, presentsSinceSnap>>
request == <<requested, popN>>
history == <<truth, scrubbed>>
vars == <<process, replay, ring, recs, request, history>>

TypeOK ==
    /\ owned \in BOOLEAN /\ scrubbed \in BOOLEAN
    /\ phase \in {"run", "present", "hold"}
    /\ game \in Seq(0 .. MaxInputs) /\ nextInput \in 1 .. MaxInputs + 1
    /\ mode \in {"LIVE", "REPLAY"}
    /\ presentCounter \in Frames /\ replayCursor \in Frames /\ replayUntil \in Frames
    /\ justRestored \in BOOLEAN /\ scrubbing \in BOOLEAN /\ scrubAnchor \in Frames
    /\ ringBase \in Slots /\ ringCount \in 0 .. REWIND_SLOTS
    /\ slotFrame \in [Slots -> Frames]
    /\ slotMem \in [Slots -> Seq(0 .. MaxInputs)]
    /\ presentsSinceSnap \in 0 .. SNAP_INTERVAL - 1
    /\ recs \in [0 .. RECORDS - 1 -> 0 .. MaxInputs]
    /\ requested \in BOOLEAN /\ popN \in 1 .. REWIND_SLOTS
    /\ truth \in [Frames -> Seq(0 .. MaxInputs)]

Blank(S, x) == [i \in S |-> x]

\* A process that has not presented anything yet.
Init ==
    /\ owned = FALSE /\ phase = "present" /\ game = <<>> /\ nextInput = 1
    /\ mode = "LIVE" /\ presentCounter = 0 /\ replayCursor = 0
    /\ replayUntil = 0 /\ justRestored = FALSE
    /\ scrubbing = FALSE /\ scrubAnchor = 0
    /\ ringBase = 0 /\ ringCount = 0
    /\ slotFrame = Blank(Slots, 0) /\ slotMem = Blank(Slots, <<>>)
    /\ presentsSinceSnap = 0
    /\ recs = Blank(0 .. RECORDS - 1, NoRecord)
    /\ requested = FALSE /\ popN = 1
    /\ truth = Blank(Frames, <<>>) /\ scrubbed = FALSE

-----------------------------------------------------------------------------
(***************************************************************************)
(* The ring: stack semantics on top of a ring buffer.                      *)
(***************************************************************************)
SlotAt(i) == (ringBase + i) % REWIND_SLOTS      \* 0 is the oldest
Live == {SlotAt(i) : i \in 0 .. ringCount - 1}

\* Mutant: the oldest snapshot is overwritten but still counted.
TakeSnapshot_NoDrop(frame, mem) ==
    LET full == ringCount = REWIND_SLOTS
        slot == IF full THEN ringBase ELSE SlotAt(ringCount)
    IN  /\ ringBase' = IF full THEN (ringBase + 1) % REWIND_SLOTS ELSE ringBase
        /\ ringCount' = ringCount + 1
        /\ slotFrame' = [slotFrame EXCEPT ![slot] = frame]
        /\ slotMem' = [slotMem EXCEPT ![slot] = mem]

TakeSnapshot(frame, mem) ==
    LET full == ringCount = REWIND_SLOTS
        slot == IF full THEN ringBase ELSE SlotAt(ringCount)
    IN  /\ ringBase' = IF full THEN (ringBase + 1) % REWIND_SLOTS ELSE ringBase
        /\ ringCount' = IF full THEN ringCount ELSE ringCount + 1
        /\ slotFrame' = [slotFrame EXCEPT ![slot] = frame]
        /\ slotMem' = [slotMem EXCEPT ![slot] = mem]

\* Mutant: a snapshot of the target frame itself does not count.
NewestAtOrBefore_Strict(target, i) ==
    /\ i \in 0 .. ringCount - 1
    /\ slotFrame[SlotAt(i)] < target
    /\ \A j \in i + 1 .. ringCount - 1 : slotFrame[SlotAt(j)] >= target

\* slot_for_frame: the newest snapshot at or before the target.
NewestAtOrBefore(target, i) ==
    /\ i \in 0 .. ringCount - 1
    /\ slotFrame[SlotAt(i)] <= target
    /\ \A j \in i + 1 .. ringCount - 1 : slotFrame[SlotAt(j)] > target

-----------------------------------------------------------------------------
(***************************************************************************)
(* The game's frame: SYS_PAD_READ, rewind_feed_pad.                        *)
(***************************************************************************)
ObserveLive ==
    /\ phase = "run" /\ mode = "LIVE"
    /\ nextInput <= MaxInputs
    /\ nextInput' = nextInput + 1
    /\ recs' = [recs EXCEPT ![presentCounter % RECORDS] = nextInput]
    /\ game' = Append(game, nextInput)
    /\ phase' = "present"
    /\ UNCHANGED <<owned, replay, ring, request, history>>

ObserveReplay ==
    /\ phase = "run" /\ mode = "REPLAY"
    /\ game' = Append(game, recs[replayCursor % RECORDS])
    /\ phase' = "present"
    /\ UNCHANGED <<owned, nextInput, replay, ring, recs, request, history>>

(***************************************************************************)
(* SYS_GFX_PRESENT, rewind_on_present.                                     *)
(***************************************************************************)
\* The first present of a new process drops the history.
PresentFirst ==
    /\ phase = "present" /\ ~owned
    /\ owned' = TRUE
    /\ phase' = "run"
    /\ ringBase' = 0 /\ ringCount' = 1
    /\ slotFrame' = [slotFrame EXCEPT ![0] = 0]
    /\ slotMem' = [slotMem EXCEPT ![0] = game]
    /\ presentsSinceSnap' = 0
    /\ requested' = FALSE
    /\ presentCounter' = 0
    /\ mode' = "LIVE" /\ scrubbing' = FALSE /\ justRestored' = FALSE
    /\ truth' = [truth EXCEPT ![0] = game]
    /\ UNCHANGED <<game, nextInput, replayCursor, replayUntil, scrubAnchor,
                   recs, popN, scrubbed>>

\* Mutants: replayed frames count as presented; every present restores again.
PresentReplay_Counts ==
    /\ phase = "present" /\ owned /\ mode = "REPLAY"
    /\ justRestored' = FALSE
    /\ presentCounter' = presentCounter + 1
    /\ replayCursor' = IF justRestored THEN replayCursor ELSE replayCursor + 1
    /\ phase' = IF replayCursor' >= replayUntil THEN "hold" ELSE "run"
    /\ UNCHANGED <<owned, game, nextInput, mode, replayUntil,
                   scrubbing, scrubAnchor, ring, recs, request, history>>
PresentReplay_Again ==
    /\ phase = "present" /\ owned /\ mode = "REPLAY"
    /\ \E i \in 0 .. ringCount - 1 :
        /\ NewestAtOrBefore(replayUntil, i)
        /\ game' = slotMem[SlotAt(i)]
        /\ replayCursor' = slotFrame[SlotAt(i)]
    /\ justRestored' = TRUE
    /\ phase' = IF replayCursor' >= replayUntil THEN "hold" ELSE "run"
    /\ UNCHANGED <<owned, nextInput, mode, presentCounter, replayUntil,
                   scrubbing, scrubAnchor, ring, recs, request, history>>

\* A replayed frame: fast forward, or arrive and hold.
PresentReplay ==
    /\ phase = "present" /\ owned /\ mode = "REPLAY"
    /\ justRestored' = FALSE
    /\ replayCursor' = IF justRestored THEN replayCursor ELSE replayCursor + 1
    /\ phase' = IF replayCursor' >= replayUntil THEN "hold" ELSE "run"
    /\ UNCHANGED <<owned, game, nextInput, mode, presentCounter, replayUntil,
                   scrubbing, scrubAnchor, ring, recs, request, history>>

PresentLive ==
    /\ phase = "present" /\ owned /\ mode = "LIVE"
    /\ presentCounter' = presentCounter + 1
    /\ truth' = [truth EXCEPT ![presentCounter + 1] = game]

\* SELECT+L1 is held: the scrub session opens on this frame.
PresentChord ==
    /\ PresentLive
    /\ ringCount > 0 /\ ~scrubbing
    /\ scrubbing' = TRUE
    /\ scrubAnchor' = presentCounter + 1
    /\ phase' = "hold"
    /\ UNCHANGED <<owned, game, nextInput, mode, replayCursor, replayUntil,
                   justRestored, ring, recs, request, scrubbed>>

\* Mutant: the memory is restored, the present counter is not.
PresentRestore_KeepsCounter ==
    /\ PresentLive
    /\ requested /\ ringCount > 0
    /\ LET kept == IF popN > ringCount THEN 0 ELSE ringCount - popN
       IN  ringCount' = kept + 1 /\ game' = slotMem[SlotAt(kept)]
    /\ requested' = FALSE /\ popN' = 1
    /\ presentsSinceSnap' = 0
    /\ phase' = "run"
    /\ UNCHANGED <<owned, nextInput, mode, replayCursor, replayUntil, justRestored,
                   scrubbing, scrubAnchor, ringBase, slotFrame, slotMem, recs,
                   scrubbed>>

\* The system menu has asked for a snapshot (do_menu_restore).
PresentRestore ==
    /\ phase = "present" /\ owned /\ mode = "LIVE" /\ requested /\ ringCount > 0
    /\ LET kept == IF popN > ringCount THEN 0 ELSE ringCount - popN
           slot == SlotAt(kept)
       IN  /\ ringCount' = kept + 1
           /\ game' = slotMem[slot]
           /\ presentCounter' = slotFrame[slot]
           /\ truth' = [k \in Frames |-> IF k <= slotFrame[slot] THEN truth[k] ELSE <<>>]
    /\ requested' = FALSE /\ popN' = 1
    /\ presentsSinceSnap' = 0
    /\ phase' = "run"
    /\ UNCHANGED <<owned, nextInput, mode, replayCursor, replayUntil, justRestored,
                   scrubbing, scrubAnchor, ringBase, slotFrame, slotMem, recs,
                   scrubbed>>

\* An ordinary frame, with a snapshot every SNAP_INTERVAL of them.
PresentFrame ==
    /\ PresentLive
    /\ ~requested
    /\ IF presentsSinceSnap + 1 >= SNAP_INTERVAL
       THEN presentsSinceSnap' = 0 /\ TakeSnapshot(presentCounter + 1, game)
       ELSE /\ presentsSinceSnap' = presentsSinceSnap + 1
            /\ UNCHANGED <<ringBase, ringCount, slotFrame, slotMem>>
    /\ phase' = "run"
    /\ UNCHANGED <<owned, game, nextInput, mode, replayCursor, replayUntil,
                   justRestored, scrubbing, scrubAnchor, recs, request, scrubbed>>

(***************************************************************************)
(* The scrub loop of rewind_post_blit: f is the frame it holds on.         *)
(***************************************************************************)
HeldFrame == IF mode = "REPLAY" THEN replayUntil ELSE presentCounter

HopTarget ==
    LET oldest == slotFrame[ringBase]
    IN  IF HeldFrame > oldest + SCRUB_STEP THEN HeldFrame - SCRUB_STEP ELSE oldest

\* Time to go further back (start_step).
Hop ==
    /\ phase = "hold"
    /\ ringCount > 0 /\ HeldFrame > slotFrame[ringBase]
    /\ phase' = "run"
    /\ IF \E i \in 0 .. ringCount - 1 : NewestAtOrBefore(HopTarget, i)
       THEN \E i \in 0 .. ringCount - 1 :
                /\ NewestAtOrBefore(HopTarget, i)
                /\ game' = slotMem[SlotAt(i)]
                /\ replayCursor' = slotFrame[SlotAt(i)]
                /\ replayUntil' = HopTarget
                /\ justRestored' = TRUE
                /\ mode' = "REPLAY"
       ELSE UNCHANGED <<game, replayCursor, replayUntil, justRestored, mode>>
    /\ UNCHANGED <<owned, nextInput, presentCounter, scrubbing, scrubAnchor,
                   ring, recs, request, history>>

\* Mutant: the snapshots of the discarded future stay in the ring.
Release_KeepsFuture ==
    /\ phase = "hold"
    /\ phase' = "run"
    /\ scrubbing' = FALSE
    /\ mode' = "LIVE"
    /\ LET f == HeldFrame
       IN  IF f = scrubAnchor
           THEN UNCHANGED <<presentCounter, presentsSinceSnap, history>>
           ELSE /\ presentCounter' = f
                /\ presentsSinceSnap' = 0
                /\ truth' = [k \in Frames |-> IF k <= f THEN truth[k] ELSE <<>>]
                /\ scrubbed' = TRUE
    /\ UNCHANGED <<owned, game, nextInput, replayCursor, replayUntil, justRestored,
                   scrubAnchor, ringBase, ringCount, slotFrame, slotMem, recs, request>>

\* The chord is released (finalize_scrub): live again at the frame held.
Release ==
    /\ phase = "hold"
    /\ phase' = "run"
    /\ scrubbing' = FALSE
    /\ mode' = "LIVE"
    /\ LET f == HeldFrame
       IN  IF f = scrubAnchor
           THEN UNCHANGED <<presentCounter, ringCount, presentsSinceSnap, history>>
           ELSE /\ presentCounter' = f
                /\ ringCount' = (CHOOSE n \in 0 .. ringCount :
                        /\ \A i \in n .. ringCount - 1 : slotFrame[SlotAt(i)] > f
                        /\ n > 0 => slotFrame[SlotAt(n - 1)] <= f)
                /\ presentsSinceSnap' = 0
                /\ truth' = [k \in Frames |-> IF k <= f THEN truth[k] ELSE <<>>]
                /\ scrubbed' = TRUE
    /\ UNCHANGED <<owned, game, nextInput, replayCursor, replayUntil, justRestored,
                   scrubAnchor, ringBase, slotFrame, slotMem, recs, request>>

\* The system menu opens after a present that is not part of a scrub, and
\* the player picks snapshot i, 0 being the newest (rewind_request_restore).
MenuPick(i) ==
    /\ phase = "run" /\ owned /\ mode = "LIVE" /\ ~scrubbing
    /\ ringCount > 0 /\ i < ringCount
    /\ requested' = TRUE
    /\ popN' = i + 1
    /\ UNCHANGED <<process, replay, ring, recs, history>>

\* The process ends (its own exit, a fault, QUIT) and another one runs.  Its
\* first present empties the ring; the snapshots and records of the process
\* that is gone are forgotten here already.
Launch ==
    /\ phase = "run"
    /\ owned' = FALSE /\ phase' = "present" /\ game' = <<>> /\ nextInput' = 1
    /\ slotFrame' = Blank(Slots, 0) /\ slotMem' = Blank(Slots, <<>>)
    /\ recs' = Blank(0 .. RECORDS - 1, NoRecord)
    /\ truth' = Blank(Frames, <<>>) /\ scrubbed' = FALSE
    /\ UNCHANGED <<replay, ringBase, ringCount, presentsSinceSnap, request>>

Next ==
    \/ ObserveLive \/ ObserveReplay
    \/ PresentFirst \/ PresentReplay \/ PresentChord \/ PresentRestore \/ PresentFrame
    \/ Hop \/ Release
    \/ \E i \in Slots : MenuPick(i)
    \/ Launch

Spec == Init /\ [][Next]_vars

\* A game that is replaying keeps drawing frames: it re-executes frames it
\* has drawn before, and the scheduler does not starve it (Tasks).
Fairness ==
    /\ WF_vars(ObserveReplay)
    /\ WF_vars(PresentReplay)

FairSpec == Spec /\ Fairness

-----------------------------------------------------------------------------
(***************************************************************************)
(* Properties.                                                             *)
(***************************************************************************)
\* The ring is a consistent past: every snapshot in it is a moment the game
\* now running went through, however often it was rewound, and the older
\* snapshot is the earlier one.
SnapshotsAreThePast ==
    owned =>
    /\ \A i \in 0 .. ringCount - 1, j \in 0 .. ringCount - 1 : i < j =>
        /\ slotFrame[SlotAt(i)] < slotFrame[SlotAt(j)]
        /\ IsPrefix(slotMem[SlotAt(i)], slotMem[SlotAt(j)])
    /\ (mode = "LIVE" /\ ringCount > 0) =>
        /\ slotFrame[SlotAt(ringCount - 1)] <= presentCounter
        /\ IsPrefix(slotMem[SlotAt(ringCount - 1)], game)

\* A hop always finds a snapshot to start from: otherwise start_step would
\* return without replaying and the scrub session would stay open while the
\* game plays on live.
HopFindsSnapshot ==
    /\ scrubbing /\ phase # "hold" => mode = "REPLAY"
    /\ owned => ringCount > 0

\* As long as no scrub has moved the timeline, the present counter and the
\* frame labels of all snapshots count the observations exactly, whatever
\* was restored from the menu.
LabelsExact ==
    (owned /\ ~scrubbed /\ ~scrubbing) =>
        /\ Len(game) = presentCounter + (IF phase = "present" THEN 1 ELSE 0)
        /\ \A i \in 0 .. ringCount - 1 :
               /\ Len(slotMem[SlotAt(i)]) = slotFrame[SlotAt(i)]
               /\ slotMem[SlotAt(i)] = truth[slotFrame[SlotAt(i)]]

\* Rewinding never jumps forward, and only a live frame moves time on.
TimeGoesBack ==
    [][(owned /\ owned' /\ presentCounter' > presentCounter)
          => (mode = "LIVE" /\ ~scrubbing /\ presentCounter' = presentCounter + 1)]_vars

\* A scrub hop ends: the game reaches the target frame and the player gets
\* the choice to hold on or to let go.
ReplayArrives == (mode = "REPLAY" /\ phase # "hold") ~> (phase = "hold" \/ ~owned)

\* rewind.c, header: the kernel "can then reach ANY frame by restoring the
\* nearest snapshot at or before it and letting the game itself re-execute
\* forward": the frame held after a hop is the frame that was live then.
ScrubExact ==
    (phase = "hold" /\ mode = "REPLAY") => game = truth[replayUntil]

\* rewind.c, at RECORDS: the log "must span the whole snapshot ring".
RecordsSpanRing ==
    (owned /\ ringCount > 0 /\ mode = "LIVE")
        => presentCounter - slotFrame[ringBase] <= RECORDS
=============================================================================
