------------------------------- MODULE Scores -------------------------------
(***************************************************************************)
(* session.c's central highscore board: the best score of each game and    *)
(* player, kept in memory, written to HISCORE0.SAV by the idle task and    *)
(* read back at boot.                                                      *)
(***************************************************************************)
EXTENDS Naturals, FiniteSets, Functions

CONSTANTS
    Keys,           \* pairs of a game and a player
    HISCORE_MAX,    \* entries the board has room for
    MAX_SCORE

ASSUME ScoresAssumption == HISCORE_MAX \in Nat \ {0} /\ MAX_SCORE \in Nat

VARIABLES
    board,          \* its entries: scores of some keys
    board_dirty,
    hiscore_file,   \* the board in HISCORE0.SAV
    best,           \* the best each key has reported, as far as the board can know (history)
    filed,          \* `best` when the file was last written (history)
    save_failed,    \* the last write failed, nothing was reported since (history)
    misread         \* the file could not be read at a boot (history)

scoreVars == <<board, board_dirty, hiscore_file, best, filed, save_failed, misread>>

Scored == 1 .. MAX_SCORE
Boards == UNION {[K -> Scored] : K \in {S \in SUBSET Keys : Cardinality(S) <= HISCORE_MAX}}
Nothing == [k \in {} |-> 0]

ScoresTypeOK ==
    /\ board \in Boards /\ hiscore_file \in Boards
    /\ best \in [Keys -> 0 .. MAX_SCORE] /\ filed \in [Keys -> 0 .. MAX_SCORE]
    /\ {board_dirty, save_failed, misread} \subseteq BOOLEAN

ScoresInit ==
    /\ board = Nothing
    /\ hiscore_file = Nothing
    /\ best = [k \in Keys |-> 0]
    /\ filed = best
    /\ board_dirty = FALSE
    /\ save_failed = FALSE
    /\ misread = FALSE
-----------------------------------------------------------------------------
With(b, k, n) == [j \in DOMAIN b \cup {k} |-> IF j = k THEN n ELSE b[j]]

Full == Cardinality(DOMAIN board) = HISCORE_MAX

\* The lowest entry, the first of them when there are several.
Lowest(k) == k \in DOMAIN board /\ \A j \in DOMAIN board : board[k] <= board[j]

Enter(b) == board' = b /\ board_dirty' = TRUE /\ save_failed' = FALSE
Keep == UNCHANGED <<board, board_dirty, save_failed>>

Improve(k, n) ==
    /\ k \in DOMAIN board
    /\ IF n > board[k] THEN Enter(With(board, k, n)) ELSE Keep

Add(k, n) ==
    /\ k \notin DOMAIN board /\ ~Full
    /\ Enter(With(board, k, n))

\* Mutant: a full board gives up any entry, for any score.
Evict_Any(k, n) ==
    /\ k \notin DOMAIN board /\ Full
    /\ \E out \in DOMAIN board : Enter(With(Restrict(board, DOMAIN board \ {out}), k, n))

Evict(k, n) ==
    /\ k \notin DOMAIN board /\ Full
    /\ \E out \in {j \in DOMAIN board : Lowest(j)} :
        IF n <= board[out] THEN Keep
        ELSE Enter(With(Restrict(board, DOMAIN board \ {out}), k, n))

\* SYS_SCORE of the game that runs, for the session's player 1.
session_score_report(k, n) ==
    /\ Improve(k, n) \/ Add(k, n) \/ Evict(k, n)
    /\ best' = [best EXCEPT ![k] = IF n > @ THEN n ELSE @]
    /\ UNCHANGED <<hiscore_file, filed, misread>>

\* fat32_save replaces the file or leaves it; the flag is cleared either way.
session_idle_flush ==
    /\ board_dirty
    /\ \/ /\ hiscore_file' = board
          /\ filed' = best
          /\ UNCHANGED save_failed
       \/ /\ save_failed' = TRUE
          /\ UNCHANGED <<hiscore_file, filed>>
    /\ board_dirty' = FALSE
    /\ UNCHANGED <<board, best, misread>>

\* The console is switched off at any moment, and session_init runs again.
\* A file that cannot be read leaves the board empty.
session_init ==
    /\ \/ board' = hiscore_file /\ UNCHANGED misread
       \/ board' = Nothing /\ misread' = TRUE
    /\ best' = filed
    /\ board_dirty' = FALSE
    /\ save_failed' = FALSE
    /\ UNCHANGED <<hiscore_file, filed>>

ScoresNext ==
    \/ \E k \in Keys, n \in Scored : session_score_report(k, n)
    \/ session_idle_flush
    \/ session_init

ScoresSpec == ScoresInit /\ [][ScoresNext]_scoreVars
-----------------------------------------------------------------------------
\* b holds nothing but bests, and only a full board leaves out a key, never
\* one better than what it holds.
Tops(b, t) ==
    /\ \A k \in DOMAIN b : b[k] = t[k]
    /\ \A k \in Keys \ DOMAIN b :
        t[k] > 0 => Cardinality(DOMAIN b) = HISCORE_MAX /\ \A j \in DOMAIN b : t[k] <= b[j]

\* After any sequence of reports, evictions, flushes and power cycles the board
\* is the top of everything reported that was not lost with the power, and so
\* is the file; a board that is not dirty is the file, unless the write failed.
\* A file that cannot be read at boot is outside it: what it held is
\* overwritten by the next flush.
BoardKeepsTheBest ==
    ~misread =>
        /\ Tops(board, best)
        /\ Tops(hiscore_file, filed)
        /\ ~board_dirty => board = hiscore_file \/ save_failed
=============================================================================
