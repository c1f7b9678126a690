----------------------------- MODULE PlayerProofs ----------------------------
(***************************************************************************)
(* Safety of the highscore board, of the player picker and of attract      *)
(* mode, for any number of players, games and profiles and every capacity. *)
(***************************************************************************)
EXTENDS Attract, Picker, Scores, TLAPS, FiniteSetTheorems

-----------------------------------------------------------------------------
(***************************************************************************)
(* The highscore board.                                                    *)
(***************************************************************************)
\* A board as the code can have it: of finitely many entries.
IsBoard(b) ==
    /\ DOMAIN b \subseteq Keys /\ b \in [DOMAIN b -> Scored]
    /\ IsFiniteSet(DOMAIN b) /\ Cardinality(DOMAIN b) <= HISCORE_MAX

HasRoom(b, k) == k \in DOMAIN b \/ Cardinality(DOMAIN b) < HISCORE_MAX

\* c is b with the score n of k.
Entered(c, b, k, n) ==
    /\ IsBoard(c)
    /\ DOMAIN c = DOMAIN b \cup {k}
    /\ k \notin DOMAIN b => Cardinality(DOMAIN c) = Cardinality(DOMAIN b) + 1
    /\ c[k] = n
    /\ \A j \in DOMAIN b \ {k} : c[j] = b[j]

BoardInv ==
    /\ IsBoard(board) /\ IsBoard(hiscore_file)
    /\ best \in [Keys -> 0 .. MAX_SCORE] /\ filed \in [Keys -> 0 .. MAX_SCORE]
    /\ {board_dirty, save_failed, misread} \subseteq BOOLEAN
    /\ BoardKeepsTheBest

LEMMA BoardsAreBoards ==
    ASSUME NEW b, IsBoard(b)
    PROVE  b \in Boards
BY DEF IsBoard, Boards

LEMMA NothingIsABoard ==
    /\ IsBoard(Nothing)
    /\ DOMAIN Nothing = {} /\ Cardinality(DOMAIN Nothing) = 0
<1>1. DOMAIN Nothing = {}
    BY DEF Nothing
<1>2. Cardinality({}) = 0 /\ IsFiniteSet({})
    BY FS_EmptySet
<1>3. Nothing \in [DOMAIN Nothing -> Scored]
    BY <1>1 DEF Nothing
<1>. QED  BY <1>1, <1>2, <1>3, ScoresAssumption DEF IsBoard

\* A score entered for a key the board has, or has room for.
LEMMA WithIsABoard ==
    ASSUME NEW b, IsBoard(b), NEW k \in Keys, NEW n \in Scored,
           HasRoom(b, k)
    PROVE  Entered(With(b, k, n), b, k, n)
<1>1. DOMAIN With(b, k, n) = DOMAIN b \cup {k}
    BY DEF With
<1>2. \A j \in DOMAIN b \cup {k} : With(b, k, n)[j] = IF j = k THEN n ELSE b[j]
    BY DEF With
<1>3. With(b, k, n) \in [DOMAIN b \cup {k} -> Scored]
    BY DEF With, IsBoard
<1>4. /\ IsFiniteSet(DOMAIN b \cup {k})
      /\ Cardinality(DOMAIN b \cup {k}) =
            IF k \in DOMAIN b THEN Cardinality(DOMAIN b) ELSE Cardinality(DOMAIN b) + 1
    BY FS_AddElement DEF IsBoard
<1>5. Cardinality(DOMAIN b) \in Nat /\ Cardinality(DOMAIN b) <= HISCORE_MAX
    BY FS_CardinalityType DEF IsBoard
<1>6. HISCORE_MAX \in Nat
    BY ScoresAssumption
<1>7. Cardinality(DOMAIN b \cup {k}) <= HISCORE_MAX
    BY <1>4, <1>5, <1>6 DEF HasRoom
<1>. QED  BY <1>1, <1>2, <1>3, <1>4, <1>7 DEF IsBoard, Entered

\* An entry dropped from a full board makes room for one.
LEMMA DropIsABoard ==
    ASSUME NEW b, IsBoard(b), NEW out \in DOMAIN b,
           Cardinality(DOMAIN b) = HISCORE_MAX
    PROVE  LET d == Restrict(b, DOMAIN b \ {out}) IN
           /\ IsBoard(d)
           /\ DOMAIN d = DOMAIN b \ {out}
           /\ Cardinality(DOMAIN d) = HISCORE_MAX - 1
           /\ \A j \in DOMAIN d : d[j] = b[j]
<1>. DEFINE d == Restrict(b, DOMAIN b \ {out})
<1>1. DOMAIN d = DOMAIN b \ {out} /\ \A j \in DOMAIN b \ {out} : d[j] = b[j]
    BY DEF Restrict
<1>2. d \in [DOMAIN b \ {out} -> Scored]
    BY DEF Restrict, IsBoard
<1>3. IsFiniteSet(DOMAIN b \ {out}) /\ Cardinality(DOMAIN b \ {out}) = HISCORE_MAX - 1
    BY FS_RemoveElement DEF IsBoard
<1>4. HISCORE_MAX \in Nat
    BY ScoresAssumption
<1>5. IsBoard(d) /\ Cardinality(DOMAIN d) = HISCORE_MAX - 1
    BY <1>1, <1>2, <1>3, <1>4 DEF IsBoard
<1>. QED  BY <1>1, <1>5

-----------------------------------------------------------------------------
LEMMA BoardInit == ScoresInit => BoardInv
<1>. SUFFICES ASSUME ScoresInit
              PROVE  BoardInv
    OBVIOUS
<1>1. IsBoard(Nothing) /\ DOMAIN Nothing = {}
    BY NothingIsABoard
<1>2. best \in [Keys -> 0 .. MAX_SCORE] /\ \A k \in Keys : best[k] = 0
    BY ScoresAssumption DEF ScoresInit
<1>3. Tops(board, best) /\ Tops(hiscore_file, filed)
    BY <1>1, <1>2 DEF ScoresInit, Tops
<1>. QED  BY <1>1, <1>2, <1>3 DEF ScoresInit, BoardInv, BoardKeepsTheBest

\* A report makes the board the top of what is reported by then.
LEMMA ReportStep ==
    ASSUME BoardInv, NEW k \in Keys, NEW n \in Scored, session_score_report(k, n)
    PROVE  BoardInv'
<1>. USE DEF BoardInv
<1>0. n \in Nat \ {0} /\ n <= MAX_SCORE /\ MAX_SCORE \in Nat
    BY ScoresAssumption DEF Scored
<1>1. /\ best' \in [Keys -> 0 .. MAX_SCORE]
      /\ best'[k] = IF n > best[k] THEN n ELSE best[k]
      /\ \A j \in Keys \ {k} : best'[j] = best[j]
    BY <1>0 DEF session_score_report
<1>2. UNCHANGED <<hiscore_file, filed, misread>>
    BY DEF session_score_report
<1>3. \A j \in DOMAIN board : board[j] \in Nat \ {0}
    BY DEF IsBoard, Scored
<1>4. \A j \in Keys : best[j] \in Nat
    OBVIOUS
<1>5. DOMAIN board \subseteq Keys
    BY DEF IsBoard
<1>6. CASE Improve(k, n)
    <2>1. k \in DOMAIN board
        BY <1>6 DEF Improve
    <2>2. CASE n > board[k]
        <3>1. board' = With(board, k, n) /\ board_dirty' = TRUE /\ save_failed' = FALSE
            BY <1>6, <2>2 DEF Improve, Enter
        <3>2. /\ IsBoard(board') /\ DOMAIN board' = DOMAIN board
              /\ board'[k] = n /\ \A j \in DOMAIN board \ {k} : board'[j] = board[j]
            <4>1. Entered(With(board, k, n), board, k, n)
                BY <2>1, WithIsABoard DEF HasRoom
            <4>. QED  BY <2>1, <3>1, <4>1 DEF Entered
        <3>3. ASSUME ~misread PROVE Tops(board', best')
            <4>1. Tops(board, best)
                BY <3>3 DEF BoardKeepsTheBest
            <4>2. best[k] = board[k]
                BY <2>1, <4>1 DEF Tops
            <4>3. best'[k] = n
                BY <1>1, <2>2, <4>2
            <4>4. \A j \in DOMAIN board' : board'[j] = best'[j]
                BY <1>1, <1>5, <3>2, <4>1, <4>3 DEF Tops
            <4>5. \A i \in Keys \ DOMAIN board : best'[i] = best[i] /\ best[i] \in Nat
                BY <1>1, <1>4, <2>1
            <4>6. \A i \in Keys \ DOMAIN board : best[i] <= board[k] /\ best[i] > 0 => best[i] <= n
                BY <1>0, <1>3, <1>4, <2>1, <2>2
            <4>7. ASSUME NEW i \in Keys \ DOMAIN board, best[i] > 0, NEW j \in DOMAIN board
                  PROVE  best[i] <= board'[j]
                <5>1. best[i] <= board[j] /\ best[i] <= board[k]
                    BY <2>1, <4>1, <4>7 DEF Tops
                <5>2. CASE j = k
                    BY <5>1, <5>2, <3>2, <4>6, <4>7
                <5>3. CASE j # k
                    BY <5>1, <5>3, <3>2
                <5>. QED  BY <5>2, <5>3
            <4>8. \A i \in Keys \ DOMAIN board :
                    best[i] > 0 => Cardinality(DOMAIN board) = HISCORE_MAX
                BY <4>1 DEF Tops
            <4>. QED  BY <3>2, <4>4, <4>5, <4>7, <4>8 DEF Tops
        <3>. QED  BY <1>1, <1>2, <3>1, <3>2, <3>3 DEF BoardKeepsTheBest
    <2>3. CASE ~ n > board[k]
        <3>1. UNCHANGED <<board, board_dirty, save_failed>>
            BY <1>6, <2>3 DEF Improve, Keep
        <3>2. ASSUME ~misread PROVE Tops(board, best')
            <4>1. Tops(board, best)
                BY <3>2 DEF BoardKeepsTheBest
            <4>2. best[k] = board[k]
                BY <2>1, <4>1 DEF Tops
            <4>3. best' = best
                BY <1>1, <2>3, <4>2
            <4>. QED  BY <4>1, <4>3
        <3>. QED  BY <1>1, <1>2, <3>1, <3>2 DEF BoardKeepsTheBest
    <2>. QED  BY <2>2, <2>3
<1>7. CASE Add(k, n)
    <2>1. /\ k \notin DOMAIN board /\ Cardinality(DOMAIN board) # HISCORE_MAX
          /\ board' = With(board, k, n) /\ board_dirty' = TRUE /\ save_failed' = FALSE
        BY <1>7 DEF Add, Full, Enter
    <2>2. Cardinality(DOMAIN board) < HISCORE_MAX
        BY <2>1, FS_CardinalityType, ScoresAssumption DEF IsBoard
    <2>3. /\ IsBoard(board') /\ DOMAIN board' = DOMAIN board \cup {k}
          /\ board'[k] = n /\ \A j \in DOMAIN board : board'[j] = board[j]
        <3>1. HasRoom(board, k)
            BY <2>2 DEF HasRoom
        <3>2. Entered(With(board, k, n), board, k, n)
            BY <3>1, WithIsABoard
        <3>. QED  BY <2>1, <3>2 DEF Entered
    <2>4. ASSUME ~misread PROVE Tops(board', best')
        <3>1. Tops(board, best)
            BY <2>4 DEF BoardKeepsTheBest
        <3>2. \A i \in Keys \ DOMAIN board : best[i] = 0
            BY <1>4, <2>1, <3>1 DEF Tops
        <3>3. best'[k] = n
            BY <1>0, <1>1, <2>1, <3>2
        <3>4. \A j \in DOMAIN board' : board'[j] = best'[j]
            BY <1>1, <1>5, <2>1, <2>3, <3>1, <3>3 DEF Tops
        <3>5. \A i \in Keys \ DOMAIN board' : best'[i] = 0
            BY <1>1, <2>3, <3>2
        <3>. QED  BY <3>4, <3>5 DEF Tops
    <2>. QED  BY <1>1, <1>2, <2>1, <2>3, <2>4 DEF BoardKeepsTheBest
<1>8. CASE Evict(k, n)
    <2>1. k \notin DOMAIN board /\ Cardinality(DOMAIN board) = HISCORE_MAX
        BY <1>8 DEF Evict, Full
    <2>2. PICK out \in DOMAIN board :
            /\ \A j \in DOMAIN board : board[out] <= board[j]
            /\ IF n <= board[out] THEN Keep
               ELSE Enter(With(Restrict(board, DOMAIN board \ {out}), k, n))
        BY <1>8 DEF Evict, Lowest
    <2>3. CASE n <= board[out]
        <3>1. UNCHANGED <<board, board_dirty, save_failed>>
            BY <2>2, <2>3 DEF Keep
        <3>2. ASSUME ~misread PROVE Tops(board, best')
            <4>1. Tops(board, best)
                BY <3>2 DEF BoardKeepsTheBest
            <4>2. \A j \in DOMAIN board : board[j] = best'[j]
                BY <1>1, <1>5, <2>1, <4>1 DEF Tops
            <4>3. ASSUME NEW j \in DOMAIN board PROVE best'[k] <= board[j]
                <5>1. n <= board[j]
                    BY <1>0, <1>3, <2>2, <2>3
                <5>2. best[k] = 0 \/ best[k] <= board[j]
                    BY <1>4, <2>1, <4>1 DEF Tops
                <5>. QED  BY <1>0, <1>1, <1>3, <1>4, <5>1, <5>2
            <4>4. ASSUME NEW i \in Keys \ DOMAIN board, best'[i] > 0, NEW j \in DOMAIN board
                  PROVE  best'[i] <= board[j]
                <5>1. CASE i = k
                    BY <5>1, <4>3
                <5>2. CASE i # k
                    BY <1>1, <5>2, <4>1, <4>4 DEF Tops
                <5>. QED  BY <5>1, <5>2
            <4>. QED  BY <2>1, <4>2, <4>4 DEF Tops
        <3>. QED  BY <1>1, <1>2, <3>1, <3>2 DEF BoardKeepsTheBest
    <2>4. CASE ~ n <= board[out]
        <3>0. PICK d : d = Restrict(board, DOMAIN board \ {out})
            OBVIOUS
        <3>1. /\ IsBoard(d) /\ DOMAIN d = DOMAIN board \ {out}
              /\ Cardinality(DOMAIN d) = HISCORE_MAX - 1
              /\ \A j \in DOMAIN d : d[j] = board[j]
            BY <2>1, <3>0, DropIsABoard
        <3>2. board' = With(d, k, n) /\ board_dirty' = TRUE /\ save_failed' = FALSE
            BY <2>2, <2>4, <3>0 DEF Enter
        <3>3. k \notin DOMAIN d /\ Cardinality(DOMAIN d) < HISCORE_MAX
            BY <2>1, <3>1, ScoresAssumption
        <3>4. /\ IsBoard(board') /\ DOMAIN board' = DOMAIN d \cup {k}
              /\ Cardinality(DOMAIN board') = Cardinality(DOMAIN d) + 1
              /\ board'[k] = n /\ \A j \in DOMAIN d : board'[j] = d[j]
            <4>1. HasRoom(d, k)
                BY <3>3 DEF HasRoom
            <4>2. Entered(With(d, k, n), d, k, n)
                BY <3>1, <4>1, WithIsABoard
            <4>. QED  BY <3>2, <3>3, <4>2 DEF Entered
        <3>5. /\ DOMAIN board' = (DOMAIN board \ {out}) \cup {k}
              /\ Cardinality(DOMAIN board') = HISCORE_MAX
              /\ \A j \in DOMAIN board \ {out} : board'[j] = board[j]
            BY <3>1, <3>4, ScoresAssumption
        <3>6. ASSUME ~misread PROVE Tops(board', best')
            <4>1. Tops(board, best)
                BY <3>6 DEF BoardKeepsTheBest
            <4>2. best[k] = 0 \/ best[k] <= board[out]
                BY <1>4, <2>1, <4>1 DEF Tops
            <4>3. n > board[out]
                BY <1>0, <1>3, <2>4
            <4>4. best'[k] = n
                BY <1>0, <1>1, <1>3, <1>4, <4>2, <4>3
            <4>5. \A j \in DOMAIN board' : board'[j] = best'[j]
                BY <1>1, <1>5, <2>1, <3>4, <3>5, <4>1, <4>4 DEF Tops
            <4>6. ASSUME NEW i \in Keys \ DOMAIN board', best'[i] > 0, NEW j \in DOMAIN board'
                  PROVE  best'[i] <= board'[j]
                <5>1. i # k /\ best'[i] = best[i] /\ best[i] \in Nat
                    BY <1>1, <1>4, <3>5
                <5>2. best[i] <= board[out]
                    <6>1. CASE i = out
                        BY <4>1, <6>1, <1>3 DEF Tops
                    <6>2. CASE i # out
                        BY <4>1, <4>6, <5>1, <6>2, <3>5 DEF Tops
                    <6>. QED  BY <6>1, <6>2
                <5>3. CASE j = k
                    BY <1>0, <1>3, <3>4, <4>3, <5>1, <5>2, <5>3
                <5>4. CASE j # k
                    <6>1. j \in DOMAIN board \ {out} /\ board'[j] = board[j]
                        BY <3>5, <5>4
                    <6>. QED  BY <1>3, <2>2, <5>1, <5>2, <6>1
                <5>. QED  BY <5>3, <5>4
            <4>. QED  BY <3>5, <4>5, <4>6 DEF Tops
        <3>. QED  BY <1>1, <1>2, <3>2, <3>4, <3>6 DEF BoardKeepsTheBest
    <2>. QED  BY <2>3, <2>4
<1>. QED  BY <1>6, <1>7, <1>8 DEF session_score_report

LEMMA BoardStep == BoardInv /\ [ScoresNext]_scoreVars => BoardInv'
<1>. SUFFICES ASSUME BoardInv, [ScoresNext]_scoreVars
              PROVE  BoardInv'
    OBVIOUS
<1>1. CASE \E k \in Keys, n \in Scored : session_score_report(k, n)
    BY <1>1, ReportStep
<1>2. CASE session_idle_flush
    BY <1>2 DEF BoardInv, session_idle_flush, BoardKeepsTheBest
<1>3. CASE session_init
    <2>1. CASE board' = hiscore_file /\ UNCHANGED misread
        BY <1>3, <2>1 DEF BoardInv, session_init, BoardKeepsTheBest
    <2>2. CASE board' = Nothing /\ misread' = TRUE
        BY <1>3, <2>2, NothingIsABoard DEF BoardInv, session_init, BoardKeepsTheBest
    <2>. QED  BY <1>3, <2>1, <2>2 DEF session_init
<1>4. CASE UNCHANGED scoreVars
    BY <1>4 DEF BoardInv, scoreVars, BoardKeepsTheBest, Tops
<1>. QED  BY <1>1, <1>2, <1>3, <1>4 DEF ScoresNext

\* For every capacity of the board, any games and players and any order of
\* reports, flushes that fail and power cycles (session.c): the board is the
\* top of what has been reported and not lost with the power, and so is the
\* file.
THEOREM BoardIsTheTop == ScoresSpec => [](ScoresTypeOK /\ BoardKeepsTheBest)
<1>1. BoardInv => ScoresTypeOK /\ BoardKeepsTheBest
    BY BoardsAreBoards DEF BoardInv, ScoresTypeOK
<1>. QED  BY <1>1, BoardInit, BoardStep, PTL DEF ScoresSpec

-----------------------------------------------------------------------------
(***************************************************************************)
(* The player picker.                                                      *)
(***************************************************************************)
Launchers == [names : Seq(UserNames), p1 : Int, p2 : Int, screen : {"HOME", "USERS", "NAME"},
              stage : {1, 2}, sel : Int, pending_p1 : Int]

Roster(names) == names \in Seq(UserNames) /\ Len(names) <= MAX_USERS /\ IsInjective(names)
Index(names) == {NO_USER} \cup 1 .. Len(names)

\* The kernel's names for the two indices that l holds: a launcher's or a file's.
SessionOf(l) == [p1 |-> Named(l, l.p1, GUEST),
                 p2 |-> IF l.p2 = l.p1 THEN Nobody ELSE Named(l, l.p2, Nobody)]

\* A launcher whose indices point into its list.
Sound(l) ==
    /\ l \in Launchers /\ Roster(l.names)
    /\ {l.p1, l.p2, l.pending_p1} \subseteq Index(l.names)
    /\ l.sel \in 1 .. Len(l.names) + l.stage

\* A file from which the launcher will come up as it was when it was written.
FileFits(f) ==
    /\ Roster(f.names) /\ {f.p1, f.p2} \subseteq Index(f.names)
    /\ f.meant = SessionOf(f)

PickerInv ==
    /\ Sound(launcher) /\ FileFits(users_file)
    /\ session = SessionOf(launcher) /\ meant = session
    /\ launcher.screen # "HOME" => chosen = Named(launcher, launcher.pending_p1, GUEST)

LEMMA NoUserIsNoIndex ==
    ASSUME NEW names \in Seq(UserNames)
    PROVE  Len(names) \in Nat /\ DOMAIN names = 1 .. Len(names) /\ NO_USER \notin DOMAIN names
           /\ NO_USER \in Int
BY DEF NO_USER

LEMMA NamesAreNames ==
    ASSUME NEW l, l.names \in Seq(UserNames), NEW i \in Index(l.names), NEW o
    PROVE  /\ Named(l, i, o) = IF i = NO_USER THEN o ELSE l.names[i]
           /\ i # NO_USER => l.names[i] \in UserNames /\ i \in 1 .. Len(l.names)
BY NoUserIsNoIndex DEF Named, Index

LEMMA NamedIsAName ==
    ASSUME NEW l, Roster(l.names), NEW i \in Index(l.names)
    PROVE  Named(l, i, GUEST) \in UserNames \cup {GUEST}
<1>1. l.names \in Seq(UserNames)
    BY DEF Roster
<1>. QED  BY <1>1 DEF Named

LEMMA SessionsAreSeats ==
    ASSUME NEW l, l.names \in Seq(UserNames), {l.p1, l.p2} \subseteq Index(l.names)
    PROVE  /\ SessionOf(l) \in Seats
           /\ SessionOf(l).p1 = Named(l, l.p1, GUEST)
           /\ SessionOf(l).p2 = IF l.p2 = l.p1 THEN Nobody ELSE Named(l, l.p2, Nobody)
<1>0. \A i \in DOMAIN l.names : l.names[i] \in UserNames
    OBVIOUS
<1>1. Named(l, l.p1, GUEST) \in UserNames \cup {GUEST}
    BY <1>0 DEF Named
<1>2. Named(l, l.p2, Nobody) \in UserNames \cup {Nobody}
    BY <1>0 DEF Named
<1>. QED  BY <1>1, <1>2 DEF SessionOf, Seats

LEMMA ConcatIs ==
    ASSUME NEW a \in Seq(UserNames), NEW c \in Seq(UserNames)
    PROVE  /\ a \o c \in Seq(UserNames) /\ Len(a \o c) = Len(a) + Len(c)
           /\ \A j \in 1 .. Len(a) + Len(c) :
                (a \o c)[j] = IF j <= Len(a) THEN a[j] ELSE c[j - Len(a)]
OBVIOUS

\* What a list of names is without one of them.
LEMMA RemoveAtIs ==
    ASSUME NEW s \in Seq(UserNames), NEW i \in 1 .. Len(s)
    PROVE  /\ RemoveAt(s, i) \in Seq(UserNames)
           /\ Len(RemoveAt(s, i)) = Len(s) - 1
           /\ \A j \in 1 .. Len(s) - 1 : RemoveAt(s, i)[j] = IF j < i THEN s[j] ELSE s[j + 1]
<1>0. PICK a, c : a = SubSeq(s, 1, i - 1) /\ c = SubSeq(s, i + 1, Len(s))
    OBVIOUS
<1>1. a \in Seq(UserNames) /\ Len(a) = i - 1 /\ \A j \in 1 .. i - 1 : a[j] = s[j]
    BY <1>0
<1>2. /\ c \in Seq(UserNames) /\ Len(c) = Len(s) - i
      /\ \A j \in 1 .. Len(s) - i : c[j] = s[i + j]
    BY <1>0
<1>3. RemoveAt(s, i) = a \o c
    BY <1>0 DEF RemoveAt
<1>4. /\ a \o c \in Seq(UserNames) /\ Len(a \o c) = Len(a) + Len(c)
      /\ \A j \in 1 .. Len(a) + Len(c) :
            (a \o c)[j] = IF j <= Len(a) THEN a[j] ELSE c[j - Len(a)]
    BY <1>1, <1>2, ConcatIs
<1>5. ASSUME NEW j \in 1 .. Len(s) - 1
      PROVE  (a \o c)[j] = IF j < i THEN s[j] ELSE s[j + 1]
    <2>1. CASE j < i
        <3>1. j \in 1 .. Len(a) + Len(c) /\ j <= Len(a) /\ j \in 1 .. i - 1
            BY <1>1, <1>2, <2>1
        <3>2. (a \o c)[j] = a[j]
            BY <1>4, <3>1
        <3>. QED  BY <1>1, <2>1, <3>1, <3>2
    <2>2. CASE j >= i
        <3>1. j - (i - 1) \in 1 .. Len(s) - i /\ i + (j - (i - 1)) = j + 1
            BY <2>2
        <3>2. c[j - (i - 1)] = s[j + 1]
            BY <1>2, <3>1
        <3>3. (a \o c)[j] = c[j - (i - 1)]
            BY <1>1, <1>2, <1>4, <2>2
        <3>. QED  BY <2>2, <3>2, <3>3
    <2>3. j < i \/ j >= i
        OBVIOUS
    <2>. QED  BY ONLY <2>1, <2>2, <2>3
<1>. QED  BY <1>1, <1>2, <1>3, <1>4, <1>5

\* The index that user j of a list has once user i is gone.
Shifted(i, j) == IF j = i THEN NO_USER ELSE IF j > i THEN j - 1 ELSE j

LEMMA RosterWithout ==
    ASSUME NEW s, Roster(s), NEW i \in 1 .. Len(s)
    PROVE  /\ Roster(RemoveAt(s, i)) /\ Len(RemoveAt(s, i)) = Len(s) - 1
           /\ \A j \in Index(s) :
                /\ Shifted(i, j) \in Index(RemoveAt(s, i))
                /\ (Shifted(i, j) = NO_USER) <=> (j = NO_USER \/ j = i)
                /\ j \notin {NO_USER, i} => RemoveAt(s, i)[Shifted(i, j)] = s[j]
<1>1. s \in Seq(UserNames) /\ Len(s) \in Nat /\ Len(s) <= MAX_USERS /\ IsInjective(s)
      /\ DOMAIN s = 1 .. Len(s)
    BY NoUserIsNoIndex DEF Roster
<1>. DEFINE r == RemoveAt(s, i)
<1>2. /\ r \in Seq(UserNames) /\ Len(r) = Len(s) - 1
      /\ \A j \in 1 .. Len(s) - 1 : r[j] = IF j < i THEN s[j] ELSE s[j + 1]
    BY <1>1, RemoveAtIs
<1>. HIDE DEF r
<1>3. DOMAIN r = 1 .. Len(s) - 1
    BY <1>2
<1>4. ASSUME NEW a \in DOMAIN r, NEW b \in DOMAIN r, r[a] = r[b]
      PROVE  a = b
    <2>. DEFINE A == IF a < i THEN a ELSE a + 1
                B == IF b < i THEN b ELSE b + 1
    <2>1. A \in DOMAIN s /\ B \in DOMAIN s
        BY <1>1, <1>3
    <2>2. r[a] = s[A] /\ r[b] = s[B]
        BY <1>2, <1>3
    <2>3. A = B
        BY <1>1, <1>4, <2>1, <2>2 DEF IsInjective
    <2>. QED  BY <1>3, <2>3
<1>5. IsInjective(r)
    BY <1>4 DEF IsInjective
<1>6. MAX_USERS \in Nat
    BY PickerAssumption
<1>7. Roster(r)
    BY <1>1, <1>2, <1>5, <1>6 DEF Roster
<1>8. ASSUME NEW j \in Index(s)
      PROVE  /\ Shifted(i, j) \in Index(r)
             /\ (Shifted(i, j) = NO_USER) <=> (j = NO_USER \/ j = i)
             /\ j \notin {NO_USER, i} => r[Shifted(i, j)] = s[j]
    <2>1. CASE j = NO_USER \/ j = i
        BY <1>1, <2>1 DEF Shifted, Index, NO_USER
    <2>2. CASE j \in 1 .. i - 1
        BY <1>1, <1>2, <2>2 DEF Shifted, Index, NO_USER
    <2>3. CASE j \in i + 1 .. Len(s)
        <3>1. Shifted(i, j) = j - 1 /\ j - 1 \in 1 .. Len(s) - 1 /\ ~ (j - 1 < i)
            BY <1>1, <2>3 DEF Shifted
        <3>2. r[j - 1] = s[j]
            BY <1>1, <1>2, <2>3, <3>1
        <3>. QED  BY <1>1, <1>2, <2>3, <3>1, <3>2 DEF Index, NO_USER
    <2>. QED  BY <1>1, <2>1, <2>2, <2>3 DEF Index
<1>. QED  BY <1>2, <1>7, <1>8 DEF r

-----------------------------------------------------------------------------
LEMMA LauncherTypes ==
    ASSUME NEW l, Sound(l)
    PROVE  /\ l \in Launchers
           /\ l.names \in Seq(UserNames) /\ Len(l.names) \in Nat
           /\ l.stage \in {1, 2} /\ l.sel \in Int /\ l.sel >= 1 /\ l.sel <= Len(l.names) + l.stage
           /\ l.p1 \in Int /\ l.p2 \in Int /\ l.pending_p1 \in Int
           /\ l.screen \in {"HOME", "USERS", "NAME"}
BY DEF Sound, Launchers

\* Moving the cursor and going back leave the players alone.
LEMMA MoveIs ==
    ASSUME NEW l, Sound(l), NEW b
    PROVE  LET k == Back(Move(l, b), b) IN
           /\ Sound(k)
           /\ k.names = l.names /\ k.p1 = l.p1 /\ k.p2 = l.p2
           /\ k.pending_p1 = l.pending_p1 /\ k.stage = l.stage
<1>1. PICK m : m = Move(l, b)
    OBVIOUS
<1>2. PICK k : k = Back(m, b)
    OBVIOUS
<1>3. (l.sel % pick_rows(l)) + 1 \in 1 .. Len(l.names) + l.stage
    <2>1. PICK n \in Nat \ {0} : n = Len(l.names) + l.stage
        BY LauncherTypes
    <2>2. PICK i \in Nat : i = l.sel
        BY LauncherTypes
    <2>3. i % n \in 0 .. n - 1
        OBVIOUS
    <2>. QED  BY <2>1, <2>2, <2>3 DEF pick_rows
<1>4. /\ m \in Launchers
      /\ m.names = l.names /\ m.p1 = l.p1 /\ m.p2 = l.p2
      /\ m.pending_p1 = l.pending_p1 /\ m.stage = l.stage
      /\ m.sel \in {l.sel, (l.sel % pick_rows(l)) + 1}
    BY <1>1, <1>3, LauncherTypes DEF Move, Launchers
<1>5. Sound(m)
    BY <1>3, <1>4 DEF Sound
<1>6. /\ k \in Launchers
      /\ k.names = m.names /\ k.p1 = m.p1 /\ k.p2 = m.p2
      /\ k.pending_p1 = m.pending_p1 /\ k.stage = m.stage /\ k.sel = m.sel
    BY <1>2, <1>4 DEF Back, Launchers
<1>7. Sound(k)
    BY <1>5, <1>6 DEF Sound
<1>. QED  BY <1>1, <1>2, <1>4, <1>6, <1>7

\* Deleting a profile shifts every index that pointed at it or behind it.
LEMMA DeleteIs ==
    ASSUME NEW l, Sound(l), NEW b
    PROVE  LET k == user_delete(l, b) IN
           /\ Sound(k)
           /\ k.stage = l.stage
           /\ IF Deletes(l, b)
              THEN /\ l.sel \in 1 .. Len(l.names)
                   /\ k.names = RemoveAt(l.names, l.sel)
                   /\ k.p1 = Shifted(l.sel, l.p1) /\ k.p2 = Shifted(l.sel, l.p2)
                   /\ k.pending_p1 = Shifted(l.sel, l.pending_p1)
              ELSE k = l
<1>1. PICK k : k = user_delete(l, b)
    OBVIOUS
<1>2. CASE ~Deletes(l, b)
    BY <1>1, <1>2 DEF user_delete
<1>3. CASE Deletes(l, b)
    <2>0. l.sel \in 1 .. Len(l.names)
        BY <1>3, LauncherTypes DEF Deletes
    <2>1. PICK w : w = Without(l, l.sel)
        OBVIOUS
    <2>2. /\ Roster(RemoveAt(l.names, l.sel))
          /\ Len(RemoveAt(l.names, l.sel)) = Len(l.names) - 1
          /\ \A j \in Index(l.names) : Shifted(l.sel, j) \in Index(RemoveAt(l.names, l.sel))
        BY <2>0, RosterWithout DEF Sound
    <2>3. \A j \in Int : Shifted(l.sel, j) \in Int
        BY LauncherTypes DEF Shifted, NO_USER
    <2>4. PICK n, x, y, z : /\ n = RemoveAt(l.names, l.sel)
                            /\ x = Shifted(l.sel, l.p1) /\ y = Shifted(l.sel, l.p2)
                            /\ z = Shifted(l.sel, l.pending_p1)
        OBVIOUS
    <2>5. /\ w = [l EXCEPT !.names = n, !.p1 = x, !.p2 = y, !.pending_p1 = z]
          /\ n \in Seq(UserNames) /\ x \in Int /\ y \in Int /\ z \in Int
        <3>1. w = [l EXCEPT !.names = n, !.p1 = x, !.p2 = y, !.pending_p1 = z]
            BY <2>1, <2>4 DEF Without, Shifted
        <3>. QED  BY <2>2, <2>3, <2>4, <3>1, LauncherTypes DEF Roster
    <2>6. /\ w \in Launchers
          /\ w.names = RemoveAt(l.names, l.sel)
          /\ w.p1 = Shifted(l.sel, l.p1) /\ w.p2 = Shifted(l.sel, l.p2)
          /\ w.pending_p1 = Shifted(l.sel, l.pending_p1)
          /\ w.stage = l.stage /\ w.sel = l.sel
        <3>1. /\ w \in Launchers
              /\ w.names = n /\ w.p1 = x /\ w.p2 = y /\ w.pending_p1 = z
              /\ w.stage = l.stage /\ w.sel = l.sel
            <4>1. l \in Launchers
                BY DEF Sound
            <4>2. w \in Launchers
                BY <2>5, <4>1 DEF Launchers
            <4>3. w.names = n /\ w.p1 = x /\ w.p2 = y /\ w.pending_p1 = z
                BY <2>5, <4>1 DEF Launchers
            <4>4. w.stage = l.stage /\ w.sel = l.sel
                BY <2>5, <4>1 DEF Launchers
            <4>. QED  BY <4>2, <4>3, <4>4
        <3>. QED  BY <2>4, <3>1
    <2>7. pick_rows(w) = Len(l.names) - 1 + l.stage
        BY <2>2, <2>6 DEF pick_rows
    <2>8. k = [w EXCEPT !.sel = IF @ > pick_rows(w) THEN pick_rows(w) ELSE @]
        BY <1>1, <1>3, <2>1 DEF user_delete
    <2>9. /\ k \in Launchers
          /\ k.names = w.names /\ k.p1 = w.p1 /\ k.p2 = w.p2 /\ k.pending_p1 = w.pending_p1
          /\ k.stage = w.stage
          /\ k.sel = IF l.sel > pick_rows(w) THEN pick_rows(w) ELSE l.sel
        BY <2>6, <2>7, <2>8, LauncherTypes DEF Launchers
    <2>10. k.sel \in 1 .. Len(k.names) + k.stage
        BY <2>0, <2>2, <2>6, <2>7, <2>9, LauncherTypes
    <2>11. {k.p1, k.p2, k.pending_p1} \subseteq Index(k.names)
        BY <2>2, <2>6, <2>9 DEF Sound
    <2>12. Sound(k)
        BY <2>2, <2>6, <2>9, <2>10, <2>11 DEF Sound
    <2>. QED  BY <1>1, <1>3, <2>0, <2>6, <2>9, <2>12
<1>. QED  BY <1>2, <1>3

\* Only a confirmed choice gives the launcher other players.
LEMMA PickIs ==
    ASSUME NEW k, Sound(k), NEW b
    PROVE  LET d == Pick(k, b) IN
           /\ Sound(d)
           /\ d.names = k.names
           /\ IF Confirms(k, b)
              THEN /\ d.screen = "HOME" /\ d.p1 = k.pending_p1
                   /\ d.p2 = IF k.sel <= Len(k.names) /\ k.sel # k.pending_p1 THEN k.sel
                             ELSE NO_USER
              ELSE d.p1 = k.p1 /\ d.p2 = k.p2
           /\ d.pending_p1 = IF "A" \in b /\ k.stage = 1 /\ k.sel <= Len(k.names)
                             THEN k.sel ELSE k.pending_p1
<1>0. /\ k \in Launchers /\ Roster(k.names)
      /\ {k.p1, k.p2, k.pending_p1} \subseteq Index(k.names)
    BY DEF Sound
<1>1. PICK d : d = Pick(k, b)
    OBVIOUS
<1>2. CASE "A" \notin b
    BY <1>1, <1>2 DEF Pick, Confirms
<1>3. CASE "A" \in b /\ k.sel = Len(k.names) + 1
    <2>1. d = [k EXCEPT !.screen = "NAME"]
        BY <1>1, <1>3 DEF Pick
    <2>2. /\ d \in Launchers /\ d.names = k.names /\ d.p1 = k.p1 /\ d.p2 = k.p2
          /\ d.pending_p1 = k.pending_p1 /\ d.stage = k.stage /\ d.sel = k.sel
        BY <2>1, <1>0 DEF Launchers
    <2>3. Sound(d)
        BY <2>2 DEF Sound
    <2>4. ~ (k.sel <= Len(k.names)) /\ ~Confirms(k, b)
        BY <1>3, LauncherTypes DEF Confirms
    <2>. QED  BY <1>1, <2>2, <2>3, <2>4
<1>4. CASE "A" \in b /\ k.sel # Len(k.names) + 1 /\ k.stage = 1
    <2>0. k.sel \in 1 .. Len(k.names) /\ k.sel <= Len(k.names)
        BY <1>4, LauncherTypes
    <2>1. PICK e : e = IF k.p2 # NO_USER /\ k.p2 # k.sel THEN k.p2 ELSE Len(k.names) + 2
        OBVIOUS
    <2>2. d = [k EXCEPT !.pending_p1 = k.sel, !.stage = 2, !.sel = e]
        BY <1>1, <1>4, <2>1 DEF Pick
    <2>3. e \in 1 .. Len(k.names) + 2 /\ e \in Int /\ k.sel \in Int
        BY <1>0, <2>1, LauncherTypes DEF Index
    <2>4. /\ d \in Launchers /\ d.names = k.names /\ d.p1 = k.p1 /\ d.p2 = k.p2
          /\ d.pending_p1 = k.sel /\ d.stage = 2 /\ d.sel = e
        BY <1>0, <2>0, <2>2, <2>3 DEF Launchers
    <2>5. Sound(d)
        BY <1>0, <2>0, <2>3, <2>4 DEF Sound, Index
    <2>6. ~Confirms(k, b)
        BY <1>4 DEF Confirms
    <2>. QED  BY <1>1, <1>4, <2>0, <2>4, <2>5, <2>6
<1>5. CASE "A" \in b /\ k.sel # Len(k.names) + 1 /\ k.stage # 1
    <2>0. k.stage = 2
        BY <1>5, LauncherTypes
    <2>1. PICK e : e = IF k.sel <= Len(k.names) /\ k.sel # k.pending_p1 THEN k.sel ELSE NO_USER
        OBVIOUS
    <2>2. d = [k EXCEPT !.p1 = k.pending_p1, !.screen = "HOME", !.p2 = e]
        BY <1>1, <1>5, <2>1 DEF Pick
    <2>3. e \in Index(k.names) /\ e \in Int
        BY <2>1, LauncherTypes DEF Index, NO_USER
    <2>4. /\ d \in Launchers /\ d.names = k.names /\ d.p1 = k.pending_p1 /\ d.p2 = e
          /\ d.pending_p1 = k.pending_p1 /\ d.stage = k.stage /\ d.sel = k.sel
          /\ d.screen = "HOME"
        BY <1>0, <2>2, <2>3 DEF Launchers
    <2>5. Sound(d)
        BY <1>0, <2>3, <2>4 DEF Sound
    <2>6. Confirms(k, b)
        BY <1>5, <2>0 DEF Confirms
    <2>. QED  BY <1>1, <1>5, <2>1, <2>4, <2>5, <2>6
<1>. QED  BY <1>2, <1>3, <1>4, <1>5

-----------------------------------------------------------------------------
LEMMA SameSession ==
    ASSUME NEW l, NEW k, k.names = l.names, k.p1 = l.p1, k.p2 = l.p2
    PROVE  SessionOf(k) = SessionOf(l)
BY DEF SessionOf, Named

LEMMA SavedFits ==
    ASSUME NEW d, Sound(d), NEW m, m = SessionOf(d), NEW f,
           f = [names |-> d.names, p1 |-> d.p1, p2 |-> d.p2, meant |-> m]
    PROVE  FileFits(f)
<1>1. f.names = d.names /\ f.p1 = d.p1 /\ f.p2 = d.p2 /\ f.meant = m
    OBVIOUS
<1>2. SessionOf(f) = SessionOf(d)
    BY <1>1, SameSession
<1>. QED  BY <1>1, <1>2 DEF FileFits, Sound

\* Who index j stands for after user i has been deleted.
LEMMA NamedWithout ==
    ASSUME NEW l, NEW k, Roster(l.names), NEW i \in 1 .. Len(l.names),
           k.names = RemoveAt(l.names, i), NEW j \in Index(l.names), NEW o
    PROVE  Named(k, Shifted(i, j), o) = IF j = i THEN o ELSE Named(l, j, o)
<1>1. /\ Roster(k.names)
      /\ Shifted(i, j) \in Index(k.names)
      /\ (Shifted(i, j) = NO_USER) <=> (j = NO_USER \/ j = i)
      /\ j \notin {NO_USER, i} => k.names[Shifted(i, j)] = l.names[j]
    BY RosterWithout
<1>2. l.names \in Seq(UserNames) /\ k.names \in Seq(UserNames)
    BY <1>1 DEF Roster
<1>3. PICK s : s = Shifted(i, j)
    OBVIOUS
<1>4. Named(k, s, o) = IF s = NO_USER THEN o ELSE k.names[s]
    BY <1>1, <1>2, <1>3, NamesAreNames
<1>5. Named(l, j, o) = IF j = NO_USER THEN o ELSE l.names[j]
    BY <1>2, NamesAreNames
<1>. QED  BY <1>1, <1>3, <1>4, <1>5

\* Different players have different names, and none has the name of nobody.
LEMMA NamesDiffer ==
    ASSUME NEW l, Roster(l.names), NEW i \in 1 .. Len(l.names), NEW j \in Index(l.names)
    PROVE  /\ Named(l, j, GUEST) = l.names[i] <=> j = i
           /\ Named(l, j, Nobody) = l.names[i] <=> j = i
           /\ Named(l, j, GUEST) # Nobody
<1>1. /\ l.names \in Seq(UserNames) /\ DOMAIN l.names = 1 .. Len(l.names)
      /\ \A a, c \in 1 .. Len(l.names) : l.names[a] = l.names[c] => a = c
    BY NoUserIsNoIndex DEF Roster, IsInjective
<1>2. /\ Named(l, j, GUEST) = IF j = NO_USER THEN GUEST ELSE l.names[j]
      /\ Named(l, j, Nobody) = IF j = NO_USER THEN Nobody ELSE l.names[j]
      /\ j # NO_USER => l.names[j] \in UserNames /\ j \in 1 .. Len(l.names)
    BY <1>1, NamesAreNames
<1>3. l.names[i] \in UserNames /\ i # NO_USER
    BY <1>1, NoUserIsNoIndex
<1>. QED  BY <1>1, <1>2, <1>3, PickerAssumption

\* Deleting user i is forgetting the name.
LEMMA ForgetIs ==
    ASSUME NEW l, NEW k, Roster(l.names), NEW i \in 1 .. Len(l.names),
           {l.p1, l.p2} \subseteq Index(l.names),
           k.names = RemoveAt(l.names, i), k.p1 = Shifted(i, l.p1), k.p2 = Shifted(i, l.p2)
    PROVE  SessionOf(k) = Forget(SessionOf(l), l.names[i])
<1>1. /\ SessionOf(l).p1 = Named(l, l.p1, GUEST)
      /\ SessionOf(l).p2 = IF l.p2 = l.p1 THEN Nobody ELSE Named(l, l.p2, Nobody)
    BY DEF SessionOf
<1>2. /\ Named(k, k.p1, GUEST) = IF l.p1 = i THEN GUEST ELSE Named(l, l.p1, GUEST)
      /\ Named(k, k.p2, Nobody) = IF l.p2 = i THEN Nobody ELSE Named(l, l.p2, Nobody)
    BY NamedWithout
<1>3. /\ (Shifted(i, l.p1) = NO_USER) <=> (l.p1 = NO_USER \/ l.p1 = i)
      /\ (Shifted(i, l.p2) = NO_USER) <=> (l.p2 = NO_USER \/ l.p2 = i)
    BY RosterWithout
<1>4. l.p1 \in Int /\ l.p2 \in Int /\ i \in Int
    BY DEF Index, NO_USER
<1>5. k.p2 = k.p1 => \/ l.p2 = l.p1
                     \/ l.p1 \in {NO_USER, i} /\ l.p2 \in {NO_USER, i}
    BY <1>3, <1>4 DEF Shifted
<1>6. l.p2 = l.p1 => k.p2 = k.p1
    OBVIOUS
<1>7. /\ Named(l, l.p1, GUEST) = l.names[i] <=> l.p1 = i
      /\ Named(l, l.p2, Nobody) = l.names[i] <=> l.p2 = i
      /\ l.names[i] # Nobody
    <2>1. l.names[i] \in UserNames
        BY NoUserIsNoIndex DEF Roster
    <2>. QED  BY <2>1, NamesDiffer, PickerAssumption
<1>8. l.p2 = NO_USER => Named(l, l.p2, Nobody) = Nobody
    BY NamesAreNames DEF Roster
<1>9. (IF k.p2 = k.p1 THEN Nobody ELSE Named(k, k.p2, Nobody)) =
        IF SessionOf(l).p2 = l.names[i] THEN Nobody ELSE SessionOf(l).p2
    BY <1>1, <1>2, <1>5, <1>6, <1>7, <1>8
<1>. QED  BY <1>1, <1>2, <1>7, <1>9 DEF SessionOf, Forget

-----------------------------------------------------------------------------
LEMMA PickerStart == PickerInit => PickerInv
<1>. SUFFICES ASSUME PickerInit
              PROVE  PickerInv
    OBVIOUS
<1>1. /\ launcher.names = <<>> /\ launcher.p1 = NO_USER /\ launcher.p2 = NO_USER
      /\ launcher.pending_p1 = NO_USER /\ launcher.sel = 1 /\ launcher.stage = 1
      /\ launcher.screen = "HOME" /\ launcher \in Launchers
    BY DEF PickerInit, Launchers, NO_USER
<1>2. Roster(<<>>)
    BY PickerAssumption DEF Roster, IsInjective
<1>3. Sound(launcher)
    BY <1>1, <1>2 DEF Sound, Index
<1>4. Named(launcher, NO_USER, GUEST) = GUEST
    BY <1>1 DEF Named, NO_USER
<1>5. session = SessionOf(launcher)
    BY <1>1, <1>4 DEF PickerInit, SessionOf
<1>6. /\ users_file.names = launcher.names /\ users_file.p1 = launcher.p1
      /\ users_file.p2 = launcher.p2 /\ users_file.meant = session
    BY <1>1 DEF PickerInit
<1>7. FileFits(users_file)
    BY <1>3, <1>5, <1>6, SameSession DEF FileFits, Sound
<1>. QED  BY <1>1, <1>3, <1>5, <1>7 DEF PickerInv, PickerInit

\* A frame of the picker: the deletion and the choice mean in indices what
\* they mean in names.
LEMMA UsersFrameStep ==
    ASSUME PickerInv, NEW b, UsersFrame(b)
    PROVE  PickerInv'
<1>1. PICK l : l = Back(Move(launcher, b), b)
    OBVIOUS
<1>2. PICK k : k = user_delete(l, b)
    OBVIOUS
<1>3. PICK d : d = Pick(k, b)
    OBVIOUS
<1>4. /\ launcher.screen = "USERS" /\ launcher' = d /\ Mean(l, k, b)
      /\ IF Deletes(l, b) \/ Confirms(k, b)
         THEN apply_session(d) /\ users_save(d) ELSE UNCHANGED <<session, users_file>>
    BY <1>1, <1>2, <1>3 DEF UsersFrame
<1>5. /\ Sound(l) /\ l.names = launcher.names /\ l.p1 = launcher.p1 /\ l.p2 = launcher.p2
      /\ l.pending_p1 = launcher.pending_p1
    BY <1>1, MoveIs DEF PickerInv
<1>6. /\ Sound(k)
      /\ IF Deletes(l, b)
         THEN /\ l.sel \in 1 .. Len(l.names)
              /\ k.names = RemoveAt(l.names, l.sel)
              /\ k.p1 = Shifted(l.sel, l.p1) /\ k.p2 = Shifted(l.sel, l.p2)
              /\ k.pending_p1 = Shifted(l.sel, l.pending_p1)
         ELSE k = l
    BY <1>2, <1>5, DeleteIs
<1>7. /\ Sound(d) /\ d.names = k.names
      /\ IF Confirms(k, b)
         THEN /\ d.screen = "HOME" /\ d.p1 = k.pending_p1
              /\ d.p2 = IF k.sel <= Len(k.names) /\ k.sel # k.pending_p1 THEN k.sel ELSE NO_USER
         ELSE d.p1 = k.p1 /\ d.p2 = k.p2
      /\ d.pending_p1 = IF "A" \in b /\ k.stage = 1 /\ k.sel <= Len(k.names)
                        THEN k.sel ELSE k.pending_p1
    BY <1>3, <1>6, PickIs
<1>8. /\ meant = SessionOf(l) /\ session = meant /\ meant \in Seats
      /\ chosen = Named(l, l.pending_p1, GUEST)
    <2>1. SessionOf(l) = SessionOf(launcher)
        BY <1>5, SameSession
    <2>2. SessionOf(l) \in Seats
        BY <1>5, SessionsAreSeats DEF Sound, Roster
    <2>. QED  BY <1>4, <1>5, <2>1, <2>2 DEF PickerInv, Named
<1>9. PICK gone : gone = IF Deletes(l, b) THEN l.names[l.sel] ELSE Nobody
    OBVIOUS
<1>10. PICK kept : kept = IF chosen = gone THEN GUEST ELSE chosen
    OBVIOUS
<1>11. PICK other : other = IF k.sel <= Len(k.names) THEN k.names[k.sel] ELSE Nobody
    OBVIOUS
<1>12. /\ chosen' = IF "A" \in b /\ k.stage = 1 /\ k.sel <= Len(k.names)
                    THEN k.names[k.sel] ELSE kept
       /\ meant' = IF Confirms(k, b)
                   THEN [p1 |-> kept, p2 |-> IF other = kept THEN Nobody ELSE other]
                   ELSE Forget(meant, gone)
    BY <1>4, <1>9, <1>10, <1>11 DEF Mean
<1>13. Roster(l.names) /\ {l.p1, l.p2, l.pending_p1} \subseteq Index(l.names)
    BY <1>5 DEF Sound
<1>14. kept = Named(k, k.pending_p1, GUEST)
    <2>1. CASE Deletes(l, b)
        <3>1. Named(k, k.pending_p1, GUEST) =
                IF l.pending_p1 = l.sel THEN GUEST ELSE Named(l, l.pending_p1, GUEST)
            BY <1>6, <1>13, <2>1, NamedWithout
        <3>2. chosen = l.names[l.sel] <=> l.pending_p1 = l.sel
            BY <1>6, <1>8, <1>13, <2>1, NamesDiffer
        <3>. QED  BY <1>8, <1>9, <1>10, <2>1, <3>1, <3>2
    <2>2. CASE ~Deletes(l, b)
        <3>1. chosen \in UserNames \cup {GUEST}
            BY <1>8, <1>13, NamedIsAName
        <3>. QED  BY <1>6, <1>8, <1>9, <1>10, <2>2, <3>1, PickerAssumption
    <2>. QED  BY <2>1, <2>2
<1>15. Forget(meant, gone) = SessionOf(k)
    <2>1. CASE Deletes(l, b)
        BY <1>6, <1>8, <1>9, <1>13, <2>1, ForgetIs
    <2>2. CASE ~Deletes(l, b)
        <3>1. Forget(meant, Nobody) = meant
            BY <1>8, PickerAssumption DEF Forget, Seats
        <3>. QED  BY <1>6, <1>8, <1>9, <2>2, <3>1
    <2>. QED  BY <2>1, <2>2
<1>16. chosen' = Named(d, d.pending_p1, GUEST)
    <2>1. CASE "A" \in b /\ k.stage = 1 /\ k.sel <= Len(k.names)
        <3>1. k.sel \in DOMAIN k.names
            BY <1>6, <2>1, LauncherTypes
        <3>. QED  BY <1>7, <1>12, <2>1, <3>1 DEF Named
    <2>2. CASE ~ ("A" \in b /\ k.stage = 1 /\ k.sel <= Len(k.names))
        BY <1>7, <1>12, <1>14, <2>2 DEF Named
    <2>. QED  BY <2>1, <2>2
<1>17. meant' = SessionOf(d)
    <2>1. CASE ~Confirms(k, b)
        BY <1>7, <1>12, <1>15, <2>1, SameSession
    <2>2. CASE Confirms(k, b)
        <3>0. /\ Roster(k.names) /\ k.pending_p1 \in Index(k.names)
              /\ k.names \in Seq(UserNames) /\ Len(k.names) \in Nat
              /\ k.sel \in Int /\ k.sel >= 1
            BY <1>6, LauncherTypes DEF Sound
        <3>1. Named(d, d.p1, GUEST) = kept
            BY <1>7, <1>14, <2>2 DEF Named
        <3>2. kept # Nobody
            <4>1. kept \in UserNames \cup {GUEST}
                BY <1>14, <3>0, NamedIsAName
            <4>. QED  BY <4>1, PickerAssumption
        <3>3. CASE k.sel <= Len(k.names)
            <4>1. k.sel \in 1 .. Len(k.names) /\ other = k.names[k.sel]
                BY <1>11, <3>0, <3>3
            <4>2. other = kept <=> k.sel = k.pending_p1
                BY <1>14, <3>0, <4>1, NamesDiffer
            <4>3. CASE k.sel = k.pending_p1
                <5>1. d.p2 = NO_USER
                    BY <1>7, <2>2, <4>3
                <5>2. Named(d, d.p2, Nobody) = Nobody
                    BY <1>7, <3>0, <5>1, NoUserIsNoIndex DEF Named
                <5>. QED  BY <1>12, <2>2, <3>1, <4>2, <4>3, <5>2 DEF SessionOf
            <4>4. CASE k.sel # k.pending_p1
                <5>1. d.p2 = k.sel /\ d.p1 = k.pending_p1
                    BY <1>7, <2>2, <3>3, <4>4
                <5>2. Named(d, d.p2, Nobody) = other
                    BY <1>7, <4>1, <5>1, <3>0, NoUserIsNoIndex DEF Named
                <5>. QED  BY <1>12, <2>2, <3>1, <4>2, <4>4, <5>1, <5>2 DEF SessionOf
            <4>. QED  BY <4>3, <4>4
        <3>4. CASE ~ (k.sel <= Len(k.names))
            <4>1. other = Nobody /\ d.p2 = NO_USER
                BY <1>7, <1>11, <2>2, <3>4
            <4>2. Named(d, d.p2, Nobody) = Nobody
                BY <1>7, <3>0, <4>1, NoUserIsNoIndex DEF Named
            <4>. QED  BY <1>12, <2>2, <3>1, <3>2, <4>1, <4>2 DEF SessionOf
        <3>. QED  BY <3>3, <3>4
    <2>. QED  BY <2>1, <2>2
<1>18. CASE Deletes(l, b) \/ Confirms(k, b)
    <2>1. session' = SessionOf(d)
        BY <1>4, <1>18 DEF apply_session, SessionOf
    <2>2. FileFits(users_file')
        <3>1. CASE users_file' = [names |-> d.names, p1 |-> d.p1, p2 |-> d.p2, meant |-> meant']
            <4>1. PICK m, f : m = meant' /\ f = users_file'
                OBVIOUS
            <4>2. m = SessionOf(d) /\ f = [names |-> d.names, p1 |-> d.p1, p2 |-> d.p2, meant |-> m]
                BY <1>17, <3>1, <4>1
            <4>. QED  BY <1>7, <4>1, <4>2, SavedFits
        <3>2. CASE UNCHANGED users_file
            BY <3>2 DEF PickerInv
        <3>. QED  BY <1>4, <1>18, <3>1, <3>2 DEF users_save
    <2>. QED  BY <1>4, <1>7, <1>16, <1>17, <2>1, <2>2 DEF PickerInv
<1>19. CASE ~ (Deletes(l, b) \/ Confirms(k, b))
    <2>1. session' = meant' /\ users_file' = users_file
        BY <1>4, <1>6, <1>7, <1>8, <1>15, <1>12, <1>19
    <2>. QED  BY <1>4, <1>7, <1>16, <1>17, <2>1 DEF PickerInv
<1>. QED  BY <1>18, <1>19

\* A name that is new goes to the end of the list and moves nobody.
LEMMA RosterWith ==
    ASSUME NEW names, Roster(names), Len(names) < MAX_USERS,
           NEW n \in UserNames, n \notin ToSet(names)
    PROVE  /\ Roster(Append(names, n)) /\ Len(Append(names, n)) = Len(names) + 1
           /\ Append(names, n)[Len(names) + 1] = n
           /\ \A j \in 1 .. Len(names) : Append(names, n)[j] = names[j]
<1>1. /\ names \in Seq(UserNames) /\ Len(names) \in Nat /\ DOMAIN names = 1 .. Len(names)
      /\ \A a, c \in 1 .. Len(names) : names[a] = names[c] => a = c
    BY NoUserIsNoIndex DEF Roster, IsInjective
<1>2. PICK r : r = Append(names, n)
    OBVIOUS
<1>3. /\ r \in Seq(UserNames) /\ Len(r) = Len(names) + 1 /\ r[Len(names) + 1] = n
      /\ \A j \in 1 .. Len(names) : r[j] = names[j]
    BY <1>1, <1>2
<1>4. \A j \in 1 .. Len(names) : names[j] # n
    BY <1>1 DEF ToSet
<1>5. DOMAIN r = 1 .. Len(names) + 1
    BY <1>1, <1>3
<1>6. ASSUME NEW a \in DOMAIN r, NEW c \in DOMAIN r, r[a] = r[c] PROVE a = c
    <2>1. a \in 1 .. Len(names) \/ a = Len(names) + 1
        BY <1>1, <1>5
    <2>2. c \in 1 .. Len(names) \/ c = Len(names) + 1
        BY <1>1, <1>5
    <2>. QED  BY <1>1, <1>3, <1>4, <1>6, <2>1, <2>2
<1>7. Len(r) <= MAX_USERS
    BY <1>1, <1>3, PickerAssumption
<1>. QED  BY <1>2, <1>3, <1>6, <1>7 DEF Roster, IsInjective

LEMMA NameCommitStep ==
    ASSUME PickerInv, NEW n \in UserNames, name_commit(n)
    PROVE  PickerInv'
<1>. DEFINE nms == IF n \in ToSet(launcher.names) THEN launcher.names
                   ELSE Append(launcher.names, n)
            pos == CHOOSE j \in DOMAIN nms : nms[j] = n
            nmd == [launcher EXCEPT !.names = nms, !.screen = "USERS"]
<1>0. /\ launcher.screen = "NAME" /\ Len(launcher.names) < MAX_USERS
      /\ launcher' = IF launcher.stage = 1
                     THEN [nmd EXCEPT !.pending_p1 = pos, !.stage = 2, !.sel = Len(nms) + 2]
                     ELSE [nmd EXCEPT !.sel = pos]
      /\ chosen' = IF launcher.stage = 1 THEN n ELSE chosen
      /\ UNCHANGED <<session, meant>>
      /\ UNCHANGED users_file \/ users_save(nmd)
    BY DEF name_commit
<1>1. PICK names : names = nms
    OBVIOUS
<1>2. PICK i : i = CHOOSE j \in DOMAIN names : names[j] = n
    OBVIOUS
<1>3. PICK named : named = [launcher EXCEPT !.names = names, !.screen = "USERS"]
    OBVIOUS
<1>4. /\ launcher.screen = "NAME" /\ Len(launcher.names) < MAX_USERS
      /\ launcher' = IF launcher.stage = 1
                     THEN [named EXCEPT !.pending_p1 = i, !.stage = 2, !.sel = Len(names) + 2]
                     ELSE [named EXCEPT !.sel = i]
      /\ chosen' = IF launcher.stage = 1 THEN n ELSE chosen
      /\ UNCHANGED <<session, meant>>
      /\ UNCHANGED users_file \/ users_save(named)
    <2>. HIDE DEF nms
    <2>1. pos = i /\ nmd = named
        BY <1>1, <1>2, <1>3
    <2>. HIDE DEF pos, nmd
    <2>. QED  BY <1>0, <1>1, <2>1
<1>5. PICK l : l = launcher
    OBVIOUS
<1>6. /\ Sound(l) /\ l \in Launchers /\ Roster(l.names) /\ l.names \in Seq(UserNames)
      /\ Len(l.names) \in Nat /\ l.stage \in {1, 2}
      /\ l.p1 \in Int /\ l.p2 \in Int /\ l.pending_p1 \in Int
      /\ {l.p1, l.p2, l.pending_p1} \subseteq Index(l.names)
    BY <1>5, LauncherTypes DEF PickerInv, Sound, Roster
<1>7. /\ Roster(names) /\ names \in Seq(UserNames) /\ Len(names) \in Nat
      /\ Len(names) >= Len(l.names)
      /\ \A j \in 1 .. Len(l.names) : names[j] = l.names[j]
      /\ \E j \in 1 .. Len(names) : names[j] = n
    <2>1. CASE n \in ToSet(l.names)
        BY <1>1, <1>5, <1>6, <2>1, NoUserIsNoIndex DEF ToSet
    <2>2. CASE n \notin ToSet(l.names)
        <3>1. names = Append(l.names, n)
            BY <1>1, <1>5, <2>2
        <3>2. /\ Roster(names) /\ Len(names) = Len(l.names) + 1 /\ names[Len(l.names) + 1] = n
              /\ \A j \in 1 .. Len(l.names) : names[j] = l.names[j]
            BY <1>4, <1>5, <1>6, <2>2, <3>1, RosterWith
        <3>. QED  BY <1>6, <3>2 DEF Roster
    <2>. QED  BY <2>1, <2>2
<1>8. i \in 1 .. Len(names) /\ names[i] = n
    BY <1>2, <1>7, NoUserIsNoIndex
<1>9. Index(l.names) \subseteq Index(names)
    BY <1>6, <1>7 DEF Index
<1>10. \A j \in Index(l.names) : \A o :
          (j \in DOMAIN names <=> j \in DOMAIN l.names) /\ (j \in DOMAIN l.names => names[j] = l.names[j])
    BY <1>6, <1>7 DEF Index, NO_USER
<1>11. /\ named \in Launchers
       /\ named.names = names /\ named.p1 = l.p1 /\ named.p2 = l.p2
       /\ named.pending_p1 = l.pending_p1 /\ named.stage = l.stage /\ named.sel = l.sel
    <2>1. named = [l EXCEPT !.names = names, !.screen = "USERS"]
        BY <1>3, <1>5
    <2>. QED  BY <1>6, <1>7, <2>1 DEF Launchers
<1>12. SessionOf(named) = SessionOf(l)
    BY <1>6, <1>10, <1>11 DEF SessionOf, Named
<1>13. PICK d : d = launcher'
    OBVIOUS
<1>14. /\ d \in Launchers /\ d.names = names /\ d.p1 = l.p1 /\ d.p2 = l.p2
       /\ d.pending_p1 = (IF l.stage = 1 THEN i ELSE l.pending_p1) /\ d.stage = 2
       /\ d.sel = IF l.stage = 1 THEN Len(names) + 2 ELSE i
    <2>0. i \in Int /\ Len(names) + 2 \in Int
        BY <1>7, <1>8
    <2>1. CASE l.stage = 1
        <3>1. d = [named EXCEPT !.pending_p1 = i, !.stage = 2, !.sel = Len(names) + 2]
            BY <1>4, <1>5, <1>13, <2>1
        <3>. QED  BY <1>11, <2>0, <2>1, <3>1 DEF Launchers
    <2>2. CASE l.stage = 2
        <3>1. d = [named EXCEPT !.sel = i]
            BY <1>4, <1>5, <1>13, <2>2
        <3>. QED  BY <1>11, <2>0, <2>2, <3>1 DEF Launchers
    <2>. QED  BY <1>6, <2>1, <2>2
<1>15. Sound(d)
    <2>1. d.sel \in 1 .. Len(d.names) + d.stage
        BY <1>6, <1>7, <1>8, <1>14
    <2>2. i \in Index(names)
        BY <1>8 DEF Index
    <2>3. {d.p1, d.p2, d.pending_p1} \subseteq Index(d.names)
        BY <1>6, <1>9, <1>14, <2>2
    <2>. QED  BY <1>7, <1>14, <2>1, <2>3 DEF Sound
<1>16. session' = SessionOf(d) /\ meant' = session'
    <2>1. SessionOf(d) = SessionOf(named)
        BY <1>11, <1>14, SameSession
    <2>. QED  BY <1>4, <1>5, <1>12, <2>1 DEF PickerInv
<1>17. chosen' = Named(d, d.pending_p1, GUEST)
    <2>1. CASE l.stage = 1
        BY <1>4, <1>5, <1>7, <1>8, <1>14, <2>1, NoUserIsNoIndex DEF Named
    <2>2. CASE l.stage = 2
        <3>1. chosen = Named(l, l.pending_p1, GUEST)
            BY <1>4, <1>5 DEF PickerInv
        <3>2. Named(d, d.pending_p1, GUEST) = Named(l, l.pending_p1, GUEST)
            BY <1>6, <1>10, <1>14, <2>2 DEF Named
        <3>. QED  BY <1>4, <1>5, <2>2, <3>1, <3>2
    <2>. QED  BY <1>6, <2>1, <2>2
<1>18. FileFits(users_file')
    <2>1. CASE users_save(named)
        <3>1. CASE users_file' = [names |-> named.names, p1 |-> named.p1, p2 |-> named.p2,
                                  meant |-> meant']
            <4>1. PICK m, f : m = meant' /\ f = users_file'
                OBVIOUS
            <4>2. m = SessionOf(d) /\ f = [names |-> d.names, p1 |-> d.p1, p2 |-> d.p2, meant |-> m]
                BY <1>11, <1>14, <1>16, <3>1, <4>1
            <4>. QED  BY <1>15, <4>1, <4>2, SavedFits
        <3>2. CASE UNCHANGED users_file
            BY <3>2 DEF PickerInv
        <3>. QED  BY <2>1, <3>1, <3>2 DEF users_save
    <2>2. CASE UNCHANGED users_file
        BY <2>2 DEF PickerInv
    <2>. QED  BY <1>4, <2>1, <2>2
<1>. QED  BY <1>13, <1>15, <1>16, <1>17, <1>18 DEF PickerInv

LEMMA OpenStep ==
    ASSUME PickerInv, OpenUsers \/ LeaveName
    PROVE  PickerInv'
<1>1. PICK l : l = launcher
    OBVIOUS
<1>2. PICK d : d = launcher'
    OBVIOUS
<1>3. /\ Sound(l) /\ l \in Launchers /\ Roster(l.names) /\ l.names \in Seq(UserNames)
      /\ Len(l.names) \in Nat /\ l.stage \in {1, 2} /\ l.p1 \in Int /\ l.sel \in Int
      /\ {l.p1, l.p2, l.pending_p1} \subseteq Index(l.names)
      /\ session = SessionOf(l) /\ meant = session
    BY <1>1, LauncherTypes DEF PickerInv, Sound, Roster
<1>4. CASE OpenUsers
    <2>1. PICK e : e = IF l.p1 = NO_USER THEN 1 ELSE l.p1
        OBVIOUS
    <2>2. d = [l EXCEPT !.screen = "USERS", !.stage = 1, !.pending_p1 = l.p1, !.sel = e]
        BY <1>1, <1>2, <1>4, <2>1 DEF OpenUsers
    <2>3. e \in Int /\ e \in 1 .. Len(l.names) + 1
        BY <1>3, <2>1 DEF Index
    <2>4. /\ d \in Launchers /\ d.names = l.names /\ d.p1 = l.p1 /\ d.p2 = l.p2
          /\ d.pending_p1 = l.p1 /\ d.stage = 1 /\ d.sel = e
        BY <1>3, <2>2, <2>3 DEF Launchers
    <2>5. Sound(d)
        BY <1>3, <2>3, <2>4 DEF Sound
    <2>6. SessionOf(d) = SessionOf(l)
        BY <2>4, SameSession
    <2>7. chosen' = Named(d, d.pending_p1, GUEST)
        BY <1>3, <1>4, <2>4 DEF OpenUsers, SessionOf, Named
    <2>. QED  BY <1>2, <1>3, <1>4, <2>5, <2>6, <2>7 DEF PickerInv, OpenUsers
<1>5. CASE LeaveName
    <2>1. d = [l EXCEPT !.screen = "USERS"]
        BY <1>1, <1>2, <1>5 DEF LeaveName
    <2>2. /\ d \in Launchers /\ d.names = l.names /\ d.p1 = l.p1 /\ d.p2 = l.p2
          /\ d.pending_p1 = l.pending_p1 /\ d.stage = l.stage /\ d.sel = l.sel
        BY <1>3, <2>1 DEF Launchers
    <2>3. Sound(d)
        BY <1>3, <2>2 DEF Sound
    <2>4. SessionOf(d) = SessionOf(l)
        BY <2>2, SameSession
    <2>5. chosen = Named(d, d.pending_p1, GUEST)
        BY <1>1, <1>5, <2>2 DEF PickerInv, LeaveName, Named
    <2>. QED  BY <1>2, <1>3, <1>5, <2>3, <2>4, <2>5 DEF PickerInv, LeaveName
<1>. QED  BY <1>4, <1>5

LEMMA RebootStep ==
    ASSUME PickerInv, Reboot
    PROVE  PickerInv'
<1>1. PICK f : f = users_file
    OBVIOUS
<1>2. FileFits(f)
    BY <1>1 DEF PickerInv
<1>3. /\ Roster(f.names) /\ f.names \in Seq(UserNames) /\ Len(f.names) \in Nat
      /\ {f.p1, f.p2} \subseteq Index(f.names) /\ f.p1 \in Int /\ f.p2 \in Int
    BY <1>2, NoUserIsNoIndex DEF FileFits, Roster, Index
<1>4. ~ (f.p1 > Len(f.names)) /\ ~ (f.p2 > Len(f.names))
    BY <1>3 DEF Index, NO_USER
<1>5. PICK d : d = [names |-> f.names, p1 |-> f.p1, p2 |-> f.p2, screen |-> "HOME",
                    stage |-> 1, sel |-> 1, pending_p1 |-> NO_USER]
    OBVIOUS
<1>6. launcher' = d /\ apply_session(d) /\ meant' = f.meant /\ UNCHANGED users_file
    BY <1>1, <1>4, <1>5 DEF Reboot
<1>7. /\ d \in Launchers /\ d.names = f.names /\ d.p1 = f.p1 /\ d.p2 = f.p2
      /\ d.pending_p1 = NO_USER /\ d.stage = 1 /\ d.sel = 1 /\ d.screen = "HOME"
    BY <1>3, <1>5 DEF Launchers, NO_USER
<1>8. Sound(d)
    BY <1>3, <1>7 DEF Sound, Index
<1>9. SessionOf(d) = SessionOf(f)
    BY <1>7, SameSession
<1>10. session' = SessionOf(d)
    BY <1>6 DEF apply_session, SessionOf
<1>. QED  BY <1>1, <1>2, <1>6, <1>7, <1>8, <1>9, <1>10 DEF PickerInv, FileFits

LEMMA PickerStep == PickerInv /\ [PickerNext]_pickerVars => PickerInv'
<1>. SUFFICES ASSUME PickerInv, [PickerNext]_pickerVars
              PROVE  PickerInv'
    OBVIOUS
<1>1. CASE \E b \in SUBSET {"DOWN", "B", "SELECT", "A"} : UsersFrame(b)
    BY <1>1, UsersFrameStep
<1>2. CASE OpenUsers \/ LeaveName
    BY <1>2, OpenStep
<1>3. CASE \E n \in UserNames : name_commit(n)
    BY <1>3, NameCommitStep
<1>4. CASE Reboot
    BY <1>4, RebootStep
<1>5. CASE UNCHANGED pickerVars
    BY <1>5 DEF PickerInv, pickerVars
<1>. QED  BY <1>1, <1>2, <1>3, <1>4, <1>5 DEF PickerNext

\* For any names and any number of profiles, however they are added, picked
\* and deleted, with a choice half made, and over power cycles and failed
\* saves (launcher.c): the kernel's player names are those last confirmed.
THEOREM SessionIsConfirmed == PickerSpec => [](PickerTypeOK /\ SessionIsAsPicked)
<1>1. PickerInv => PickerTypeOK /\ SessionIsAsPicked
    <2>. SUFFICES ASSUME PickerInv
                  PROVE  PickerTypeOK
        BY DEF PickerInv, SessionIsAsPicked
    <2>1. Sound(launcher) /\ session = SessionOf(launcher) /\ meant = session
        BY DEF PickerInv
    <2>2. session \in Seats
        BY <2>1, SessionsAreSeats DEF Sound, Roster
    <2>3. launcher.sel \in 1 .. Len(launcher.names) + launcher.stage
        BY <2>1 DEF Sound
    <2>. QED  BY <2>1, <2>2, <2>3, LauncherTypes DEF PickerTypeOK, Sound, Roster, Index
<1>. QED  BY <1>1, PickerStart, PickerStep, PTL DEF PickerSpec

-----------------------------------------------------------------------------
(***************************************************************************)
(* Attract mode.                                                           *)
(***************************************************************************)
Tape(s) == s \in Seq(Presses) /\ Len(s) <= DEMO_FRAMES

\* A present has been taken and its read, or only the present.
ToPresent == IF phase = "present" THEN 1 ELSE 0

Caps == [active : BOOLEAN, n : 0 .. DEMO_FRAMES, pads : [Captured0 -> Presses]]
Attracts == [active : BOOLEAN, play : BOOLEAN, mine : BOOLEAN, cancel : BOOLEAN,
             cursor : Nat, game : Games \cup {NoProgram}, tape : Seq(Presses)]
Demos == [tape : Seq(Presses), session : Seq(Presses) \cup {NoSession}]

AttractTypes ==
    /\ front \in Programs /\ owner \in Programs \cup {NoProgram}
    /\ {forPlayer, fed} \subseteq BOOLEAN
    /\ phase \in {"present", "read"}
    /\ frame \in 0 .. MaxPresents
    /\ memory \in Seq(Presses)
    /\ cap \in Caps
    /\ attract \in Attracts /\ Len(attract.tape) <= DEMO_FRAMES
    /\ demo \in [Games -> Demos]

\* The launcher, and what has not presented yet, have read nothing; what
\* follows no demo has read once per frame.
ReadsFit ==
    /\ front = Launcher \/ ~Mine => memory = <<>>
    /\ ~Mine => phase = "present"
    /\ front # Launcher /\ Mine /\ ~attract.mine => Len(memory) = frame + ToPresent

\* The capture holds what a game has read, from its first frame.
CaptureFits ==
    front # Launcher /\ Mine /\ ~fed =>
        /\ cap.active \/ (attract.mine /\ phase = "read")
        /\ \A i \in 1 .. Len(memory) : i <= DEMO_FRAMES => cap.pads[i - 1] = memory[i]

\* The game that plays a demo has read a prefix of it.
PlaysFit ==
    attract.mine =>
        /\ attract.active /\ attract.play /\ Mine /\ front = attract.game
        /\ Len(memory) = attract.cursor + ToPresent
        /\ \A i \in 1 .. Len(memory) : memory[i] = attract.tape[i]
        /\ phase = "present" => fed

\* A demo that is armed or plays is the one on the disk; what was armed for a
\* game has not begun before that game's first present.
ArmedFits ==
    attract.active =>
        /\ attract.game \in Games /\ attract.cursor < Len(attract.tape)
        /\ Mine /\ front = attract.game => attract.play
        /\ ~attract.play \/ attract.mine =>
            \/ demo[attract.game].session = NoSession
            \/ demo[attract.game].tape = attract.tape

\* A demo on the disk and its session agree.
DemoFits(d) ==
    /\ Len(d.tape) <= DEMO_FRAMES
    /\ d.session # NoSession =>
        /\ Len(d.session) <= MaxPresents + DEMO_FRAMES
        /\ \A i \in 1 .. Len(d.tape) : i <= Len(d.session) => d.tape[i] = d.session[i]

AttractInv ==
    /\ AttractTypes
    /\ ReadsFit /\ CaptureFits /\ PlaysFit /\ ArmedFits
    /\ \A g \in Games : DemoFits(demo[g])

-----------------------------------------------------------------------------
LEMMA AttractNumbers ==
    /\ DEMO_FRAMES \in Nat /\ DEMO_FRAMES >= 1 /\ MaxPresents \in Nat
    /\ Launcher \notin Games /\ NoProgram \notin Games /\ Launcher # NoProgram
BY AttractAssumption DEF Programs

\* No program reads more often than it presents, or than its demo lasts.
LEMMA MemoryIsBounded ==
    ASSUME AttractInv
    PROVE  /\ memory \in Seq(Presses) /\ Len(memory) \in Nat
           /\ Len(memory) <= MaxPresents + DEMO_FRAMES
<1>1. memory \in Seq(Presses) /\ Len(memory) \in Nat /\ frame \in Nat /\ frame <= MaxPresents
      /\ ToPresent \in {0, 1} /\ attract.tape \in Seq(Presses) /\ Len(attract.tape) \in Nat
      /\ attract.cursor \in Nat /\ Len(attract.tape) <= DEMO_FRAMES
    BY AttractNumbers DEF AttractInv, AttractTypes, Attracts, ToPresent
<1>2. CASE front = Launcher \/ ~Mine
    <2>1. Len(memory) = 0
        BY <1>2 DEF AttractInv, ReadsFit
    <2>. QED  BY <1>1, <2>1, AttractNumbers
<1>3. CASE front # Launcher /\ Mine /\ ~attract.mine
    <2>1. Len(memory) = frame + ToPresent
        BY <1>3 DEF AttractInv, ReadsFit
    <2>. QED  BY <1>1, <2>1, AttractNumbers
<1>4. CASE attract.mine
    <2>1. Len(memory) = attract.cursor + ToPresent /\ attract.cursor < Len(attract.tape)
        BY <1>4 DEF AttractInv, PlaysFit, ArmedFits
    <2>. QED  BY <1>1, <2>1, AttractNumbers
<1>. QED  BY <1>2, <1>3, <1>4

LEMMA AttractStart == AttractInit => AttractInv
<1>. SUFFICES ASSUME AttractInit
              PROVE  AttractInv
    OBVIOUS
<1>0. /\ attract.active = FALSE /\ attract.mine = FALSE /\ front = Launcher /\ memory = <<>>
      /\ attract.tape = <<>> /\ phase = "present"
      /\ \A g \in Games : demo[g].session = NoSession /\ demo[g].tape = <<>>
    BY DEF AttractInit
<1>1. AttractTypes
    <2>1. cap \in Caps
        BY AttractNumbers, AttractAssumption DEF AttractInit, Caps, Captured0
    <2>2. attract \in Attracts
        BY DEF AttractInit, Attracts
    <2>3. demo \in [Games -> Demos]
        BY DEF AttractInit, Demos
    <2>4. Len(attract.tape) <= DEMO_FRAMES
        BY <1>0, AttractNumbers
    <2>5. front \in Programs /\ owner \in Programs \cup {NoProgram} /\ phase \in {"present", "read"}
        BY DEF AttractInit, Programs
    <2>6. frame \in 0 .. MaxPresents /\ {forPlayer, fed} \subseteq BOOLEAN
        <3>1. 0 \in 0 .. MaxPresents
            BY AttractNumbers
        <3>. QED  BY <3>1 DEF AttractInit
    <2>7. memory \in Seq(Presses)
        BY <1>0
    <2>. QED  BY <2>1, <2>2, <2>3, <2>4, <2>5, <2>6, <2>7 DEF AttractTypes
<1>2. ReadsFit /\ CaptureFits /\ PlaysFit /\ ArmedFits
    BY <1>0 DEF ReadsFit, CaptureFits, PlaysFit, ArmedFits
<1>3. \A g \in Games : DemoFits(demo[g])
    <2>1. ASSUME NEW g \in Games PROVE Len(demo[g].tape) <= DEMO_FRAMES
        <3>1. Len(<<>>) = 0
            OBVIOUS
        <3>. QED  BY <1>0, <3>1, AttractNumbers
    <2>. QED  BY <1>0, <2>1 DEF DemoFits
<1>. QED  BY <1>1, <1>2, <1>3 DEF AttractInv

\* A demo is fed to the game it is for.
LEMMA ReadRecordedStep ==
    ASSUME AttractInv, NEW pad \in Presses, ReadRecorded(pad)
    PROVE  AttractInv'
<1>. USE DEF AttractInv
<1>0. PICK a : a = attract
    OBVIOUS
<1>1. PICK m : m = memory
    OBVIOUS
<1>2. /\ a \in Attracts /\ m \in Seq(Presses) /\ Len(m) \in Nat
      /\ a.cursor \in Nat /\ a.game \in Games /\ a.cursor < Len(a.tape) /\ a.active
      /\ front = a.game /\ front # Launcher /\ phase = "read"
      /\ a.tape \in Seq(Presses) /\ Len(a.tape) \in Nat /\ Len(a.tape) <= DEMO_FRAMES
    BY <1>0, <1>1, AttractNumbers
        DEF AttractTypes, ArmedFits, ReadRecorded, IsCurrent, Attracts
<1>3. PICK e : e = a.tape[IF a.play THEN a.cursor + 1 ELSE 1]
    OBVIOUS
<1>4. e \in Presses
    BY <1>2, <1>3
<1>5. /\ memory' = Append(m, e)
      /\ attract' = [a EXCEPT !.cancel = a.cancel \/ pad # NoPress]
      /\ fed' = TRUE /\ phase' = "present"
      /\ UNCHANGED <<front, forPlayer, owner, frame, cap, demo>>
    BY <1>0, <1>1, <1>2, <1>3 DEF ReadRecorded, Remember
<1>6. PICK n : n = Append(m, e)
    OBVIOUS
<1>7. /\ n \in Seq(Presses) /\ Len(n) = Len(m) + 1 /\ n[Len(m) + 1] = e
      /\ \A i \in 1 .. Len(m) : n[i] = m[i]
    BY <1>2, <1>4, <1>6
<1>8. PICK b : b = attract'
    OBVIOUS
<1>9. /\ b \in Attracts /\ b.active = a.active /\ b.play = a.play /\ b.mine = a.mine
      /\ b.cursor = a.cursor /\ b.game = a.game /\ b.tape = a.tape
    BY <1>2, <1>5, <1>8 DEF Attracts
<1>10. Mine /\ Mine'
    BY <1>2, <1>5 DEF ReadsFit, Mine
<1>11. AttractTypes'
    BY <1>2, <1>5, <1>6, <1>7, <1>8, <1>9 DEF AttractTypes
<1>12. ToPresent = 0 /\ ToPresent' = 1
    BY <1>2, <1>5 DEF ToPresent
<1>13. ReadsFit'
    <2>1. ~a.mine => Len(m) = frame + ToPresent
        BY <1>0, <1>1, <1>2, <1>10 DEF ReadsFit
    <2>. QED  BY <1>2, <1>5, <1>6, <1>7, <1>8, <1>9, <1>10, <1>12, <2>1 DEF ReadsFit, AttractTypes
<1>14. CaptureFits'
    BY <1>5 DEF CaptureFits
<1>15. PlaysFit'
    <2>. SUFFICES ASSUME a.mine
                  PROVE  PlaysFit'
        BY <1>8, <1>9 DEF PlaysFit
    <2>1. a.play /\ Len(m) = a.cursor /\ \A i \in 1 .. Len(m) : m[i] = a.tape[i]
        BY <1>0, <1>1, <1>2, <1>12 DEF PlaysFit
    <2>2. n[Len(m) + 1] = a.tape[Len(m) + 1]
        BY <1>3, <1>7, <2>1
    <2>3. \A i \in 1 .. Len(n) : n[i] = a.tape[i]
        BY <1>2, <1>7, <2>1, <2>2
    <2>. QED  BY <1>2, <1>5, <1>6, <1>7, <1>8, <1>9, <1>10, <1>12, <2>1, <2>3 DEF PlaysFit
<1>16. ArmedFits'
    BY <1>0, <1>5, <1>8, <1>9, <1>10 DEF ArmedFits, Mine
<1>. QED  BY <1>5, <1>11, <1>13, <1>14, <1>15, <1>16

\* A frame of a game that nothing is fed to is captured as it is read.
LEMMA ReadLiveStep ==
    ASSUME AttractInv, NEW pad \in Presses, ReadLive(pad)
    PROVE  AttractInv'
<1>. USE DEF AttractInv
<1>1. PICK m, c : m = memory /\ c = cap
    OBVIOUS
<1>2. /\ phase = "read" /\ ~IsCurrent /\ phase' = "present"
      /\ memory' = (IF front = Launcher THEN <<>> ELSE Append(m, pad))
      /\ cap' = (IF c.active /\ Mine /\ frame < DEMO_FRAMES
                 THEN [c EXCEPT !.pads[frame] = pad] ELSE c)
      /\ UNCHANGED <<front, forPlayer, owner, frame, fed, attract, demo>>
    BY <1>1 DEF ReadLive, Remember, Captured
<1>3. Mine /\ Mine' /\ ~attract.mine /\ m \in Seq(Presses) /\ Len(m) \in Nat /\ c \in Caps
      /\ frame \in Nat
    BY <1>1, <1>2, AttractNumbers DEF ReadsFit, PlaysFit, IsCurrent, Mine, AttractTypes
<1>4. PICK d : d = cap'
    OBVIOUS
<1>5. /\ d \in Caps /\ d.active = c.active
      /\ \A j \in Captured0 :
            d.pads[j] = IF c.active /\ j = frame THEN pad ELSE c.pads[j]
    <2>1. CASE c.active /\ frame < DEMO_FRAMES
        <3>1. d = [c EXCEPT !.pads[frame] = pad]
            BY <1>2, <1>3, <1>4, <2>1
        <3>2. frame \in Captured0
            BY <1>3, <2>1, AttractNumbers DEF Captured0
        <3>3. c.pads \in [Captured0 -> Presses] /\ c.active \in BOOLEAN
            BY <1>3 DEF Caps
        <3>4. d \in Caps /\ d.active = c.active
            BY <1>3, <3>1, <3>3 DEF Caps
        <3>5. d.pads = [c.pads EXCEPT ![frame] = pad]
            BY <1>3, <3>1 DEF Caps
        <3>. QED  BY <2>1, <3>2, <3>3, <3>4, <3>5
    <2>2. CASE ~ (c.active /\ frame < DEMO_FRAMES)
        BY <1>2, <1>3, <1>4, <2>2, AttractNumbers DEF Captured0
    <2>. QED  BY <2>1, <2>2
<1>6. PICK n : n = memory'
    OBVIOUS
<1>7. /\ n \in Seq(Presses)
      /\ front # Launcher => /\ Len(n) = Len(m) + 1 /\ n[Len(m) + 1] = pad
                             /\ \A i \in 1 .. Len(m) : n[i] = m[i]
    BY <1>2, <1>3, <1>6
<1>8. ToPresent = 0 /\ ToPresent' = 1
    BY <1>2 DEF ToPresent
<1>9. AttractTypes'
    BY <1>2, <1>4, <1>5, <1>6, <1>7 DEF AttractTypes
<1>10. front # Launcher => Len(m) = frame
    BY <1>1, <1>3, <1>8 DEF ReadsFit
<1>11. ReadsFit'
    BY <1>2, <1>3, <1>6, <1>7, <1>8, <1>10 DEF ReadsFit
<1>12. CaptureFits'
    <2>. SUFFICES ASSUME front # Launcher, ~fed
                  PROVE  d.active /\ \A i \in 1 .. Len(n) : i <= DEMO_FRAMES => d.pads[i - 1] = n[i]
        BY <1>2, <1>4, <1>6 DEF CaptureFits
    <2>1. c.active /\ \A i \in 1 .. Len(m) : i <= DEMO_FRAMES => c.pads[i - 1] = m[i]
        BY <1>1, <1>3 DEF CaptureFits
    <2>2. ASSUME NEW i \in 1 .. Len(n), i <= DEMO_FRAMES PROVE d.pads[i - 1] = n[i]
        <3>1. i - 1 \in Captured0 /\ Len(n) = Len(m) + 1
            BY <1>3, <1>7, <2>2, AttractNumbers DEF Captured0
        <3>2. CASE i = Len(m) + 1
            BY <1>3, <1>5, <1>7, <1>10, <2>1, <3>1, <3>2
        <3>3. CASE i \in 1 .. Len(m)
            BY <1>3, <1>5, <1>7, <1>10, <2>1, <2>2, <3>1, <3>3
        <3>. QED  BY <1>3, <3>1, <3>2, <3>3
    <2>. QED  BY <1>5, <2>1, <2>2
<1>13. PlaysFit'
    BY <1>2, <1>3 DEF PlaysFit
<1>14. ArmedFits'
    BY <1>2 DEF ArmedFits, Mine
<1>. QED  BY <1>2, <1>9, <1>11, <1>12, <1>13, <1>14

\* What the launcher saves of a game that is over agrees with what it read.
LEMMA SavedAgrees ==
    ASSUME AttractInv, front # Launcher, DemoSaved
    PROVE  /\ demo' \in [Games -> Demos]
           /\ \A g \in Games : DemoFits(demo'[g])
           /\ \A g \in Games \ {front} : demo'[g] = demo[g]
           /\ demo'[front] # demo[front] /\ ~Mine => demo'[front].session = NoSession
<1>1. CASE UNCHANGED demo
    BY <1>1 DEF AttractInv, AttractTypes
<1>2. CASE ~ UNCHANGED demo
    <2>1. PICK whole \in BOOLEAN : whole = (Mine /\ ~fed)
        OBVIOUS
    <2>2. PICK t, s : /\ t = [i \in 1 .. cap.n |-> cap.pads[i - 1]]
                      /\ s = IF whole THEN memory ELSE NoSession
        OBVIOUS
    <2>3. PICK d : d = [tape |-> t, session |-> s]
        OBVIOUS
    <2>4. demo' = [demo EXCEPT ![front] = d]
        BY <1>2, <2>1, <2>2, <2>3 DEF DemoSaved
    <2>5. PICK c : c = cap
        OBVIOUS
    <2>6. /\ front \in Games /\ demo \in [Games -> Demos] /\ c \in Caps
          /\ c.n \in 0 .. DEMO_FRAMES /\ c.pads \in [Captured0 -> Presses]
        BY <2>5 DEF AttractInv, AttractTypes, Caps, Programs
    <2>7. t \in Seq(Presses) /\ Len(t) = c.n /\ \A i \in 1 .. c.n : t[i] = c.pads[i - 1]
        <3>1. \A i \in 1 .. c.n : i - 1 \in Captured0
            BY <2>6, AttractNumbers DEF Captured0
        <3>2. t \in [1 .. c.n -> Presses]
            BY <2>2, <2>5, <2>6, <3>1
        <3>3. c.n \in Nat
            BY <2>6, AttractNumbers
        <3>4. t \in Seq(Presses) /\ Len(t) = c.n
            BY <3>2, <3>3
        <3>. QED  BY <2>2, <2>5, <3>4
    <2>8. s \in Seq(Presses) \cup {NoSession}
        BY <2>2, MemoryIsBounded
    <2>9. d \in Demos /\ d.tape = t /\ d.session = s
        BY <2>3, <2>7, <2>8 DEF Demos
    <2>10. demo' \in [Games -> Demos] /\ demo'[front] = d
           /\ \A g \in Games \ {front} : demo'[g] = demo[g]
        BY <2>4, <2>6, <2>9
    <2>11. DemoFits(d)
        <3>1. Len(d.tape) <= DEMO_FRAMES
            BY <2>6, <2>7, <2>9, AttractNumbers
        <3>2. ASSUME s # NoSession
              PROVE  /\ Len(s) <= MaxPresents + DEMO_FRAMES
                     /\ \A i \in 1 .. Len(t) : i <= Len(s) => t[i] = s[i]
            <4>1. s = memory /\ Mine /\ ~fed
                BY <2>1, <2>2, <3>2
            <4>2. \A i \in 1 .. Len(memory) : i <= DEMO_FRAMES => c.pads[i - 1] = memory[i]
                BY <2>5, <4>1 DEF AttractInv, CaptureFits
            <4>3. ASSUME NEW i \in 1 .. Len(t), i <= Len(memory) PROVE t[i] = memory[i]
                <5>1. i \in 1 .. Len(memory) /\ i <= DEMO_FRAMES /\ i \in 1 .. c.n
                    BY <2>6, <2>7, <4>3, MemoryIsBounded, AttractNumbers
                <5>. QED  BY <2>7, <4>2, <5>1
            <4>. QED  BY <4>1, <4>3, MemoryIsBounded
        <3>. QED  BY <2>9, <3>1, <3>2 DEF DemoFits
    <2>12. ~Mine => d.session = NoSession
        BY <2>1, <2>2, <2>9
    <2>. QED  BY <2>10, <2>11, <2>12 DEF AttractInv
<1>. QED  BY <1>1, <1>2

\* att: what becomes of a demo when the program in front is over.
LEMMA OverStep ==
    ASSUME AttractInv, front # Launcher, NEW att, att \in Attracts,
           att.tape = attract.tape, att.game = attract.game,
           att.active => /\ attract.active
                         /\ att.play = attract.play /\ att.cursor = attract.cursor,
           Over(att)
    PROVE  AttractInv'
<1>1. PICK b : b = attract'
    OBVIOUS
<1>2. /\ front' = Launcher /\ phase' = "present" /\ forPlayer' = FALSE
      /\ owner' = (IF Mine THEN NoProgram ELSE owner)
      /\ memory' = <<>> /\ fed' = FALSE
      /\ b = [att EXCEPT !.mine = FALSE]
      /\ DemoSaved /\ UNCHANGED <<frame, cap>>
    BY <1>1 DEF Over
<1>3. /\ b \in Attracts /\ b.tape = att.tape /\ b.game = att.game /\ b.active = att.active
      /\ b.play = att.play /\ b.cursor = att.cursor /\ b.mine = FALSE
    BY <1>2 DEF Attracts
<1>4. /\ demo' \in [Games -> Demos]
      /\ \A g \in Games : DemoFits(demo'[g])
      /\ \A g \in Games \ {front} : demo'[g] = demo[g]
      /\ demo'[front] # demo[front] /\ ~Mine => demo'[front].session = NoSession
    BY <1>2, SavedAgrees
<1>5. AttractTypes'
    <2>1. memory' \in Seq(Presses)
        BY <1>2
    <2>2. front' \in Programs /\ owner' \in Programs \cup {NoProgram}
        BY <1>2 DEF AttractInv, AttractTypes, Programs
    <2>3. {forPlayer', fed'} \subseteq BOOLEAN /\ phase' \in {"present", "read"}
        BY <1>2
    <2>4. frame' \in 0 .. MaxPresents /\ cap' \in Caps
        BY <1>2 DEF AttractInv, AttractTypes
    <2>5. attract' \in Attracts /\ Len(attract'.tape) <= DEMO_FRAMES
        BY <1>1, <1>3 DEF AttractInv, AttractTypes
    <2>. QED  BY <1>4, <2>1, <2>2, <2>3, <2>4, <2>5 DEF AttractTypes
<1>6. ReadsFit' /\ CaptureFits' /\ PlaysFit'
    BY <1>1, <1>2, <1>3 DEF ReadsFit, CaptureFits, PlaysFit
<1>7. ArmedFits'
    <2>. SUFFICES ASSUME b.active
                  PROVE  ArmedFits'
        BY <1>1 DEF ArmedFits
    <2>1. /\ attract.active /\ b.play = attract.play /\ b.cursor = attract.cursor
          /\ b.game = attract.game /\ b.tape = attract.tape
        BY <1>3
    <2>2. b.game \in Games /\ b.cursor < Len(b.tape) /\ b.game # Launcher
        BY <2>1, AttractNumbers DEF AttractInv, ArmedFits
    <2>3. ASSUME ~b.play
          PROVE  demo'[b.game].session = NoSession \/ demo'[b.game].tape = b.tape
        <3>1. demo[b.game].session = NoSession \/ demo[b.game].tape = b.tape
            BY <2>1, <2>3 DEF AttractInv, ArmedFits
        <3>2. CASE front = b.game
            <4>1. ~Mine
                BY <2>1, <2>3, <3>2 DEF AttractInv, ArmedFits
            <4>. QED  BY <1>4, <3>1, <3>2, <4>1
        <3>3. CASE front # b.game
            BY <1>4, <2>2, <3>1, <3>3
        <3>. QED  BY <3>2, <3>3
    <2>. QED  BY <1>1, <1>2, <1>3, <2>2, <2>3 DEF ArmedFits
<1>. QED  BY <1>4, <1>5, <1>6, <1>7 DEF AttractInv

LEMMA PresentDemoStep ==
    ASSUME AttractInv, PresentDemo
    PROVE  AttractInv'
<1>1. PICK a : a = attract
    OBVIOUS
<1>2. PICK next : next = [a EXCEPT !.cursor = a.cursor + 1]
    OBVIOUS
<1>3. /\ a \in Attracts /\ a.active /\ a.play /\ a.mine /\ phase = "present" /\ Mine
      /\ a.cursor \in Nat
    BY <1>1 DEF PresentDemo, DemoPlays, AttractInv, AttractTypes, Attracts
<1>4. /\ next \in Attracts /\ next.tape = a.tape /\ next.game = a.game /\ next.active = a.active
      /\ next.play = a.play /\ next.mine = a.mine /\ next.cursor = a.cursor + 1
    <2>1. PICK j \in Nat : j = a.cursor + 1
        BY <1>3
    <2>2. next = [a EXCEPT !.cursor = j]
        BY <1>2, <2>1
    <2>. QED  BY <1>3, <2>1, <2>2 DEF Attracts
<1>5. front = a.game /\ a.game \in Games /\ front # Launcher /\ fed
    BY <1>1, <1>3, AttractNumbers DEF AttractInv, PlaysFit, ArmedFits
<1>6. CASE /\ next.cursor < Len(a.tape) /\ attract' = next /\ phase' = "read"
           /\ UNCHANGED <<front, forPlayer, owner, frame, memory, fed, cap, demo>>
    <2>1. Mine' /\ ToPresent = 1 /\ ToPresent' = 0
        BY <1>3, <1>6 DEF Mine, ToPresent
    <2>2. AttractTypes'
        BY <1>1, <1>4, <1>6 DEF AttractInv, AttractTypes
    <2>3. ReadsFit' /\ CaptureFits'
        BY <1>3, <1>4, <1>5, <1>6, <2>1 DEF ReadsFit, CaptureFits
    <2>4. PlaysFit'
        <3>1. Len(memory) = a.cursor + 1 /\ \A i \in 1 .. Len(memory) : memory[i] = a.tape[i]
            BY <1>1, <1>3, <2>1 DEF AttractInv, PlaysFit
        <3>2. Len(memory) = next.cursor + 0
            BY <1>3, <1>4, <3>1
        <3>. QED  BY <1>3, <1>4, <1>5, <1>6, <2>1, <3>1, <3>2 DEF PlaysFit
    <2>5. ArmedFits'
        BY <1>1, <1>3, <1>4, <1>6, <2>1 DEF AttractInv, ArmedFits
    <2>. QED  BY <1>6, <2>2, <2>3, <2>4, <2>5 DEF AttractInv
<1>7. CASE Over([next EXCEPT !.active = FALSE])
    <2>1. PICK att : att = [next EXCEPT !.active = FALSE]
        OBVIOUS
    <2>2. att \in Attracts /\ att.tape = a.tape /\ att.game = a.game /\ att.active = FALSE
        BY <1>4, <2>1 DEF Attracts
    <2>. QED  BY <1>1, <1>5, <1>7, <2>1, <2>2, OverStep
<1>. QED  BY <1>1, <1>2, <1>6, <1>7 DEF PresentDemo

LEMMA GameEndsStep ==
    ASSUME AttractInv, GameEnds
    PROVE  AttractInv'
<1>1. PICK a : a = attract
    OBVIOUS
<1>2. a \in Attracts
    BY <1>1 DEF AttractInv, AttractTypes
<1>. QED  BY <1>1, <1>2, OverStep DEF GameEnds

LEMMA FirstPresentStep ==
    ASSUME AttractInv, FirstPresent
    PROVE  AttractInv'
<1>1. PICK a, c : a = attract /\ c = cap
    OBVIOUS
<1>2. PICK b, d : b = attract' /\ d = cap'
    OBVIOUS
<1>3. /\ phase = "present" /\ ~Mine /\ owner' = front /\ frame' = 0 /\ phase' = "read"
      /\ UNCHANGED <<front, forPlayer, memory, fed, demo>>
      /\ a \in Attracts /\ c \in Caps /\ memory = <<>> /\ ~a.mine
      /\ front \in Programs
    BY <1>1 DEF FirstPresent, AttractInv, AttractTypes, ReadsFit, PlaysFit
<1>4. Mine' /\ ToPresent' = 0 /\ Len(memory) = 0 /\ Len(memory') = 0
    BY <1>3 DEF Mine, ToPresent
<1>5. CASE IsCurrent /\ ~a.play
    <2>1. b = [a EXCEPT !.play = TRUE, !.cursor = 0, !.mine = TRUE]
          /\ d = [c EXCEPT !.active = FALSE]
        BY <1>1, <1>2, <1>5 DEF FirstPresent
    <2>2. /\ b \in Attracts /\ b.active = a.active /\ b.play = TRUE /\ b.mine = TRUE
          /\ b.cursor = 0 /\ b.game = a.game /\ b.tape = a.tape
        BY <1>3, <2>1 DEF Attracts
    <2>3. d \in Caps
        BY <1>3, <2>1 DEF Caps
    <2>4. a.active /\ front = a.game /\ a.game \in Games
        BY <1>1, <1>5 DEF IsCurrent, AttractInv, ArmedFits
    <2>5. AttractTypes'
        <3>1. frame' \in 0 .. MaxPresents
            BY <1>3, AttractNumbers
        <3>2. Len(b.tape) <= DEMO_FRAMES
            BY <1>1, <2>2 DEF AttractInv, AttractTypes
        <3>3. owner' \in Programs \cup {NoProgram} /\ phase' \in {"present", "read"}
            BY <1>3
        <3>. QED  BY <1>2, <1>3, <2>2, <2>3, <3>1, <3>2, <3>3 DEF AttractInv, AttractTypes
    <2>6. ReadsFit'
        BY <1>2, <1>3, <1>4, <2>2 DEF ReadsFit
    <2>7. CaptureFits'
        BY <1>2, <1>3, <1>4, <2>2 DEF CaptureFits
    <2>8. PlaysFit'
        BY <1>2, <1>3, <1>4, <2>2, <2>4 DEF PlaysFit
    <2>9. ArmedFits'
        <3>1. 0 < Len(a.tape)
            <4>1. a.cursor \in Nat /\ Len(a.tape) \in Nat
                BY <1>3 DEF Attracts
            <4>2. a.cursor < Len(a.tape)
                BY <1>1, <2>4 DEF AttractInv, ArmedFits
            <4>. QED  BY <4>1, <4>2
        <3>2. demo[a.game].session = NoSession \/ demo[a.game].tape = a.tape
            BY <1>1, <1>5, <2>4 DEF AttractInv, ArmedFits
        <3>. QED  BY <1>2, <1>3, <2>2, <2>4, <3>1, <3>2 DEF ArmedFits
    <2>. QED  BY <1>3, <2>5, <2>6, <2>7, <2>8, <2>9 DEF AttractInv
<1>6. CASE ~ (IsCurrent /\ ~a.play)
    <2>1. b = a /\ d = [c EXCEPT !.active = TRUE, !.n = 1]
        BY <1>1, <1>2, <1>6 DEF FirstPresent
    <2>2. d \in Caps /\ d.active = TRUE
        <3>1. 1 \in 0 .. DEMO_FRAMES
            BY AttractNumbers
        <3>. QED  BY <1>3, <2>1, <3>1 DEF Caps
    <2>3. AttractTypes'
        <3>1. frame' \in 0 .. MaxPresents
            BY <1>3, AttractNumbers
        <3>2. owner' \in Programs \cup {NoProgram} /\ phase' \in {"present", "read"}
            BY <1>3
        <3>. QED  BY <1>1, <1>2, <1>3, <2>1, <2>2, <3>1, <3>2 DEF AttractInv, AttractTypes
    <2>4. ReadsFit'
        BY <1>3, <1>4 DEF ReadsFit
    <2>5. CaptureFits'
        BY <1>2, <1>3, <1>4, <2>2 DEF CaptureFits
    <2>6. PlaysFit'
        BY <1>2, <1>3, <2>1 DEF PlaysFit
    <2>7. ArmedFits'
        BY <1>1, <1>2, <1>3, <1>6, <2>1 DEF AttractInv, ArmedFits, IsCurrent
    <2>. QED  BY <1>3, <2>3, <2>4, <2>5, <2>6, <2>7 DEF AttractInv
<1>. QED  BY <1>5, <1>6

LEMMA PresentedIsACapture ==
    ASSUME AttractInv
    PROVE  /\ Presented \in Caps /\ Presented.active = cap.active /\ Presented.pads = cap.pads
<1>1. PICK c, d : c = cap /\ d = Presented
    OBVIOUS
<1>2. c \in Caps /\ frame \in Nat
    BY <1>1, AttractNumbers DEF AttractInv, AttractTypes
<1>3. CASE c.active /\ frame + 1 < DEMO_FRAMES
    <2>1. PICK n : n = frame + 2
        OBVIOUS
    <2>2. n \in 0 .. DEMO_FRAMES
        BY <1>2, <1>3, <2>1, AttractNumbers
    <2>3. d = [c EXCEPT !.n = n]
        BY <1>1, <1>3, <2>1 DEF Presented
    <2>. QED  BY <1>1, <1>2, <2>2, <2>3 DEF Caps
<1>4. CASE ~ (c.active /\ frame + 1 < DEMO_FRAMES)
    BY <1>1, <1>2, <1>4 DEF Presented
<1>. QED  BY <1>3, <1>4

\* A present goes on to the next frame, or back to an earlier one.
LEMMA PresentLiveStep ==
    ASSUME AttractInv, PresentLive \/ \E f \in 0 .. MaxPresents : PresentRewound(f)
    PROVE  AttractInv'
<1>1. PICK m, d : m = memory' /\ d = cap'
    OBVIOUS
<1>2. /\ phase = "present" /\ Mine /\ ~DemoPlays /\ phase' = "read" /\ d = Presented
      /\ UNCHANGED <<front, forPlayer, owner, fed, attract, demo>>
      /\ frame' \in 0 .. MaxPresents
      /\ PresentLive => memory' = memory /\ frame' = frame + 1
      /\ ~PresentLive => /\ frame' <= frame
                         /\ memory' = SubSeq(memory, 1, IF front = Launcher THEN 0 ELSE frame')
    BY <1>1, AttractNumbers DEF PresentLive, PresentRewound, AttractInv, AttractTypes
<1>3. /\ d \in Caps /\ d.active = cap.active /\ d.pads = cap.pads
      /\ frame \in Nat /\ frame' \in Nat /\ memory \in Seq(Presses) /\ Len(memory) \in Nat
    BY <1>2, PresentedIsACapture, AttractNumbers DEF AttractInv, AttractTypes
<1>4. ~attract.mine
    BY <1>2 DEF DemoPlays, AttractInv, PlaysFit
<1>5. Mine' /\ ToPresent = 1 /\ ToPresent' = 0
    BY <1>2 DEF Mine, ToPresent
<1>6. /\ front = Launcher => memory = <<>>
      /\ front # Launcher => Len(memory) = frame + 1
    BY <1>2, <1>4, <1>5 DEF AttractInv, ReadsFit
<1>7. /\ m \in Seq(Presses) /\ Len(m) \in Nat
      /\ front = Launcher => m = <<>>
      /\ front # Launcher => Len(m) = frame'
      /\ Len(m) <= Len(memory) /\ \A i \in 1 .. Len(m) : m[i] = memory[i]
    <2>1. CASE PresentLive
        BY <1>1, <1>2, <1>3, <1>6, <2>1
    <2>2. CASE ~PresentLive
        <3>1. PICK n \in Nat : n = IF front = Launcher THEN 0 ELSE frame'
            BY <1>3
        <3>2. n <= Len(memory) /\ m = SubSeq(memory, 1, n)
            <4>1. m = SubSeq(memory, 1, n)
                BY <1>1, <1>2, <2>2, <3>1
            <4>2. frame' <= frame
                BY <1>2, <2>2
            <4>3. n <= Len(memory)
                BY <1>3, <1>6, <3>1, <4>2
            <4>. QED  BY <4>1, <4>3
        <3>3. m \in Seq(Presses) /\ Len(m) = n /\ \A i \in 1 .. n : m[i] = memory[i]
            BY <1>3, <3>2
        <3>4. n = 0 => m = <<>>
            BY <3>3
        <3>. QED  BY <3>1, <3>2, <3>3, <3>4
    <2>. QED  BY <2>1, <2>2
<1>8. AttractTypes'
    BY <1>1, <1>2, <1>3, <1>7 DEF AttractInv, AttractTypes
<1>9. ReadsFit'
    <2>1. frame' = frame' + ToPresent'
        BY <1>3, <1>5
    <2>2. front' # Launcher => Len(memory') = frame' + ToPresent'
        BY <1>1, <1>2, <1>7, <2>1
    <2>3. front' = Launcher => memory' = <<>>
        BY <1>1, <1>2, <1>7
    <2>. QED  BY <1>5, <2>2, <2>3 DEF ReadsFit
<1>10. CaptureFits'
    <2>. SUFFICES ASSUME front # Launcher, ~fed
                  PROVE  d.active /\ \A i \in 1 .. Len(m) : i <= DEMO_FRAMES => d.pads[i - 1] = m[i]
        BY <1>1, <1>2 DEF CaptureFits
    <2>1. cap.active /\ \A i \in 1 .. Len(memory) : i <= DEMO_FRAMES => cap.pads[i - 1] = memory[i]
        BY <1>2, <1>4 DEF AttractInv, CaptureFits
    <2>. QED  BY <1>3, <1>7, <2>1
<1>11. PlaysFit' /\ ArmedFits'
    BY <1>2, <1>4 DEF AttractInv, PlaysFit, ArmedFits, Mine
<1>. QED  BY <1>2, <1>8, <1>9, <1>10, <1>11 DEF AttractInv

\* The launcher starts a game, or arms a demo and starts its game.
LEMMA LaunchStep ==
    ASSUME AttractInv, NEW g \in Games, Choose(g) \/ ArmAttract(g)
    PROVE  AttractInv'
<1>1. PICK b : b = attract'
    OBVIOUS
<1>2. /\ front = Launcher /\ phase = "present" /\ Mine /\ memory = <<>> /\ ~attract.mine
      /\ owner = Launcher
    BY AttractNumbers
        DEF Choose, ArmAttract, Mine, AttractInv, ReadsFit, PlaysFit, ArmedFits
<1>3. /\ UNCHANGED <<owner, frame, memory, fed, cap, demo>>
      /\ front' \in {g, Launcher} /\ front' \in Programs /\ phase' = "present"
      /\ forPlayer' \in BOOLEAN
    BY <1>2 DEF Choose, ArmAttract, Started, AttractInv, AttractTypes, Programs
<1>4. /\ b \in Attracts /\ ~b.mine /\ Len(b.tape) <= DEMO_FRAMES
      /\ b.active => /\ b.game \in Games /\ b.cursor < Len(b.tape)
                     /\ ~b.play => \/ demo[b.game].session = NoSession
                                   \/ demo[b.game].tape = b.tape
    <2>1. CASE Choose(g)
        BY <1>1, <1>2, <2>1 DEF Choose, AttractInv, AttractTypes, ArmedFits
    <2>2. CASE ArmAttract(g)
        <3>1. PICK d : d = demo[g]
            OBVIOUS
        <3>2. d \in Demos /\ d.tape \in Seq(Presses) /\ DemoFits(d)
            BY <3>1 DEF AttractInv, AttractTypes, Demos
        <3>3. b = [active |-> TRUE, play |-> FALSE, mine |-> FALSE, cancel |-> FALSE,
                   cursor |-> 0, game |-> g, tape |-> d.tape] /\ d.tape # <<>>
            BY <1>1, <2>2, <3>1 DEF ArmAttract
        <3>4. b \in Attracts /\ ~b.mine /\ b.cursor = 0 /\ b.game = g /\ b.tape = d.tape
            BY <3>2, <3>3 DEF Attracts
        <3>5. 0 < Len(d.tape)
            BY <3>2, <3>3
        <3>. QED  BY <3>1, <3>2, <3>4, <3>5 DEF DemoFits
    <2>. QED  BY <2>1, <2>2
<1>5. AttractTypes'
    BY <1>1, <1>3, <1>4 DEF AttractInv, AttractTypes
<1>6. Launcher # g
    BY AttractNumbers
<1>7. ReadsFit' /\ CaptureFits' /\ PlaysFit'
    BY <1>1, <1>2, <1>3, <1>4 DEF ReadsFit, CaptureFits, PlaysFit, Mine
<1>8. ArmedFits'
    BY <1>1, <1>2, <1>3, <1>4, AttractNumbers DEF ArmedFits, Mine
<1>. QED  BY <1>3, <1>5, <1>7, <1>8 DEF AttractInv

LEMMA AttractStep == AttractInv /\ [AttractNext]_attractVars => AttractInv'
<1>. SUFFICES ASSUME AttractInv, [AttractNext]_attractVars
              PROVE  AttractInv'
    OBVIOUS
<1>1. CASE FirstPresent
    BY <1>1, FirstPresentStep
<1>2. CASE PresentDemo
    BY <1>2, PresentDemoStep
<1>3. CASE PresentLive \/ \E f \in 0 .. MaxPresents : PresentRewound(f)
    BY <1>3, PresentLiveStep
<1>4. CASE GameEnds
    BY <1>4, GameEndsStep
<1>5. CASE \E pad \in Presses : ReadRecorded(pad) \/ ReadLive(pad)
    BY <1>5, ReadRecordedStep, ReadLiveStep
<1>6. CASE \E g \in Games : Choose(g) \/ ArmAttract(g)
    BY <1>6, LaunchStep
<1>7. CASE UNCHANGED attractVars
    BY <1>7 DEF attractVars, AttractInv, AttractTypes, ReadsFit, CaptureFits, PlaysFit,
                ArmedFits, Mine, ToPresent
<1>. QED  BY <1>1, <1>2, <1>3, <1>4, <1>5, <1>6, <1>7 DEF AttractNext

\* A short enough sequence is one of the model's tapes or sessions.
LEMMA SequencesAreFunctions ==
    ASSUME NEW n \in Nat, NEW s \in Seq(Presses), Len(s) <= n
    PROVE  s \in UNION {[1 .. k -> Presses] : k \in 0 .. n}
<1>1. Len(s) \in 0 .. n /\ s \in [1 .. Len(s) -> Presses]
    OBVIOUS
<1>. QED  BY <1>1

LEMMA AttractIsTyped == AttractInv => AttractTypeOK
<1>. SUFFICES ASSUME AttractInv
              PROVE  AttractTypeOK
    OBVIOUS
<1>1. PICK n \in Nat : n = MaxPresents + DEMO_FRAMES
    BY AttractNumbers
<1>2. Sessions = UNION {[1 .. k -> Presses] : k \in 0 .. n}
    BY <1>1 DEF Sessions
<1>3. memory \in Sessions
    BY <1>1, <1>2, MemoryIsBounded, SequencesAreFunctions
<1>4. attract.tape \in Tapes
    <2>1. attract.tape \in Seq(Presses) /\ Len(attract.tape) <= DEMO_FRAMES
        BY DEF AttractInv, AttractTypes, Attracts
    <2>. QED  BY <2>1, AttractNumbers, SequencesAreFunctions DEF Tapes
<1>5. attract \in [active : BOOLEAN, play : BOOLEAN, mine : BOOLEAN, cancel : BOOLEAN,
                   cursor : Nat, game : Games \cup {NoProgram}, tape : Tapes]
    BY <1>4 DEF AttractInv, AttractTypes, Attracts
<1>6. ASSUME NEW g \in Games
      PROVE  demo[g] \in [tape : Tapes, session : Sessions \cup {NoSession}]
    <2>1. PICK d : d = demo[g]
        OBVIOUS
    <2>2. d \in Demos /\ DemoFits(d)
        BY <2>1 DEF AttractInv, AttractTypes
    <2>3. d.tape \in Tapes
        BY <2>2, AttractNumbers, SequencesAreFunctions DEF Tapes, Demos, DemoFits
    <2>4. d.session \in Sessions \cup {NoSession}
        BY <1>1, <1>2, <2>2, SequencesAreFunctions DEF Demos, DemoFits
    <2>. QED  BY <2>1, <2>2, <2>3, <2>4 DEF Demos
<1>7. demo \in [Games -> [tape : Tapes, session : Sessions \cup {NoSession}]]
    BY <1>6 DEF AttractInv, AttractTypes
<1>. QED  BY <1>3, <1>5, <1>7 DEF AttractInv, AttractTypes, AttractTypeOK, Caps

\* For any games, any length of the recording and any number of frames
\* (rewind.c, launcher.c): however the player rewound, whatever was captured
\* before, and whether games start or fail to, a demo that plays is fed what
\* the session it was recorded from had read.
THEOREM DemoIsTheSession == AttractSpec => [](AttractTypeOK /\ DemoIsExact)
<1>1. AttractInv => DemoIsExact
    <2>. SUFFICES ASSUME AttractInv, DemoPlays, demo[front].session # NoSession,
                         NEW i \in DOMAIN memory \cap DOMAIN demo[front].session
                  PROVE  memory[i] = demo[front].session[i]
        BY DEF DemoIsExact
    <2>1. PICK d : d = demo[front]
        OBVIOUS
    <2>2. attract.mine /\ attract.active
        BY DEF DemoPlays
    <2>3. /\ front = attract.game /\ front \in Games
          /\ Len(memory) = attract.cursor + ToPresent /\ attract.cursor < Len(attract.tape)
          /\ \A j \in 1 .. Len(memory) : memory[j] = attract.tape[j]
          /\ d.tape = attract.tape
        BY <2>1, <2>2 DEF AttractInv, PlaysFit, ArmedFits
    <2>4. d \in Demos /\ DemoFits(d)
        BY <2>1, <2>3 DEF AttractInv, AttractTypes
    <2>5. d.session \in Seq(Presses) /\ d.tape \in Seq(Presses)
        BY <2>1, <2>4 DEF Demos
    <2>6. i \in 1 .. Len(memory) /\ i \in 1 .. Len(d.session)
        BY <2>1, <2>5, MemoryIsBounded
    <2>7. Len(memory) <= Len(d.tape)
        <3>1. attract.cursor \in Nat /\ ToPresent \in {0, 1} /\ Len(attract.tape) \in Nat
            BY <2>3, <2>5 DEF AttractInv, AttractTypes, Attracts, ToPresent
        <3>. QED  BY <2>3, <3>1
    <2>8. i \in 1 .. Len(d.tape) /\ i <= Len(d.session)
        BY <2>5, <2>6, <2>7, MemoryIsBounded
    <2>9. d.tape[i] = d.session[i]
        BY <2>1, <2>4, <2>8 DEF DemoFits
    <2>. QED  BY <2>1, <2>3, <2>6, <2>9
<1>. QED  BY <1>1, AttractStart, AttractStep, AttractIsTyped, PTL DEF AttractSpec
=============================================================================
