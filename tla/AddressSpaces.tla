---------------------------- MODULE AddressSpaces ----------------------------
(***************************************************************************)
(* Physical pages and the address spaces built from them: the page bitmap  *)
(* of pmm.c, the four-level tables of paging.c, where a game shares the    *)
(* kernel's tables until it maps something below them, and loader.c's      *)
(* exec, which fills a new address space page by page with interrupts on.  *)
(* What a game had is never given back.                                    *)
(*                                                                         *)
(* A frame has its page number.  A virtual page is the path of its indices *)
(* through the levels; one index of each level stands for its neighbours.  *)
(***************************************************************************)
EXTENDS Naturals, FiniteSets

CONSTANTS
    Loaders,        \* task slots whose games may be alive together
    Frames,         \* page numbers of the machine, 0 included
    Reserved,       \* pages taken at boot: kernel, bitmap, app window, buffers
    AppPages,       \* PT indices of the app window a segment may touch
    TextPages,      \* those of them whose segments are not writable
    MAX_LOADS       \* pages exec maps for one game's segments, at most

NULL == 0
Indices == {0, 2, 3}

\* paging_init finds the three pages it needs: without them nothing starts.
ASSUME FramesAssumption ==
    /\ IsFiniteSet(Frames) /\ Frames \subseteq Nat
    /\ NULL \in Frames /\ Reserved \subseteq Frames \ {NULL}
    /\ Cardinality(Frames \ (Reserved \cup {NULL})) >= 3
    /\ AppPages \subseteq Indices /\ MAX_LOADS \in Nat

VARIABLES
    used,           \* the bitmap
    table,          \* the frames that are page tables, with what they hold
    kernel_pml4,
    exec,           \* where each slot's task is in exec, its PML4, pages mapped so far
    cr3             \* the PML4 its tasks[i].cr3 names

spaceVars == <<used, table, kernel_pml4, exec, cr3>>

None == [to |-> NULL, present |-> FALSE, ps |-> FALSE, user |-> FALSE, write |-> FALSE]
Entry == [to : Frames, present : BOOLEAN, ps : BOOLEAN, user : BOOLEAN, write : BOOLEAN]
Blank == [i \in Indices |-> None]

\* App window: PDPT 0, PD 2.  Stack: PDPT 2, PD 3.  All below PML4 0.
AppPage(i) == <<0, 0, 2, i>>
StackPage == <<0, 2, 3, 3>>
Pages == {AppPage(i) : i \in AppPages} \cup {StackPage}

\* Table frames and bitmap at one moment, while an operation runs.
Memory == [used |-> used, table |-> table]
Become(m) == used' = m.used /\ table' = m.table

SpaceTypeOK ==
    /\ used \subseteq Frames
    /\ DOMAIN table \subseteq used \ {NULL}
    /\ \A f \in DOMAIN table : table[f] \in [Indices -> Entry]
    /\ kernel_pml4 \in Frames
    /\ exec \in [Loaders -> [at : {"none", "mapping", "ring3"}, pml4 : Frames,
                             loads : 0 .. MAX_LOADS]]
    /\ cr3 \in [Loaders -> Frames]
-----------------------------------------------------------------------------
\* First fit; 0 when memory has run out.
pmm_alloc_page(m) ==
    IF m.used = Frames THEN NULL
    ELSE CHOOSE f \in Frames \ m.used : \A g \in Frames \ m.used : f <= g

Taking(m, f) == [m EXCEPT !.used = @ \cup {f}]

\* The new table is NULL, and nothing changes, when memory has run out.
alloc_table(m) ==
    LET f == pmm_alloc_page(m) IN
    IF f = NULL THEN [m |-> m, t |-> NULL]
    ELSE [m |-> [used |-> m.used \cup {f},
                 table |-> [g \in DOMAIN m.table \cup {f} |->
                                IF g = f THEN Blank ELSE m.table[g]]],
          t |-> f]

Link(t, user) == [to |-> t, present |-> TRUE, ps |-> FALSE, user |-> user, write |-> TRUE]

\* A fresh table holding `content`, linked into t[i] for ring 3.
Fresh(m, t, i, content) ==
    LET n == alloc_table(m) IN
    IF n.t = NULL THEN n
    ELSE LET linked == [n.m.table EXCEPT ![n.t] = content, ![t][i] = Link(n.t, TRUE)]
         IN  [m |-> [n.m EXCEPT !.table = linked], t |-> n.t]

\* The entry still points at the kernel's own table.
Shared(m, t, i, kt) ==
    /\ kt # NULL
    /\ m.table[kt][i].present
    /\ m.table[kt][i].to = m.table[t][i].to

\* Mutant: the kernel's own table is opened to ring 3.
user_next_level_NoCopy(m, t, i, kt) ==
    IF ~m.table[t][i].present THEN Fresh(m, t, i, Blank)
    ELSE [m |-> [m EXCEPT !.table[t][i].user = TRUE], t |-> m.table[t][i].to]

user_next_level(m, t, i, kt) ==
    IF ~m.table[t][i].present THEN Fresh(m, t, i, Blank)
    ELSE IF Shared(m, t, i, kt) THEN Fresh(m, t, i, m.table[m.table[kt][i].to])
    ELSE [m |-> m, t |-> m.table[t][i].to]

\* A kernel entry at this level is a 2 MiB page of the identity map: the
\* game's table hides it.
PageTable(m, pd, i) ==
    IF ~m.table[pd][i].present \/ m.table[pd][i].ps THEN Fresh(m, pd, i, Blank)
    ELSE [m |-> m, t |-> m.table[pd][i].to]

KernelNext(m, kt, i) ==
    IF kt = NULL \/ ~m.table[kt][i].present THEN NULL ELSE m.table[kt][i].to

\* Gives up silently, keeping the tables made so far, when one cannot be had.
paging_map_page_to(m, pml4, v, frame, write) ==
    LET kpdpt == KernelNext(m, kernel_pml4, v[1])
        pdpt == user_next_level(m, pml4, v[1], kernel_pml4)
        pd == IF pdpt.t = NULL THEN pdpt ELSE user_next_level(pdpt.m, pdpt.t, v[2], kpdpt)
        pt == IF pd.t = NULL THEN pd ELSE PageTable(pd.m, pd.t, v[3])
    IN  IF pt.t = NULL THEN pt.m
        ELSE [pt.m EXCEPT !.table[pt.t][v[4]] =
                [to |-> frame, present |-> TRUE, ps |-> FALSE, user |-> TRUE, write |-> write]]

\* alloc_page, map, clear, copy.  The 0 of a failed allocation is not checked.
MapPage(pml4, v, write) ==
    LET f == pmm_alloc_page(Memory)
        m == IF f = NULL THEN Memory ELSE Taking(Memory, f)
    IN  Become(paging_map_page_to(m, pml4, v, f, write))
-----------------------------------------------------------------------------
\* pmm_init marks page 0 and what boot takes; paging_init takes the next
\* three pages for the kernel's tables and maps RAM with 2 MiB pages.
pmm_init == [used |-> Reserved \cup {NULL}, table |-> [f \in {} |-> Blank]]

KernelTables ==
    LET pml4 == alloc_table(pmm_init)
        pdpt == alloc_table(pml4.m)
        pd == alloc_table(pdpt.m)
        ram == [i \in Indices |-> [Link(NULL, FALSE) EXCEPT !.ps = TRUE]]
        filled == [pd.m.table EXCEPT ![pml4.t][0] = Link(pdpt.t, FALSE),
                                     ![pdpt.t][0] = Link(pd.t, FALSE),
                                     ![pd.t] = ram]
    IN  [m |-> [pd.m EXCEPT !.table = filled], pml4 |-> pml4.t]

SpaceInit ==
    /\ used = KernelTables.m.used
    /\ table = KernelTables.m.table
    /\ kernel_pml4 = KernelTables.pml4
    /\ exec = [l \in Loaders |-> [at |-> "none", pml4 |-> NULL, loads |-> 0]]
    /\ cr3 = [l \in Loaders |-> kernel_pml4]

\* exec switches to the kernel's tables and clones them; without memory it
\* returns -3 and the task dies.
BeginExec(l) ==
    /\ exec[l].at = "none"
    /\ cr3' = [cr3 EXCEPT ![l] = kernel_pml4]
    /\ LET new == alloc_table(Memory) IN
       IF new.t = NULL
       THEN UNCHANGED <<used, table, exec>>
       ELSE /\ Become([new.m EXCEPT !.table[new.t] = table[kernel_pml4]])
            /\ exec' = [exec EXCEPT ![l] = [at |-> "mapping", pml4 |-> new.t, loads |-> 0]]
    /\ UNCHANGED kernel_pml4

\* One page of one PT_LOAD segment; segments may share a page.
LoadPage(l) ==
    /\ exec[l].at = "mapping"
    /\ exec[l].loads < MAX_LOADS
    /\ exec' = [exec EXCEPT ![l].loads = @ + 1]
    /\ \E i \in AppPages : MapPage(exec[l].pml4, AppPage(i), i \notin TextPages)
    /\ UNCHANGED <<kernel_pml4, cr3>>

\* The stack, and then ring 3.
EnterUserMode(l) ==
    /\ exec[l].at = "mapping"
    /\ exec[l].loads > 0
    /\ MapPage(exec[l].pml4, StackPage, TRUE)
    /\ exec' = [exec EXCEPT ![l].at = "ring3"]
    /\ cr3' = [cr3 EXCEPT ![l] = exec[l].pml4]
    /\ UNCHANGED kernel_pml4

\* A segment outside the app window: -2, half the pages mapped.
RefuseSegment(l) ==
    /\ exec[l].at = "mapping"
    /\ exec' = [exec EXCEPT ![l].at = "none"]
    /\ UNCHANGED <<used, table, kernel_pml4, cr3>>

\* The game is over; its slot is free for the next one, its pages are not.
EndGame(l) ==
    /\ exec[l].at = "ring3"
    /\ exec' = [exec EXCEPT ![l].at = "none"]
    /\ UNCHANGED <<used, table, kernel_pml4, cr3>>

SpaceNext ==
    \E l \in Loaders :
        BeginExec(l) \/ LoadPage(l) \/ EnterUserMode(l) \/ RefuseSegment(l) \/ EndGame(l)

SpaceSpec == SpaceInit /\ [][SpaceNext]_spaceVars
-----------------------------------------------------------------------------
\* What ring 3 reaches, level by level, as the MMU and the syscalls'
\* pointer checks see it: PRESENT and USER on the whole way down.
Granted(e) == e.present /\ e.user

user_walk_leaf(pml4, v) ==
    LET Down(e, i) == IF Granted(e) /\ ~e.ps THEN table[e.to][i] ELSE e
        leaf == Down(Down(Down(table[pml4][v[1]], v[2]), v[3]), v[4])
    IN  IF Granted(leaf) THEN leaf ELSE None

paging_user_access_ok(pml4, v, write) ==
    LET leaf == user_walk_leaf(pml4, v) IN leaf.present /\ (write => leaf.write)

UserFrames(pml4) ==
    LET open == {i \in Indices : Granted(table[pml4][i])}
        pages == {v \in open \X Indices \X Indices \X Indices :
                    paging_user_access_ok(pml4, v, FALSE)}
    IN  {user_walk_leaf(pml4, v).to : v \in pages}

Live == {l \in Loaders : exec[l].at # "none"}

\* Whatever games are started, loaded half way, killed and started again, and
\* however much memory is left: a game reaches no page table, no page of the
\* kernel and no page of another game, and the kernel's own tables stay
\* closed to ring 3.  Page 0 is what exec maps once memory has run out, and
\* not before.
SpacesAreDisjoint ==
    /\ UserFrames(kernel_pml4) = {}
    /\ \A l \in Live :
        LET mine == UserFrames(exec[l].pml4) IN
        /\ mine \cap (Reserved \cup DOMAIN table) = {}
        /\ NULL \in mine => used = Frames
        /\ \A k \in Live \ {l} : mine \cap UserFrames(exec[k].pml4) \subseteq {NULL}
=============================================================================
