---------------------------- MODULE TasksProofs ----------------------------
(***************************************************************************)
(* Safety of the process lifecycle for every table size, every number of   *)
(* launches and every amount of memory.                                    *)
(*                                                                         *)
(* None of the properties is inductive alone.  The invariant that carries  *)
(* them says what the table looks like: kernel loop, idle, launcher and at *)
(* most one more slot, which is reused for every game because the launcher *)
(* spawns only when the game in it is dead.                                *)
(***************************************************************************)
EXTENDS Tasks, TLAPS

GameSlot == 3

\* The table: who lives where, and which ids they carry.
Layout ==
    /\ numTasks \in {3, 4}
    /\ current \in Used
    /\ nextId >= 3
    /\ prog[0] = "kernel" /\ prog[1] = "kernel"
    /\ prog[2] = "launcher"
    /\ id[0] = 0 /\ id[1] = 1 /\ id[2] = 2
    /\ numTasks = 4 =>
        prog[3] = "game" /\ id[3] >= 3 /\ id[3] < nextId

\* Where each context can be, and what that says of its state.
Positions ==
    /\ phase[0] = "kernel" /\ phase[1] = "idle"
    /\ state[0] \in Runnable /\ state[1] \in Runnable
    /\ phase[2] \in {"exec", "mapping", "user", "spawned", "waiting",
                     "dying", "gone"}
    /\ numTasks = 4 =>
        phase[3] \in {"exec", "mapping", "user", "menu", "dying", "gone"}
    /\ \A t \in Used : (phase[t] \in {"dying", "gone"}) <=> (state[t] = "DEAD")
    /\ \A t \in Used : state[t] = "BLOCKED" => phase[t] = "waiting"

\* The launcher's side: outside spawn/wait no game lives; inside, it holds
\* the pid of the game in slot 3; woken, that game is dead.
Pact ==
    /\ phase[2] \in {"exec", "mapping", "user"} =>
        numTasks = 3 \/ state[3] = "DEAD"
    /\ phase[2] \in {"spawned", "waiting"} =>
        numTasks = 4 /\ child[2] = id[3]
    /\ state[2] = "BLOCKED" => waitPid[2] = child[2]
    /\ phase[2] = "waiting" /\ state[2] # "BLOCKED" => state[3] = "DEAD"

Stacks ==
    /\ \A t \in Used \ {0} : stack[t]
    /\ numTasks = 3 => ~ stack[3]
    /\ heapUsed = numTasks - 1

Spaces ==
    /\ mmu = aspace[current]
    /\ \A t \in Used : phase[t] = "mapping" => aspace[t] = 0
    /\ \A t \in Used :
        phase[t] \in {"user", "spawned", "menu", "waiting"} =>
            aspace[t] = id[t]

IInv ==
    /\ TypeOK
    /\ Layout
    /\ Positions
    /\ CpuRunsRunningTask
    /\ Pact
    /\ Stacks
    /\ Spaces

-----------------------------------------------------------------------------
(***************************************************************************)
(* What schedule() does to the table, told apart from how it picks.        *)
(***************************************************************************)
LEMMA ScheduleEffect ==
    ASSUME NEW STATE st, st \in [Slots -> States],
           numTasks \in {3, 4}, current \in Used,
           st[1] \in Runnable, st[current] # "READY",
           \A t \in Used : st[t] = "RUNNING" => t = current,
           mmu = aspace[current],
           Schedule(st)
    PROVE  /\ current' \in Used
           /\ state' \in [Slots -> States]
           /\ state'[current'] = "RUNNING"
           /\ \A t \in Used : state'[t] = "RUNNING" => t = current'
           /\ \A t \in Slots : st[t] \notin Runnable => state'[t] = st[t]
           /\ \A t \in Slots : st[t] \in Runnable => state'[t] \in Runnable
           /\ mmu' = aspace[current']
<1>1. 1 \in Used /\ Used \subseteq Slots
    BY MaxTasksAssumption DEF Used, Slots
<1>2. PICK s \in Used :
        /\ IsNext(st, s)
        /\ state' = Dispatch(st, s)
        /\ current' = s
        /\ mmu' = IF s = current THEN mmu ELSE aspace[s]
    BY DEF Schedule
<1>3. st[s] \in Runnable
    <2>1. 1 \in {t \in Used : st[t] \in Runnable}
        BY <1>1
    <2>. QED  BY <1>2, <2>1 DEF IsNext
<1>4. CASE s = current
    <2>1. state' = st
        BY <1>2, <1>4 DEF Dispatch
    <2>. QED  BY <1>2, <1>3, <1>4, <2>1 DEF Runnable
<1>5. CASE s # current
    <2>1. state' = [t \in Slots |->
                      IF t = s THEN "RUNNING"
                      ELSE IF t = current /\ st[t] = "RUNNING" THEN "READY"
                      ELSE st[t]]
        BY <1>2, <1>5 DEF Dispatch
    <2>2. \A t \in Slots :
            state'[t] = IF t = s THEN "RUNNING"
                        ELSE IF t = current /\ st[t] = "RUNNING" THEN "READY"
                        ELSE st[t]
        BY <2>1
    <2>3. state' \in [Slots -> States]
        BY <2>1, <2>2 DEF States
    <2>. QED  BY <1>1, <1>2, <1>3, <1>5, <2>2, <2>3 DEF Runnable
<1>. QED  BY <1>4, <1>5

-----------------------------------------------------------------------------
(***************************************************************************)
(* The invariant holds initially and every action keeps it.                *)
(***************************************************************************)
LEMMA UsedSlots ==
    ASSUME numTasks \in {3, 4}
    PROVE  /\ Used \subseteq Slots
           /\ 0 \in Used /\ 1 \in Used /\ 2 \in Used
           /\ numTasks = 3 => Used = {0, 1, 2}
           /\ numTasks = 4 => Used = {0, 1, 2, 3}
           /\ {0, 1, 2, 3} \subseteq Slots
BY MaxTasksAssumption DEF Used, Slots

LEMMA InitIInv == Init => IInv
<1>. SUFFICES ASSUME Init PROVE IInv
    OBVIOUS
<1>. USE DEF Init, Boot, KernelSlot, IdleSlot, LauncherSlot, KernelSpace
<1>1. numTasks = 3 /\ Used = {0, 1, 2} /\ {0, 1, 2, 3} \subseteq Slots
    BY UsedSlots
<1>2. TypeOK
    BY <1>1, MaxTasksAssumption, BudgetAssumption
    DEF TypeOK, States, Phases, Progs, Slots
<1>3. Layout
    BY <1>1 DEF Layout
<1>4. Positions /\ CpuRunsRunningTask
    BY <1>1 DEF Positions, CpuRunsRunningTask, Runnable
<1>5. Pact /\ Stacks /\ Spaces
    BY <1>1 DEF Pact, Stacks, Spaces
<1>. QED  BY <1>2, <1>3, <1>4, <1>5 DEF IInv

\* A context switch from a context that is not waiting.
LEMMA SwitchIInv == IInv /\ (Tick \/ Yield) => IInv'
<1>. SUFFICES ASSUME IInv, Tick \/ Yield PROVE IInv'
    OBVIOUS
<1>. USE DEF IInv
<1>1. /\ phase[current] # "waiting"
      /\ Schedule(state)
      /\ UNCHANGED <<numTasks, nextId, heapUsed, framesFree, onFrame0, id,
                     waitPid, stack, aspace, prog, phase, child>>
    BY DEF Tick, Yield, memory
<1>2. /\ Used \subseteq Slots /\ Used' = Used
      /\ 0 \in Used /\ 1 \in Used /\ 2 \in Used
      /\ numTasks = 4 => 3 \in Used
    BY <1>1, UsedSlots DEF Layout, Used
<1>3. /\ current' \in Used
      /\ state' \in [Slots -> States]
      /\ state'[current'] = "RUNNING"
      /\ \A t \in Used : state'[t] = "RUNNING" => t = current'
      /\ \A t \in Slots : state[t] \notin Runnable => state'[t] = state[t]
      /\ \A t \in Slots : state[t] \in Runnable => state'[t] \in Runnable
      /\ mmu' = aspace[current']
    <2>1. state[current] # "READY"
        BY <1>2 DEF Layout, Positions, CpuRunsRunningTask
    <2>2. state \in [Slots -> States] /\ state[1] \in Runnable
        BY DEF TypeOK, Positions
    <2>. QED
        BY ONLY <1>1, <2>1, <2>2, ScheduleEffect, IInv
        DEF IInv, Layout, CpuRunsRunningTask, Spaces
<1>4. TypeOK'
    BY <1>1, <1>2, <1>3 DEF TypeOK
<1>5. Layout'
    BY <1>1, <1>2, <1>3 DEF Layout
<1>6. Positions'
    BY <1>1, <1>2, <1>3 DEF Positions, TypeOK, Runnable, States
<1>7. CpuRunsRunningTask'
    BY <1>1, <1>2, <1>3 DEF CpuRunsRunningTask
<1>8. Pact'
    BY <1>1, <1>2, <1>3 DEF Pact, TypeOK, Layout, Runnable, States
<1>9. Stacks' /\ Spaces'
    BY <1>1, <1>2, <1>3 DEF Stacks, Spaces, TypeOK
<1>. QED  BY <1>4, <1>5, <1>6, <1>7, <1>8, <1>9

\* SYS_SPAWN: slot 3 is new, or holds a game that is dead.
LEMMA SpawnIInv == ASSUME NEW self \in Slots, IInv, Spawn(self) PROVE IInv'
<1>. USE DEF IInv
<1>1. /\ self = 2 /\ current = 2 /\ phase[2] = "user"
      /\ state[2] = "RUNNING" /\ state[1] # "DEAD"
      /\ Used \subseteq Slots /\ {0, 1, 2, 3} \subseteq Slots
      /\ numTasks = 3 => Used = {0, 1, 2}
      /\ numTasks = 4 => Used = {0, 1, 2, 3}
    <2>1. self \in Used /\ prog[self] = "launcher"
        BY DEF Spawn, Layout
    <2>2. self = 2
        BY <2>1, UsedSlots DEF Layout
    <2>. QED
        BY <2>2, UsedSlots DEF Spawn, Layout, CpuRunsRunningTask, Positions, Runnable
<1>2. PICK s \in Slots, ok \in BOOLEAN :
        /\ CreateThread(s, ok)
        /\ phase' = [phase EXCEPT ![s] = "exec",
                                  ![self] = IF ok THEN "spawned" ELSE "user"]
        /\ child' = [child EXCEPT ![s] = 0,
                                  ![self] = IF ok THEN nextId ELSE child[self]]
    BY DEF Spawn
<1>3. /\ s = 3
      /\ numTasks = 3 \/ state[3] = "DEAD"
    <2>1. CASE numTasks = 3
        BY <2>1, <1>1, <1>2 DEF CreateThread, ClaimSlot, DeadSlots
    <2>2. CASE numTasks = 4
        <3>1. state[3] = "DEAD"
            BY <1>1, <2>2 DEF Pact
        <3>2. DeadSlots = {3}
            BY <3>1, <2>2, <1>1 DEF DeadSlots
        <3>. QED  BY <3>1, <3>2, <1>2 DEF CreateThread, ClaimSlot
    <2>. QED  BY <2>1, <2>2 DEF Layout
<1>4. /\ HeapAfterRecycle(3) = 2 /\ ok = TRUE
      /\ numTasks' = 4 /\ nextId' = nextId + 1 /\ heapUsed' = 3
    <2>1. HeapAfterRecycle(3) = 2
        BY <1>1, <1>3 DEF HeapAfterRecycle, Stacks, Layout
    <2>2. 2 < HeapStacks
        BY BudgetAssumption
    <2>3. ok = (2 < HeapStacks)
        BY <2>1, <1>2, <1>3 DEF CreateThread
    <2>4. ok = TRUE
        BY <2>2, <2>3
    <2>5. /\ numTasks' = IF 3 = numTasks THEN numTasks + 1 ELSE numTasks
          /\ nextId' = nextId + 1
          /\ heapUsed' = 2 + 1
        BY <2>1, <2>4, <1>2, <1>3 DEF CreateThread
    <2>. QED  BY <2>1, <2>4, <2>5 DEF Layout
<1>5. /\ state' = [state EXCEPT ![3] = "READY"]
      /\ id' = [id EXCEPT ![3] = nextId]
      /\ waitPid' = [waitPid EXCEPT ![3] = 0]
      /\ stack' = [stack EXCEPT ![3] = TRUE]
      /\ aspace' = [aspace EXCEPT ![3] = mmu]
      /\ prog' = [prog EXCEPT ![3] = "game"]
      /\ onFrame0' = [onFrame0 EXCEPT ![3] = FALSE]
      /\ phase' = [phase EXCEPT ![3] = "exec", ![2] = "spawned"]
      /\ child' = [child EXCEPT ![3] = 0, ![2] = nextId]
      /\ UNCHANGED <<current, mmu, framesFree>>
    BY <1>1, <1>2, <1>3, <1>4 DEF CreateThread, Spawn
<1>6. Used' = {0, 1, 2, 3}
    BY <1>4 DEF Used
<1>7. TypeOK'
    BY <1>1, <1>4, <1>5, MaxTasksAssumption DEF TypeOK, States, Progs, Phases, Layout
<1>8. Layout'
    BY <1>1, <1>4, <1>5, <1>6 DEF Layout, TypeOK
<1>9. Positions' /\ CpuRunsRunningTask'
    BY <1>1, <1>3, <1>4, <1>5, <1>6
    DEF Positions, CpuRunsRunningTask, TypeOK, Runnable, Layout
<1>10. Pact' /\ Stacks' /\ Spaces'
    BY <1>1, <1>4, <1>5, <1>6 DEF Pact, Stacks, Spaces, TypeOK, Layout
<1>. QED  BY <1>7, <1>8, <1>9, <1>10

\* SYS_WAIT: the launcher blocks on the pid of slot 3.
LEMMA WaitIInv == ASSUME NEW self \in Slots, IInv, Wait(self) PROVE IInv'
<1>. USE DEF IInv
<1>. DEFINE st == [state EXCEPT ![self] = "BLOCKED"]
<1>1. /\ self = 2 /\ current = 2 /\ numTasks = 4
      /\ phase[2] = "spawned" /\ child[2] = id[3]
      /\ Used = {0, 1, 2, 3} /\ Used \subseteq Slots /\ Used' = Used
      /\ UNCHANGED <<numTasks, nextId, heapUsed, framesFree, onFrame0, id,
                     stack, aspace, prog, child>>
      /\ waitPid' = [waitPid EXCEPT ![2] = child[2]]
      /\ phase' = [phase EXCEPT ![2] = "waiting"]
      /\ Schedule(st)
    <2>1. self \in Used /\ phase[self] = "spawned"
        BY DEF Wait, Layout
    <2>2. self = 2
        BY <2>1, UsedSlots DEF Layout, Positions
    <2>. QED
        BY <2>1, <2>2, UsedSlots DEF Wait, memory, Pact, Used, Layout
<1>2. /\ st \in [Slots -> States] /\ st[1] \in Runnable /\ st[2] = "BLOCKED"
      /\ \A t \in Slots : t # 2 => st[t] = state[t]
    BY <1>1 DEF TypeOK, Positions, States
<1>3. /\ current' \in Used
      /\ state' \in [Slots -> States]
      /\ state'[current'] = "RUNNING"
      /\ \A t \in Used : state'[t] = "RUNNING" => t = current'
      /\ \A t \in Slots : st[t] \notin Runnable => state'[t] = st[t]
      /\ \A t \in Slots : st[t] \in Runnable => state'[t] \in Runnable
      /\ mmu' = aspace[current']
    <2>1. \A t \in Used : st[t] = "RUNNING" => t = current
        BY <1>1, <1>2 DEF CpuRunsRunningTask
    <2>2. numTasks \in {3, 4} /\ current \in Used /\ mmu = aspace[current]
        BY DEF Layout, Spaces
    <2>3. st[current] # "READY"
        BY <1>1, <1>2
    <2>4. Schedule(st)
        BY <1>1
    <2>. HIDE DEF st
    <2>. QED  BY ONLY <1>2, <2>1, <2>2, <2>3, <2>4, ScheduleEffect
<1>. HIDE DEF st
<1>4. TypeOK'
    BY <1>1, <1>2, <1>3 DEF TypeOK, Phases
<1>5. Layout'
    BY <1>1, <1>3 DEF Layout
<1>6. Positions' /\ CpuRunsRunningTask'
    BY <1>1, <1>2, <1>3
    DEF Positions, CpuRunsRunningTask, TypeOK, Runnable, States
<1>7. Pact'
    BY <1>1, <1>2, <1>3 DEF Pact, TypeOK, Runnable
<1>8. Stacks' /\ Spaces'
    <2>1. aspace[2] = id[2]
        BY <1>1 DEF Spaces
    <2>. QED  BY <2>1, <1>1, <1>3 DEF Stacks, Spaces, TypeOK
<1>. QED  BY <1>4, <1>5, <1>6, <1>7, <1>8

\* The steps that move one context forward and leave the table alone, but
\* for its address space.
LEMMA AdvanceIInv ==
    ASSUME NEW self \in Slots, IInv,
           \/ WaitReturn(self) \/ ExecOpen(self) \/ ExecEnter(self)
           \/ MenuOpen(self) \/ MenuResume(self)
    PROVE  IInv'
<1>. USE DEF IInv
<1>1. /\ self \in Used /\ self = current /\ Used \subseteq Slots /\ Used' = Used
      /\ numTasks = 3 => Used = {0, 1, 2}
      /\ numTasks = 4 => Used = {0, 1, 2, 3}
      /\ UNCHANGED <<numTasks, nextId, current, heapUsed, state, id, waitPid,
                     stack, prog, child>>
    BY UsedSlots DEF WaitReturn, ExecOpen, ExecEnter, MenuOpen, MenuResume,
                     Layout, Used, memory
<1>2. \E p \in Phases :
        /\ phase' = [phase EXCEPT ![self] = p]
        /\ \/ phase[self] = "waiting" /\ p = "user"
           \/ phase[self] = "exec" /\ p = "mapping"
           \/ phase[self] = "mapping" /\ p = "user"
           \/ prog[self] = "game" /\ phase[self] = "user" /\ p = "menu"
           \/ phase[self] = "menu" /\ p = "user"
        /\ \/ UNCHANGED <<mmu, aspace>> /\ phase[self] \notin {"exec", "mapping"}
           \/ /\ p = "mapping" /\ mmu' = 0
              /\ aspace' = [aspace EXCEPT ![self] = 0]
           \/ /\ p = "user" /\ mmu' = id[self]
              /\ aspace' = [aspace EXCEPT ![self] = id[self]]
    BY DEF WaitReturn, ExecOpen, ExecEnter, MenuOpen, MenuResume, Phases,
           KernelSpace
<1>3. framesFree' \in Nat /\ onFrame0' \in [Slots -> BOOLEAN]
    <2>1. CASE UNCHANGED memory
        BY <2>1 DEF memory, TypeOK
    <2>2. CASE ExecEnter(self)
        <3>1. framesFree' = TakeFrames(1 + AppFrames)
            BY <2>2 DEF ExecEnter
        <3>2. TakeFrames(1 + AppFrames) \in Nat
            BY BudgetAssumption DEF TakeFrames, TypeOK
        <3>3. onFrame0' = [onFrame0 EXCEPT ![self] = framesFree < 1 + AppFrames]
            BY <2>2 DEF ExecEnter
        <3>. QED
            <4>1. (framesFree < 1 + AppFrames) \in BOOLEAN
                OBVIOUS
            <4>. HIDE DEF TakeFrames
            <4>. QED  BY <3>1, <3>2, <3>3, <4>1, Zenon DEF TypeOK
    <2>. QED
        BY <2>1, <2>2 DEF WaitReturn, ExecOpen, MenuOpen, MenuResume
<1>4. TypeOK'
    <2>1. id[self] \in Nat /\ mmu' \in Nat /\ aspace' \in [Slots -> Nat]
        BY <1>1, <1>2 DEF TypeOK
    <2>2. phase' \in [Slots -> Phases]
        BY <1>2 DEF TypeOK
    <2>. QED  BY <1>1, <1>3, <2>1, <2>2 DEF TypeOK
<1>5. Layout'
    BY <1>1 DEF Layout
<1>6. state[self] = "RUNNING"
    BY <1>1, <1>2 DEF CpuRunsRunningTask
<1>7. Positions'
    BY <1>1, <1>2, <1>6 DEF Positions, TypeOK, Layout
<1>8. CpuRunsRunningTask'
    BY <1>1, <1>2, <1>6 DEF CpuRunsRunningTask, TypeOK
<1>9. Pact'
    BY <1>1, <1>2, <1>6 DEF Pact, TypeOK, Positions, Layout
<1>10. Stacks' /\ Spaces'
    BY <1>1, <1>2 DEF Stacks, Spaces, TypeOK
<1>. QED  BY <1>4, <1>5, <1>7, <1>8, <1>9, <1>10

\* The first statement of a death path that runs with interrupts on.
LEMMA MarkDeadIInv ==
    ASSUME NEW self \in Slots, IInv,
           ExecFailOpen(self) \/ ExecFailMap(self) \/ MenuQuit(self)
    PROVE  IInv'
<1>. USE DEF IInv
<1>1. /\ self = current /\ self \in Used
      /\ phase[self] \in {"exec", "mapping", "menu"}
      /\ state' = [state EXCEPT ![self] = "DEAD"]
      /\ phase' = [phase EXCEPT ![self] = "dying"]
      /\ UNCHANGED <<numTasks, nextId, current, mmu, id, waitPid, stack,
                     aspace, prog, child, heapUsed, onFrame0>>
    BY DEF ExecFailOpen, ExecFailMap, MenuQuit, MarkDead, memory, Layout
<1>2. /\ Used \subseteq Slots /\ Used' = Used
      /\ numTasks = 3 => Used = {0, 1, 2}
      /\ numTasks = 4 => Used = {0, 1, 2, 3}
    BY <1>1, UsedSlots DEF Layout, Used
<1>3. framesFree' \in Nat
    <2>1. CASE ExecFailMap(self)
        BY <2>1, BudgetAssumption DEF ExecFailMap, TakeFrames, TypeOK
    <2>. QED  BY <2>1 DEF ExecFailOpen, MenuQuit, memory, TypeOK
<1>4. self \in {2, 3}
    BY <1>1, <1>2 DEF Positions, Layout
<1>5. TypeOK'
    BY <1>1, <1>3 DEF TypeOK, States, Phases
<1>6. Layout'
    BY <1>1, <1>2 DEF Layout
<1>7. Positions' /\ CpuRunsRunningTask'
    BY <1>1, <1>2, <1>4 DEF Positions, CpuRunsRunningTask, TypeOK, Layout
<1>8. Pact'
    BY <1>1, <1>2, <1>4 DEF Pact, TypeOK, Layout
<1>9. Stacks' /\ Spaces'
    BY <1>1, <1>2 DEF Stacks, Spaces, TypeOK
<1>. QED  BY <1>5, <1>6, <1>7, <1>8, <1>9

\* Waiters woken, the dead task switched away from for good.
LEMMA BuryIInv ==
    ASSUME NEW self \in Slots, IInv, Exit(self) \/ FinishDying(self)
    PROVE  IInv'
<1>. USE DEF IInv
<1>1. /\ self = current /\ self \in Used
      /\ phase[self] \in {"user", "spawned", "dying"}
      /\ WakeWaiters(self)
      /\ phase' = [phase EXCEPT ![self] = "gone"]
      /\ Schedule(Buried(self))
      /\ UNCHANGED <<numTasks, nextId, id, stack, aspace, prog, child,
                     heapUsed, framesFree, onFrame0>>
    BY DEF Exit, FinishDying, memory, Layout
<1>2. /\ Used \subseteq Slots /\ Used' = Used
      /\ numTasks = 3 => Used = {0, 1, 2}
      /\ numTasks = 4 => Used = {0, 1, 2, 3}
    BY <1>1, UsedSlots DEF Layout, Used
<1>3. self \in {2, 3} /\ state[self] # "BLOCKED"
    BY <1>1, <1>2 DEF Positions, Layout
<1>4. /\ Buried(self) \in [Slots -> States]
      /\ Buried(self)[self] = "DEAD"
      /\ \A t \in Slots : t # self /\ t \in Waiters(self) =>
            Buried(self)[t] = "READY"
      /\ \A t \in Slots : t # self /\ t \notin Waiters(self) =>
            Buried(self)[t] = state[t]
    BY DEF Buried, TypeOK, States
<1>5. Waiters(self) \subseteq {2}
    BY <1>2 DEF Waiters, Positions, Runnable, Layout
<1>6. /\ current' \in Used
      /\ state' \in [Slots -> States]
      /\ state'[current'] = "RUNNING"
      /\ \A t \in Used : state'[t] = "RUNNING" => t = current'
      /\ \A t \in Slots :
            Buried(self)[t] \notin Runnable => state'[t] = Buried(self)[t]
      /\ \A t \in Slots :
            Buried(self)[t] \in Runnable => state'[t] \in Runnable
      /\ mmu' = aspace[current']
    <2>1. numTasks \in {3, 4} /\ current \in Used /\ mmu = aspace[current]
        BY DEF Layout, Spaces
    <2>2. Buried(self)[1] \in Runnable
        BY <1>2, <1>3, <1>4, <1>5, UsedSlots DEF Layout, Positions
    <2>3. Buried(self)[current] # "READY"
        BY <1>1, <1>4
    <2>4. \A t \in Used : Buried(self)[t] = "RUNNING" => t = current
        BY <1>1, <1>2, <1>4 DEF CpuRunsRunningTask
    <2>. QED
        BY ONLY <1>1, <1>4, <2>1, <2>2, <2>3, <2>4, ScheduleEffect
<1>7. /\ waitPid' \in [Slots -> Nat]
      /\ 2 \notin Waiters(self) => waitPid'[2] = waitPid[2]
    BY UsedSlots DEF WakeWaiters, TypeOK, Layout, Exit, FinishDying
<1>8. TypeOK'
    BY <1>1, <1>2, <1>6, <1>7 DEF TypeOK, Phases
<1>9. Layout'
    BY <1>1, <1>2, <1>6 DEF Layout
<1>10. 2 \in Waiters(self) => phase[2] = "waiting" /\ state[2] = "BLOCKED"
    BY DEF Waiters, Positions
<1>11. Positions' /\ CpuRunsRunningTask'
    <2>1. \A t \in Used : (phase'[t] \in {"dying", "gone"}) <=> (state'[t] = "DEAD")
        BY <1>1, <1>2, <1>3, <1>4, <1>5, <1>6, <1>10
        DEF Positions, TypeOK, Runnable, States
    <2>2. \A t \in Used : state'[t] = "BLOCKED" => phase'[t] = "waiting"
        BY <1>1, <1>2, <1>3, <1>4, <1>5, <1>6, <1>10
        DEF Positions, TypeOK, Runnable, States
    <2>3. state'[0] \in Runnable /\ state'[1] \in Runnable
        BY <1>2, <1>3, <1>4, <1>5, <1>6, UsedSlots DEF Positions, Layout
    <2>4. CpuRunsRunningTask'
        BY <1>2, <1>6 DEF CpuRunsRunningTask
    <2>. QED
        BY <1>1, <1>2, <1>3, <2>1, <2>2, <2>3, <2>4 DEF Positions, TypeOK
<1>12. Pact'
    <2>1. CASE self = 2
        BY <2>1, <1>1, <1>2, <1>4, <1>6, UsedSlots
        DEF Pact, TypeOK, Layout, Runnable
    <2>2. CASE self = 3
        <3>1. numTasks = 4 /\ state'[3] = "DEAD" /\ phase'[2] = phase[2]
            BY <2>2, <1>1, <1>2, <1>4, <1>6, UsedSlots
            DEF Layout, Runnable, TypeOK
        <3>2. state'[2] = "BLOCKED" => waitPid'[2] = child[2]
            BY <2>2, <1>1, <1>2, <1>4, <1>6, <1>7, UsedSlots
            DEF Pact, Layout, Runnable, States, TypeOK
        <3>. QED  BY <3>1, <3>2, <1>1 DEF Pact
    <2>. QED  BY <1>3, <2>1, <2>2
<1>13. Stacks' /\ Spaces'
    BY <1>1, <1>2, <1>6 DEF Stacks, Spaces, TypeOK
<1>. QED  BY <1>8, <1>9, <1>11, <1>12, <1>13

-----------------------------------------------------------------------------
(***************************************************************************)
(* The theorems.                                                           *)
(***************************************************************************)
LEMMA NextIInv == IInv /\ [Next]_vars => IInv'
<1>. SUFFICES ASSUME IInv, [Next]_vars PROVE IInv'
    OBVIOUS
<1>1. CASE Tick \/ Yield
    BY <1>1, SwitchIInv
<1>2. CASE \E self \in Slots : Step(self)
    BY <1>2, SpawnIInv, WaitIInv, AdvanceIInv, MarkDeadIInv, BuryIInv DEF Step
<1>3. CASE UNCHANGED vars
    BY <1>3 DEF vars, table, memory, IInv, TypeOK, Layout, Positions,
       CpuRunsRunningTask, Pact, Stacks, Spaces, Used
<1>. QED  BY <1>1, <1>2, <1>3 DEF Next

\* The shape of the task table, the launcher's pact with its game, stacks and
\* address spaces, in every reachable state.
THEOREM Invariance == Spec => []IInv
<1>. QED  BY InitIInv, NextIInv, PTL DEF Spec

\* Every field of the task table keeps its type: in particular the table
\* never overflows and the frame count never goes negative.
THEOREM TypeCorrect == Spec => []TypeOK
<1>1. IInv => TypeOK
    BY DEF IInv
<1>. QED  BY <1>1, Invariance, PTL

\* SYS_WAIT (syscall.c) never returns while the awaited process lives.
THEOREM WaitSafety == Spec => []WaitReturnsAfterExit
<1>1. IInv => WaitReturnsAfterExit
    <2>. SUFFICES ASSUME IInv, NEW w \in Used, phase[w] = "waiting",
                         state[w] # "BLOCKED", NEW t \in Used, id[t] = child[w]
                  PROVE  state[t] = "DEAD"
        BY DEF WaitReturnsAfterExit
    <2>1. w = 2 /\ numTasks = 4 /\ child[2] = id[3] /\ state[3] = "DEAD"
        BY UsedSlots DEF IInv, Layout, Positions, Pact
    <2>. QED  BY <2>1, UsedSlots DEF IInv, Layout
<1>. QED  BY <1>1, Invariance, PTL

\* At most one game is alive, whatever order launches, exits, crashes, failed
\* loads and preemptions come in.
THEOREM SingleGame == Spec => []OneGame
<1>1. IInv => OneGame
    BY UsedSlots DEF IInv, Layout, OneGame
<1>. QED  BY <1>1, Invariance, PTL

\* schedule() never leaves the CPU with a task that cannot run, and never
\* has two tasks marked RUNNING.
THEOREM CpuSafety == Spec => []CpuRunsRunningTask
<1>1. IInv => CpuRunsRunningTask
    BY DEF IInv
<1>. QED  BY <1>1, Invariance, PTL

\* With room for three kernel stacks in the heap, every task schedule() may
\* pick has one, after any number of launches.
THEOREM StackSafety == Spec => []RunnableHasStack
<1>1. IInv => RunnableHasStack
    BY DEF IInv, Stacks, RunnableHasStack, KernelSlot
<1>. QED  BY <1>1, Invariance, PTL

\* The page tables in CR3 are always those the running code counts on.
THEOREM SpaceSafety == Spec => []AddressSpaces
<1>1. IInv => AddressSpaces
    BY DEF IInv, Layout, Spaces, AddressSpaces, KernelSpace
<1>. QED  BY <1>1, Invariance, PTL

\* schedule() writes nothing into the state of a task that is dead.
LEMMA ScheduleKeepsDead ==
    ASSUME NEW STATE st, IInv, st[1] \in Runnable, Schedule(st),
           NEW t \in Slots, st[t] = "DEAD"
    PROVE  state'[t] = "DEAD"
<1>1. PICK s \in Used : IsNext(st, s) /\ state' = Dispatch(st, s)
    BY DEF Schedule
<1>2. st[s] \in Runnable
    <2>1. 1 \in {u \in Used : st[u] \in Runnable}
        BY UsedSlots DEF IInv, Layout
    <2>. QED  BY <1>1, <2>1 DEF IsNext
<1>3. s # t
    BY <1>2 DEF Runnable
<1>. QED  BY <1>1, <1>3 DEF Dispatch

\* A dead slot comes back only by way of create_kernel_thread.
LEMMA DeadStep ==
    ASSUME IInv, [Next]_vars, NEW t \in Used, state[t] = "DEAD"
    PROVE  state'[t] = "DEAD" \/ id'[t] = nextId
<1>. USE DEF IInv
<1>1. t \in Slots /\ state \in [Slots -> States] /\ id \in [Slots -> Nat]
      /\ state[1] \in Runnable
    BY UsedSlots DEF Layout, TypeOK, Positions
<1>2. CASE Tick \/ Yield
    BY <1>1, <1>2, ScheduleKeepsDead DEF Tick, Yield
<1>3. ASSUME NEW self \in Slots, Spawn(self)
      PROVE  state'[t] = "DEAD" \/ id'[t] = nextId
    BY <1>1, <1>3 DEF Spawn, CreateThread
<1>4. ASSUME NEW self \in Slots, Wait(self)
      PROVE  state'[t] = "DEAD"
    <2>1. phase[t] \in {"dying", "gone"} /\ t # self /\ self # 1
        BY <1>4, UsedSlots DEF Positions, Wait, Layout
    <2>. DEFINE st == [state EXCEPT ![self] = "BLOCKED"]
    <2>2. st[t] = "DEAD" /\ st[1] \in Runnable /\ Schedule(st)
        <3>1. st[t] = "DEAD" /\ st[1] \in Runnable
            BY <1>1, <2>1, UsedSlots DEF Layout
        <3>. QED  BY <1>4, <3>1 DEF Wait
    <2>. HIDE DEF st
    <2>. QED  BY <1>1, <2>2, ScheduleKeepsDead
<1>5. ASSUME NEW self \in Slots, Exit(self) \/ FinishDying(self)
      PROVE  state'[t] = "DEAD"
    <2>1. self # 1 /\ Schedule(Buried(self))
        BY <1>5 DEF Exit, FinishDying, Positions
    <2>2. Buried(self)[t] = "DEAD" /\ Buried(self)[1] \in Runnable
        <3>1. 1 \in Slots
            BY UsedSlots DEF Layout
        <3>. QED  BY <1>1, <2>1, <3>1 DEF Buried, Waiters, Runnable
    <2>. QED  BY <1>1, <2>1, <2>2, ScheduleKeepsDead
<1>6. ASSUME NEW self \in Slots,
             ExecFailOpen(self) \/ ExecFailMap(self) \/ MenuQuit(self)
      PROVE  state'[t] = "DEAD"
    BY <1>1, <1>6 DEF ExecFailOpen, ExecFailMap, MenuQuit, MarkDead
<1>7. CASE UNCHANGED state
    BY <1>7
<1>8. \/ Tick \/ Yield
      \/ \E self \in Slots : \/ Spawn(self) \/ Wait(self)
                             \/ Exit(self) \/ FinishDying(self)
                             \/ ExecFailOpen(self) \/ ExecFailMap(self)
                             \/ MenuQuit(self)
      \/ UNCHANGED state
    BY DEF Next, Step, vars, table, WaitReturn, ExecOpen, ExecEnter,
           MenuOpen, MenuResume
<1>. QED  BY <1>2, <1>3, <1>4, <1>5, <1>6, <1>7, <1>8

\* A task that is dead never runs again, on any path through schedule(),
\* SYS_WAIT, the death paths and the recycling of slots.
THEOREM DeathIsFinal == Spec => DeadStaysDead
<1>1. IInv /\ [Next]_vars =>
        \A t \in Used : state[t] = "DEAD" =>
            state'[t] = "DEAD" \/ id'[t] = nextId
    BY DeadStep
<1>. QED  BY <1>1, Invariance, PTL DEF Spec, DeadStaysDead

=============================================================================
