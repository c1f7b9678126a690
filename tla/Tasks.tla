------------------------------- MODULE Tasks -------------------------------
(***************************************************************************)
(* The process lifecycle of the console from the end of boot on:           *)
(* task.c (the task table), scheduler.c (round robin), loader.c (exec),    *)
(* the process syscalls of syscall.c (EXIT, YIELD, SPAWN, WAIT), the       *)
(* ring-3 fault path of paging.c and the QUIT path of sysmenu.c.           *)
(*                                                                         *)
(* Granularity: code that runs with interrupts off (syscalls, fault and    *)
(* IRQ handlers) is one action; code that runs with interrupts on (exec,   *)
(* the loop of the system menu, the death path of a failed exec or of      *)
(* QUIT) is cut where a timer tick can change what follows.  schedule()    *)
(* itself is atomic here.                                                  *)
(***************************************************************************)
EXTENDS Naturals, Integers

CONSTANTS
    MaxTasks,       \* MAX_TASKS, the size of the task table
    MaxPid,         \* bound of the model: process ids are below this
    HeapStacks,     \* kernel stacks of TASK_STACK_SIZE the heap can hold
    Frames,         \* physical frames free when the launcher is started
    AppFrames       \* frames exec() takes for one app besides its PML4

ASSUME MaxTasksAssumption == MaxTasks \in Nat /\ MaxTasks >= 4
ASSUME BudgetAssumption ==
    /\ MaxPid \in Nat /\ MaxPid >= 3
    /\ HeapStacks \in Nat /\ HeapStacks >= 3   \* idle, launcher, one game
    /\ Frames \in Nat
    /\ AppFrames \in Nat

Slots == 0 .. MaxTasks - 1

KernelSlot == 0     \* kernel_main's endless schedule/hlt loop
IdleSlot == 1       \* idle_task
LauncherSlot == 2   \* the first app kernel_main launches
KernelSpace == 0    \* the kernel PML4; an app's own PML4 is named by its pid

States == {"RUNNING", "READY", "BLOCKED", "DEAD"}
Runnable == {"RUNNING", "READY"}

(***************************************************************************)
(* What the context of a slot is executing:                                *)
(*   none     never used            gone     schedule/hlt for ever, dead   *)
(*   kernel   kernel_main's loop    idle     idle_task                     *)
(*   exec     exec() before it switches to the kernel PML4                 *)
(*   mapping  exec() building the new PML4                                 *)
(*   user     ring 3                menu     the system menu's loop        *)
(*   spawned  ring 3, SYS_SPAWN has returned a pid it will wait for        *)
(*   waiting  inside SYS_WAIT                                              *)
(*   dying    state = TASK_DEAD written, waiters not yet looked at         *)
(***************************************************************************)
Phases == {"none", "kernel", "idle", "exec", "mapping", "user", "menu",
           "spawned", "waiting", "dying", "gone"}
Progs == {"none", "kernel", "launcher", "game"}

VARIABLES
    numTasks,       \* num_tasks
    nextId,         \* next_task_id
    current,        \* current_task_index
    mmu,            \* the CR3 register
    state,          \* tasks[].state
    id,             \* tasks[].id
    waitPid,        \* tasks[].wait_pid
    stack,          \* tasks[].stack_base # NULL
    aspace,         \* tasks[].cr3
    prog,           \* which program the slot was created for
    phase,          \* where its context is
    child,          \* the pid the launcher's local variable holds
    heapUsed,       \* kernel stacks allocated from the heap
    framesFree,     \* frames pmm_alloc_page can still hand out
    onFrame0        \* some page of the task was mapped to physical frame 0

table == <<state, id, waitPid, stack, aspace, prog, phase, child>>
memory == <<heapUsed, framesFree, onFrame0>>
vars == <<numTasks, nextId, current, mmu, table, memory>>

Used == 0 .. numTasks - 1

TypeOK ==
    /\ numTasks \in 0 .. MaxTasks
    /\ nextId \in Nat
    /\ current \in Slots
    /\ mmu \in Nat
    /\ state \in [Slots -> States]
    /\ id \in [Slots -> Nat]
    /\ waitPid \in [Slots -> Nat]
    /\ stack \in [Slots -> BOOLEAN]
    /\ aspace \in [Slots -> Nat]
    /\ prog \in [Slots -> Progs]
    /\ phase \in [Slots -> Phases]
    /\ child \in [Slots -> Nat]
    /\ heapUsed \in Nat
    /\ framesFree \in Nat
    /\ onFrame0 \in [Slots -> BOOLEAN]

Boot(k, i, a, default) ==
    [s \in Slots |-> IF s = KernelSlot THEN k ELSE IF s = IdleSlot THEN i
                     ELSE IF s = LauncherSlot THEN a ELSE default]

\* kernel_main has created idle and the launcher and enters its loop.
\* A slot never used is zeroed memory, and 0 is TASK_RUNNING.
Init ==
    /\ numTasks = 3
    /\ nextId = 3
    /\ current = KernelSlot
    /\ mmu = KernelSpace
    /\ state = Boot("RUNNING", "READY", "READY", "RUNNING")
    /\ id = Boot(0, 1, 2, 0)
    /\ waitPid = [s \in Slots |-> 0]
    /\ stack = Boot(FALSE, TRUE, TRUE, FALSE)
    /\ aspace = [s \in Slots |-> KernelSpace]
    /\ prog = Boot("kernel", "kernel", "launcher", "none")
    /\ phase = Boot("kernel", "idle", "exec", "none")
    /\ child = [s \in Slots |-> 0]
    /\ heapUsed = 2
    /\ framesFree = Frames
    /\ onFrame0 = [s \in Slots |-> FALSE]

-----------------------------------------------------------------------------
(***************************************************************************)
(* schedule(): scan from the slot after the current one, wrapping round    *)
(* to the current one itself, for a READY or RUNNING task.                 *)
(***************************************************************************)
Hops(s) == (s - current - 1) % numTasks

\* Mutants: the scan does not wrap round; the scan always starts at slot 0.
IsNext_NoWrap(st, s) ==
    LET ready == {t \in Used : st[t] \in Runnable /\ t > current}
    IN  IF ready = {} THEN s = current
        ELSE s \in ready /\ \A t \in ready : s <= t
IsNext_FromZero(st, s) ==
    LET ready == {t \in Used \ {current} : st[t] \in Runnable}
    IN  IF ready = {} THEN s = current
        ELSE s \in ready /\ \A t \in ready : s <= t

IsNext(st, s) ==
    LET ready == {t \in Used : st[t] \in Runnable}
    IN  IF ready = {} THEN s = current
        ELSE s \in ready /\ \A t \in ready : Hops(s) <= Hops(t)

\* Mutant: the old task is requeued whatever its state.
Dispatch_Requeue(st, s) ==
    IF s = current THEN st
    ELSE [t \in Slots |-> IF t = s THEN "RUNNING"
                          ELSE IF t = current THEN "READY" ELSE st[t]]

Dispatch(st, s) ==
    IF s = current THEN st
    ELSE [t \in Slots |->
             IF t = s THEN "RUNNING"
             ELSE IF t = current /\ st[t] = "RUNNING" THEN "READY" ELSE st[t]]

Schedule(st) ==
    \E s \in Used :
        /\ IsNext(st, s)
        /\ state' = Dispatch(st, s)
        /\ current' = s
        /\ mmu' = IF s = current THEN mmu ELSE aspace[s]

\* Every death path: the task is DEAD, and a loop wakes the tasks that are
\* blocked on its pid.
Waiters(self) ==
    {w \in Used : state[w] = "BLOCKED" /\ waitPid[w] = id[self]}
Buried(self) ==
    [s \in Slots |-> IF s = self THEN "DEAD"
                     ELSE IF s \in Waiters(self) THEN "READY" ELSE state[s]]
WakeWaiters(self) ==
    waitPid' = [s \in Slots |-> IF s \in Waiters(self) THEN 0 ELSE waitPid[s]]

\* IRQ0's quantum expires.  Interrupts are off only on the way out of
\* SYS_WAIT (and inside the atomic actions).
Tick ==
    /\ phase[current] # "waiting"
    /\ Schedule(state)
    /\ UNCHANGED <<numTasks, nextId, memory, id, waitPid, stack, aspace,
                   prog, phase, child>>

\* SYS_YIELD, and the schedule() call of kernel_main's loop.
Yield ==
    /\ phase[current] \in {"kernel", "user", "spawned"}
    /\ Schedule(state)
    /\ UNCHANGED <<numTasks, nextId, memory, id, waitPid, stack, aspace,
                   prog, phase, child>>

-----------------------------------------------------------------------------
(***************************************************************************)
(* create_kernel_thread(): the first dead slot, never slot 0, else the     *)
(* next unused one.  The slot is READY before its stack is allocated and   *)
(* stays so when the allocation fails.                                     *)
(***************************************************************************)
DeadSlots == {s \in 1 .. numTasks - 1 : state[s] = "DEAD"}

ClaimSlot(s) ==
    IF DeadSlots # {}
    THEN s \in DeadSlots /\ \A t \in DeadSlots : s <= t
    ELSE s = numTasks /\ numTasks < MaxTasks

\* Mutant: the dead task's stack is not kfree'd.
HeapAfterRecycle_Leak(s) == heapUsed

\* Heap stacks in use once the recycled slot's stack has been kfree'd.
HeapAfterRecycle(s) == IF stack[s] THEN heapUsed - 1 ELSE heapUsed

CreateThread(s, ok) ==
    /\ ClaimSlot(s)
    /\ ok = (HeapAfterRecycle(s) < HeapStacks)
    /\ numTasks' = IF s = numTasks THEN numTasks + 1 ELSE numTasks
    /\ nextId' = nextId + 1
    /\ heapUsed' = HeapAfterRecycle(s) + (IF ok THEN 1 ELSE 0)
    /\ state' = [state EXCEPT ![s] = "READY"]
    /\ id' = [id EXCEPT ![s] = nextId]
    /\ waitPid' = [waitPid EXCEPT ![s] = 0]
    /\ stack' = [stack EXCEPT ![s] = ok]
    /\ aspace' = [aspace EXCEPT ![s] = mmu]
    /\ prog' = [prog EXCEPT ![s] = "game"]
    /\ onFrame0' = [onFrame0 EXCEPT ![s] = FALSE]

\* SYS_SPAWN by the launcher, the only program that calls it; what it goes
\* on with depends on the pid it got back.
Spawn(self) ==
    /\ current = self
    /\ prog[self] = "launcher" /\ phase[self] = "user"
    /\ nextId < MaxPid
    /\ \E s \in Slots, ok \in BOOLEAN :
        /\ CreateThread(s, ok)
        /\ phase' = [phase EXCEPT ![s] = "exec",
                                  ![self] = IF ok THEN "spawned" ELSE "user"]
        /\ child' = [child EXCEPT ![s] = 0,
                                  ![self] = IF ok THEN nextId ELSE @]
    /\ UNCHANGED <<current, mmu, framesFree>>

\* create_kernel_thread finds the table full: SYS_SPAWN returns -1 and
\* nothing changes (a stuttering step, so it is not an action).

\* Mutant: wait_pid is set but the caller is not blocked.
Wait_Unblocked(self) ==
    /\ current = self
    /\ phase[self] = "spawned"
    /\ waitPid' = [waitPid EXCEPT ![self] = child[self]]
    /\ phase' = [phase EXCEPT ![self] = "waiting"]
    /\ Schedule(state)
    /\ UNCHANGED <<numTasks, nextId, memory, id, stack, aspace, prog, child>>

\* SYS_WAIT blocks the caller whatever the pid names.
Wait(self) ==
    /\ current = self
    /\ phase[self] = "spawned"
    /\ waitPid' = [waitPid EXCEPT ![self] = child[self]]
    /\ phase' = [phase EXCEPT ![self] = "waiting"]
    /\ Schedule([state EXCEPT ![self] = "BLOCKED"])
    /\ UNCHANGED <<numTasks, nextId, memory, id, stack, aspace, prog, child>>

\* The waiter has been woken and dispatched; schedule() returns into
\* SYS_WAIT, which returns to ring 3.
WaitReturn(self) ==
    /\ current = self
    /\ phase[self] = "waiting"
    /\ phase' = [phase EXCEPT ![self] = "user"]
    /\ UNCHANGED <<numTasks, nextId, current, mmu, memory, state, id, waitPid,
                   stack, aspace, prog, child>>

-----------------------------------------------------------------------------
(***************************************************************************)
(* task_run_app() and exec(), interrupts on.                               *)
(***************************************************************************)
\* Mutant: only CR3 is switched, the task table keeps the old hierarchy.
ExecOpen_TableStale(self) ==
    /\ current = self
    /\ phase[self] = "exec"
    /\ mmu' = KernelSpace
    /\ phase' = [phase EXCEPT ![self] = "mapping"]
    /\ UNCHANGED <<numTasks, nextId, current, memory, state, id, waitPid, stack, aspace, prog, child>>

\* The file was found, read and verified: exec switches to the kernel PML4,
\* in the task table as well as in CR3.
ExecOpen(self) ==
    /\ current = self
    /\ phase[self] = "exec"
    /\ aspace' = [aspace EXCEPT ![self] = KernelSpace]
    /\ mmu' = KernelSpace
    /\ phase' = [phase EXCEPT ![self] = "mapping"]
    /\ UNCHANGED <<numTasks, nextId, current, memory, state, id, waitPid,
                   stack, prog, child>>

\* Mutant: used_pages is moved without looking whether a page was found.
TakeFrames_Unchecked(n) == framesFree - n

\* pmm_alloc_page() n times: 0 once memory is exhausted.
TakeFrames(n) == IF n <= framesFree THEN framesFree - n ELSE 0

\* PML4 cloned, segments and stack mapped (pmm_alloc_page's result is not
\* checked), CR3 and the task's cr3 set, iretq to ring 3.
ExecEnter(self) ==
    /\ current = self
    /\ phase[self] = "mapping"
    /\ framesFree > 0
    /\ framesFree' = TakeFrames(1 + AppFrames)
    /\ onFrame0' = [onFrame0 EXCEPT ![self] = framesFree < 1 + AppFrames]
    /\ aspace' = [aspace EXCEPT ![self] = id[self]]
    /\ mmu' = id[self]
    /\ phase' = [phase EXCEPT ![self] = "user"]
    /\ UNCHANGED <<numTasks, nextId, current, heapUsed, state, id, waitPid,
                   stack, prog, child>>

\* task_run_app(), exec() has returned an error: the first statement of the
\* failure path.
MarkDead(self) ==
    /\ state' = [state EXCEPT ![self] = "DEAD"]
    /\ phase' = [phase EXCEPT ![self] = "dying"]
    /\ UNCHANGED <<numTasks, nextId, current, mmu, id, waitPid, stack, aspace,
                   prog, child>>

\* No such file, no heap for the image, short read, not an ELF file.
ExecFailOpen(self) ==
    /\ current = self
    /\ phase[self] = "exec"
    /\ MarkDead(self)
    /\ UNCHANGED memory

\* No PML4 (n = 0), or a segment outside the app window: the frames taken
\* before that are not given back.
ExecFailMap(self) ==
    /\ current = self
    /\ phase[self] = "mapping"
    /\ \E n \in 0 .. 1 + AppFrames :
        /\ n = 0 => framesFree = 0
        /\ framesFree' = TakeFrames(n)
    /\ MarkDead(self)
    /\ UNCHANGED <<heapUsed, onFrame0>>

-----------------------------------------------------------------------------
(***************************************************************************)
(* The ways a task ends.                                                   *)
(***************************************************************************)
\* Interrupts off: SYS_EXIT, the end of an attract demo, a ring-3 page fault.
\* DEAD, waiters woken and schedule() in one go.
Exit(self) ==
    /\ current = self
    /\ phase[self] \in {"user", "spawned"}
    /\ WakeWaiters(self)
    /\ phase' = [phase EXCEPT ![self] = "gone"]
    /\ Schedule(Buried(self))
    /\ UNCHANGED <<numTasks, nextId, memory, id, stack, aspace, prog, child>>

\* SELECT+START in a game: the menu's loop halts with interrupts on.
MenuOpen(self) ==
    /\ current = self
    /\ prog[self] = "game" /\ phase[self] = "user"
    /\ phase' = [phase EXCEPT ![self] = "menu"]
    /\ UNCHANGED <<numTasks, nextId, current, mmu, memory, state, id, waitPid,
                   stack, aspace, prog, child>>

MenuResume(self) ==
    /\ current = self
    /\ phase[self] = "menu"
    /\ phase' = [phase EXCEPT ![self] = "user"]
    /\ UNCHANGED <<numTasks, nextId, current, mmu, memory, state, id, waitPid,
                   stack, aspace, prog, child>>

\* Mutant: the waiters are woken before the task is marked dead.
MenuQuit_WakesFirst(self) ==
    /\ current = self
    /\ phase[self] = "menu"
    /\ WakeWaiters(self)
    /\ state' = [Buried(self) EXCEPT ![self] = "RUNNING"]
    /\ phase' = [phase EXCEPT ![self] = "dying"]
    /\ UNCHANGED <<numTasks, nextId, current, mmu, memory, id, stack, aspace,
                   prog, child>>

\* QUIT: quit_to_launcher's first statement, interrupts on.
MenuQuit(self) ==
    /\ current = self
    /\ phase[self] = "menu"
    /\ MarkDead(self)
    /\ UNCHANGED memory

\* The rest of a death path that runs with interrupts on.
FinishDying(self) ==
    /\ current = self
    /\ phase[self] = "dying"
    /\ WakeWaiters(self)
    /\ phase' = [phase EXCEPT ![self] = "gone"]
    /\ Schedule(Buried(self))
    /\ UNCHANGED <<numTasks, nextId, memory, id, stack, aspace, prog, child>>

-----------------------------------------------------------------------------
Step(self) ==
    \/ Spawn(self) \/ Wait(self) \/ WaitReturn(self)
    \/ ExecOpen(self) \/ ExecEnter(self)
    \/ ExecFailOpen(self) \/ ExecFailMap(self)
    \/ Exit(self)
    \/ MenuOpen(self) \/ MenuResume(self) \/ MenuQuit(self)
    \/ FinishDying(self)

Next == Tick \/ Yield \/ \E self \in Slots : Step(self)

Spec == Init /\ [][Next]_vars

\* The PIT keeps ticking whatever a task does, and the few instructions of
\* SYS_WAIT after schedule() run to the iret.  Nothing obliges a game to exit.
Fairness ==
    /\ WF_vars(Tick)
    /\ WF_vars(\E self \in Slots : WaitReturn(self))

FairSpec == Spec /\ Fairness

-----------------------------------------------------------------------------
(***************************************************************************)
(* Properties.                                                             *)
(***************************************************************************)
Alive(t) == t \in Used /\ state[t] # "DEAD"

\* SYS_WAIT never comes back early: a launcher that has been woken in
\* SYS_WAIT, however slots were recycled and whatever woke it, finds no
\* live task with the pid it waited for.
WaitReturnsAfterExit ==
    \A w \in Used :
        (phase[w] = "waiting" /\ state[w] # "BLOCKED")
            => \A t \in Used : id[t] = child[w] => state[t] = "DEAD"

\* At most one game is alive at any time.  Rewind, the system menu, the pad
\* latches and the mixer keep one global copy of "the game's" state, and
\* only the launcher's spawn/wait discipline keeps a second game away.
OneGame ==
    \A t, u \in Used :
        (prog[t] = "game" /\ prog[u] = "game" /\ Alive(t) /\ Alive(u)) => t = u

\* The CPU never goes on executing a task that is blocked or dead, except
\* inside the death path itself: schedule() always has idle or the kernel
\* loop to fall back on.
CpuRunsRunningTask ==
    /\ phase[current] # "dying" => state[current] = "RUNNING"
    /\ \A t \in Used : state[t] = "RUNNING" => t = current

\* Whatever schedule() may pick has a kernel stack to switch to, and the
\* heap charge for stacks is exactly what the table holds (recycling a slot
\* gives the old stack back).
RunnableHasStack ==
    \A t \in Used \ {KernelSlot} : state[t] \in Runnable => stack[t]

\* The page tables in CR3 are the current task's: the kernel's while exec
\* writes through physical addresses, its own in ring 3, also after any
\* preemption in between.
AddressSpaces ==
    /\ phase[current] = "mapping" => mmu = KernelSpace
    /\ phase[current] \in {"user", "spawned", "menu", "waiting"}
           => mmu = id[current]

\* A dead task never runs again: its slot leaves DEAD only as a new process.
DeadStaysDead ==
    [][\A t \in Used : state[t] = "DEAD" =>
           state'[t] = "DEAD" \/ id'[t] = nextId]_vars

\* Round robin starves nobody: a task that is READY gets the CPU.
NoStarvation ==
    \A t \in Slots : (t \in Used /\ state[t] = "READY") ~> (state[t] = "RUNNING")

\* README, "SYS_WAIT: Block until a PID exits": nobody stays blocked on a
\* process that is already gone.  The code does not keep it: SYS_WAIT does
\* not look whether the pid still lives, and a death path that runs with
\* interrupts on may be preempted before it wakes the waiter.
BlockedOnLiveTask ==
    \A w \in Used : state[w] = "BLOCKED" =>
        \E t \in Used : /\ id[t] = waitPid[w]
                        /\ Alive(t) \/ (t = current /\ phase[t] = "dying")
=============================================================================
