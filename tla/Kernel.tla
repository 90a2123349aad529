------------------------------- MODULE Kernel -------------------------------
(***************************************************************************)
(* Tasks as preemptible code (task.c, loader.c's try_exec): one CPU runs   *)
(* the code of current_task, one step at a time, and the timer tick can    *)
(* switch to another task between any two steps.  System calls enter       *)
(* through a trap gate, so they are preemptible too.                       *)
(*                                                                         *)
(* Slot 0 is the main task.  Its shell launches an app (try_exec), yields  *)
(* until the app is a zombie and reaps it and its descendants.  The other  *)
(* slots run apps and workers in ring 3, which spawn workers and exit.     *)
(***************************************************************************)
EXTENDS Paging, Sequences

CONSTANTS
  NumTasks,      \* TASK_MAX_TASKS
  LastId,        \* bound on the ids handed out (next_task_id has none)
  Preemptible,   \* may a tick land inside a create or a release?
  WorkersSpawn   \* do workers call SYS_SPAWN_TASK, or only apps?

ASSUME TasksAssumption ==
  /\ NumTasks \in Nat \ {0, 1}
  /\ LastId \in Nat
  /\ Preemptible \in BOOLEAN
  /\ WorkersSpawn \in BOOLEAN

VARIABLES
  tasks,          \* the task table
  current_task,   \* slot of the running task
  current_cr3,    \* directory loaded in CR3
  next_task_id,
  esp0,           \* slot whose kernel stack TSS.esp0 names, or NoStack
  ctx             \* slot -> where its kernel code is, and its locals

taskVars == <<tasks, current_task, current_cr3, next_task_id, esp0>>
vars == <<memVars, taskVars, ctx>>

Main == 0
TaskSlots == 0 .. NumTasks - 1
NoSlot == -1
NoStack == -1
NoId == -1
States == {"UNUSED", "READY", "RUNNING", "ZOMBIE"}

(***************************************************************************)
(* What task_reap leaves in a slot.                                        *)
(***************************************************************************)
Cleared ==
  [state |-> "UNUSED", id |-> NoId, cr3 |-> NoDir, is_ring3 |-> FALSE,
   kernel_stack_top |-> NoStack, parent_id |-> NoId]

(***************************************************************************)
(* Locals of the kernel code a task is in.  "idle" is ring 3 for an app or *)
(* worker and the shell prompt for the main task.                          *)
(***************************************************************************)
Idle ==
  [pc |-> "idle", slot |-> NoSlot, cr3 |-> NoDir, todo |-> <<>>,
   tb |-> NoTable, frame |-> NoFrame, pid |-> NoId, pdir |-> NoDir,
   newid |-> NoId, stores |-> <<>>, reaping |-> <<>>]

Init ==
  /\ MemInit
  /\ tasks = [s \in TaskSlots |->
               IF s = Main
               THEN [Cleared EXCEPT !.state = "RUNNING", !.id = 0, !.cr3 = KernelDir]
               ELSE [Cleared EXCEPT !.parent_id = 0]]
  /\ current_task = Main
  /\ current_cr3 = KernelDir
  /\ next_task_id = 1
  /\ esp0 = NoStack
  /\ ctx = [s \in TaskSlots |-> Idle]

-----------------------------------------------------------------------------
(***************************************************************************)
(* The scheduler.  Ready(ts) are the slots pick_next can return.           *)
(***************************************************************************)
Distance(from, s) == (s - from + NumTasks - 1) % NumTasks

PickNext(ts, from) ==
  LET ready == {s \in TaskSlots : ts[s].state = "READY"} IN
  IF ready = {} THEN from
  ELSE CHOOSE s \in ready : \A u \in ready : Distance(from, s) <= Distance(from, u)

(***************************************************************************)
(* schedule(), entered with the task table ts.                             *)
(***************************************************************************)
Schedule(ts) ==
  LET nxt == PickNext(ts, current_task) IN
  IF nxt = current_task
  THEN tasks' = ts /\ UNCHANGED <<current_task, current_cr3, next_task_id, esp0>>
  ELSE /\ tasks' = [ts EXCEPT ![current_task].state = IF @ = "RUNNING" THEN "READY" ELSE @,
                              ![nxt].state = "RUNNING"]
       /\ current_task' = nxt
       /\ current_cr3' = ts[nxt].cr3
       /\ esp0' = IF ts[nxt].is_ring3 THEN ts[nxt].kernel_stack_top ELSE esp0
       /\ UNCHANGED next_task_id

(***************************************************************************)
(* The running task t is at pc; Goto moves it on, with new locals.         *)
(***************************************************************************)
At(t, pc) == t = current_task /\ ctx[t].pc = pc
Goto(t, c) == ctx' = [ctx EXCEPT ![t] = c]

YieldPoints == {"idle", "wait", "reap", "wait_child"}

(***************************************************************************)
(* The PIT interrupt: pit_handler, task_tick.                              *)
(***************************************************************************)
Tick ==
  /\ Preemptible \/ ctx[current_task].pc \in YieldPoints
  /\ Schedule(tasks)
  /\ UNCHANGED <<memVars, ctx>>

(***************************************************************************)
(* SYS_EXIT_TASK, or page_fault_handler on a fault from ring 3.            *)
(***************************************************************************)
MutExit(t) ==   \* gives up the CPU without becoming a zombie
  /\ At(t, "idle")
  /\ t # Main
  /\ Schedule(tasks)
  /\ UNCHANGED <<memVars, ctx>>

Exit(t) ==
  /\ At(t, "idle")
  /\ t # Main
  /\ Schedule([tasks EXCEPT ![t].state = "ZOMBIE"])
  /\ UNCHANGED <<memVars, ctx>>

-----------------------------------------------------------------------------
(***************************************************************************)
(* Creating a task: try_exec and task_create_app_ring3 when the main task  *)
(* runs it, task_create_ring3_child when an app or a worker does.  An app  *)
(* maps its code and stack, then looks for a slot; a worker looks for the  *)
(* slot first.                                                             *)
(***************************************************************************)
Scratch == <<"scratch", 0>>
AppTodo(n) == [i \in 1 .. n |-> <<"code", i - 1>>]
WorkerTodo == Append([i \in 1 .. StackPages |-> <<"stack", i - 1>>], Scratch)
PublishOrder ==
  <<"cr3", "state", "next_task_id", "id", "is_ring3", "kernel_stack_top", "parent_id">>

Workers ==
  {t \in TaskSlots : \/ tasks[t].parent_id > 0
                     \/ \E u \in TaskSlots \ {Main} : ctx[u].slot = t}

(***************************************************************************)
(* Bound: the ids in use and those being created fit in 0 .. LastId.       *)
(***************************************************************************)
IdsLeft ==
  next_task_id + Cardinality({u \in TaskSlots : ctx[u].pc \notin YieldPoints}) <= LastId

Exec ==
  /\ At(Main, "idle")
  /\ IdsLeft
  /\ \E n \in AppSizes : Goto(Main, [Idle EXCEPT !.pc = "find_dir", !.todo = AppTodo(n)])
  /\ UNCHANGED <<memVars, taskVars>>

SpawnTask(t) ==
  /\ At(t, "idle")
  /\ t # Main
  /\ WorkersSpawn \/ t \notin Workers
  /\ IdsLeft
  /\ Goto(t, [Idle EXCEPT !.pc = "find_slot"])
  /\ UNCHANGED <<memVars, taskVars>>

(***************************************************************************)
(* An early return.  try_exec frees what its directory holds; a failed     *)
(* task_create_ring3_child leaves its directory behind.                    *)
(***************************************************************************)
MutFailed(t) == Idle   \* returns without freeing the directory

Failed(t) ==
  IF t = Main /\ ctx[t].cr3 # NoDir
  THEN [Idle EXCEPT !.pc = "free", !.cr3 = ctx[t].cr3]
  ELSE Idle

FindSlot(t) ==
  LET unused == {s \in TaskSlots : tasks[s].state = "UNUSED"} IN
  /\ At(t, "find_slot")
  /\ Goto(t, IF unused = {} \/ (t # Main /\ ~tasks[t].is_ring3)
             THEN Failed(t)
             ELSE [ctx[t] EXCEPT !.slot = Min(unused),
                                 !.pid = IF t = Main THEN NoId ELSE tasks[t].id,
                                 !.pdir = IF t = Main THEN NoDir ELSE tasks[t].cr3,
                                 !.todo = IF t = Main THEN <<Scratch>> ELSE @,
                                 !.pc = IF t = Main THEN "find_table" ELSE "find_dir"])
  /\ UNCHANGED <<memVars, taskVars>>

FindDir(t) ==
  /\ At(t, "find_dir")
  /\ Goto(t, IF FreeDirs = {} THEN Failed(t)
             ELSE [ctx[t] EXCEPT !.cr3 = Min(FreeDirs), !.pc = "claim_dir"])
  /\ UNCHANGED <<memVars, taskVars>>

ClaimDir(t) ==
  /\ At(t, "claim_dir")
  /\ CloneKernelDirectory(ctx[t].cr3)
  /\ Goto(t, [ctx[t] EXCEPT !.todo = IF t = Main THEN @ ELSE WorkerTodo,
                            !.pc = IF t = Main THEN "find_table" ELSE "share"])
  /\ UNCHANGED taskVars

ShareCode(t) ==
  /\ At(t, "share")
  /\ SharePde(ctx[t].cr3, ctx[t].pdir, "code")
  /\ Goto(t, [ctx[t] EXCEPT !.pc = "find_table"])
  /\ UNCHANGED taskVars

(***************************************************************************)
(* paging_map_private_page for the next page of todo.                      *)
(***************************************************************************)
FindTable(t) ==
  LET c == ctx[t]
      s == Head(c.todo)[1]
  IN
  /\ At(t, "find_table")
  /\ Goto(t, CASE OwnTable(c.cr3, s) ->
                    [c EXCEPT !.tb = dir[c.cr3][s], !.pc = "find_frame"]
               [] ~OwnTable(c.cr3, s) /\ FreeTables # {} ->
                    [c EXCEPT !.tb = Min(FreeTables), !.pc = "claim_table"]
               [] OTHER -> Failed(t))
  /\ UNCHANGED <<memVars, taskVars>>

ClaimFreeTable(t) ==
  /\ At(t, "claim_table")
  /\ ClaimTable(ctx[t].cr3, Head(ctx[t].todo)[1], ctx[t].tb)
  /\ Goto(t, [ctx[t] EXCEPT !.pc = "find_frame"])
  /\ UNCHANGED taskVars

FindFrame(t) ==
  /\ At(t, "find_frame")
  /\ Goto(t, IF FreeFrames = {} THEN Failed(t)
             ELSE [ctx[t] EXCEPT !.frame = Min(FreeFrames), !.pc = "claim_frame"])
  /\ UNCHANGED <<memVars, taskVars>>

ClaimFreeFrame(t) ==
  LET c == ctx[t]
      rest == Tail(c.todo)
  IN
  /\ At(t, "claim_frame")
  /\ ClaimFrame(c.tb, Head(c.todo)[2], c.frame)
  /\ Goto(t, [c EXCEPT !.todo = rest, !.tb = NoTable, !.frame = NoFrame,
                       !.stores = IF rest = <<>> THEN PublishOrder ELSE @,
                       !.pc = CASE rest # <<>> -> "find_table"
                                [] rest = <<>> /\ c.slot = NoSlot -> "find_slot"
                                [] OTHER -> "publish"])
  /\ UNCHANGED taskVars

(***************************************************************************)
(* The stores that fill the slot, in the order the source makes them.  The *)
(* new task can be scheduled from the store to state on, with the later    *)
(* fields still to come.  next_task_id++ is a load and a store.            *)
(***************************************************************************)
Publish(t) ==
  LET c == ctx[t]
      f == Head(c.stores)
      fields == [cr3 |-> c.cr3, state |-> "READY", id |-> c.newid, is_ring3 |-> TRUE,
                 kernel_stack_top |-> c.slot, parent_id |-> c.pid]
      done == Tail(c.stores) = <<>>
      after == CASE ~done /\ f = "next_task_id" ->
                      [c EXCEPT !.stores = Tail(@), !.newid = next_task_id]
                 [] ~done /\ f # "next_task_id" -> [c EXCEPT !.stores = Tail(@)]
                 [] done /\ t = Main -> [Idle EXCEPT !.pc = "wait", !.newid = c.newid]
                 [] OTHER -> Idle
  IN
  /\ At(t, "publish")
  /\ tasks' = IF f = "next_task_id" THEN tasks
              ELSE [tasks EXCEPT ![c.slot][f] = fields[f]]
  /\ next_task_id' = IF f = "id" THEN c.newid + 1 ELSE next_task_id
  /\ ctx' = [s \in TaskSlots |-> CASE s = t -> after
                                  [] s # t /\ s = c.slot /\ f = "state" -> Idle
                                  [] OTHER -> ctx[s]]
  /\ UNCHANGED <<memVars, current_task, current_cr3, esp0>>

-----------------------------------------------------------------------------
(***************************************************************************)
(* task_is_zombie, and the slot task_reap(id) works on.                    *)
(***************************************************************************)
IsZombie(id) ==
  LET slots == {s \in TaskSlots : tasks[s].id = id} IN
  slots # {} /\ tasks[Min(slots)].state = "ZOMBIE"

ZombieSlots(id) == {s \in TaskSlots : tasks[s].id = id /\ tasks[s].state = "ZOMBIE"}

(***************************************************************************)
(* A frame of the recursive task_reap: the slot, its id, the child index.  *)
(***************************************************************************)
ReapFrame(id) == [slot |-> Min(ZombieSlots(id)), id |-> id, j |-> 0]

ClearOrder == <<"state", "id", "is_ring3", "kernel_stack_top", "cr3", "parent_id">>


WaitYield ==
  /\ At(Main, "wait")
  /\ ~IsZombie(ctx[Main].newid)
  /\ Schedule(tasks)
  /\ UNCHANGED <<memVars, ctx>>

WaitDone ==
  /\ At(Main, "wait")
  /\ IsZombie(ctx[Main].newid)
  /\ Goto(Main, [Idle EXCEPT !.pc = "reap", !.reaping = <<ReapFrame(ctx[Main].newid)>>])
  /\ UNCHANGED <<memVars, taskVars>>

Top == Head(ctx[Main].reaping)
NextChild(c) == [c EXCEPT !.pc = "reap", !.reaping[1].j = @ + 1]

(***************************************************************************)
(* task_reap's loop over the table, one index per step.                    *)
(***************************************************************************)
MutIsChild(j) == FALSE   \* no wait for children

MutDirectChild(j) ==     \* no wait for grandchildren
  /\ tasks[j].parent_id = Top.id /\ tasks[j].state # "UNUSED"
  /\ Len(ctx[Main].reaping) = 1

IsChild(j) == tasks[j].parent_id = Top.id /\ tasks[j].state # "UNUSED"

ReapScan ==
  /\ At(Main, "reap")
  /\ Top.j < NumTasks
  /\ Goto(Main, IF IsChild(Top.j) THEN [ctx[Main] EXCEPT !.pc = "wait_child"]
                ELSE NextChild(ctx[Main]))
  /\ UNCHANGED <<memVars, taskVars>>

ReapYield ==
  /\ At(Main, "wait_child")
  /\ tasks[Top.j].state # "ZOMBIE"
  /\ Schedule(tasks)
  /\ UNCHANGED <<memVars, ctx>>

ReapChild ==
  LET id == tasks[Top.j].id IN
  /\ At(Main, "wait_child")
  /\ tasks[Top.j].state = "ZOMBIE"
  /\ Goto(Main, IF ZombieSlots(id) = {} THEN NextChild(ctx[Main])
                ELSE [ctx[Main] EXCEPT !.pc = "reap", !.reaping = <<ReapFrame(id)>> \o @])
  /\ UNCHANGED <<memVars, taskVars>>

(***************************************************************************)
(* All children are gone: the task's own memory, then its slot.            *)
(***************************************************************************)
ReapOwn ==
  LET cr3 == tasks[Top.slot].cr3 IN
  /\ At(Main, "reap")
  /\ Top.j = NumTasks
  /\ Goto(Main, [ctx[Main] EXCEPT !.cr3 = cr3, !.stores = ClearOrder,
                                  !.pc = IF cr3 = NoDir THEN "clear" ELSE "free"])
  /\ UNCHANGED <<memVars, taskVars>>

(***************************************************************************)
(* paging_free_private_pages walks the slots in address order, then        *)
(* paging_free_directory; after a failed try_exec that is all.             *)
(***************************************************************************)
AddressOrder == <<"code", "scratch", "stack">>

FreeTable ==
  LET d == ctx[Main].cr3
      i == Min({k \in 1 .. 3 : AddressOrder[k] \in OwnedSlots(d)})
  IN
  /\ At(Main, "free")
  /\ OwnedSlots(d) # {}
  /\ FreePrivateTable(d, AddressOrder[i])
  /\ UNCHANGED <<taskVars, ctx>>

FreeDir ==
  LET c == ctx[Main] IN
  /\ At(Main, "free")
  /\ OwnedSlots(c.cr3) = {}
  /\ FreeDirectory(c.cr3)
  /\ Goto(Main, IF c.reaping = <<>> THEN Idle
                ELSE [c EXCEPT !.cr3 = NoDir, !.pc = "clear"])
  /\ UNCHANGED taskVars

(***************************************************************************)
(* The stores that clear the slot, in source order, and the return.        *)
(***************************************************************************)
ClearSlot ==
  LET c == ctx[Main]
      f == Head(c.stores)
      returned == [c EXCEPT !.reaping = Tail(@), !.stores = <<>>]
  IN
  /\ At(Main, "clear")
  /\ tasks' = [tasks EXCEPT ![Top.slot][f] = Cleared[f]]
  /\ Goto(Main, CASE Tail(c.stores) # <<>> -> [c EXCEPT !.stores = Tail(@)]
                  [] Tail(c.stores) = <<>> /\ Len(c.reaping) > 1 -> NextChild(returned)
                  [] OTHER -> Idle)
  /\ UNCHANGED <<memVars, current_task, current_cr3, next_task_id, esp0>>

-----------------------------------------------------------------------------
CreateStep(t) ==
  \/ FindSlot(t) \/ FindDir(t) \/ ClaimDir(t) \/ ShareCode(t)
  \/ FindTable(t) \/ ClaimFreeTable(t) \/ FindFrame(t) \/ ClaimFreeFrame(t)
  \/ Publish(t)

ReapStep ==
  \/ WaitYield \/ WaitDone \/ ReapScan \/ ReapYield \/ ReapChild \/ ReapOwn
  \/ FreeTable \/ FreeDir \/ ClearSlot

Next ==
  \/ Tick
  \/ Exec
  \/ ReapStep
  \/ \E t \in TaskSlots : SpawnTask(t) \/ CreateStep(t) \/ Exit(t)

Spec == Init /\ [][Next]_vars

(***************************************************************************)
(* The timer keeps ticking, so every task that can run gets the CPU again  *)
(* and again for a whole time slice and its kernel code advances.  Nothing *)
(* in the kernel makes a program exit: that programs do is assumed.        *)
(***************************************************************************)
Fairness ==
  /\ WF_vars(Tick)
  /\ SF_vars(ReapStep)
  /\ \A t \in TaskSlots : SF_vars(CreateStep(t)) /\ SF_vars(Exit(t))

FairSpec == Spec /\ Fairness

-----------------------------------------------------------------------------
Occupied == {s \in TaskSlots : tasks[s].state # "UNUSED"}
Runnable == {s \in TaskSlots : tasks[s].state \in {"READY", "RUNNING"}}
OwnFrames(s) == UNION {PoolFrames(tb) : tb \in {x \in Tables : owner[x] = tasks[s].cr3}}
Seen(s) == {dir[tasks[s].cr3][k] : k \in Slots} \cap Tables

\* Every variable stays in its C type's range; ids stay within the bound.
TypeOK ==
  /\ MemTypeOK
  /\ tasks \in [TaskSlots -> [state : States, id : NoId .. LastId,
                              cr3 : Dirs \cup {KernelDir, NoDir}, is_ring3 : BOOLEAN,
                              kernel_stack_top : TaskSlots \cup {NoStack},
                              parent_id : NoId .. LastId]]
  /\ current_task \in TaskSlots
  /\ current_cr3 \in Dirs \cup {KernelDir, NoDir}
  /\ next_task_id \in 1 .. LastId + 1
  /\ esp0 \in TaskSlots \cup {NoStack}

\* The scheduler's own bookkeeping: the slot marked RUNNING is the one whose
\* code the CPU executes, under that task's directory, and the main task can
\* always be picked, so task_exit never finds the table empty and halts.
OneRunning ==
  /\ \A s \in TaskSlots : tasks[s].state = "RUNNING" <=> s = current_task
  /\ current_cr3 = tasks[current_task].cr3
  /\ Main \in Runnable

\* task.h: each task's private pages are backed by frames of its own.
FramesApart ==
  \A s, u \in Occupied : s # u => OwnFrames(s) \cap OwnFrames(u) = {}

\* task_reap and paging_free_private_pages never take memory from under a task
\* that can still run, the main task included: its directory, every private
\* table the directory points to, shared ones included, and every frame in
\* them are handed out.
NothingFreedInUse ==
  \A s \in Runnable :
    /\ tasks[s].cr3 \in directory_used \cup {KernelDir}
    /\ \A tb \in Seen(s) : owner[tb] # NoDir /\ PoolFrames(tb) \subseteq bitmap


\* When try_exec returns to the prompt, every slot, directory, table and frame
\* that the app and all its descendants took is back in its pool.
Reclaimed ==
  ctx[Main].pc = "idle" =>
    /\ Occupied = {Main}
    /\ directory_used = {}
    /\ bitmap = {BootFrame}
    /\ {tb \in Tables : owner[tb] # NoDir} = {1}

\* schedule()'s comment on TSS.esp0: a task that runs in ring 3 enters the
\* kernel on its own kernel stack, never on the previous task's.
Esp0IsOwn ==
  current_task # Main => esp0 = current_task

\* task_reap's cascade: a task in the table names a parent that is still in
\* the table, and can be switched to (its cr3 names a directory), from the
\* moment its creator returned its id.
ChildrenKnown ==
  \A s \in Occupied \ {Main} :
    (\A u \in TaskSlots : ctx[u].slot # s) =>
      /\ tasks[s].cr3 # NoDir
      /\ tasks[s].parent_id = NoId \/ \E u \in Occupied : tasks[u].id = tasks[s].parent_id

\* try_exec always gets back to the prompt once the app and its descendants
\* exit, whatever the tick interrupts: task_reap's waits all end.
ExecReturns == (ctx[Main].pc # "idle") ~> (ctx[Main].pc = "idle")

-----------------------------------------------------------------------------
(***************************************************************************)
(* The abstract state.  A slot whose creator has stored READY but not yet  *)
(* the id or the parent is already a task, with the id and the parent its  *)
(* creator is about to store.                                              *)
(***************************************************************************)
Unnamed == {s \in Occupied : tasks[s].id = NoId}
IdOf(s) == IF s \in Unnamed THEN next_task_id ELSE tasks[s].id
Ids(states) == {IdOf(s) : s \in {x \in TaskSlots : tasks[x].state \in states}}
PidOf(s) ==
  LET creators == {u \in TaskSlots : ctx[u].slot = s}
      pid == IF creators = {} THEN tasks[s].parent_id ELSE ctx[Min(creators)].pid
  IN  IF pid = NoId THEN Main ELSE pid
CodeFrames(s) ==
  UNION {PoolFrames(tb) : tb \in {dir[tasks[s].cr3]["code"]} \cap Tables}
ById(F(_), none) ==
  [n \in 0 .. LastId |->
    IF \E s \in Occupied : IdOf(s) = n
    THEN F(CHOOSE s \in Occupied : IdOf(s) = n) ELSE none]

Tree == INSTANCE TaskTree WITH
  live   <- Ids({"READY", "RUNNING"}),
  zombie <- Ids({"ZOMBIE"}),
  parent <- ById(PidOf, Main),
  held   <- ById(OwnFrames, {}),
  image  <- ById(CodeFrames, {}),
  next   <- IF Unnamed = {} THEN next_task_id ELSE next_task_id + 1

\* The preemptible kernel implements the atomic task tree.
ImplementsTree == Tree!Spec

=============================================================================
