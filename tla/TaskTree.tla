------------------------------ MODULE TaskTree ------------------------------
(***************************************************************************)
(* What GannetOS's process subsystem promises, with every operation one    *)
(* step.  The main task (the shell, id 0) runs one app at a time; an app   *)
(* and its workers spawn further workers that execute out of the app's own *)
(* code frames; a task that exits stays a zombie until the main task reaps *)
(* it, children before parents.                                            *)
(*                                                                         *)
(* A task is named by the id task.c gives it, so a name is never reused.   *)
(* Module Kernel models the same operations step by step, as preemptible   *)
(* code over slots, directories, tables and frames, and is checked to      *)
(* implement this specification.                                           *)
(***************************************************************************)
EXTENDS Naturals

CONSTANTS
  Frames,      \* the frames of the physical pool (pmm.c)
  BootFrame,   \* the frame task_init maps as the main task's scratch page
  LastId       \* bound: ids run from 0 to LastId (next_task_id has none)

ASSUME BootFrameAssumption == BootFrame \in Frames
ASSUME LastIdAssumption == LastId \in Nat

VARIABLES
  live,     \* ids of the tasks that are READY or RUNNING
  zombie,   \* ids of the tasks that exited and are not reaped yet
  parent,   \* id -> id of the task that created it
  held,     \* id -> frames mapped by the tables its directory owns
  image,    \* id -> frames its code and data are read from
  next      \* next_task_id

vars == <<live, zombie, parent, held, image, next>>

Main == 0
Id == 0 .. LastId
Tasks == live \cup zombie
Children(t) == {u \in Tasks \ {Main} : parent[u] = t}
MutUnheld == {f \in Frames : \A t \in live : f \notin held[t]}   \* forgets zombies
Unheld == {f \in Frames : \A t \in Id : f \notin held[t]}

Init ==
  /\ live = {Main}
  /\ zombie = {}
  /\ parent = [t \in Id |-> Main]
  /\ held = [t \in Id |-> IF t = Main THEN {BootFrame} ELSE {}]
  /\ image = [t \in Id |-> {}]
  /\ next = 1

(***************************************************************************)
(* A new task takes the next id, under the parent p.                       *)
(***************************************************************************)
NewTask(p) ==
  /\ next \in Id
  /\ next' = next + 1
  /\ live' = live \cup {next}
  /\ parent' = [parent EXCEPT ![next] = p]
  /\ UNCHANGED zombie

(***************************************************************************)
(* Its pages take frames F nobody holds; it executes out of img.           *)
(***************************************************************************)
Memory(F, img) ==
  /\ held' = [held EXCEPT ![next] = F]
  /\ image' = [image EXCEPT ![next] = img]

(***************************************************************************)
(* try_exec: the main task is here only after it reaped the previous app,  *)
(* so it is alone.  I is the part of F that holds the app's code and data. *)
(***************************************************************************)
Launch ==
  /\ Tasks = {Main}
  /\ NewTask(Main)
  /\ \E F \in SUBSET Unheld : \E I \in SUBSET F : F # {} /\ Memory(F, I)

(***************************************************************************)
(* SYS_SPAWN_TASK: the child gets frames of its own for its stack and its  *)
(* scratch page and shares its parent's code and data.                     *)
(***************************************************************************)
Spawn(p) ==
  /\ p \in live \ {Main}
  /\ NewTask(p)
  /\ \E F \in SUBSET Unheld : F # {} /\ Memory(F, image[p])

(***************************************************************************)
(* SYS_EXIT_TASK, or a page fault taken in ring 3.                         *)
(***************************************************************************)
MutExit(t) ==   \* ends the main task too
  /\ t \in live
  /\ live' = live \ {t}
  /\ zombie' = zombie \cup {t}
  /\ UNCHANGED <<parent, held, image, next>>

Exit(t) ==
  /\ t \in live \ {Main}
  /\ live' = live \ {t}
  /\ zombie' = zombie \cup {t}
  /\ UNCHANGED <<parent, held, image, next>>

(***************************************************************************)
(* task_reap works on t: its parent is the main task or a zombie itself    *)
(* being reaped, and no child of t is left in the table.                   *)
(***************************************************************************)
MutReapable(t) ==   \* does not wait for children
  /\ t \in zombie
  /\ parent[t] \in zombie \cup {Main}

Reapable(t) ==
  /\ t \in zombie
  /\ parent[t] \in zombie \cup {Main}
  /\ Children(t) = {}

(***************************************************************************)
(* Frames of t go back to the pool, a table at a time.                     *)
(***************************************************************************)
Release(t) ==
  /\ Reapable(t)
  /\ UNCHANGED <<live, zombie, parent, next>>
  /\ \E F \in SUBSET held[t] :
       /\ F # {}
       /\ held' = [held EXCEPT ![t] = @ \ F]
       /\ image' = [image EXCEPT ![t] = @ \ F]

(***************************************************************************)
(* The slot of t is cleared once all its frames are returned.              *)
(***************************************************************************)
Reap(t) ==
  /\ Reapable(t)
  /\ held[t] = {}
  /\ zombie' = zombie \ {t}
  /\ parent' = [parent EXCEPT ![t] = Main]
  /\ image' = [image EXCEPT ![t] = {}]
  /\ UNCHANGED <<live, held, next>>

Next ==
  \/ Launch
  \/ \E t \in Id : Spawn(t) \/ Exit(t) \/ Release(t) \/ Reap(t)

Spec == Init /\ [][Next]_vars

-----------------------------------------------------------------------------

\* Every variable has the shape of the C state it stands for; the main task
\* (slot 0 of tasks[]) is always live.
TypeOK ==
  /\ live \subseteq Id
  /\ zombie \subseteq Id
  /\ parent \in [Id -> Id]
  /\ held \in [Id -> SUBSET Frames]
  /\ image \in [Id -> SUBSET Frames]
  /\ next \in Nat
  /\ Main \in live
  /\ live \cap zombie = {}

\* task.h's isolation promise: the frames behind two tasks' private pages
\* are different frames, whatever tasks ran and were reaped before.
Isolation ==
  \A t, u \in Tasks : t # u => held[t] \cap held[u] = {}

\* The use-after-free task_reap exists to prevent: a task that can still run
\* executes only out of frames that the app at the root of its tree holds.
ImageHeld ==
  \A t \in live \ {Main} :
    \E r \in Tasks \ {Main} : parent[r] = Main /\ image[t] \subseteq held[r]

\* The task that spawned t keeps its table slot as long as t is in the table,
\* so task_reap's search by parent_id always starts from an existing task.
NoOrphan ==
  \A t \in Tasks \ {Main} : parent[t] \in Tasks /\ parent[t] < t

=============================================================================
