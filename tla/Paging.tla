------------------------------- MODULE Paging -------------------------------
(***************************************************************************)
(* The memory a task runs in: the frame pool (pmm.c), the directory pool   *)
(* and the private-table pool (paging.c, phases 2 and 3).                  *)
(*                                                                         *)
(* A directory is a function from the three 4MB slots that a task's        *)
(* private pages live in to page tables; all other slots are shared and    *)
(* constant after boot.  A table maps page numbers to frames.  Searching a *)
(* pool and claiming what the search found are separate operators, because *)
(* the C code that calls them can be preempted in between.                 *)
(***************************************************************************)
EXTENDS Integers, FiniteSetsExt

CONSTANTS
  NumDirs,      \* MAX_TASK_DIRECTORIES
  NumTables,    \* MAX_TASK_PRIVATE_TABLES
  NumFrames,    \* POOL_FRAMES
  AppSizes,     \* pages of code, data and stack (APP_LOAD_ADDR's slot), per app
  StackPages    \* SPAWN_CHILD_STACK_PAGES

ASSUME PoolsAssumption ==
  /\ NumDirs \in Nat \ {0}
  /\ NumTables \in Nat \ {0}
  /\ NumFrames \in Nat \ {0}
  /\ AppSizes # {} /\ AppSizes \subseteq Nat \ {0}
  /\ StackPages \in Nat \ {0}

VARIABLES
  bitmap,            \* frames handed out
  directory_used,    \* directories handed out
  dir,               \* directory -> slot -> table
  table,             \* private table -> page -> frame
  owner              \* private table -> directory that created it, or NoDir

memVars == <<bitmap, directory_used, dir, table, owner>>

KernelDir == 0
NoDir == -1
Dirs == 1 .. NumDirs

Slots == {"code", "stack", "scratch"}   \* PDEs 0x000, 0x140 and 0x100
BootTable == -1                         \* a table of the boot-time identity map
NoTable == 0
Tables == 1 .. NumTables

Pages == 0 .. Max(AppSizes \cup {StackPages}) - 1
NoFrame == 0
LowFrame == -1                          \* identity-mapped, outside the pool
Frames == 1 .. NumFrames
BootFrame == 1                          \* the main task's scratch page

(***************************************************************************)
(* After paging_init and task_init: the kernel directory maps the boot     *)
(* table and, through the first private table, the main task's own page.   *)
(***************************************************************************)
MemInit ==
  /\ bitmap = {BootFrame}
  /\ directory_used = {}
  /\ dir = [d \in Dirs \cup {KernelDir} |->
             IF d = KernelDir
             THEN [code |-> BootTable, stack |-> NoTable, scratch |-> 1]
             ELSE [s \in Slots |-> NoTable]]
  /\ table = [tb \in Tables |->
               [p \in Pages |-> IF tb = 1 /\ p = 0 THEN BootFrame ELSE NoFrame]]
  /\ owner = [tb \in Tables |-> IF tb = 1 THEN KernelDir ELSE NoDir]

FreeDirs == Dirs \ directory_used
FreeTables == {tb \in Tables : owner[tb] = NoDir}
FreeFrames == Frames \ bitmap

(***************************************************************************)
(* paging_clone_kernel_directory, after its search found d.                *)
(***************************************************************************)
CloneKernelDirectory(d) ==
  /\ directory_used' = directory_used \cup {d}
  /\ dir' = [dir EXCEPT ![d] = dir[KernelDir]]
  /\ UNCHANGED <<bitmap, table, owner>>

FreeDirectory(d) ==
  /\ directory_used' = directory_used \ {d}
  /\ UNCHANGED <<bitmap, dir, table, owner>>

SharePde(dst, src, s) ==
  /\ dir' = [dir EXCEPT ![dst][s] = dir[src][s]]
  /\ UNCHANGED <<bitmap, directory_used, table, owner>>

(***************************************************************************)
(* paging_map_private_page: a directory's own table for a slot is reused;  *)
(* otherwise a table found free is claimed, filled with a copy of what the *)
(* slot maps now, and entered in the directory.                            *)
(***************************************************************************)
OwnTable(d, s) == dir[d][s] \in Tables /\ owner[dir[d][s]] = d

Entries(tb) ==
  [p \in Pages |-> CASE tb = NoTable -> NoFrame
                     [] tb = BootTable -> LowFrame
                     [] OTHER -> table[tb][p]]

ClaimTable(d, s, tb) ==
  /\ owner' = [owner EXCEPT ![tb] = d]
  /\ table' = [table EXCEPT ![tb] = Entries(dir[d][s])]
  /\ dir' = [dir EXCEPT ![d][s] = tb]
  /\ UNCHANGED <<bitmap, directory_used>>

(***************************************************************************)
(* pmm_alloc_frame, after its search found f, and the PTE that maps it.    *)
(***************************************************************************)
MutClaimFrame(tb, p, f) ==   \* does not mark the frame
  /\ table' = [table EXCEPT ![tb][p] = f]
  /\ UNCHANGED <<bitmap, directory_used, dir, owner>>

ClaimFrame(tb, p, f) ==
  /\ bitmap' = bitmap \cup {f}
  /\ table' = [table EXCEPT ![tb][p] = f]
  /\ UNCHANGED <<directory_used, dir, owner>>

(***************************************************************************)
(* One table of paging_free_private_pages: every frame it maps goes back,  *)
(* pmm_free_frame ignoring those outside the pool, then the table itself.  *)
(***************************************************************************)
OwnedSlots(d) == {s \in Slots : OwnTable(d, s)}
PoolFrames(tb) == {table[tb][p] : p \in Pages} \cap Frames

FreePrivateTable(d, s) ==
  LET tb == dir[d][s] IN
  /\ bitmap' = bitmap \ PoolFrames(tb)
  /\ owner' = [owner EXCEPT ![tb] = NoDir]
  /\ dir' = [dir EXCEPT ![d][s] = NoTable]
  /\ UNCHANGED <<directory_used, table>>

MemTypeOK ==
  /\ bitmap \subseteq Frames
  /\ directory_used \subseteq Dirs
  /\ dir \in [Dirs \cup {KernelDir} -> [Slots -> Tables \cup {NoTable, BootTable}]]
  /\ table \in [Tables -> [Pages -> Frames \cup {NoFrame, LowFrame}]]
  /\ owner \in [Tables -> Dirs \cup {KernelDir, NoDir}]

=============================================================================
