--------------------------------- MODULE Fs ---------------------------------
(***************************************************************************)
(* filesys/fs.c: inodes and data on a disk, a bitmap and descriptors in    *)
(* memory.  Each step of an operation ends at a sector write, so that a    *)
(* crash can come between any two of them; memory is rebuilt by fs_init.   *)
(* The disk writes a sector whole or not at all.  Faults bounds the failing *)
(* accesses and the crashes together.                                      *)
(*                                                                         *)
(* A path is the sequence of its names, << >> is "/".  A sector holds      *)
(* SectorSize bytes, and the bytes of one fs_write are all alike: the      *)
(* number of the write.                                                    *)
(***************************************************************************)
EXTENDS Integers, FiniteSets, FiniteSetsExt, Sequences, SequencesExt

CONSTANTS
    NumInodes,  \* FS_MAX_INODES
    NumBlocks,  \* data_sector_count
    SectorSize, \* 512
    NumFds,     \* FS_MAX_OPEN
    Paths,      \* the paths programs use, without "/"
    Lengths,    \* how much they write at once
    MaxWrites,  \* bound on the number of writes
    Faults,     \* bound on failing sector accesses and crashes together
    FaultOn,    \* which happen: "scan", "inode" (writes), "data", "crash"
    DeleteOpen  \* may programs delete a file that is open?

Root == <<>>
Inodes == 0 .. NumInodes - 1
Blocks == 0 .. NumBlocks - 1
Fds == 1 .. NumFds
Closed == -1

VARIABLES
    inode,   \* on disk: the inode table
    block,   \* on disk: the data sectors
    bitmap,  \* alloc_bitmap: the blocks it marks
    fds,     \* descriptors
    op,      \* the operation in progress and its locals
    writes, faults

disk == <<inode, block>>
vars == <<inode, block, bitmap, fds, op, writes, faults>>

FreeInode == [name |-> <<"">>, type |-> "free", size |-> 0, start |-> 0, count |-> 0]
ClosedFd == [inode |-> Closed, offset |-> 0]
Idle == [kind |-> "idle"]

(***************************************************************************)
(* Helpers                                                                 *)
(***************************************************************************)

\* fs_get_parent.
Parent(p) == SubSeq(p, 1, Len(p) - 1)

\* The blocks of an inode.
Extent(n) == n.start .. n.start + n.count - 1

\* Mutant: only the first block is looked at.
MutFreeRunsFirst(n) == {b \in Blocks : b + n <= NumBlocks /\ b \notin bitmap}

\* bm_alloc: the first run of n free blocks.
FreeRuns(n) ==
    {b \in Blocks : b + n <= NumBlocks /\ (b .. b + n - 1) \cap bitmap = {}}

\* fs_init's scan of the inodes it can read.
MountedBitmap(bad) ==
    UNION {Extent(inode[i]) : i \in {j \in Inodes \ bad : inode[j].type # "free"}}

\* fs_find and fs_isdir, when the inodes in bad cannot be read.
Named(p, bad) == {i \in Inodes \ bad : inode[i].type # "free" /\ inode[i].name = p}

IsDir(p, bad) ==
    p = Root \/ (Named(p, bad) # {} /\ inode[Min(Named(p, bad))].type = "dir")

FreeInodes(bad) == {i \in Inodes \ bad : inode[i].type = "free"}

\* The children that fs_rmdir and fs_rrmdr see of the directory in inode i.
Children(i, bad) ==
    {j \in Inodes \ (bad \cup {i}) :
        inode[j].type # "free" /\ Parent(inode[j].name) = inode[i].name}

\* The inodes that the scans of a call may be unable to read, and how many of
\* its accesses fail.  inode_read's error makes a scan skip the inode.
Unreadable ==
    {b \in SUBSET Inodes : b = {} \/ ("scan" \in FaultOn /\ Cardinality(b) <= Faults - faults)}

Fails(kind) == {FALSE} \cup (IF kind \in FaultOn THEN {TRUE} ELSE {})

Faulty(bad, fail) ==
    LET n == Cardinality(bad) + (IF fail THEN 1 ELSE 0)
    IN  faults + n <= Faults /\ faults' = faults + n

\* inode_write.
WriteInode(i, n, fail) ==
    inode' = IF fail THEN inode ELSE [inode EXCEPT ![i] = n]

IsOpen(i) == \E f \in Fds : fds[f].inode = i

FreeTable == [i \in Inodes |-> FreeInode]
RootInode == [FreeInode EXCEPT !.name = Root, !.type = "dir"]

\* fs_init on a new disk.  Its last inode_write is not checked, so the root may
\* have no inode.
Init ==
    /\ inode \in {[FreeTable EXCEPT ![0] = RootInode], FreeTable}
    /\ block = [b \in Blocks |-> [k \in 1 .. SectorSize |-> 0]]
    /\ bitmap = {}
    /\ fds = [f \in Fds |-> ClosedFd]
    /\ op = Idle
    /\ writes = 0 /\ faults = 0

(***************************************************************************)
(* Operations on names                                                     *)
(***************************************************************************)

\* Mutant: an existing name is not refused.
MutCreatable(p, bad) == IsDir(Parent(p), bad) /\ FreeInodes(bad) # {}

\* The new inode of fs_mkdir and fs_open: no such name yet, and a parent.
Creatable(p, bad) ==
    Named(p, bad) = {} /\ IsDir(Parent(p), bad) /\ FreeInodes(bad) # {}

Mkdir(p) ==
    /\ op = Idle
    /\ \E bad \in Unreadable, fail \in Fails("inode") :
        /\ Creatable(p, bad) /\ Faulty(bad, fail)
        /\ WriteInode(Min(FreeInodes(bad)),
                      [FreeInode EXCEPT !.name = p, !.type = "dir"], fail)
    /\ UNCHANGED <<block, bitmap, fds, op, writes>>

FreeFds == {f \in Fds : fds[f].inode = Closed}

OpenFd(i) == fds' = [fds EXCEPT ![Min(FreeFds)] = [inode |-> i, offset |-> 0]]

\* fs_open of a file that exists, or that it creates.
Open(p) ==
    /\ op = Idle /\ FreeFds # {}
    /\ \E bad \in Unreadable :
        /\ Named(p, bad) # {} /\ Faulty(bad, FALSE)
        /\ inode[Min(Named(p, bad))].type = "file"
        /\ OpenFd(Min(Named(p, bad)))
    /\ UNCHANGED <<disk, bitmap, op, writes>>

OpenCreate(p) ==
    /\ op = Idle /\ FreeFds # {}
    /\ \E bad \in Unreadable, fail \in Fails("inode") :
        /\ Creatable(p, bad) /\ Faulty(bad, fail)
        /\ LET i == Min(FreeInodes(bad))
           IN  /\ WriteInode(i, [FreeInode EXCEPT !.name = p, !.type = "file"], fail)
               /\ IF fail THEN UNCHANGED fds ELSE OpenFd(i)
    /\ UNCHANGED <<block, bitmap, op, writes>>

Close(f) ==
    /\ op = Idle /\ fds[f].inode # Closed
    /\ fds' = [fds EXCEPT ![f] = ClosedFd]
    /\ UNCHANGED <<disk, bitmap, op, writes, faults>>

\* fs_delete once the inode is found: the blocks go first.
Erase(i, fail) ==
    /\ bitmap' = bitmap \ Extent(inode[i])
    /\ WriteInode(i, FreeInode, fail)

Delete(p) ==
    /\ op = Idle
    /\ \E bad \in Unreadable, fail \in Fails("inode") :
        /\ Named(p, bad) # {} /\ Faulty(bad, fail)
        /\ LET i == Min(Named(p, bad))
           IN  /\ inode[i].type = "file" /\ (IsOpen(i) => DeleteOpen)
               /\ Erase(i, fail)
    /\ UNCHANGED <<block, fds, op, writes>>

Rmdir(p) ==
    /\ op = Idle
    /\ \E bad \in Unreadable, fail \in Fails("inode") :
        /\ Named(p, bad) # {} /\ Faulty(bad, fail)
        /\ LET i == Min(Named(p, bad))
           IN  /\ inode[i].type = "dir" /\ Children(i, bad) = {}
               /\ WriteInode(i, FreeInode, fail)
    /\ UNCHANGED <<block, bitmap, fds, op, writes>>

(***************************************************************************)
(* fs_rrmdr                                                                *)
(*                                                                         *)
(* op.calls are the activations of the recursion, innermost last: the      *)
(* directory's inode and the next index its loop looks at.                 *)
(***************************************************************************)

RrmdrCall(i) == [dir |-> i, next |-> 0]

RrmdrStarts(p) ==
    /\ op = Idle
    /\ \E i \in Named(p, {}) :
        /\ i = Min(Named(p, {})) /\ inode[i].type = "dir"
        /\ op' = [kind |-> "rrmdr", calls |-> <<RrmdrCall(i)>>]
    /\ (\E i \in Inodes : IsOpen(i) /\ IsPrefix(p, inode[i].name)) => DeleteOpen
    /\ UNCHANGED <<disk, bitmap, fds, writes, faults>>

Call == Last(op.calls)

\* Mutant: the loop skips an index after a child.
MutAfter(j) == Append(Front(op.calls), [Call EXCEPT !.next = j + 2])

\* The loop goes on behind child j.
After(j) == Append(Front(op.calls), [Call EXCEPT !.next = j + 1])

\* The children still in front of the loop.
Ahead(bad) == {j \in Children(Call.dir, bad) : j >= Call.next}

\* The next child is removed by name: fs_delete or a recursive call.  An error
\* stops the whole call.
RrmdrChild ==
    /\ op.kind = "rrmdr"
    /\ \E bad \in Unreadable, fail \in Fails("inode") :
        /\ Ahead(bad) # {} /\ Faulty(bad, fail)
        /\ LET j == Min(Ahead(bad))
               i == Min(Named(inode[j].name, bad))
           IN  /\ op' = IF fail \/ inode[i].type # inode[j].type THEN Idle
                        ELSE IF inode[j].type = "file" THEN [op EXCEPT !.calls = After(j)]
                        ELSE [op EXCEPT !.calls = Append(After(j), RrmdrCall(i))]
               /\ IF inode[j].type = "file" /\ inode[i].type = "file"
                  THEN Erase(i, fail)
                  ELSE UNCHANGED <<inode, bitmap>>
    /\ UNCHANGED <<block, fds, writes>>

\* No child is left that the loop can see: the directory itself goes.
RrmdrReturns ==
    /\ op.kind = "rrmdr"
    /\ \E bad \in Unreadable, fail \in Fails("inode") :
        /\ Ahead(bad) = {} /\ Faulty(bad, fail)
        /\ WriteInode(Call.dir, FreeInode, fail)
        /\ op' = IF fail \/ Len(op.calls) = 1 THEN Idle ELSE [op EXCEPT !.calls = Front(@)]
    /\ UNCHANGED <<block, bitmap, fds, writes>>

(***************************************************************************)
(* fs_read and fs_write                                                    *)
(***************************************************************************)

\* What fs_read returns of inode i from the start.
Contents(i) ==
    [k \in 1 .. inode[i].size |->
        block[inode[i].start + ((k - 1) \div SectorSize)][((k - 1) % SectorSize) + 1]]

Read(f) ==
    /\ op = Idle /\ fds[f].inode # Closed
    /\ fds[f].offset < inode[fds[f].inode].size
    /\ \E len \in Lengths :
        fds' = [fds EXCEPT ![f].offset = Min({@ + len, inode[fds[f].inode].size})]
    /\ UNCHANGED <<disk, bitmap, op, writes, faults>>

\* need_sects
Sectors(n) == (n + SectorSize - 1) \div SectorSize

\* fs_write up to its first sector write: op.node is its copy of the inode.
WriteStarts(f, len) ==
    /\ op = Idle /\ fds[f].inode # Closed /\ writes < MaxWrites
    /\ writes' = writes + 1
    /\ LET n == inode[fds[f].inode]
           need == Sectors(fds[f].offset + len)
           w == [fd |-> f, len |-> len, node |-> n, done |-> 0]
       IN  IF need <= n.count
           THEN op' = w @@ [kind |-> "data"] /\ UNCHANGED bitmap
           ELSE /\ FreeRuns(need) # {}
                /\ LET to == Min(FreeRuns(need))
                   IN  /\ bitmap' = bitmap \cup (to .. to + need - 1)
                       /\ op' = w @@ [kind |-> "grow", to |-> to, need |-> need, copied |-> 0]
    /\ UNCHANGED <<disk, fds, faults>>

\* Mutant: the new run stays marked when the copy fails.
MutCopyLeaks ==
    /\ op.kind = "grow" /\ op.copied < op.node.count
    /\ \E fail \in Fails("data") :
        /\ Faulty({}, fail)
        /\ IF fail THEN
               /\ UNCHANGED bitmap
               /\ op' = Idle /\ UNCHANGED block
           ELSE
               /\ block' = [block EXCEPT ![op.to + op.copied] = block[op.node.start + op.copied]]
               /\ op' = [op EXCEPT !.copied = @ + 1] /\ UNCHANGED bitmap
    /\ UNCHANGED <<inode, fds, writes>>

\* Mutant: a failed copy goes unnoticed.
MutCopyIgnores ==
    /\ op.kind = "grow" /\ op.copied < op.node.count
    /\ \E fail \in Fails("data") :
        /\ Faulty({}, fail)
        /\ IF fail THEN
               op' = [op EXCEPT !.copied = @ + 1] /\ UNCHANGED <<bitmap, block>>
           ELSE
               /\ block' = [block EXCEPT ![op.to + op.copied] = block[op.node.start + op.copied]]
               /\ op' = [op EXCEPT !.copied = @ + 1] /\ UNCHANGED bitmap
    /\ UNCHANGED <<inode, fds, writes>>

\* One sector of the old run is copied to the new one.
CopySector ==
    /\ op.kind = "grow" /\ op.copied < op.node.count
    /\ \E fail \in Fails("data") :
        /\ Faulty({}, fail)
        /\ IF fail THEN
               /\ bitmap' = bitmap \ (op.to .. op.to + op.need - 1)
               /\ op' = Idle /\ UNCHANGED block
           ELSE
               /\ block' = [block EXCEPT ![op.to + op.copied] = block[op.node.start + op.copied]]
               /\ op' = [op EXCEPT !.copied = @ + 1] /\ UNCHANGED bitmap
    /\ UNCHANGED <<inode, fds, writes>>

\* Mutant: the inode is changed before its old run is released.
MutSwitchNew ==
    /\ op.kind = "grow" /\ op.copied = op.node.count
    /\ bitmap' = bitmap \ (op.to .. op.to + op.node.count - 1)
    /\ \E fail \in Fails("inode") :
        LET n == [op.node EXCEPT !.start = op.to, !.count = op.need]
        IN  /\ Faulty({}, fail)
            /\ WriteInode(fds[op.fd].inode, n, fail)
            /\ IF fail
               THEN op' = Idle /\ fds' = [fds EXCEPT ![op.fd] = ClosedFd]
               ELSE /\ op' = [kind |-> "data", fd |-> op.fd, len |-> op.len, node |-> n, done |-> 0]
                    /\ UNCHANGED fds
    /\ UNCHANGED <<block, writes>>

\* The old run is released and the inode moved to the new one; a failure
\* closes the descriptor.
SwitchRuns ==
    /\ op.kind = "grow" /\ op.copied = op.node.count
    /\ bitmap' = bitmap \ Extent(op.node)
    /\ \E fail \in Fails("inode") :
        LET n == [op.node EXCEPT !.start = op.to, !.count = op.need]
        IN  /\ Faulty({}, fail)
            /\ WriteInode(fds[op.fd].inode, n, fail)
            /\ IF fail
               THEN op' = Idle /\ fds' = [fds EXCEPT ![op.fd] = ClosedFd]
               ELSE /\ op' = [kind |-> "data", fd |-> op.fd, len |-> op.len, node |-> n, done |-> 0]
                    /\ UNCHANGED fds
    /\ UNCHANGED <<block, writes>>


\* One sector is written; the bytes in front of and behind the chunk are kept.
WriteSector ==
    /\ op.kind = "data" /\ op.done < op.len
    /\ LET at == fds[op.fd].offset + op.done
           so == at % SectorSize
           tc == Min({SectorSize - so, op.len - op.done})
           b == op.node.start + (at \div SectorSize)
       IN  \E fail \in Fails("data") :
            /\ Faulty({}, fail)
            /\ op' = IF fail THEN Idle ELSE [op EXCEPT !.done = @ + tc]
            /\ block' = IF fail THEN block ELSE
                   [block EXCEPT ![b] =
                       [k \in 1 .. SectorSize |-> IF k \in so + 1 .. so + tc THEN writes ELSE @[k]]]
    /\ UNCHANGED <<inode, bitmap, fds, writes>>

\* The offset and the size move; fs_write does not look whether the inode
\* could be written.
WriteReturns ==
    /\ op.kind = "data" /\ op.done = op.len
    /\ LET to == fds[op.fd].offset + op.len
       IN  /\ fds' = [fds EXCEPT ![op.fd].offset = to]
           /\ \E fail \in Fails("inode") :
                /\ Faulty({}, fail)
                /\ WriteInode(fds[op.fd].inode,
                              [op.node EXCEPT !.size = Max({@, to})], fail)
    /\ op' = Idle
    /\ UNCHANGED <<block, bitmap, writes>>

(***************************************************************************)
(* The power goes and comes back: fs_init forgets the descriptors and      *)
(* builds the bitmap from the inodes it can read.                          *)
(***************************************************************************)

Crash ==
    /\ "crash" \in FaultOn
    /\ fds' = [f \in Fds |-> ClosedFd]
    /\ op' = Idle
    /\ \E bad \in Unreadable : Faulty(bad, TRUE) /\ bitmap' = MountedBitmap(bad)
    /\ UNCHANGED <<disk, writes>>

Next ==
    \/ \E p \in Paths : Mkdir(p) \/ Open(p) \/ OpenCreate(p) \/ Delete(p) \/ Rmdir(p) \/ RrmdrStarts(p)
    \/ \E f \in Fds : Close(f) \/ Read(f) \/ \E len \in Lengths : WriteStarts(f, len)
    \/ CopySector \/ SwitchRuns \/ WriteSector \/ WriteReturns
    \/ RrmdrChild \/ RrmdrReturns
    \/ Crash

Spec == Init /\ [][Next]_vars

(***************************************************************************)
(* Properties                                                              *)
(***************************************************************************)

Names == Paths \cup {Root, <<"">>}

TypeOK ==
    /\ inode \in [Inodes -> [name : Names, type : {"free", "file", "dir"},
                              size : 0 .. NumBlocks * SectorSize,
                              start : Blocks, count : 0 .. NumBlocks]]
    /\ block \in [Blocks -> [1 .. SectorSize -> 0 .. MaxWrites]]
    /\ bitmap \subseteq Blocks
    /\ fds \in [Fds -> [inode : Inodes \cup {Closed}, offset : Nat]]
    /\ op.kind \in {"idle", "rrmdr", "grow", "data"}
    /\ writes \in 0 .. MaxWrites /\ faults \in 0 .. Faults

InUse == {i \in Inodes : inode[i].type # "free"}

\* No block belongs to two files: a run that bm_alloc finds is fresh
\* (fs.c:668).
BlocksApart ==
    \A i, j \in InUse : i # j => Extent(inode[i]) \cap Extent(inode[j]) = {}

\* The bitmap in memory marks every block of a file on disk at every moment,
\* also while a file moves and after a crash: bm_alloc cannot hand it out.
BlocksMarked == MountedBitmap({}) \subseteq bitmap

\* Between operations it marks no other: growing, deleting and giving up
\* in the middle leak no blocks.
NoLeak == op = Idle => bitmap \subseteq MountedBitmap({})

\* The directory of a name exists as long as the name: fs_rmdir refuses "if
\* any inode has this dir as parent" (fs.c:380), fs_rrmdr stops rather than
\* delete "the parent directory out from under remaining children"
\* (fs.c:426).
NoOrphan == \A i \in InUse : IsDir(Parent(inode[i].name), {})

\* A name has one inode, also after a crash (fs_find, fs_mkdir, fs_open).
NamesUnique == \A i, j \in InUse : inode[i].name = inode[j].name => i = j


(***************************************************************************)
(* The store that programs see, through the inodes on disk.  A crash in    *)
(* the middle of an operation leaves what some prefix of it left.          *)
(***************************************************************************)

View ==
    [p \in Paths |->
        IF Named(p, {}) = {} THEN [type |-> "free", data |-> <<>>]
        ELSE LET i == Min(Named(p, {}))
             IN  [type |-> inode[i].type, data |-> Contents(i)]]

Store == INSTANCE FileStore WITH files <- View, Values <- 1 .. MaxWrites

\* Every step of fs.c is a step of the store or invisible: moving a file to
\* a larger run shows nobody a byte that was not written, a write shows
\* up in order, and a crash undoes nothing that was returned.
ImplementsStore == Store!Spec

=============================================================================
