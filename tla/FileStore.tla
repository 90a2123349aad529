----------------------------- MODULE FileStore -----------------------------
(***************************************************************************)
(* What the file system promises: a tree of files and directories in       *)
(* which every operation either happens or does not.  A write appears      *)
(* piece by piece where it overwrites, and at once where it extends.       *)
(* There is no crash here: to this store a crash is a stuttering step.     *)
(***************************************************************************)
EXTENDS Integers, Sequences

CONSTANTS
    Paths,  \* absolute paths below the root, as sequences of names
    Values  \* what a byte can hold

VARIABLE files \* files[p]: what p names

Nothing == [type |-> "free", data |-> <<>>]
Directory == [type |-> "dir", data |-> <<>>]
EmptyFile == [type |-> "file", data |-> <<>>]

\* fs_get_parent, for a path below the root.
Parent(p) == SubSeq(p, 1, Len(p) - 1)

IsDir(p) == p = <<>> \/ (p \in Paths /\ files[p].type = "dir")

Init == files = [p \in Paths |-> Nothing]

\* p has a directory to be in, and there is nothing below it.
Creatable(p) == IsDir(Parent(p))
Removable(p) == \A q \in Paths : Parent(q) = p => files[q].type = "free"

\* A stretch of old becomes v.
Overwritten(old, new, v) ==
    /\ Len(new) = Len(old)
    /\ \E from, to \in DOMAIN old :
        \A k \in DOMAIN old : new[k] = IF k \in from .. to THEN v ELSE old[k]

\* Some v are added behind old.
Extended(old, new, v) ==
    /\ Len(new) > Len(old)
    /\ \A k \in DOMAIN new : new[k] = IF k <= Len(old) THEN old[k] ELSE v

\* What p names may go from old to new.
Change(p, old, new) ==
    \/ old = Nothing /\ new \in {EmptyFile, Directory} /\ Creatable(p)
    \/ old # Nothing /\ new = Nothing /\ Removable(p)
    \/ /\ old.type = "file" /\ new.type = "file"
       /\ \E v \in Values :
            Overwritten(old.data, new.data, v) \/ Extended(old.data, new.data, v)

Next ==
    \E p \in Paths :
        /\ files' = [q \in Paths |-> IF q = p THEN files'[p] ELSE files[q]]
        /\ Change(p, files[p], files'[p])

Spec == Init /\ [][Next]_files

=============================================================================
