------------------------------- MODULE Squash -------------------------------
(***************************************************************************)
(* mksquashfs and unsquashfs together: what is packed is what is unpacked, *)
(* over several runs that append to an image, are undone, fail or die.     *)
(***************************************************************************)
EXTENDS Mksquashfs, Unsquashfs

VARIABLES
    tree,       \* what a reader of the destination unpacks
    before,     \* history: the tree that the run found
    how,        \* history: the way the run was called
    broken      \* history: the run has been broken off

all == <<vars, tree, before, how, broken>>

-----------------------------------------------------------------------------
(* The tree a run is asked for.                                            *)

HostNode(host, i) ==
    Node(Host[i].type, Host[i].uid, Host[i].gid,
         IF i \notin Files THEN <<>>
         ELSE host[i].blocks
                \o (IF host[i].tail = NoTail THEN <<>> ELSE <<host[i].tail>>))

RECURSIVE HostTree(_, _, _, _)
HostTree(host, path, dir, list) ==
    {<<path, HostNode(host, dir)>>} \cup
    UNION {LET p == Append(path, list[n].name)
               i == list[n].ino
           IN  IF i \in Files /\ ~host[i].readable THEN {}
               ELSE IF IsDir(i) THEN HostTree(host, p, i, Kept(Host[i].list))
               ELSE {<<p, HostNode(host, i)>>} : n \in 1 .. Len(list)}

\* What was in the image stays under its name, below the old root or below a
\* new one; a source whose name is taken is found under its new name.
FromImage(old, mode) ==
    IF mode = "create" THEN {}
    ELSE IF mode = "append" THEN {e \in old : e[1] # <<>>}
    ELSE {<<<<RootName>> \o e[1], e[2]>> : e \in old}

TopNames(old, mode) ==
    {e[1][1] : e \in {e \in FromImage(old, mode) : Len(e[1]) = 1}}

Renamed(list, taken) ==
    FoldLeft(LAMBDA acc, e :
                LET used == taken \cup {acc[n].name : n \in DOMAIN acc}
                    k == CHOOSE k \in 0 .. Cardinality(used) :
                            /\ <<e.name[1], k>> \notin used
                            /\ \A j \in 0 .. k - 1 : <<e.name[1], j>> \in used
                IN  Append(acc, [e EXCEPT !.name = <<e.name[1], k>>]),
             <<>>, list)

Asked(old, host, job, mode) ==
    FromImage(old, mode) \cup
    HostTree(host, <<>>, Sources[job],
             Renamed(Kept(Host[Sources[job]].list), TopNames(old, mode)))

-----------------------------------------------------------------------------
SquashInit ==
    Init /\ tree = Unpacked(disk) /\ before = tree /\ how = "create" /\ broken = FALSE

Starts(action, mode) == action /\ before' = tree /\ how' = mode /\ broken' = FALSE

\* The first signal to an append is a warning: it breaks nothing off.
Breaks == (Signal \/ Failure \/ Killed) /\ broken' = (phase' = "idle" \/ proc'.restoring)

Run ==
    \/ \E be \in Orders, sorted \in Sortings : Starts(Create(be, sorted), "create")
    \/ \E mode \in {"append", "becomes"}, sorted \in Sortings :
            Starts(AppendTo(mode, sorted), mode)
    \/ /\ \/ Refused
          \/ sort_files_and_write
          \/ ScanOld \/ ScanLink \/ ScanFile \/ ScanUnreadable \/ ScanOther
          \/ ScanDirectory \/ CloseDirectory \/ SuperFields
          \/ LastFragment \/ write_inodes \/ write_directories
          \/ write_fragment_table \/ WriteIds \/ WriteSuper
       /\ UNCHANGED <<before, how, broken>>
    \/ Breaks /\ UNCHANGED <<before, how>>

SquashNext == Run /\ tree' = Unpacked(disk')

SquashSpec == SquashInit /\ [][SquashNext]_all

-----------------------------------------------------------------------------
(***************************************************************************)
(* Properties                                                              *)
(***************************************************************************)

\* Every run does to the image what an archive promises: whoever unpacks it
\* afterwards gets the tree that was asked for; after a run that was broken
\* off, and only then, the one from before or none.
A == INSTANCE Archive WITH
        None <- Unreadable, Merged <- Asked, host <- content,
        old <- before, job <- run, busy <- phase # "idle"

PacksAnArchive == A!ArchiveSpec

\* unsquashfs and the kernel tell inodes apart by their numbers, and keep
\* tables of sBlk.inodes entries: in a finished image every number is in that
\* range and no two inodes have the same.
NumbersUnique ==
    disk.super.magic =>
        LET is == Inodes(disk)
        IN  \A m, n \in DOMAIN is :
                /\ is[m].number \in 1 .. disk.super.inodes
                /\ is[m].number = is[n].number => m = n

\* In a finished image every fragment has its entry where the format's macros
\* look for it (squashfs_fs.h:146-152): it is the position of a block of tails.
FragmentsFound ==
    disk.super.magic =>
        \A f \in 0 .. disk.super.fragments - 1 :
            BlockKind(BlockAt(disk, FragPosition(disk, f))) = "tails"

\* "restore orignal filesystem state if appending ... is cancelled"
\* (mksquashfs.c:209): a cancelled or failed append that has come to write the
\* super block again leaves the image as it was.
RestoresOriginal ==
    [][save.restore /\ proc.restoring /\ phase = "super" /\ phase' = "idle"
         /\ disk'.super.magic => tree' = before]_all
=============================================================================
