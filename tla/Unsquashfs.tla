----------------------------- MODULE Unsquashfs -----------------------------
(***************************************************************************)
(* unsquashfs: the tree that a reader unpacks from an image, as a function *)
(* of the image.  The kernel's file system reads the same tables.          *)
(***************************************************************************)
EXTENDS SquashImage

\* What becomes of an inode: its type, its owner and group, its data.
Node(type, uid, gid, data) == [type |-> type, uid |-> uid, gid |-> gid, data |-> data]

\* A tree has its root at least.
Unreadable == {}
Garbage == NoTail

\* read_data_block and read_fragment, for the blocks and the tail of a file.
ReadData(d, inode) ==
    [n \in 1 .. inode.size |->
        LET b == BlockAt(d, inode.start + n - 1)
        IN  IF BlockKind(b) = "data" THEN BlockData(b)[1] ELSE Garbage]
    \o (IF inode.frag = NoFrag THEN <<>>
        ELSE <<TailAt(d, FragPosition(d, inode.frag), inode.offset)>>)

\* read_uids_guids: one read for both tables, the groups behind the owners.
\* set_attributes: a group that equals the owner is not in the table.
OwnerOf(d, inode) ==
    IF inode.uid \in DOMAIN OwnerTable(d) THEN OwnerTable(d)[inode.uid] ELSE -1

GroupOf(d, inode) ==
    LET groups == Decoded(d, d.super.uid_start + 1, "gids", d.super.be)
    IN  IF inode.gid = SameAsUid THEN OwnerOf(d, inode)
        ELSE IF inode.gid \in DOMAIN groups THEN groups[inode.gid] ELSE -1

NodeOf(d, inode) ==
    Node(inode.type, OwnerOf(d, inode), GroupOf(d, inode),
         IF inode.type = "file" THEN ReadData(d, inode) ELSE <<>>)

\* lookup_entry: the inode at a place of the table, if it is one.
Found(d, ref) == InodePlace(d, ref) \in 1 .. Len(Inodes(d))

\* The unpacked tree so far, and created_inode: what stands for each number.
Unpacking(tree, created) == [tree |-> tree, created |-> created]

\* create_inode: a number that was met before is a hard link to what was made
\* then, whatever this inode says.
create_inode_at(d, path, e, u) ==
    LET inode == Inodes(d)[InodePlace(d, e.ref)]
        known == {c \in u.created : c[1] = inode.number}
    IN  IF ~Found(d, e.ref) THEN u
        ELSE IF known # {}
        THEN Unpacking(u.tree \cup {<<path, c[2]>> : c \in known}, u.created)
        ELSE Unpacking(u.tree \cup {<<path, NodeOf(d, inode)>>},
                       u.created \cup {<<inode.number, NodeOf(d, inode)>>})

\* dir_scan: squashfs_openddir reads the entries, each is unpacked in turn.
RECURSIVE dir_scan(_, _, _, _)
dir_scan(d, path, ref, u) ==
    LET inode == Inodes(d)[InodePlace(d, ref)]
    IN  IF ~Found(d, ref) \/ inode.type # "dir" THEN u
        ELSE FoldLeft(LAMBDA acc, e :
                        IF e.type = "dir"
                        THEN dir_scan(d, Append(path, e.name), e.ref, acc)
                        ELSE create_inode_at(d, Append(path, e.name), e, acc),
                      Unpacking(u.tree \cup {<<path, NodeOf(d, inode)>>}, u.created),
                      EntriesOf(d, inode))

\* main: read_super looks at the magic number only.
Unpacked(d) ==
    IF ~d.exists \/ ~d.super.magic THEN Unreadable
    ELSE dir_scan(d, <<>>, d.super.root, Unpacking({}, {})).tree
=============================================================================
