---------------------------- MODULE SquashImage ----------------------------
(***************************************************************************)
(* The image that mksquashfs writes and that the kernel, unsquashfs and a  *)
(* later mksquashfs read (squashfs_fs.h), down to the positions of its     *)
(* blocks.                                                                 *)
(*                                                                         *)
(* The unit of position is one compressed block: a data block, a block of  *)
(* tails ("fragments") of several files, a metadata block of inodes, of    *)
(* directory entries or of fragment positions.  What fits into a metadata  *)
(* block is a number of inodes or entries, where the program counts 8192   *)
(* bytes.                                                                  *)
(***************************************************************************)
EXTENDS Integers, Sequences, SequencesExt

CONSTANTS
    FragTails,      \* tails in a fragment block (SQUASHFS_FILE_SIZE)
    MetaInodes,     \* inodes in a metadata block (SQUASHFS_METADATA_SIZE)
    MetaEntries,    \* directory entries in a metadata block
    MetaFrags,      \* fragment positions in a metadata block
    MaxUids         \* entries of the tables of owners and groups

Sizes == {FragTails, MetaInodes, MetaEntries, MetaFrags, MaxUids}

ASSUME SizesAssumption == Sizes \subseteq Nat \ {0}

NoFrag == -1        \* SQUASHFS_INVALID_FRAG
SameAsUid == -1     \* the group index SQUASHFS_GUIDS
NoTail == 0

\* A block: what it holds, the byte order of the machine it was written for,
\* and its content.  Data and fragment blocks have no byte order.
Block(kind, be, data) == <<kind, be, data>>
BlockKind(b) == b[1]
BlockOrder(b) == b[2]
BlockData(b) == b[3]

Unwritten == Block("unwritten", FALSE, <<>>)
DataBlock(v) == Block("data", FALSE, <<v>>)
TailBlock(tails) == Block("tails", FALSE, tails)

\* An inode is found by the position of its block in the table, relative to
\* the table's start, and its place in that block.
InodeRef(block, offset) == [block |-> block, offset |-> offset]
NoRef == InodeRef(-1, -1)                   \* SQUASHFS_INVALID_BLK

\* A regular file: data blocks from start, then possibly a tail.
FileInode(number, uid, gid, start, blocks, frag, offset) ==
    [type |-> "file", number |-> number, uid |-> uid, gid |-> gid,
     start |-> start, size |-> blocks, frag |-> frag, offset |-> offset,
     parent |-> 0]

\* A directory: size entries of the directory table, from a place in it.
DirInode(number, uid, gid, block, offset, size, parent) ==
    [type |-> "dir", number |-> number, uid |-> uid, gid |-> gid,
     start |-> block, size |-> size, frag |-> NoFrag, offset |-> offset,
     parent |-> parent]

\* Symbolic links, devices, fifos and sockets hold nothing outside the inode.
OtherInode(type, number, uid, gid) ==
    [type |-> type, number |-> number, uid |-> uid, gid |-> gid,
     start |-> 0, size |-> 0, frag |-> NoFrag, offset |-> 0, parent |-> 0]

\* An entry stores its inode number as the distance from its header's, base.
DirEntry(name, ref, delta, base, type) ==
    [name |-> name, ref |-> ref, delta |-> delta, base |-> base, type |-> type]

SuperBlock(be, inodes, root, fragments, itable, dtable, ftable, uids, nuids, ngids) ==
    [magic |-> TRUE, be |-> be, inodes |-> inodes, root |-> root,
     fragments |-> fragments, inode_table_start |-> itable,
     directory_table_start |-> dtable, fragment_table_start |-> ftable,
     uid_start |-> uids, no_uids |-> nuids, no_guids |-> ngids]

NoSuper == [SuperBlock(FALSE, 0, NoRef, 0, 0, 0, 0, 0, 0, 0) EXCEPT !.magic = FALSE]

\* The destination: the super block at 0, then the blocks from position 1.
EmptyDisk == [exists |-> TRUE, super |-> NoSuper, blk |-> <<>>]
NoDisk == [EmptyDisk EXCEPT !.exists = FALSE]

-----------------------------------------------------------------------------
(* read_bytes and write_bytes, a block at a time.                          *)

BlockAt(disk, p) ==
    IF p \in DOMAIN disk.blk THEN disk.blk[p] ELSE Unwritten

Written(disk, p, blocks) ==
    [disk EXCEPT !.blk =
        [i \in 1 .. (IF p + Len(blocks) - 1 > Len(@)
                     THEN p + Len(blocks) - 1 ELSE Len(@)) |->
            IF p =< i /\ i < p + Len(blocks) THEN blocks[i - p + 1]
            ELSE BlockAt(disk, i)]]

\* ftruncate: what lies from position p on is gone.
Truncated(disk, p) == [disk EXCEPT !.blk = SubSeq(@, 1, p - 1)]

\* read_block over a table: the content of its blocks from position p up to q,
\* decoded with the byte order be.  A block that cannot be decoded counts as
\* an empty one.
Decoded(disk, p, kind, be) ==
    LET b == BlockAt(disk, p)
    IN  IF BlockKind(b) = kind /\ BlockOrder(b) = be THEN BlockData(b) ELSE <<>>

Table(disk, p, q, kind, be) ==
    FoldLeft(LAMBDA acc, i : acc \o Decoded(disk, i, kind, be),
             <<>>, [i \in 1 .. (q - p) |-> p + i - 1])

\* The place in the table's content of offset in the table's block b.
PlaceIn(disk, p, b, offset, kind, be) ==
    Len(Table(disk, p, p + b, kind, be)) + offset + 1

-----------------------------------------------------------------------------
(* The tables of an image, with their places from the super block.         *)

Inodes(disk) ==
    Table(disk, disk.super.inode_table_start, disk.super.directory_table_start,
          "inodes", disk.super.be)

InodePlace(disk, ref) ==
    PlaceIn(disk, disk.super.inode_table_start, ref.block, ref.offset,
            "inodes", disk.super.be)

\* Up to the start of the fragment table's blocks, which follow it.
Entries(disk) ==
    Table(disk, disk.super.directory_table_start,
          disk.super.fragment_table_start, "entries", disk.super.be)

EntryPlace(disk, block, offset) ==
    PlaceIn(disk, disk.super.directory_table_start, block, offset,
            "entries", disk.super.be)

\* The entries of a directory, none when the place lies outside the table.
EntriesOf(disk, inode) ==
    LET at   == EntryPlace(disk, inode.start, inode.offset)
        last == at + inode.size - 1
    IN  IF last =< Len(Entries(disk)) THEN SubSeq(Entries(disk), at, last) ELSE <<>>

\* read_fragment_table: the positions of the fragment blocks, a metadata block
\* at a time: block i holds the positions from i * MetaFrags on.
FragIndexes(n) == (n + MetaFrags - 1) \div MetaFrags

FragPosition(disk, f) ==
    LET index == Decoded(disk, disk.super.fragment_table_start, "index",
                         disk.super.be)
        i == (f \div MetaFrags) + 1
        block == IF i \in DOMAIN index
                 THEN Decoded(disk, index[i], "frags", disk.super.be) ELSE <<>>
        j == (f % MetaFrags) + 1
    IN  IF j \in DOMAIN block THEN block[j] ELSE 0

FragTable(disk) ==
    [i \in 1 .. disk.super.fragments |-> FragPosition(disk, i - 1)]

\* The tail at an offset of the fragment block at p; NoTail for garbage.
TailAt(disk, p, offset) ==
    LET b == BlockAt(disk, p)
    IN  IF BlockKind(b) = "tails" /\ offset + 1 \in DOMAIN BlockData(b)
        THEN BlockData(b)[offset + 1] ELSE NoTail

OwnerTable(disk) == Decoded(disk, disk.super.uid_start, "uids", disk.super.be)
=============================================================================
