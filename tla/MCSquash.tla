------------------------------ MODULE MCSquash ------------------------------
(***************************************************************************)
(* A system tree with a subdirectory, hard links and a symbolic link, and  *)
(* a second tree with names that are taken, files of the first, and enough *)
(* tails of files for a fragment table of two metadata blocks.             *)
(***************************************************************************)
EXTENDS Squash, TLC

Item(name, ino) == [name |-> <<name, 0>>, ino |-> ino]

HostInode(type, uid, gid, list) == [type |-> type, uid |-> uid, gid |-> gid, list |-> list]

\* 1 is the first tree and 6 the second; 9 is excluded.
MCHost ==
    <<HostInode("dir", 0, 0, <<Item(1, 3), Item(2, 2)>>),
      HostInode("dir", 7, 0, <<Item(3, 5), Item(1, 3), Item(9, 9), Item(4, 4)>>),
      HostInode("file", 7, 8, <<>>),
      HostInode("file", 0, 0, <<>>),
      HostInode("symlink", 0, 0, <<>>),
      HostInode("dir", 0, 0, <<Item(8, 3), Item(4, 8), Item(10, 10), Item(11, 11),
                               Item(12, 12), Item(13, 13), Item(1, 7)>>),
      HostInode("file", 7, 0, <<>>),
      HostInode("dir", 0, 0, <<Item(6, 4)>>),
      HostInode("file", 7, 8, <<>>),
      HostInode("file", 0, 0, <<>>), HostInode("file", 0, 0, <<>>),
      HostInode("file", 0, 0, <<>>), HostInode("file", 0, 0, <<>>)>>

MCSources == <<1, 6>>
MCExcluded == {9}
MCRootName == <<5, 0>>

\* File 4 is written before file 3 when the files are sorted.
MCPriority == 4 :> 1

Content(blocks, tail) == [readable |-> TRUE, blocks |-> blocks, tail |-> tail]
Denied == [readable |-> FALSE, blocks |-> <<>>, tail |-> NoTail]

MCContents == {Content(<<>>, t) : t \in 1 .. 6}
    \cup {Content(<<1>>, 2), Content(<<2>>, NoTail), Content(<<1, 2>>, NoTail), Denied}

\* Files 3 and 4 are packed twice, 7 may be a duplicate of one of them, or too
\* large for the memory (not both, see the README), or unreadable.  A file that
\* cannot be read is the one that is numbered last: any other leaves a gap in the
\* numbers.  Files 10 to 13 bring the second tree to five or six tails, so that
\* an image has one or three blocks of them, never two.
Filling(c3, c4, c7) ==
    LET tailed == {c \in {c3, c4, c7} : c.tail # NoTail}
    IN  3 :> c3 @@ 4 :> c4 @@ 7 :> c7 @@ 9 :> Denied
            @@ 10 :> Content(<<>>, 3) @@ 11 :> Content(<<>>, 4) @@ 12 :> Content(<<>>, 5)
            @@ 13 :> Content(<<>>, IF Cardinality(tailed) = 1 THEN 6 ELSE 5)

MCInit ==
    /\ content \in {Filling(c3, c4, c7) :
            c3 \in {Content(<<>>, 1), Content(<<1>>, 2)},
            c4 \in {Content(<<>>, 1), Content(<<2>>, NoTail)},
            c7 \in {Content(<<>>, 2), Content(<<1>>, 2),
                   Content(<<1, 2>>, NoTail), Denied}}
    /\ SquashInit
MCSpec == MCInit /\ [][SquashNext]_all
=============================================================================
