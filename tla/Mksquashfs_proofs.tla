-------------------------- MODULE Mksquashfs_proofs --------------------------
(***************************************************************************)
(* The tables of mksquashfs keep their shape (PackerTypes), and what an    *)
(* append finds in the image stays where it is (AppendKeepsData), unless a *)
(* large file that is a duplicate takes its blocks back.                   *)
(***************************************************************************)
EXTENDS Mksquashfs, FiniteSetTheorems, WellFoundedInduction, TLAPS

-----------------------------------------------------------------------------
(* Lists: the finite sequences, whatever they are of.                      *)

\* A finite sequence, whatever it is of.
IsList(s) == Len(s) \in Nat /\ s = [i \in 1 .. Len(s) |-> s[i]]

\* Of elements in S.
LEMMA ListsOf ==
    ASSUME NEW S, NEW s PROVE (IsList(s) /\ \A n \in 1 .. Len(s) : s[n] \in S) <=> s \in Seq(S)
BY DEF IsList

LEMMA ListInRange ==
    ASSUME NEW s, IsList(s) PROVE s \in Seq({s[n] : n \in 1 .. Len(s)})
<1>1. \A n \in 1 .. Len(s) : s[n] \in {s[k] : k \in 1 .. Len(s)}
  OBVIOUS
<1> QED BY <1>1, ListsOf

LEMMA EmptyList == IsList(<<>>) /\ Len(<<>>) = 0
BY DEF IsList

LEMMA AppendList ==
    ASSUME NEW s, IsList(s), NEW e
    PROVE  /\ IsList(Append(s, e)) /\ Len(Append(s, e)) = Len(s) + 1
           /\ \A n \in 1 .. Len(s) : Append(s, e)[n] = s[n]
           /\ Append(s, e)[Len(s) + 1] = e
<1> DEFINE S == {s[n] : n \in 1 .. Len(s)} \cup {e}
<1>1. s \in Seq(S) /\ e \in S
  <2>1. \A n \in 1 .. Len(s) : s[n] \in S
    OBVIOUS
  <2> QED BY <2>1, ListsOf
<1> HIDE DEF S
<1>2. Append(s, e) \in Seq(S)
  BY <1>1
<1>3. IsList(Append(s, e))
  BY <1>2, ListsOf
<1> QED BY <1>1, <1>2, <1>3

LEMMA ConcatList ==
    ASSUME NEW s, IsList(s), NEW t, IsList(t)
    PROVE  /\ IsList(s \o t) /\ Len(s \o t) = Len(s) + Len(t)
           /\ \A n \in 1 .. Len(s) : (s \o t)[n] = s[n]
           /\ \A n \in 1 .. Len(t) : (s \o t)[Len(s) + n] = t[n]
<1> DEFINE S == {s[n] : n \in 1 .. Len(s)} \cup {t[n] : n \in 1 .. Len(t)}
<1>1. s \in Seq(S) /\ t \in Seq(S)
  <2>1. (\A n \in 1 .. Len(s) : s[n] \in S) /\ (\A n \in 1 .. Len(t) : t[n] \in S)
    OBVIOUS
  <2> HIDE DEF S
  <2> QED BY <2>1, ListsOf
<1> HIDE DEF S
<1>2. s \o t \in Seq(S) /\ Len(s \o t) = Len(s) + Len(t)
  BY <1>1
<1>3. IsList(s \o t)
  BY <1>2, ListsOf
<1>4. \A n \in 1 .. Len(s) : (s \o t)[n] = s[n]
  BY <1>1
<1>5. \A n \in 1 .. Len(t) : (s \o t)[Len(s) + n] = t[n]
  BY <1>1
<1> QED BY <1>2, <1>3, <1>4, <1>5

LEMMA SubList ==
    ASSUME NEW s, NEW m \in Int, NEW n \in Int
    PROVE  /\ IsList(SubSeq(s, m, n))
           /\ Len(SubSeq(s, m, n)) = IF m =< n THEN n - m + 1 ELSE 0
           /\ \A k \in 1 .. Len(SubSeq(s, m, n)) : SubSeq(s, m, n)[k] = s[k + m - 1]
BY DEF IsList

LEMMA TailList ==
    ASSUME NEW s, IsList(s), s # <<>>
    PROVE  /\ IsList(Tail(s)) /\ Len(Tail(s)) = Len(s) - 1 /\ Len(s) >= 1
           /\ Head(s) = s[1]
           /\ \A n \in 1 .. Len(s) - 1 : Tail(s)[n] = s[n + 1]
<1>1. s \in Seq({s[n] : n \in 1 .. Len(s)})
  BY ListInRange
<1> DEFINE S == {s[n] : n \in 1 .. Len(s)}
<1>2. s \in Seq(S)
  BY <1>1
<1> HIDE DEF S
<1>3. Tail(s) \in Seq(S) /\ Len(Tail(s)) = Len(s) - 1 /\ Len(s) >= 1
  BY <1>2
<1>4. Head(s) = s[1]
  BY <1>2, <1>3
<1>5. \A n \in 1 .. Len(s) - 1 : Tail(s)[n] = s[n + 1]
  BY <1>2, <1>3
<1> QED BY <1>3, <1>4, <1>5, ListsOf

\* The blocks of a table from block n on.
LEMMA PutBlocksList ==
    ASSUME NEW table, IsList(table), NEW n \in 0 .. Len(table), NEW blocks, IsList(blocks)
    PROVE  LET put == PutBlocks(table, n, blocks)
           IN  /\ IsList(put) /\ Len(put) >= Len(table) /\ Len(put) >= n + Len(blocks)
               /\ \A i \in 1 .. Len(put) : \/ i \in 1 .. Len(table) /\ put[i] = table[i]
                                           \/ \E k \in 1 .. Len(blocks) : put[i] = blocks[k]
<1> DEFINE size == IF n + Len(blocks) > Len(table) THEN n + Len(blocks) ELSE Len(table)
<1>1. size \in Nat /\ size >= Len(table) /\ size >= n + Len(blocks)
  BY DEF IsList
<1>2. IsList(PutBlocks(table, n, blocks)) /\ Len(PutBlocks(table, n, blocks)) = size
  BY <1>1 DEF IsList, PutBlocks
<1>3. ASSUME NEW i \in 1 .. size
      PROVE  \/ i \in 1 .. Len(table) /\ PutBlocks(table, n, blocks)[i] = table[i]
             \/ \E k \in 1 .. Len(blocks) : PutBlocks(table, n, blocks)[i] = blocks[k]
  <2>0. Len(table) \in Nat /\ Len(blocks) \in Nat /\ n \in Nat
    BY DEF IsList
  <2>1. CASE n < i /\ i =< n + Len(blocks)
    <3>1. PutBlocks(table, n, blocks)[i] = blocks[i - n]
      BY <2>1, <1>1 DEF PutBlocks
    <3>2. i - n \in 1 .. Len(blocks)
      BY <2>0, <2>1, <1>1
    <3> QED BY <3>1, <3>2
  <2>2. CASE ~ (n < i /\ i =< n + Len(blocks))
    <3>1. PutBlocks(table, n, blocks)[i] = table[i]
      BY <2>2, <1>1 DEF PutBlocks
    <3>2. i \in 1 .. Len(table)
      BY <2>0, <2>2, <1>1
    <3> QED BY <3>1, <3>2
  <2> QED BY <2>1, <2>2
<1> QED BY <1>1, <1>2, <1>3

\* A list cut into blocks.
LEMMA ChunksList ==
    ASSUME NEW s, IsList(s), NEW size \in Nat \ {0}
    PROVE  /\ IsList(Chunks(s, size))
           /\ \A i \in 1 .. Len(Chunks(s, size)) :
                /\ IsList(Chunks(s, size)[i])
                /\ \A n \in 1 .. Len(Chunks(s, size)[i]) :
                        \E k \in 1 .. Len(s) : Chunks(s, size)[i][n] = s[k]
<1> DEFINE count == (Len(s) + size - 1) \div size
<1>1. count \in Nat /\ Len(s) \in Nat
  BY DEF IsList
<1>2. IsList(Chunks(s, size)) /\ Len(Chunks(s, size)) = count
  <2> DEFINE F(i) == SubSeq(s, (i - 1) * size + 1,
                            IF i * size < Len(s) THEN i * size ELSE Len(s))
  <2>1. Chunks(s, size) = [i \in 1 .. count |-> F(i)]
    BY DEF Chunks
  <2> HIDE DEF count, F
  <2> QED BY <1>1, <2>1 DEF IsList
<1>3. ASSUME NEW i \in 1 .. count
      PROVE  /\ IsList(Chunks(s, size)[i])
             /\ \A n \in 1 .. Len(Chunks(s, size)[i]) :
                    \E k \in 1 .. Len(s) : Chunks(s, size)[i][n] = s[k]
  <2> DEFINE from == (i - 1) * size + 1
             to == IF i * size < Len(s) THEN i * size ELSE Len(s)
  <2>1. from \in Nat \ {0} /\ i * size \in Nat
    BY <1>1
  <2>2. to \in Nat /\ to =< Len(s)
    BY <1>1, <2>1
  <2>3. Chunks(s, size)[i] = SubSeq(s, from, to)
    BY <1>1 DEF Chunks
  <2> HIDE DEF from, to
  <2>4. IsList(SubSeq(s, from, to)) /\ Len(SubSeq(s, from, to)) = IF from =< to THEN to - from + 1 ELSE 0
    BY <2>1, <2>2, SubList
  <2>5. ASSUME NEW n \in 1 .. Len(SubSeq(s, from, to))
        PROVE  SubSeq(s, from, to)[n] = s[n + from - 1] /\ n + from - 1 \in 1 .. Len(s)
    BY <1>1, <2>1, <2>2, <2>4, SubList
  <2> QED BY <2>3, <2>4, <2>5
<1> QED BY <1>2, <1>3


-----------------------------------------------------------------------------
(***************************************************************************)
(* The invariant: what the tables in memory, the image and the scan hold.  *)
(***************************************************************************)

\* Places of inodes.
Refs == {NoRef} \cup [block : Nat, offset : 0 .. MetaInodes - 1]

\* A file's data lie behind the super block, and a directory is somewhere in
\* the directory table.
GoodInode(i) ==
    /\ i.type = "file" => i.start \in Nat \ {0}
    /\ i.type = "dir" => /\ i.start \in Nat /\ i.size \in Nat
                         /\ i.offset \in 0 .. MetaEntries
GoodInodes(s) == IsList(s) /\ \A n \in 1 .. Len(s) : GoodInode(s[n])

\* What the blocks of the tables hold.
Kinds == {"unwritten", "data", "tails", "inodes", "entries", "frags", "index",
          "uids", "gids"}
GoodBlock(b) ==
    /\ BlockKind(b) \in Kinds
    /\ BlockKind(b) = "inodes" => GoodInodes(BlockData(b))
    /\ BlockKind(b) = "entries" => IsList(BlockData(b))
    /\ BlockKind(b) \in {"uids", "gids"} =>
            IsList(BlockData(b)) /\ Len(BlockData(b)) =< MaxUids

GoodSuper(s) ==
    /\ s = [magic |-> s.magic, be |-> s.be, inodes |-> s.inodes, root |-> s.root,
            fragments |-> s.fragments, inode_table_start |-> s.inode_table_start,
            directory_table_start |-> s.directory_table_start,
            fragment_table_start |-> s.fragment_table_start,
            uid_start |-> s.uid_start, no_uids |-> s.no_uids,
            no_guids |-> s.no_guids]
    /\ s.root \in Refs
    /\ s.fragments \in Nat /\ s.inode_table_start \in Nat
    /\ s.directory_table_start \in Nat /\ s.fragment_table_start \in Nat
    /\ s.uid_start \in Nat

GoodDisk(d) ==
    /\ d = [exists |-> d.exists, super |-> d.super, blk |-> d.blk]
    /\ IsList(d.blk) /\ \A p \in 1 .. Len(d.blk) : GoodBlock(d.blk[p])
    /\ GoodSuper(d.super)
    /\ d.super.magic => d.super.inode_table_start >= 1

\* The tables in memory: what their counters count is there.
GoodMem(m) ==
    /\ m = [bytes |-> m.bytes, inode_bytes |-> m.inode_bytes,
            inode_table |-> m.inode_table, data_cache |-> m.data_cache,
            directory_bytes |-> m.directory_bytes,
            directory_table |-> m.directory_table,
            directory_cache |-> m.directory_cache, uids |-> m.uids,
            gids |-> m.gids, inode_count |-> m.inode_count,
            fragments |-> m.fragments, fragment_table |-> m.fragment_table,
            fragment_data |-> m.fragment_data, dupl |-> m.dupl]
    /\ m.bytes \in Nat \ {0} /\ m.fragments \in Nat
    /\ IsList(m.inode_table) /\ m.inode_bytes \in 0 .. Len(m.inode_table)
    /\ \A n \in 1 .. Len(m.inode_table) : GoodInodes(m.inode_table[n])
    /\ GoodInodes(m.data_cache) /\ Len(m.data_cache) =< MetaInodes
    /\ IsList(m.directory_table) /\ m.directory_bytes \in 0 .. Len(m.directory_table)
    /\ \A n \in 1 .. Len(m.directory_table) : IsList(m.directory_table[n])
    /\ IsList(m.directory_cache) /\ Len(m.directory_cache) =< MetaEntries
    /\ IsList(m.uids) /\ Len(m.uids) =< MaxUids
    /\ IsList(m.gids) /\ Len(m.gids) =< MaxUids
    /\ IsList(m.fragment_data) /\ Len(m.fragment_data) =< FragTails
    /\ IsList(m.dupl) /\ \A n \in 1 .. Len(m.dupl) : m.dupl[n].start \in Nat \ {0}

GoodFrame(f) ==
    /\ f = [dir |-> f.dir, name |-> f.name, left |-> f.left, buf |-> f.buf]
    /\ IsList(f.buf)

GoodProc(p) ==
    /\ p = [interrupted |-> p.interrupted, restoring |-> p.restoring, be |-> p.be,
            number |-> p.number, parent |-> p.parent, refs |-> p.refs,
            walk |-> p.walk, queue |-> p.queue]
    /\ p.refs \in [Inos -> Refs]
    /\ IsList(p.walk) /\ \A n \in 1 .. Len(p.walk) : GoodFrame(p.walk[n])

\* A restore finds as many blocks in the tables as it counts.
GoodSave ==
    /\ save = [restore |-> save.restore, mem |-> save.mem]
    /\ save.restore =>
        /\ phase # "idle" /\ GoodMem(save.mem)
        /\ save.mem.inode_bytes =< Len(mem.inode_table)
        /\ save.mem.directory_bytes =< Len(mem.directory_table)

Inv ==
    /\ GoodDisk(disk) /\ GoodMem(mem) /\ GoodProc(proc) /\ GoodSuper(sb) /\ GoodSave
    /\ content \in [Files -> Contents]
    /\ phase \in AllPhases \cup {"idle"} /\ run \in 0 .. Len(Sources)
    /\ phase # "idle" => run > 0
    /\ phase \in {"directories", "frags", "ids", "super"} => sb.inode_table_start >= 1
    /\ signals \in 0 .. MaxSignals

\* Nothing in front of the saved position has been written since.
Behind ==
    save.restore =>
        /\ save.mem.bytes =< mem.bytes
        /\ \A p \in 1 .. save.mem.bytes - 1 : BlockAt(disk, p) = BlockAt(origin, p)

-----------------------------------------------------------------------------
(* The destination.                                                        *)

LEMMA SizesNat ==
    /\ FragTails \in Nat \ {0} /\ MetaInodes \in Nat \ {0}
    /\ MetaEntries \in Nat \ {0} /\ MetaFrags \in Nat \ {0} /\ MaxUids \in Nat \ {0}
BY SizesAssumption DEF Sizes

LEMMA BlockGood ==
    ASSUME NEW d, GoodDisk(d), NEW p PROVE GoodBlock(BlockAt(d, p))
<1>1. DOMAIN d.blk = 1 .. Len(d.blk)
  BY DEF GoodDisk, IsList
<1>2. GoodBlock(Unwritten)
  BY DEF Unwritten, Block, GoodBlock, BlockKind, Kinds
<1> QED BY <1>1, <1>2 DEF BlockAt, GoodDisk

\* What lies in front of the position written stays.
LEMMA WrittenGood ==
    ASSUME NEW d, GoodDisk(d), NEW p \in Nat \ {0}, NEW blocks, IsList(blocks),
           \A n \in 1 .. Len(blocks) : GoodBlock(blocks[n])
    PROVE  /\ GoodDisk(Written(d, p, blocks))
           /\ Written(d, p, blocks).super = d.super
           /\ \A q \in Int : q < p => BlockAt(Written(d, p, blocks), q) = BlockAt(d, q)
<1> DEFINE size == IF p + Len(blocks) - 1 > Len(d.blk) THEN p + Len(blocks) - 1 ELSE Len(d.blk)
           F(i) == IF p =< i /\ i < p + Len(blocks) THEN blocks[i - p + 1] ELSE BlockAt(d, i)
           w == Written(d, p, blocks)
<1>0. Len(blocks) \in Nat /\ Len(d.blk) \in Nat /\ DOMAIN d.blk = 1 .. Len(d.blk)
  BY DEF IsList, GoodDisk
<1>1. size \in Nat /\ size >= Len(d.blk)
  BY <1>0
<1>2. w = [d EXCEPT !.blk = [i \in 1 .. size |-> F(i)]]
  BY DEF Written
<1>3. /\ w.blk = [i \in 1 .. size |-> F(i)] /\ w.super = d.super /\ w.exists = d.exists
      /\ w = [exists |-> w.exists, super |-> w.super, blk |-> w.blk]
  BY <1>2 DEF GoodDisk
<1>4. IsList(w.blk) /\ Len(w.blk) = size /\ DOMAIN w.blk = 1 .. size
  <2> HIDE DEF w, F, size
  <2> QED BY <1>1, <1>3 DEF IsList
<1>5. \A i \in 1 .. size : w.blk[i] = F(i)
  <2> HIDE DEF w, F, size
  <2> QED BY <1>3
<1>6. \A i \in 1 .. size : GoodBlock(F(i))
  <2> TAKE i \in 1 .. size
  <2>1. CASE p =< i /\ i < p + Len(blocks)
    <3>1. i - p + 1 \in 1 .. Len(blocks)
      BY <1>0, <1>1, <2>1
    <3> QED BY <2>1, <3>1
  <2>2. CASE ~ (p =< i /\ i < p + Len(blocks))
    BY <2>2, BlockGood
  <2> QED BY <2>1, <2>2
<1>7. GoodDisk(w)
  <2> HIDE DEF w, F, size
  <2> QED BY <1>3, <1>4, <1>5, <1>6 DEF GoodDisk
<1>8. ASSUME NEW q \in Int, q < p PROVE BlockAt(w, q) = BlockAt(d, q)
  <2>1. CASE q \in 1 .. size
    <3>1. BlockAt(w, q) = F(q)
      <4> HIDE DEF w, F, size
      <4> QED BY <1>4, <1>5, <2>1 DEF BlockAt
    <3> QED BY <1>8, <3>1
  <2>2. CASE q \notin 1 .. size
    <3>1. q \notin 1 .. Len(d.blk)
      BY <1>0, <1>1, <2>2
    <3>2. BlockAt(w, q) = Unwritten
      <4> HIDE DEF w, F, size
      <4> QED BY <1>4, <2>2 DEF BlockAt
    <3> QED BY <1>0, <3>1, <3>2 DEF BlockAt
  <2> QED BY <2>1, <2>2
<1> QED BY <1>3, <1>7, <1>8

LEMMA TruncatedGood ==
    ASSUME NEW d, GoodDisk(d), NEW p \in 1 .. Len(d.blk) + 1
    PROVE  GoodDisk(Truncated(d, p)) /\ Truncated(d, p).super = d.super
<1> DEFINE w == Truncated(d, p)
           b == SubSeq(d.blk, 1, p - 1)
<1>1. /\ w.blk = b /\ w.super = d.super /\ w.exists = d.exists
      /\ w = [exists |-> w.exists, super |-> w.super, blk |-> w.blk]
  <2>1. w = [exists |-> d.exists, super |-> d.super, blk |-> b]
    BY DEF GoodDisk, Truncated
  <2> HIDE DEF w, b
  <2> QED BY <2>1
<1>2. Len(d.blk) \in Nat /\ p \in Nat \ {0}
  BY DEF GoodDisk, IsList
<1>3. IsList(b) /\ Len(b) =< Len(d.blk) /\ \A k \in 1 .. Len(b) : b[k] = d.blk[k]
  BY <1>2, SubList
<1> HIDE DEF w, b
<1>4. GoodDisk(w)
  BY <1>1, <1>2, <1>3 DEF GoodDisk, IsList
<1> QED BY <1>1, <1>4 DEF w

-----------------------------------------------------------------------------
(* The tables in memory.                                                   *)

\* Tables that never get shorter: what a restore relies on.
Longer(m, w) ==
    /\ Len(m.inode_table) =< Len(w.inode_table)
    /\ Len(m.directory_table) =< Len(w.directory_table)

LEMMA LongerTransitive ==
    ASSUME NEW m, NEW v, NEW w, GoodMem(m), GoodMem(v), GoodMem(w),
           Longer(m, v), Longer(v, w)
    PROVE  Longer(m, w)
<1>1. \A x \in {m, v, w} : Len(x.inode_table) \in Nat /\ Len(x.directory_table) \in Nat
  BY DEF GoodMem, IsList
<1> QED BY <1>1 DEF Longer

LEMMA LongerReflexive == ASSUME NEW m, GoodMem(m) PROVE Longer(m, m)
BY DEF Longer, GoodMem, IsList

\* get_uid and get_guid append at most one identifier, and never to a full
\* table.
LEMMA PlaceBounded ==
    ASSUME NEW table, IsList(table), Len(table) =< MaxUids, NEW id
    PROVE  /\ PlaceIfIn(table, id) \in Nat
           /\ PlaceIfIn(table, id) > Len(table) => Len(table) < MaxUids
<1>1. Len(table) \in Nat /\ DOMAIN table = 1 .. Len(table) /\ MaxUids \in Nat \ {0}
  BY SizesNat DEF IsList
<1>2. CASE id \in ToSet(table)
  <2>1. \E n \in DOMAIN table : table[n] = id
    BY <1>2 DEF ToSet
  <2>2. PlaceOf(table, id) \in 1 .. Len(table)
    BY <1>1, <2>1 DEF PlaceOf
  <2>3. PlaceIfIn(table, id) = PlaceOf(table, id)
    BY <1>2 DEF PlaceIfIn
  <2> QED BY <1>1, <2>2, <2>3
<1>3. CASE id \notin ToSet(table)
  <2>1. PlaceIfIn(table, id) = IF Len(table) = MaxUids THEN 1 ELSE Len(table) + 1
    BY <1>3 DEF PlaceIfIn
  <2>2. CASE Len(table) = MaxUids
    BY <1>1, <2>1, <2>2
  <2>3. CASE Len(table) # MaxUids
    <3>1. PlaceIfIn(table, id) = Len(table) + 1
      BY <2>1, <2>3
    <3>0. Len(table) =< MaxUids
      OBVIOUS
    <3>3. Len(table) \in Nat /\ MaxUids \in Nat
      BY <1>1
    <3>2. Len(table) \in Nat /\ MaxUids \in Nat /\ Len(table) < MaxUids
      BY <3>0, <3>3, <2>3
    <3> QED BY <3>1, <3>2
  <2> QED BY <2>2, <2>3
<1> QED BY <1>2, <1>3

LEMMA OwnerGood ==
    ASSUME NEW m, GoodMem(m), NEW i
    PROVE  /\ GoodMem(WithOwner(m, i)) /\ Longer(m, WithOwner(m, i))
           /\ WithOwner(m, i).bytes = m.bytes
<1> DEFINE w == WithOwner(m, i)
           us == IF get_uid(m, i) > Len(m.uids) THEN Append(m.uids, Host[i].uid) ELSE m.uids
           gs == IF get_guid(m, i) > Len(m.gids) THEN Append(m.gids, Host[i].gid) ELSE m.gids
<1>1. w = [m EXCEPT !.uids = us, !.gids = gs]
  BY DEF WithOwner
<1>2. IsList(m.uids) /\ Len(m.uids) \in Nat /\ Len(m.uids) =< MaxUids
      /\ IsList(m.gids) /\ Len(m.gids) \in Nat /\ Len(m.gids) =< MaxUids
      /\ MaxUids \in Nat
  BY SizesNat DEF GoodMem, IsList
<1>3. IsList(us) /\ Len(us) =< MaxUids
  <2>1. CASE get_uid(m, i) > Len(m.uids)
    <3>1. Len(m.uids) < MaxUids
      BY <1>2, <2>1, PlaceBounded DEF get_uid
    <3> QED BY <1>2, <2>1, <3>1, AppendList
  <2> QED BY <1>2, <2>1
<1>4. IsList(gs) /\ Len(gs) =< MaxUids
  <2>1. CASE get_guid(m, i) > Len(m.gids)
    <3>1. Len(m.gids) < MaxUids
      <4>1. CASE get_guid(m, i) = SameAsUid
        BY <1>2, <2>1, <4>1 DEF SameAsUid
      <4>2. CASE get_guid(m, i) = PlaceIfIn(m.gids, Host[i].gid)
        BY <1>2, <2>1, <4>2, PlaceBounded
      <4> QED BY <4>1, <4>2 DEF get_guid
    <3> QED BY <1>2, <2>1, <3>1, AppendList
  <2> QED BY <1>2, <2>1
<1> HIDE DEF w, us, gs
<1>5. GoodMem(w)
  BY <1>1, <1>3, <1>4 DEF GoodMem
<1>6. w.inode_table = m.inode_table /\ w.directory_table = m.directory_table /\ w.bytes = m.bytes
  BY <1>1 DEF GoodMem
<1> QED BY <1>5, <1>6, LongerReflexive DEF w, Longer

\* get_inode leaves room for an inode.
LEMMA FlushedGood ==
    ASSUME NEW m, GoodMem(m)
    PROVE  /\ GoodMem(InodeFlushed(m)) /\ Longer(m, InodeFlushed(m))
           /\ InodeFlushed(m).bytes = m.bytes
           /\ Len(InodeFlushed(m).data_cache) < MetaInodes
<1> DEFINE w == InodeFlushed(m)
           table == PutBlocks(m.inode_table, m.inode_bytes,
                              <<SubSeq(m.data_cache, 1, MetaInodes)>>)
           cache == SubSeq(m.data_cache, MetaInodes + 1, Len(m.data_cache))
<1>0. /\ MetaInodes \in Nat \ {0} /\ Len(m.data_cache) \in Nat
      /\ Len(m.data_cache) =< MetaInodes
  BY SizesNat DEF GoodMem, GoodInodes, IsList
<1>1. CASE Len(m.data_cache) < MetaInodes
  BY <1>1, LongerReflexive DEF InodeFlushed
<1>2. CASE ~ (Len(m.data_cache) < MetaInodes)
  <2>1. w = [m EXCEPT !.inode_table = table, !.inode_bytes = @ + 1, !.data_cache = cache]
    BY <1>2 DEF InodeFlushed
  <2>2. Len(m.data_cache) = MetaInodes
    BY <1>0, <1>2
  <2>3. IsList(cache) /\ Len(cache) = 0
    BY <1>0, <2>2, SubList
  <2>4. GoodInodes(SubSeq(m.data_cache, 1, MetaInodes))
    <3>1. /\ IsList(SubSeq(m.data_cache, 1, MetaInodes))
          /\ Len(SubSeq(m.data_cache, 1, MetaInodes)) = Len(m.data_cache)
          /\ \A k \in 1 .. Len(m.data_cache) :
                SubSeq(m.data_cache, 1, MetaInodes)[k] = m.data_cache[k]
      BY <1>0, <2>2, SubList
    <3> QED BY <3>1 DEF GoodMem, GoodInodes
  <2>5. IsList(<<SubSeq(m.data_cache, 1, MetaInodes)>>)
        /\ Len(<<SubSeq(m.data_cache, 1, MetaInodes)>>) = 1
    BY DEF IsList
  <2>6. IsList(m.inode_table) /\ m.inode_bytes \in 0 .. Len(m.inode_table)
        /\ \A n \in 1 .. Len(m.inode_table) : GoodInodes(m.inode_table[n])
    BY DEF GoodMem
  <2>7. /\ IsList(table) /\ Len(table) >= Len(m.inode_table) /\ Len(table) >= m.inode_bytes + 1
        /\ \A i \in 1 .. Len(table) : \/ i \in 1 .. Len(m.inode_table) /\ table[i] = m.inode_table[i]
                                      \/ table[i] = SubSeq(m.data_cache, 1, MetaInodes)
    <3> DEFINE b == <<SubSeq(m.data_cache, 1, MetaInodes)>>
    <3>1. IsList(b) /\ Len(b) = 1 /\ b[1] = SubSeq(m.data_cache, 1, MetaInodes)
      BY <2>5
    <3> HIDE DEF b
    <3>2. LET put == PutBlocks(m.inode_table, m.inode_bytes, b)
          IN  /\ IsList(put) /\ Len(put) >= Len(m.inode_table) /\ Len(put) >= m.inode_bytes + Len(b)
              /\ \A i \in 1 .. Len(put) :
                    \/ i \in 1 .. Len(m.inode_table) /\ put[i] = m.inode_table[i]
                    \/ \E k \in 1 .. Len(b) : put[i] = b[k]
      <4>1. IsList(m.inode_table) /\ m.inode_bytes \in 0 .. Len(m.inode_table)
        BY <2>6
      <4>2. IsList(b)
        BY <3>1
      <4> QED BY ONLY <4>1, <4>2, PutBlocksList
    <3>3. table = PutBlocks(m.inode_table, m.inode_bytes, b)
      BY DEF b
    <3>4. \A k \in 1 .. Len(b) : b[k] = SubSeq(m.data_cache, 1, MetaInodes)
      BY <3>1
    <3> QED BY <3>1, <3>2, <3>3, <3>4
  <2> HIDE DEF w, table, cache
  <2>8. \A i \in 1 .. Len(table) : GoodInodes(table[i])
    BY <2>4, <2>6, <2>7
  <2>9. /\ w.inode_table = table /\ w.inode_bytes = m.inode_bytes + 1
        /\ w.data_cache = cache /\ w.bytes = m.bytes
        /\ w.directory_table = m.directory_table
    BY <2>1 DEF GoodMem
  <2>10. m.inode_bytes + 1 \in 0 .. Len(table)
    <3>1. Len(table) \in Nat /\ m.inode_bytes \in Nat
      BY <2>6, <2>7 DEF IsList
    <3> QED BY <2>7, <3>1
  <2>11. GoodInodes(cache) /\ Len(cache) =< MetaInodes
    BY <1>0, <2>3 DEF GoodInodes
  <2>12. GoodMem(w)
    BY <2>1, <2>7, <2>8, <2>10, <2>11 DEF GoodMem
  <2>13. Longer(m, w)
    <3>1. Len(m.directory_table) \in Nat /\ Len(m.inode_table) \in Nat /\ Len(table) \in Nat
      BY <2>7 DEF GoodMem, IsList
    <3> QED BY <2>7, <2>9, <3>1 DEF Longer
  <2> QED BY <1>0, <2>3, <2>9, <2>12, <2>13 DEF w
<1> QED BY <1>1, <1>2

LEMMA RefAfterGood ==
    ASSUME NEW m, GoodMem(m) PROVE RefAfter(m) \in Refs /\ RefAfter(m) # NoRef
<1> DEFINE w == InodeFlushed(m)
<1>1. GoodMem(w) /\ Len(w.data_cache) < MetaInodes
  BY FlushedGood
<1> HIDE DEF w
<1>2. w.inode_bytes \in Nat /\ Len(w.data_cache) \in 0 .. MetaInodes - 1
  <2>1. w.inode_bytes \in Nat
    BY <1>1 DEF GoodMem, IsList
  <2>2. Len(w.data_cache) \in Nat /\ MetaInodes \in Nat
    BY <1>1, SizesNat DEF GoodMem, GoodInodes, IsList
  <2> QED BY <1>1, <2>1, <2>2
<1>3. RefAfter(m) = [block |-> w.inode_bytes, offset |-> Len(w.data_cache)]
  BY DEF RefAfter, InodeRef, w
<1>4. RefAfter(m).block # NoRef.block
  BY <1>2, <1>3 DEF NoRef, InodeRef
<1> QED BY <1>2, <1>3, <1>4 DEF Refs

LEMMA CreateInodeGood ==
    ASSUME NEW m, GoodMem(m), NEW i, NEW inode, GoodInode(inode)
    PROVE  /\ GoodMem(create_inode(m, i, inode)) /\ Longer(m, create_inode(m, i, inode))
           /\ create_inode(m, i, inode).bytes = m.bytes
<1> DEFINE v == WithOwner(m, i)
           f == InodeFlushed(v)
           cache == Append(f.data_cache, inode)
           w == create_inode(m, i, inode)
<1>1. GoodMem(v) /\ Longer(m, v) /\ v.bytes = m.bytes
  BY OwnerGood
<1> HIDE DEF v
<1>2. GoodMem(f) /\ Longer(v, f) /\ f.bytes = m.bytes /\ Len(f.data_cache) < MetaInodes
  BY <1>1, FlushedGood
<1> HIDE DEF f
<1>3. w = [f EXCEPT !.data_cache = cache, !.inode_count = @ + 1]
  BY DEF create_inode, v, f
<1>4. GoodInodes(f.data_cache) /\ Len(f.data_cache) \in Nat /\ MetaInodes \in Nat
  BY <1>2, SizesNat DEF GoodMem, GoodInodes, IsList
<1>5. /\ IsList(cache) /\ Len(cache) = Len(f.data_cache) + 1
      /\ \A n \in 1 .. Len(f.data_cache) : cache[n] = f.data_cache[n]
      /\ cache[Len(f.data_cache) + 1] = inode
  BY <1>4, AppendList DEF GoodInodes
<1> HIDE DEF cache
<1>6. GoodInodes(cache)
  <2>1. ASSUME NEW n \in 1 .. Len(cache) PROVE GoodInode(cache[n])
    <3>1. CASE n \in 1 .. Len(f.data_cache)
      BY <1>4, <1>5, <3>1 DEF GoodInodes
    <3>2. CASE n \notin 1 .. Len(f.data_cache)
      BY <1>4, <1>5, <3>2
    <3> QED BY <3>1, <3>2
  <2> QED BY <1>5, <2>1 DEF GoodInodes
<1>7. Len(cache) =< MetaInodes
  BY <1>2, <1>4, <1>5
<1> HIDE DEF w
<1>8. GoodMem(w)
  BY <1>2, <1>3, <1>6, <1>7 DEF GoodMem
<1>9. w.inode_table = f.inode_table /\ w.directory_table = f.directory_table /\ w.bytes = f.bytes
  BY <1>2, <1>3 DEF GoodMem
<1>10. Longer(m, f)
  BY <1>1, <1>2, LongerTransitive
<1> QED BY <1>2, <1>8, <1>9, <1>10 DEF Longer, w

\* A directory's entries.
LEMMA WriteDirGood ==
    ASSUME NEW m, GoodMem(m), NEW buf, IsList(buf)
    PROVE  /\ GoodMem(write_dir(m, buf)) /\ Longer(m, write_dir(m, buf))
           /\ write_dir(m, buf).bytes = m.bytes
<1> DEFINE w == write_dir(m, buf)
           all == m.directory_cache \o buf
           full == Len(all) \div MetaEntries
           rest == Chunks(SubSeq(all, 1, full * MetaEntries), MetaEntries)
           table == PutBlocks(m.directory_table, m.directory_bytes, rest)
           cache == SubSeq(all, full * MetaEntries + 1, Len(all))
<1>1. w = [m EXCEPT !.directory_table = table, !.directory_bytes = @ + full,
                    !.directory_cache = cache]
  BY DEF write_dir
<1>2. MetaEntries \in Nat \ {0} /\ IsList(all) /\ Len(all) \in Nat
  <2>1. IsList(m.directory_cache)
    BY DEF GoodMem
  <2>2. IsList(all)
    BY <2>1, ConcatList
  <2> QED BY <2>2, SizesNat DEF IsList
<1> HIDE DEF all
<1>3. full \in Nat /\ full * MetaEntries \in Nat /\ full * MetaEntries =< Len(all)
      /\ Len(all) < full * MetaEntries + MetaEntries
  BY <1>2
<1> DEFINE front == SubSeq(all, 1, full * MetaEntries)
<1>4. IsList(front) /\ Len(front) = full * MetaEntries
  <2> HIDE DEF full
  <2> QED BY <1>2, <1>3, SubList
<1>5. IsList(cache) /\ Len(cache) =< MetaEntries
  <2> HIDE DEF full
  <2> QED BY <1>2, <1>3, SubList
<1>6. /\ IsList(rest) /\ \A i \in 1 .. Len(rest) : IsList(rest[i])
  <2> HIDE DEF front
  <2> QED BY <1>2, <1>4, ChunksList DEF front
<1>7. Len(rest) = full
  <2>1. Len(rest) = (Len(front) + MetaEntries - 1) \div MetaEntries
    <3> DEFINE count == (Len(front) + MetaEntries - 1) \div MetaEntries
               F(i) == SubSeq(front, (i - 1) * MetaEntries + 1,
                              IF i * MetaEntries < Len(front) THEN i * MetaEntries ELSE Len(front))
    <3>1. rest = [i \in 1 .. count |-> F(i)]
      BY DEF Chunks
    <3>2. count \in Nat
      <4>1. Len(front) \in Nat
        BY <1>3, <1>4
      <4> HIDE DEF front
      <4> QED BY <1>2, <4>1
    <3> HIDE DEF count, F, rest
    <3>3. Len(rest) = count
      BY <3>1, <3>2
    <3> QED BY <3>3 DEF count
  <2>2. (full * MetaEntries + MetaEntries - 1) \div MetaEntries = full
    <3> HIDE DEF full
    <3> QED BY <1>2, <1>3
  <2> QED BY <1>4, <2>1, <2>2
<1>8. /\ IsList(m.directory_table) /\ m.directory_bytes \in 0 .. Len(m.directory_table)
      /\ \A n \in 1 .. Len(m.directory_table) : IsList(m.directory_table[n])
      /\ Len(m.directory_table) \in Nat /\ Len(m.inode_table) \in Nat
  BY DEF GoodMem, IsList
<1> HIDE DEF rest, cache, full
<1>9. /\ IsList(table) /\ Len(table) >= Len(m.directory_table)
      /\ Len(table) >= m.directory_bytes + full
      /\ \A i \in 1 .. Len(table) : \/ i \in 1 .. Len(m.directory_table) /\ table[i] = m.directory_table[i]
                                    \/ \E k \in 1 .. Len(rest) : table[i] = rest[k]
  <2> DEFINE old == m.directory_table
             at == m.directory_bytes
  <2>1. IsList(old) /\ at \in 0 .. Len(old) /\ IsList(rest) /\ table = PutBlocks(old, at, rest)
    BY <1>6, <1>8
  <2> HIDE DEF old, at, table
  <2>2. /\ IsList(table) /\ Len(table) >= Len(old) /\ Len(table) >= at + Len(rest)
        /\ \A i \in 1 .. Len(table) : \/ i \in 1 .. Len(old) /\ table[i] = old[i]
                                      \/ \E k \in 1 .. Len(rest) : table[i] = rest[k]
    BY ONLY <2>1, PutBlocksList
  <2> QED BY ONLY <1>7, <2>2 DEF old, at
<1> HIDE DEF table
<1>10. \A i \in 1 .. Len(table) : IsList(table[i])
  BY <1>6, <1>8, <1>9
<1>11. m.directory_bytes + full \in 0 .. Len(table) /\ Len(table) \in Nat
  BY <1>3, <1>8, <1>9 DEF IsList
<1> HIDE DEF w
<1>12. GoodMem(w)
  BY <1>1, <1>5, <1>9, <1>10, <1>11 DEF GoodMem
<1>13. w.inode_table = m.inode_table /\ w.directory_table = table /\ w.bytes = m.bytes
  BY <1>1 DEF GoodMem
<1> QED BY <1>8, <1>9, <1>11, <1>12, <1>13 DEF Longer, w

-----------------------------------------------------------------------------
(* Numbers.                                                                *)

\* A set of naturals has a least element.
LEMMA LeastNatural ==
    ASSUME NEW T, T \subseteq Nat, T # {}
    PROVE  \E n \in T : \A m \in T : n =< m
<1> DEFINE R == OpToRel(<, Nat)
<1>1. IsWellFoundedOn(R, Nat)
  BY NatLessThanWellFounded
<1>2. \A m, n \in Nat : m < n => <<m, n>> \in R
  BY DEF OpToRel
<1> HIDE DEF R
<1>3. PICK n \in T : \A m \in T : ~ (<<m, n>> \in R)
  BY <1>1, WFMin
<1>4. ASSUME NEW m \in T PROVE n =< m
  <2>1. ~ (m < n) /\ m \in Nat /\ n \in Nat
    BY <1>2, <1>3
  <2> QED BY <2>1
<1> QED BY <1>4

\* A set of numbers up to k has a greatest one.
LEMMA GreatestNatural ==
    ASSUME NEW k \in Nat, NEW T, T \subseteq 1 .. k, T # {}
    PROVE  \E n \in T : \A m \in T : m =< n
<1> DEFINE U == {k - n : n \in T}
<1>1. U \subseteq Nat /\ U # {}
  <2>1. \A n \in T : k - n \in Nat
    OBVIOUS
  <2>2. PICK n \in T : TRUE
    OBVIOUS
  <2>3. k - n \in U
    OBVIOUS
  <2> QED BY <2>1, <2>3
<1> HIDE DEF U
<1>2. PICK u \in U : \A v \in U : u =< v
  BY <1>1, LeastNatural
<1>3. PICK n \in T : u = k - n
  BY DEF U
<1>4. ASSUME NEW m \in T PROVE m =< n
  <2>1. k - m \in U
    BY DEF U
  <2>2. k - n =< k - m
    BY <1>2, <1>3, <2>1
  <2> QED BY <2>2
<1> QED BY <1>4

-----------------------------------------------------------------------------
(* Files.                                                                  *)

\* What writing to the end of the image may do to image d and tables m.
Adds(d, m, e, w) ==
    /\ GoodDisk(e) /\ GoodMem(w) /\ Longer(m, w)
    /\ e.super = d.super /\ m.bytes =< w.bytes
    /\ \A q \in Int : q < m.bytes => BlockAt(e, q) = BlockAt(d, q)

LEMMA AddsTransitive ==
    ASSUME NEW d, NEW m, GoodMem(m), NEW e, NEW v, NEW f, NEW w,
           Adds(d, m, e, v), Adds(e, v, f, w)
    PROVE  Adds(d, m, f, w)
<1>1. m.bytes \in Nat /\ v.bytes \in Nat /\ w.bytes \in Nat
  BY DEF Adds, GoodMem
<1>2. Longer(m, w)
  BY LongerTransitive DEF Adds
<1>3. m.bytes =< w.bytes
  BY <1>1 DEF Adds
<1>4. \A q \in Int : q < m.bytes => BlockAt(f, q) = BlockAt(d, q)
  BY <1>1 DEF Adds
<1> QED BY <1>2, <1>3, <1>4 DEF Adds

LEMMA FragmentGood ==
    ASSUME NEW d, GoodDisk(d), NEW m, GoodMem(m)
    PROVE  /\ Adds(d, m, FragmentDisk(d, m), FragmentMem(m))
           /\ FragmentMem(m).fragment_data = <<>>
<1>1. CASE m.fragment_data = <<>>
  <2>1. FragmentDisk(d, m) = d /\ FragmentMem(m) = m
    BY <1>1 DEF FragmentDisk, FragmentMem
  <2>2. m.bytes =< m.bytes
    BY DEF GoodMem
  <2> QED BY <1>1, <2>1, <2>2, LongerReflexive DEF Adds
<1>2. CASE m.fragment_data # <<>>
  <2> DEFINE w == FragmentMem(m)
             b == <<TailBlock(m.fragment_data)>>
             t == Append(SubSeq(m.fragment_table, 1, m.fragments), m.bytes)
  <2>1. w = [m EXCEPT !.fragment_table = t, !.bytes = @ + 1, !.fragments = @ + 1,
                      !.fragment_data = <<>>]
    BY <1>2 DEF FragmentMem
  <2>2. FragmentDisk(d, m) = Written(d, m.bytes, b)
    BY <1>2 DEF FragmentDisk
  <2>3. IsList(b) /\ \A n \in 1 .. Len(b) : GoodBlock(b[n])
    <3>1. GoodBlock(TailBlock(m.fragment_data))
      BY DEF GoodBlock, TailBlock, Block, BlockKind, Kinds
    <3>2. IsList(b) /\ Len(b) = 1 /\ b[1] = TailBlock(m.fragment_data)
      BY DEF IsList
    <3> HIDE DEF b
    <3> QED BY <3>1, <3>2
  <2>4. m.bytes \in Nat \ {0} /\ m.fragments \in Nat /\ FragTails \in Nat
    BY SizesNat DEF GoodMem
  <2> HIDE DEF b, t, w
  <2>5. /\ GoodDisk(Written(d, m.bytes, b)) /\ Written(d, m.bytes, b).super = d.super
        /\ \A q \in Int : q < m.bytes => BlockAt(Written(d, m.bytes, b), q) = BlockAt(d, q)
    BY <2>3, <2>4, WrittenGood
  <2>6. GoodMem(w)
    <3>1. m.bytes + 1 \in Nat \ {0} /\ m.fragments + 1 \in Nat /\ 0 =< FragTails
      BY <2>4
    <3> DEFINE n == m.bytes + 1
               k == m.fragments + 1
    <3>2. w = [m EXCEPT !.fragment_table = t, !.bytes = n, !.fragments = k,
                        !.fragment_data = <<>>]
      BY <2>1
    <3>3. n \in Nat \ {0} /\ k \in Nat /\ IsList(<<>>) /\ Len(<<>>) =< FragTails
      BY <3>1, EmptyList
    <3> HIDE DEF n, k
    <3> QED BY <3>2, <3>3 DEF GoodMem
  <2>7. /\ w.inode_table = m.inode_table /\ w.directory_table = m.directory_table
        /\ w.bytes = m.bytes + 1 /\ w.fragment_data = <<>>
    BY <2>1 DEF GoodMem
  <2>8. Longer(m, w) /\ m.bytes =< w.bytes
    BY <2>4, <2>7, LongerReflexive DEF Longer
  <2> QED BY <2>2, <2>5, <2>6, <2>7, <2>8 DEF Adds, w
<1> QED BY <1>1, <1>2

LEMMA AfterBlocksGood ==
    ASSUME NEW d, GoodDisk(d), NEW m, GoodMem(m), NEW c \in Contents
    PROVE  /\ GoodDisk(AfterBlocks(d, m, c)) /\ AfterBlocks(d, m, c).super = d.super
           /\ \A q \in Int : q < m.bytes => BlockAt(AfterBlocks(d, m, c), q) = BlockAt(d, q)
           /\ Len(c.blocks) \in Nat
<1> DEFINE F(n) == DataBlock(c.blocks[n])
           b == [n \in 1 .. Len(c.blocks) |-> F(n)]
<1>1. Len(c.blocks) \in Nat
  BY MksquashfsAssumption
<1>2. \A n : GoodBlock(F(n))
  BY DEF GoodBlock, DataBlock, Block, BlockKind, Kinds
<1>3. IsList(b) /\ Len(b) = Len(c.blocks) /\ \A n \in 1 .. Len(b) : b[n] = F(n)
  <2> HIDE DEF F
  <2> QED BY <1>1 DEF IsList
<1>4. AfterBlocks(d, m, c) = Written(d, m.bytes, b)
  BY DEF AfterBlocks
<1> HIDE DEF b, F
<1>5. m.bytes \in Nat \ {0}
  BY DEF GoodMem
<1> QED BY <1>1, <1>2, <1>3, <1>4, <1>5, WrittenGood

\* What write_file does to a file that is not in the image.
LEMMA StoredGood ==
    ASSUME NEW d, GoodDisk(d), NEW m, GoodMem(m), NEW i, content[i] \in Contents
    PROVE  Adds(d, m, StoredFile(d, m, i).disk, StoredFile(d, m, i).mem)
<1> DEFINE c  == content[i]
           m1 == [m EXCEPT !.bytes = @ + Len(c.blocks)]
           d1 == AfterBlocks(d, m, c)
           m2 == IF TailFits(m1, c.tail) THEN m1 ELSE FragmentMem(m1)
           d2 == IF TailFits(m1, c.tail) THEN d1 ELSE FragmentDisk(d1, m1)
           e  == NewFile(m2, c, m.bytes)
           data == IF c.tail = NoTail THEN m2.fragment_data ELSE Append(m2.fragment_data, c.tail)
           dupl == IF DuplicateCheck THEN Append(m2.dupl, e) ELSE m2.dupl
           m3 == [m2 EXCEPT !.fragment_data = data, !.dupl = dupl]
           inode == FileInodeOf(m3, i, e)
           w == create_inode(m3, i, inode)
<1>1. StoredFile(d, m, i).disk = d2 /\ StoredFile(d, m, i).mem = w
  BY DEF StoredFile
<1>2. /\ GoodDisk(d1) /\ d1.super = d.super /\ Len(c.blocks) \in Nat
      /\ \A q \in Int : q < m.bytes => BlockAt(d1, q) = BlockAt(d, q)
  BY AfterBlocksGood
<1> HIDE DEF d1
<1>3. m.bytes \in Nat \ {0} /\ FragTails \in Nat \ {0}
  BY SizesNat DEF GoodMem
<1>4. /\ GoodMem(m1) /\ Longer(m, m1) /\ m.bytes =< m1.bytes
      /\ m1.fragment_data = m.fragment_data
  <2> DEFINE n == m.bytes + Len(c.blocks)
  <2>1. n \in Nat \ {0} /\ m.bytes =< n
    BY <1>2, <1>3
  <2>2. m1 = [m EXCEPT !.bytes = n]
    OBVIOUS
  <2> HIDE DEF n, m1
  <2>3. GoodMem(m1)
    BY <2>1, <2>2 DEF GoodMem
  <2>4. /\ m1.inode_table = m.inode_table /\ m1.directory_table = m.directory_table
        /\ m1.bytes = n /\ m1.fragment_data = m.fragment_data
    BY <2>2 DEF GoodMem
  <2> QED BY <2>1, <2>3, <2>4, LongerReflexive DEF Longer
<1> HIDE DEF m1
<1>5. Adds(d, m, d1, m1)
  BY <1>2, <1>4 DEF Adds
<1>6. /\ Adds(d, m, d2, m2)
      /\ c.tail # NoTail => Len(m2.fragment_data) < FragTails
  <2>1. CASE TailFits(m1, c.tail)
    BY <1>5, <2>1 DEF TailFits
  <2>2. CASE ~ TailFits(m1, c.tail)
    <3>1. Adds(d1, m1, d2, m2) /\ m2.fragment_data = <<>>
      BY <1>2, <1>4, <2>2, FragmentGood
    <3>2. Adds(d, m, d2, m2)
      BY <1>5, <3>1, AddsTransitive
    <3> QED BY <1>3, <3>1, <3>2, EmptyList
  <2> QED BY <2>1, <2>2
<1> HIDE DEF m2, d2
<1>7. GoodMem(m2)
  BY <1>6 DEF Adds
<1>8. IsList(data) /\ Len(data) =< FragTails
  <2>1. IsList(m2.fragment_data) /\ Len(m2.fragment_data) =< FragTails
    BY <1>7 DEF GoodMem
  <2>2. CASE c.tail = NoTail
    BY <2>1, <2>2
  <2>3. CASE c.tail # NoTail
    <3>1. Len(data) = Len(m2.fragment_data) + 1 /\ IsList(data)
      BY <2>1, <2>3, AppendList
    <3>2. Len(m2.fragment_data) \in Nat /\ Len(m2.fragment_data) < FragTails
      BY <1>6, <2>1, <2>3 DEF IsList
    <3> QED BY <1>3, <3>1, <3>2
  <2> QED BY <2>2, <2>3
<1>9. e.start = m.bytes
  BY DEF NewFile, FileInfo
<1> HIDE DEF e
<1>10. IsList(dupl) /\ \A n \in 1 .. Len(dupl) : dupl[n].start \in Nat \ {0}
  <2>1. IsList(m2.dupl) /\ Len(m2.dupl) \in Nat
        /\ \A n \in 1 .. Len(m2.dupl) : m2.dupl[n].start \in Nat \ {0}
    BY <1>7 DEF GoodMem, IsList
  <2>2. CASE DuplicateCheck
    <3>1. /\ IsList(dupl) /\ Len(dupl) = Len(m2.dupl) + 1
          /\ \A n \in 1 .. Len(m2.dupl) : dupl[n] = m2.dupl[n]
          /\ dupl[Len(m2.dupl) + 1] = e
      BY <2>1, <2>2, AppendList
    <3> HIDE DEF dupl
    <3>2. ASSUME NEW n \in 1 .. Len(dupl) PROVE dupl[n].start \in Nat \ {0}
      <4>1. CASE n \in 1 .. Len(m2.dupl)
        BY <2>1, <3>1, <4>1
      <4>2. CASE n = Len(m2.dupl) + 1
        BY <1>3, <1>9, <3>1, <4>2
      <4> QED BY <2>1, <3>1, <4>1, <4>2
    <3> QED BY <3>1, <3>2
  <2>3. CASE ~ DuplicateCheck
    BY <2>1, <2>3
  <2> QED BY <2>2, <2>3
<1> HIDE DEF data, dupl
<1>11. /\ GoodMem(m3) /\ m3.bytes = m2.bytes
       /\ m3.inode_table = m2.inode_table /\ m3.directory_table = m2.directory_table
  <2> HIDE DEF m3
  <2>1. m3 = [m2 EXCEPT !.fragment_data = data, !.dupl = dupl]
    BY DEF m3
  <2> QED BY <1>7, <1>8, <1>10, <2>1 DEF GoodMem
<1> HIDE DEF m3
<1>12. GoodInode(inode)
  BY <1>3, <1>9 DEF GoodInode, FileInodeOf, FileInode
<1> HIDE DEF inode
<1>13. GoodMem(w) /\ Longer(m3, w) /\ w.bytes = m3.bytes
  BY <1>11, <1>12, CreateInodeGood
<1> HIDE DEF w
<1>14. Longer(m2, w)
  BY <1>11, <1>13 DEF Longer
<1>15. Longer(m, w)
  BY <1>6, <1>7, <1>13, <1>14, LongerTransitive DEF Adds
<1>16. Adds(d, m, d2, w)
  BY <1>6, <1>11, <1>13, <1>15 DEF Adds
<1> QED BY <1>1, <1>16 DEF w

\* A duplicate has its data where an earlier file has them.
LEMMA FoundGood ==
    ASSUME NEW d, GoodDisk(d), NEW m, GoodMem(m), NEW c \in Contents,
           DuplicatesOf(d, m, c) # {}
    PROVE  LET e == m.dupl[Newest(DuplicatesOf(d, m, c))]
           IN  /\ e.start \in Nat \ {0}
               /\ Len(c.blocks) > 0 => e.start \in 1 .. Len(d.blk)
<1> DEFINE ns == DuplicatesOf(d, m, c)
           e == m.dupl[Newest(ns)]
<1>1. DuplicateCheck /\ ns = {n \in DOMAIN m.dupl : SameData(d, m, m.dupl[n], c)}
  BY DEF DuplicatesOf
<1>2. DOMAIN m.dupl = 1 .. Len(m.dupl) /\ Len(m.dupl) \in Nat
      /\ \A n \in 1 .. Len(m.dupl) : m.dupl[n].start \in Nat \ {0}
  BY DEF GoodMem, IsList
<1>3. ns \subseteq 1 .. Len(m.dupl) /\ ns # {}
  BY <1>1, <1>2
<1> HIDE DEF ns
<1>4. \E n \in ns : \A k \in ns : k =< n
  BY <1>2, <1>3, GreatestNatural
<1>5. Newest(ns) \in ns
  BY <1>4 DEF Newest
<1>6. SameData(d, m, e, c) /\ e.start \in Nat \ {0}
  BY <1>1, <1>2, <1>5
<1>7. ASSUME Len(c.blocks) > 0 PROVE e.start \in 1 .. Len(d.blk)
  <2>1. Len(c.blocks) \in Nat
    BY MksquashfsAssumption
  <2>2. 1 \in 1 .. Len(c.blocks)
    BY <1>7, <2>1
  <2>3. BlockAt(d, e.start + 1 - 1) = DataBlock(c.blocks[1])
    BY <1>6, <2>2 DEF SameData
  <2>4. e.start + 1 - 1 = e.start
    BY <1>6
  <2>5. BlockAt(d, e.start) # Unwritten
    <3>1. BlockKind(DataBlock(c.blocks[1])) = "data" /\ BlockKind(Unwritten) = "unwritten"
      BY DEF DataBlock, Unwritten, Block, BlockKind
    <3> QED BY <2>3, <2>4, <3>1
  <2>6. e.start \in DOMAIN d.blk
    BY <2>5 DEF BlockAt
  <2> QED BY <2>6 DEF GoodDisk, IsList
<1> QED BY <1>6, <1>7 DEF ns

\* File i may be too large for the memory, and is a duplicate.
LargeDuplicate(i) ==
    /\ Len(content[i].blocks) >= BigFile
    /\ DuplicatesOf(AfterBlocks(disk, mem, content[i]), mem, content[i]) # {}

LEMMA WriteFileGood ==
    ASSUME GoodDisk(disk), GoodMem(mem), NEW i, content[i] \in Contents,
           NEW whole \in Wholes(i)
    PROVE  LET e == write_file(i, whole).disk
               w == write_file(i, whole).mem
           IN  /\ GoodDisk(e) /\ GoodMem(w) /\ Longer(mem, w) /\ e.super = disk.super
               /\ ~ LargeDuplicate(i) => Adds(disk, mem, e, w)
<1> DEFINE c == content[i]
           d1 == IF whole THEN disk ELSE AfterBlocks(disk, mem, c)
           found == DuplicatesOf(d1, mem, c)
           f == mem.dupl[Newest(found)]
<1>1. CASE found = {}
  <2>1. write_file(i, whole) = StoredFile(disk, mem, i)
    BY <1>1 DEF write_file
  <2>2. Adds(disk, mem, StoredFile(disk, mem, i).disk, StoredFile(disk, mem, i).mem)
    BY StoredGood
  <2> QED BY <2>1, <2>2 DEF Adds
<1>2. CASE found # {}
  <2>1. write_file(i, whole) = DuplicateFile(disk, mem, i, f, whole)
    BY <1>2 DEF write_file
  <2>2. GoodDisk(d1) /\ d1.super = disk.super /\ whole \in BOOLEAN
    BY AfterBlocksGood DEF Wholes
  <2>3. /\ f.start \in Nat \ {0}
        /\ Len(c.blocks) > 0 => f.start \in 1 .. Len(d1.blk)
    BY <1>2, <2>2, FoundGood
  <2>4. ~ whole => Len(c.blocks) >= BigFile /\ Len(c.blocks) > 0
    <3>1. Len(c.blocks) \in Nat /\ BigFile \in Nat \ {0}
      BY MksquashfsAssumption
    <3>2. ASSUME ~ (Len(c.blocks) >= BigFile) PROVE whole
      <4>1. Wholes(i) = {TRUE}
        BY <3>2 DEF Wholes
      <4>2. whole = TRUE
        BY <4>1
      <4> QED BY <4>2
    <3> QED BY <3>1, <3>2
  <2>5. ~ LargeDuplicate(i) => whole
    BY <1>2, <2>4 DEF LargeDuplicate
  <2> HIDE DEF found, f, d1
  <2> DEFINE v == IF whole THEN mem ELSE [mem EXCEPT !.bytes = f.start]
             x == IF whole THEN disk
                  ELSE IF BlockDevice THEN AfterBlocks(disk, mem, c)
                  ELSE Truncated(AfterBlocks(disk, mem, c), f.start)
             inode == FileInodeOf(mem, i, f)
             w == create_inode(v, i, inode)
  <2>7. write_file(i, whole).disk = x /\ write_file(i, whole).mem = w
    BY <2>1 DEF DuplicateFile, Rewound
  <2>8. GoodMem(v) /\ Longer(mem, v) /\ (whole => v.bytes = mem.bytes)
    <3>1. CASE whole
      BY <3>1, LongerReflexive
    <3>2. CASE ~ whole
      <4>1. v = [mem EXCEPT !.bytes = f.start]
        BY <3>2
      <4> HIDE DEF v
      <4>2. GoodMem(v)
        BY <2>3, <4>1 DEF GoodMem
      <4>3. v.inode_table = mem.inode_table /\ v.directory_table = mem.directory_table
        BY <4>1 DEF GoodMem
      <4> QED BY <3>2, <4>2, <4>3, LongerReflexive DEF Longer
    <3> QED BY <3>1, <3>2
  <2>9. GoodDisk(x) /\ x.super = disk.super
    <3>1. CASE whole
      BY <3>1
    <3>2. CASE ~ whole /\ BlockDevice
      BY <2>2, <3>2 DEF d1
    <3>3. CASE ~ whole /\ ~ BlockDevice
      <4>1. x = Truncated(d1, f.start)
        BY <3>3 DEF d1
      <4>2. f.start \in 1 .. Len(d1.blk) + 1
        BY <2>2, <2>3, <2>4, <3>3 DEF GoodDisk, IsList
      <4> HIDE DEF x
      <4> QED BY <2>2, <4>1, <4>2, TruncatedGood
    <3> QED BY <3>1, <3>2, <3>3
  <2>10. GoodInode(inode)
    BY <2>3 DEF GoodInode, FileInodeOf, FileInode
  <2> HIDE DEF v, inode
  <2>11. GoodMem(w) /\ Longer(v, w) /\ w.bytes = v.bytes
    BY <2>8, <2>10, CreateInodeGood
  <2> HIDE DEF w
  <2>12. Longer(mem, w)
    BY <2>8, <2>11, LongerTransitive
  <2>13. ~ LargeDuplicate(i) => Adds(disk, mem, x, w)
    <3>1. ASSUME ~ LargeDuplicate(i) PROVE x = disk /\ w.bytes = mem.bytes
      BY <2>5, <2>8, <2>11, <3>1
    <3>2. mem.bytes =< mem.bytes
      BY DEF GoodMem
    <3> QED BY <2>9, <2>11, <2>12, <3>1, <3>2 DEF Adds
  <2> QED BY <2>7, <2>9, <2>11, <2>12, <2>13 DEF w
<1> QED BY <1>1, <1>2

-----------------------------------------------------------------------------
(* Folding over a sequence, as the library does: from the last element down. *)

LEMMA MaxOf ==
    ASSUME NEW k \in Nat, NEW s, s \subseteq 1 .. k, s # {}
    PROVE  Max(s) \in s /\ \A n \in s : n =< Max(s)
<1>1. PICK n \in s : \A m \in s : m =< n
  BY GreatestNatural
<1>2. n \in s /\ \A m \in s : n >= m
  BY <1>1
<1> QED BY <1>2 DEF Max

\* The recursion of a fold, with a function for each step.
IsFold(g, step, base, SS) ==
    g = [s \in SS |-> IF s = {} THEN base ELSE step[Max(s)][g[s \ {Max(s)}]]]

\* The subsets of S of at most n elements.
Upto(S, n) == {s \in SUBSET S : Cardinality(s) =< n}

LEMMA FoldExists ==
    ASSUME NEW k \in Nat, NEW V, NEW base \in V, NEW step \in [1 .. k -> [V -> V]]
    PROVE  \E g \in [SUBSET (1 .. k) -> V] : IsFold(g, step, base, SUBSET (1 .. k))
<1> DEFINE S == 1 .. k
           Good(g, n) == g \in [Upto(S, n) -> V] /\ IsFold(g, step, base, Upto(S, n))
           Bad == {n \in Nat : ~ \E g : Good(g, n)}
<1>0. IsFiniteSet(S) /\ Cardinality(S) \in Nat
  BY FS_Interval, FS_CardinalityType
<1>1. \A s \in SUBSET S : IsFiniteSet(s) /\ Cardinality(s) \in Nat
  BY <1>0, FS_Subset, FS_CardinalityType
<1>2. \E g : Good(g, 0)
  <2>1. Upto(S, 0) = {{}}
    BY <1>1, FS_EmptySet DEF Upto
  <2> DEFINE g == [s \in {{}} |-> base]
  <2>2. g = [s \in {{}} |-> IF s = {} THEN base ELSE step[Max(s)][g[s \ {Max(s)}]]]
    OBVIOUS
  <2>3. g \in [{{}} -> V]
    OBVIOUS
  <2> HIDE DEF g
  <2> QED BY <2>1, <2>2, <2>3 DEF IsFold
<1>3. ASSUME NEW n \in Nat, NEW f, Good(f, n)
      PROVE  \E g : Good(g, n + 1)
  <2> DEFINE F(s) == IF s = {} THEN base ELSE step[Max(s)][f[s \ {Max(s)}]]
             g == [s \in Upto(S, n + 1) |-> F(s)]
  <2>1. ASSUME NEW s \in Upto(S, n + 1), s # {}
        PROVE  s \ {Max(s)} \in Upto(S, n) /\ Max(s) \in 1 .. k
    <3>1. Max(s) \in s /\ s \subseteq S
      BY <2>1, MaxOf DEF Upto
    <3>2. s \in SUBSET S /\ IsFiniteSet(s) /\ Cardinality(s) =< n + 1
      BY <1>1 DEF Upto
    <3>3. Cardinality(s \ {Max(s)}) = Cardinality(s) - 1
      BY <3>1, <3>2, FS_RemoveElement
    <3>4. s \ {Max(s)} \in SUBSET S /\ Cardinality(s \ {Max(s)}) =< n
      <4> DEFINE c == Cardinality(s \ {Max(s)})
      <4>1. Cardinality(s) \in Nat /\ c = Cardinality(s) - 1 /\ Cardinality(s) =< n + 1
        BY <1>1, <3>2, <3>3
      <4> HIDE DEF c
      <4>2. c =< n
        BY <4>1
      <4> QED BY <3>2, <4>2 DEF c
    <3> QED BY <3>1, <3>4 DEF Upto
  <2>2. Upto(S, n) \subseteq Upto(S, n + 1)
    BY <1>1 DEF Upto
  <2>3. \A s \in Upto(S, n) : g[s] = f[s]
    BY <2>2, <1>3 DEF IsFold
  <2>4. g = [s \in Upto(S, n + 1) |->
                IF s = {} THEN base ELSE step[Max(s)][g[s \ {Max(s)}]]]
    BY <2>1, <2>3
  <2>5. \A s \in Upto(S, n + 1) : F(s) \in V
    <3> TAKE s \in Upto(S, n + 1)
    <3>1. CASE s = {}
      BY <3>1
    <3>2. CASE s # {}
      <4>1. f[s \ {Max(s)}] \in V /\ step[Max(s)] \in [V -> V]
        BY <1>3, <2>1, <3>2
      <4> QED BY <3>2, <4>1
    <3> QED BY <3>1, <3>2
  <2>6. g \in [Upto(S, n + 1) -> V]
    BY <2>5
  <2> HIDE DEF g
  <2> QED BY <2>4, <2>6 DEF IsFold
<1> HIDE DEF Good
<1>4. Bad = {}
  <2> SUFFICES ASSUME Bad # {} PROVE FALSE
    OBVIOUS
  <2>1. PICK n \in Bad : \A m \in Bad : n =< m
    BY LeastNatural
  <2>2. n # 0
    BY <1>2
  <2>3. n - 1 \in Nat /\ n - 1 \notin Bad
    BY <2>1, <2>2
  <2>4. n - 1 + 1 = n
    BY <2>1
  <2> QED BY <1>3, <2>1, <2>3, <2>4
<1>5. Upto(S, Cardinality(S)) = SUBSET S
  BY <1>0, <1>1, FS_Subset DEF Upto
<1>6. PICK g : Good(g, Cardinality(S))
  BY <1>0, <1>4
<1> QED BY <1>5, <1>6 DEF Good

\* What each step keeps holds in the end.
LEMMA FoldKeeps ==
    ASSUME NEW k \in Nat, NEW g, NEW V, g[{}] \in V,
           \A n \in 1 .. k : g[1 .. n - 1] \in V => g[1 .. n] \in V
    PROVE  g[1 .. k] \in V
<1> DEFINE Bad == {n \in 0 .. k : g[1 .. n] \notin V}
<1>1. Bad = {}
  <2> SUFFICES ASSUME Bad # {} PROVE FALSE
    OBVIOUS
  <2>1. Bad \subseteq Nat
    OBVIOUS
  <2>2. PICK n \in Bad : \A m \in Bad : n =< m
    BY <2>1, LeastNatural
  <2>3. 1 .. 0 = {}
    OBVIOUS
  <2>4. n # 0 /\ n \in 0 .. k
    BY <2>2, <2>3
  <2>5. n - 1 \in 0 .. k /\ n \in 1 .. k /\ n - 1 \notin Bad
    <3>1. n - 1 \in 0 .. k /\ n \in 1 .. k /\ ~ (n =< n - 1)
      BY <2>4
    <3> QED BY <2>2, <3>1
  <2>6. g[1 .. n - 1] \in V
    BY <2>5
  <2> QED BY <2>2, <2>5, <2>6
<1> QED BY <1>1

LEMMA LastOf ==
    ASSUME NEW n \in Nat \ {0} PROVE Max(1 .. n) = n /\ (1 .. n) \ {n} = 1 .. n - 1 /\ 1 .. n # {}
<1>1. n \in 1 .. n /\ (1 .. n) \ {n} = 1 .. n - 1
  OBVIOUS
<1>2. Max(1 .. n) \in 1 .. n /\ \A m \in 1 .. n : m =< Max(1 .. n)
  BY <1>1, MaxOf
<1> DEFINE x == Max(1 .. n)
<1>3. x \in 1 .. n /\ n =< x
  BY <1>1, <1>2
<1> HIDE DEF x
<1>4. x = n
  BY <1>3
<1>5. 1 .. n # {}
  BY <1>1
<1>6. Max(1 .. n) = n
  BY <1>4 DEF x
<1> QED BY <1>1, <1>5, <1>6

-----------------------------------------------------------------------------
(* Reading an image.                                                       *)

TableFold(g, d, seq, kind, be) ==
    g = [s \in SUBSET DOMAIN seq |->
            IF s = {} THEN <<>>
            ELSE g[s \ {Max(s)}] \o Decoded(d, seq[Max(s)], kind, be)]

\* The positions of a table's blocks.
Positions(p, q) == [i \in 1 .. (q - p) |-> p + i - 1]

LEMMA TableDef ==
    ASSUME NEW d, NEW p, NEW q, NEW kind, NEW be
    PROVE  Table(d, p, q, kind, be)
            = (CHOOSE g : TableFold(g, d, Positions(p, q), kind, be))[DOMAIN Positions(p, q)]
BY Zenon DEF Table, FoldLeft, MapThenFoldSet, TableFold, Positions

\* A table holds what its blocks hold.
LEMMA TableOf ==
    ASSUME NEW d, NEW p \in Int, NEW q \in Int, NEW kind, NEW be, NEW S,
           \A i \in Int : Decoded(d, i, kind, be) \in Seq(S)
    PROVE  Table(d, p, q, kind, be) \in Seq(S)
<1> DEFINE k == IF q >= p THEN q - p ELSE 0
           seq == Positions(p, q)
           V == Seq(S)
           step == [x \in 1 .. k |-> [v \in V |-> v \o Decoded(d, seq[x], kind, be)]]
           g == CHOOSE g : TableFold(g, d, seq, kind, be)
<1>1. k \in Nat /\ 1 .. (q - p) = 1 .. k /\ DOMAIN seq = 1 .. k
  BY DEF Positions
<1>2. Table(d, p, q, kind, be) = g[DOMAIN seq]
  BY TableDef
<1>3. \A x \in 1 .. k : seq[x] \in Int
  BY <1>1 DEF Positions
<1> HIDE DEF k, seq
<1>4. \A x \in 1 .. k : \A v \in V : v \o Decoded(d, seq[x], kind, be) \in V
  BY <1>3
<1>5. step \in [1 .. k -> [V -> V]] /\ <<>> \in V
  BY <1>4
<1>6. PICK f \in [SUBSET (1 .. k) -> V] : IsFold(f, step, <<>>, SUBSET (1 .. k))
  BY <1>1, <1>5, FoldExists
<1>7. TableFold(f, d, seq, kind, be)
  <2>1. ASSUME NEW s \in SUBSET (1 .. k), s # {}
        PROVE  step[Max(s)][f[s \ {Max(s)}]] = f[s \ {Max(s)}] \o Decoded(d, seq[Max(s)], kind, be)
    <3>1. Max(s) \in 1 .. k
      BY <1>1, <2>1, MaxOf
    <3>2. f[s \ {Max(s)}] \in V
      OBVIOUS
    <3> QED BY <3>1, <3>2
  <2> HIDE DEF step
  <2> QED BY <1>1, <1>6, <2>1 DEF TableFold, IsFold
<1>8. TableFold(g, d, seq, kind, be)
  BY <1>7
<1> HIDE DEF g, V
<1>9. g[{}] \in V
  BY <1>1, <1>5, <1>8 DEF TableFold
<1>10. ASSUME NEW n \in 1 .. k, g[1 .. n - 1] \in V PROVE g[1 .. n] \in V
  <2>1. Max(1 .. n) = n /\ (1 .. n) \ {n} = 1 .. n - 1 /\ 1 .. n # {}
    <3>1. n \in Nat \ {0}
      BY <1>1
    <3> QED BY ONLY <3>1, LastOf
  <2>2. 1 .. n \in SUBSET DOMAIN seq
    BY <1>1
  <2>3. g[1 .. n] = g[1 .. n - 1] \o Decoded(d, seq[n], kind, be)
    BY <1>8, <2>1, <2>2 DEF TableFold
  <2> QED BY <1>4, <1>10, <2>3
<1>11. g[1 .. k] \in V
  BY <1>1, <1>9, <1>10, FoldKeeps
<1> QED BY <1>1, <1>2, <1>11 DEF V

LEMMA DecodedGood ==
    ASSUME NEW d, GoodDisk(d), NEW p, NEW be
    PROVE  /\ GoodInodes(Decoded(d, p, "inodes", be))
           /\ IsList(Decoded(d, p, "entries", be))
           /\ IsList(Decoded(d, p, "uids", be)) /\ Len(Decoded(d, p, "uids", be)) =< MaxUids
           /\ IsList(Decoded(d, p, "gids", be)) /\ Len(Decoded(d, p, "gids", be)) =< MaxUids
<1>1. GoodBlock(BlockAt(d, p))
  BY BlockGood
<1>2. IsList(<<>>) /\ Len(<<>>) =< MaxUids /\ GoodInodes(<<>>)
  BY EmptyList, SizesNat DEF GoodInodes
<1> QED BY <1>1, <1>2 DEF Decoded, GoodBlock

LEMMA InodesGood ==
    ASSUME NEW d, GoodDisk(d), NEW p \in Int, NEW q \in Int, NEW be
    PROVE  GoodInodes(Table(d, p, q, "inodes", be))
<1> DEFINE D(i) == Decoded(d, i, "inodes", be)
           S == UNION {{D(i)[n] : n \in 1 .. Len(D(i))} : i \in Int}
<1>1. \A i \in Int : GoodInodes(D(i))
  BY DecodedGood
<1>2. \A x \in S : GoodInode(x)
  BY <1>1 DEF GoodInodes
<1>3. ASSUME NEW i \in Int PROVE D(i) \in Seq(S)
  <2>1. IsList(D(i))
    BY <1>1 DEF GoodInodes
  <2>2. \A n \in 1 .. Len(D(i)) : D(i)[n] \in S
    OBVIOUS
  <2> HIDE DEF S, D
  <2> QED BY <2>1, <2>2, ListsOf
<1> HIDE DEF S
<1>4. Table(d, p, q, "inodes", be) \in Seq(S)
  BY <1>3, TableOf
<1>5. /\ IsList(Table(d, p, q, "inodes", be))
      /\ \A n \in 1 .. Len(Table(d, p, q, "inodes", be)) : Table(d, p, q, "inodes", be)[n] \in S
  BY <1>4, ListsOf
<1> QED BY <1>2, <1>5 DEF GoodInodes

LEMMA EntriesList ==
    ASSUME NEW d, GoodDisk(d), NEW p \in Int, NEW q \in Int, NEW be
    PROVE  IsList(Table(d, p, q, "entries", be))
<1> DEFINE D(i) == Decoded(d, i, "entries", be)
           S == UNION {{D(i)[n] : n \in 1 .. Len(D(i))} : i \in Int}
<1>1. \A i \in Int : IsList(D(i))
  BY DecodedGood
<1>2. ASSUME NEW i \in Int PROVE D(i) \in Seq(S)
  <2>1. \A n \in 1 .. Len(D(i)) : D(i)[n] \in S
    OBVIOUS
  <2> HIDE DEF S, D
  <2> QED BY <1>1, <2>1, ListsOf
<1> HIDE DEF S
<1>3. Table(d, p, q, "entries", be) \in Seq(S)
  BY <1>2, TableOf
<1> QED BY <1>3, ListsOf

\* An inode's place in the table, and that of the first inode of its block.
LEMMA PlaceGood ==
    ASSUME NEW d, GoodDisk(d), NEW ref \in Refs
    PROVE  /\ InodePlace(d, ref) \in Int /\ InodePlace(d, ref) - ref.offset \in Nat \ {0}
           /\ ref.offset \in -1 .. MetaInodes - 1 /\ ref.block \in Int
<1> DEFINE p == d.super.inode_table_start
           t == Table(d, p, p + ref.block, "inodes", d.super.be)
<1>1. ref.block \in Int /\ ref.offset \in -1 .. MetaInodes - 1
  BY SizesNat DEF Refs, NoRef, InodeRef
<1>2. p \in Int
  BY DEF GoodDisk, GoodSuper
<1>3. Len(t) \in Nat
  BY <1>1, <1>2, InodesGood DEF GoodInodes, IsList
<1>4. InodePlace(d, ref) = Len(t) + ref.offset + 1
  BY DEF InodePlace, PlaceIn
<1> HIDE DEF t
<1> QED BY <1>1, <1>3, <1>4

LEMMA RootGood ==
    ASSUME NEW d, GoodDisk(d), Readable(d)
    PROVE  /\ d.super.root \in [block : Nat, offset : 0 .. MetaInodes - 1]
           /\ InodePlace(d, d.super.root) \in 2 .. Len(Inodes(d))
           /\ GoodInodes(Inodes(d)) /\ Len(Inodes(d)) \in Nat
           /\ RootInode(d).start \in Nat /\ RootInode(d).size \in Nat
           /\ RootInode(d).offset \in 0 .. MetaEntries
           /\ d.super.inode_table_start \in Nat \ {0}
<1>1. d.super.root \in Refs /\ d.super.inode_table_start \in Nat \ {0}
      /\ d.super.directory_table_start \in Nat
  BY DEF GoodDisk, GoodSuper, Readable
<1>2. InodePlace(d, d.super.root) \in 2 .. Len(Inodes(d)) /\ RootInode(d).type = "dir"
  BY DEF Readable
<1>3. GoodInodes(Inodes(d))
  BY <1>1, InodesGood DEF Inodes
<1>4. Len(Inodes(d)) \in Nat
  BY <1>3 DEF GoodInodes, IsList
<1>5. GoodInode(RootInode(d))
  <2>1. InodePlace(d, d.super.root) \in 1 .. Len(Inodes(d))
    BY <1>2, <1>4
  <2> QED BY <1>3, <2>1 DEF GoodInodes, RootInode
<1>6. d.super.root # NoRef
  <2> SUFFICES ASSUME d.super.root = NoRef PROVE FALSE
    OBVIOUS
  <2> DEFINE p == d.super.inode_table_start
             t == Table(d, p, p + -1, "inodes", d.super.be)
  <2>1. InodePlace(d, d.super.root) = Len(t) + -1 + 1
    BY DEF InodePlace, PlaceIn, NoRef, InodeRef
  <2>2. Len(t) = 0
    <3> DEFINE seq == Positions(p, p + -1)
               g == CHOOSE g : TableFold(g, d, seq, "inodes", d.super.be)
    <3>1. DOMAIN seq = {}
      BY <1>1 DEF Positions
    <3>2. t = g[DOMAIN seq]
      BY TableDef
    <3> HIDE DEF seq, t
    <3>3. TableFold([s \in {{}} |-> <<>>], d, seq, "inodes", d.super.be)
      BY <3>1 DEF TableFold
    <3>4. TableFold(g, d, seq, "inodes", d.super.be)
      BY <3>3
    <3> HIDE DEF g
    <3>5. g[{}] = <<>>
      BY <3>1, <3>4 DEF TableFold
    <3> QED BY <3>1, <3>2, <3>5, EmptyList
  <2> QED BY <1>2, <1>4, <2>1, <2>2
<1>7. d.super.root \in [block : Nat, offset : 0 .. MetaInodes - 1]
  BY <1>1, <1>6 DEF Refs
<1> QED BY <1>1, <1>2, <1>3, <1>4, <1>5, <1>7 DEF GoodInode

OldFold(g, d, seq) ==
    g = [s \in SUBSET DOMAIN seq |->
            IF s = {} THEN <<>>
            ELSE IF seq[Max(s)].type = "file" THEN add_file(d, g[s \ {Max(s)}], seq[Max(s)])
                 ELSE g[s \ {Max(s)}]]

\* The inodes before the root.
Older(d) == SubSeq(Inodes(d), 1, InodePlace(d, d.super.root) - 1)

LEMMA OldFilesDef ==
    ASSUME NEW d
    PROVE  OldFiles(d) = (CHOOSE g : OldFold(g, d, Older(d)))[DOMAIN Older(d)]
BY Zenon DEF OldFiles, FoldLeft, MapThenFoldSet, OldFold, Older

\* What the duplicate lists hold has its data behind the super block.
LEMMA OldFilesGood ==
    ASSUME NEW d, GoodDisk(d), Readable(d)
    PROVE  /\ IsList(OldFiles(d))
           /\ \A n \in 1 .. Len(OldFiles(d)) : OldFiles(d)[n].start \in Nat \ {0}
<1> DEFINE seq == Older(d)
           k == Len(seq)
           Info(i) == FileInfo(i.size, i.frag # NoFrag, i.start, i.frag, i.offset)
           FI == {Info(seq[x]) : x \in {y \in 1 .. k : seq[y].type = "file"}}
           V == Seq(FI)
           Op(v, i) == IF i.type = "file" THEN add_file(d, v, i) ELSE v
           step == [x \in 1 .. k |-> [v \in V |-> Op(v, seq[x])]]
           g == CHOOSE g : OldFold(g, d, seq)
<1>1. /\ IsList(seq) /\ k \in Nat /\ DOMAIN seq = 1 .. k
      /\ \A x \in 1 .. k : GoodInode(seq[x])
  <2> DEFINE place == InodePlace(d, d.super.root)
             all == Inodes(d)
  <2>1. place \in 2 .. Len(all) /\ GoodInodes(all) /\ Len(all) \in Nat
    BY RootGood
  <2>2. seq = SubSeq(all, 1, place - 1)
    BY DEF Older
  <2> HIDE DEF seq, all, place
  <2>3. /\ IsList(seq) /\ Len(seq) = place - 1
        /\ \A x \in 1 .. Len(seq) : seq[x] = all[x]
    BY <2>1, <2>2, SubList
  <2>4. \A x \in 1 .. Len(seq) : x \in 1 .. Len(all)
    BY <2>1, <2>3
  <2> QED BY <2>1, <2>3, <2>4 DEF GoodInodes, IsList
<1>2. OldFiles(d) = g[DOMAIN seq]
  BY OldFilesDef
<1> HIDE DEF seq, k
<1>3. ASSUME NEW x \in 1 .. k, NEW v \in V PROVE Op(v, seq[x]) \in V
  <2>1. CASE seq[x].type = "file"
    <3>1. Info(seq[x]) \in FI
      BY <2>1
    <3>2. add_file(d, v, seq[x]) = v \/ add_file(d, v, seq[x]) = Append(v, Info(seq[x]))
      BY DEF add_file
    <3> HIDE DEF FI, Info
    <3> QED BY <2>1, <3>1, <3>2
  <2>2. CASE seq[x].type # "file"
    BY <2>2
  <2> QED BY <2>1, <2>2
<1> HIDE DEF Op, FI
<1>4. step \in [1 .. k -> [V -> V]] /\ <<>> \in V
  BY <1>3
<1>5. PICK f \in [SUBSET (1 .. k) -> V] : IsFold(f, step, <<>>, SUBSET (1 .. k))
  BY <1>1, <1>4, FoldExists
<1>6. OldFold(f, d, seq)
  <2>1. ASSUME NEW s \in SUBSET (1 .. k), s # {}
        PROVE  step[Max(s)][f[s \ {Max(s)}]]
                = IF seq[Max(s)].type = "file" THEN add_file(d, f[s \ {Max(s)}], seq[Max(s)])
                  ELSE f[s \ {Max(s)}]
    <3>1. Max(s) \in 1 .. k
      BY <1>1, <2>1, MaxOf
    <3>2. f[s \ {Max(s)}] \in V
      OBVIOUS
    <3> QED BY <3>1, <3>2 DEF Op
  <2> HIDE DEF step
  <2> QED BY <1>1, <1>5, <2>1 DEF OldFold, IsFold
<1>7. OldFold(g, d, seq)
  BY <1>6
<1> HIDE DEF g, V
<1>8. g[{}] \in V
  BY <1>1, <1>4, <1>7 DEF OldFold
<1>9. ASSUME NEW n \in 1 .. k, g[1 .. n - 1] \in V PROVE g[1 .. n] \in V
  <2>1. Max(1 .. n) = n /\ (1 .. n) \ {n} = 1 .. n - 1 /\ 1 .. n # {}
    <3>1. n \in Nat \ {0}
      BY <1>1
    <3> QED BY ONLY <3>1, LastOf
  <2>2. 1 .. n \in SUBSET DOMAIN seq
    BY <1>1
  <2>3. g[1 .. n] = Op(g[1 .. n - 1], seq[n])
    BY <1>7, <2>1, <2>2 DEF OldFold, Op
  <2> QED BY <1>3, <1>9, <2>3
<1>10. OldFiles(d) \in V
  BY <1>1, <1>2, <1>8, <1>9, FoldKeeps
<1>11. ASSUME NEW e \in FI PROVE e.start \in Nat \ {0}
  <2>1. PICK x \in 1 .. k : seq[x].type = "file" /\ e = Info(seq[x])
    BY DEF FI
  <2>2. seq[x].start \in Nat \ {0}
    BY <1>1, <2>1 DEF GoodInode
  <2> QED BY <2>1, <2>2 DEF FileInfo
<1>12. IsList(OldFiles(d)) /\ \A n \in 1 .. Len(OldFiles(d)) : OldFiles(d)[n] \in FI
  BY <1>10, ListsOf DEF V
<1> QED BY <1>11, <1>12

\* What the root's directory reads, and the block read last.
LEMMA RootContentGood ==
    ASSUME NEW d, GoodDisk(d), Readable(d)
    PROVE  /\ IsList(RootContent(d)) /\ Len(RootContent(d)) \in Nat
           /\ LastDirectoryBlock(d) \in Nat /\ RootInode(d).start =< LastDirectoryBlock(d)
<1> DEFINE r == RootInode(d)
           from == EntryPlace(d, r.start, 0)
           t == Table(d, d.super.directory_table_start,
                      d.super.directory_table_start + r.start, "entries", d.super.be)
           n == Len(RootContent(d))
<1>1. r.start \in Nat /\ r.size \in Nat /\ r.offset \in Nat /\ MetaEntries \in Nat \ {0}
  BY RootGood, SizesNat
<1>2. d.super.directory_table_start \in Nat
  BY DEF GoodDisk, GoodSuper
<1>3. Len(t) \in Nat
  BY <1>1, <1>2, EntriesList DEF IsList
<1>4. from = Len(t) + 0 + 1
  BY DEF EntryPlace, PlaceIn
<1>5. RootContent(d) = SubSeq(Entries(d), from, from + r.offset + r.size - 1)
  BY DEF RootContent
<1>6. LastDirectoryBlock(d) = r.start + (IF n = 0 THEN 0 ELSE (n - 1) \div MetaEntries)
  BY DEF LastDirectoryBlock
<1> HIDE DEF t, from, r
<1>7. from \in Int /\ from + r.offset + r.size - 1 \in Int
  BY <1>1, <1>3, <1>4
<1>8. IsList(RootContent(d))
  BY <1>5, <1>7, SubList
<1>9. n \in Nat
  BY <1>8 DEF IsList
<1> HIDE DEF n
<1>10. (IF n = 0 THEN 0 ELSE (n - 1) \div MetaEntries) \in Nat
  BY <1>1, <1>9
<1> QED BY <1>1, <1>6, <1>8, <1>9, <1>10 DEF n, r

LEMMA ReadMemGood ==
    ASSUME NEW d, GoodDisk(d), Readable(d)
    PROVE  /\ GoodMem(ReadMem(d)) /\ Len(ReadMem(d).data_cache) \in Nat \ {0}
           /\ ReadMem(d).directory_bytes = LastDirectoryBlock(d)
           /\ Len(ReadMem(d).directory_table) = LastDirectoryBlock(d)
<1> DEFINE m == ReadMem(d)
           root == d.super.root
           all == RootContent(d)
           last == LastDirectoryBlock(d)
           place == InodePlace(d, root)
           F(n) == Decoded(d, d.super.inode_table_start + n - 1, "inodes", d.super.be)
           G(n) == Decoded(d, d.super.directory_table_start + n - 1, "entries", d.super.be)
           itable == [n \in 1 .. root.block |-> F(n)]
           dtable == [n \in 1 .. last |-> G(n)]
           icache == SubSeq(Inodes(d), place - root.offset, place)
           dcache == SubSeq(all, (Len(all) \div MetaEntries) * MetaEntries + 1, Len(all))
           uids == OwnerTable(d)
           gids == Decoded(d, d.super.uid_start + 1, "gids", d.super.be)
           dupl == IF DuplicateCheck THEN OldFiles(d) ELSE <<>>
<1>1. m = [bytes |-> d.super.inode_table_start, inode_bytes |-> root.block,
           inode_table |-> itable, data_cache |-> icache, directory_bytes |-> last,
           directory_table |-> dtable, directory_cache |-> dcache, uids |-> uids,
           gids |-> gids, inode_count |-> place, fragments |-> d.super.fragments,
           fragment_table |-> FragTable(d), fragment_data |-> <<>>, dupl |-> dupl]
  <2>1. m = [NoMem EXCEPT
                !.bytes = d.super.inode_table_start, !.inode_bytes = root.block,
                !.inode_table = itable, !.data_cache = icache, !.directory_bytes = last,
                !.directory_table = dtable, !.directory_cache = dcache, !.uids = uids,
                !.gids = gids, !.inode_count = place, !.fragments = d.super.fragments,
                !.fragment_table = FragTable(d), !.dupl = dupl]
    BY DEF ReadMem
  <2> HIDE DEF m, root, last, place, itable, dtable, icache, dcache, uids, gids, dupl
  <2> QED BY <2>1 DEF NoMem
<1>2. /\ root \in [block : Nat, offset : 0 .. MetaInodes - 1]
      /\ d.super.inode_table_start \in Nat \ {0} /\ place \in 2 .. Len(Inodes(d))
      /\ GoodInodes(Inodes(d)) /\ Len(Inodes(d)) \in Nat
  BY RootGood
<1>3. d.super.fragments \in Nat
  BY DEF GoodDisk, GoodSuper
<1>4. last \in Nat /\ IsList(all) /\ Len(all) \in Nat
  BY RootContentGood
<1>5. /\ IsList(itable) /\ Len(itable) = root.block
      /\ \A n \in 1 .. Len(itable) : GoodInodes(itable[n])
  <2>1. root.block \in Nat
    BY <1>2
  <2>2. \A n \in 1 .. root.block : GoodInodes(F(n))
    BY DecodedGood
  <2> HIDE DEF root, F
  <2> QED BY <2>1, <2>2 DEF IsList
<1>6. /\ IsList(dtable) /\ Len(dtable) = last
      /\ \A n \in 1 .. Len(dtable) : IsList(dtable[n])
  <2>1. \A n \in 1 .. last : IsList(G(n))
    BY DecodedGood
  <2> HIDE DEF last, G
  <2> QED BY <1>4, <2>1 DEF IsList
<1>7. GoodInodes(icache) /\ Len(icache) =< MetaInodes /\ Len(icache) \in Nat \ {0}
  <2> DEFINE from == place - root.offset
             ins == Inodes(d)
  <2>1. from \in Nat \ {0} /\ root.offset \in 0 .. MetaInodes - 1 /\ MetaInodes \in Nat
    <3>1. root \in Refs
      BY <1>2 DEF Refs
    <3> QED BY <1>2, <3>1, PlaceGood, SizesNat
  <2>2. icache = SubSeq(ins, from, place)
    OBVIOUS
  <2> HIDE DEF root, place, icache, ins
  <2>3. place \in Int /\ from =< place /\ place =< Len(ins)
    BY <1>2, <2>1 DEF ins
  <2>4. /\ IsList(icache) /\ Len(icache) = place - from + 1
        /\ \A k \in 1 .. Len(icache) : icache[k] = ins[k + from - 1]
    <3> HIDE DEF from
    <3> QED BY <2>1, <2>2, <2>3, SubList
  <2>5. \A k \in 1 .. Len(icache) : k + from - 1 \in 1 .. Len(ins)
    <3>1. Len(ins) \in Nat
      BY <1>2 DEF ins
    <3> DEFINE long == Len(ins)
               n == Len(icache)
    <3>2. n = place - from + 1 /\ from \in Nat \ {0} /\ place \in Int /\ place =< long /\ long \in Nat
      BY <2>1, <2>3, <2>4, <3>1
    <3> HIDE DEF long, n, from
    <3>3. \A k \in 1 .. n : k + from - 1 \in 1 .. long
      BY ONLY <3>2
    <3> QED BY ONLY <3>3 DEF n, long
  <2>6. \A k \in 1 .. Len(icache) : GoodInode(icache[k])
    BY <1>2, <2>4, <2>5 DEF GoodInodes, ins
  <2>7. Len(icache) = root.offset + 1
    BY <2>1, <2>3, <2>4
  <2> QED BY <2>1, <2>4, <2>6, <2>7 DEF GoodInodes
<1>8. IsList(dcache) /\ Len(dcache) =< MetaEntries
  <2> DEFINE n == Len(all)
             from == (n \div MetaEntries) * MetaEntries + 1
  <2>1. MetaEntries \in Nat \ {0} /\ n \in Nat
    BY <1>4, SizesNat
  <2> HIDE DEF n
  <2>2. from \in Int /\ n - from + 1 =< MetaEntries
    BY <2>1
  <2>3. dcache = SubSeq(all, from, n)
    BY DEF n
  <2> HIDE DEF from, dcache, all
  <2>4. IsList(dcache) /\ Len(dcache) = IF from =< n THEN n - from + 1 ELSE 0
    BY <2>1, <2>2, <2>3, SubList
  <2> QED BY <2>1, <2>2, <2>4
<1>9. IsList(uids) /\ Len(uids) =< MaxUids /\ IsList(gids) /\ Len(gids) =< MaxUids
  BY DecodedGood DEF OwnerTable
<1>10. IsList(dupl) /\ \A n \in 1 .. Len(dupl) : dupl[n].start \in Nat \ {0}
  BY OldFilesGood, EmptyList
<1>11. IsList(<<>>) /\ Len(<<>>) = 0 /\ 0 =< FragTails
  BY EmptyList, SizesNat
<1>12. root.block \in Nat /\ root.block \in 0 .. root.block /\ last \in 0 .. last
  BY <1>2, <1>4
<1> HIDE DEF m, root, last, place, itable, dtable, icache, dcache, uids, gids, dupl
<1>13. GoodMem(m)
  BY <1>1, <1>2, <1>3, <1>5, <1>6, <1>7, <1>8, <1>9, <1>10, <1>11, <1>12 DEF GoodMem
<1>14. m.directory_bytes = last /\ m.directory_table = dtable /\ m.data_cache = icache
  BY <1>1
<1> QED BY <1>6, <1>7, <1>13, <1>14 DEF m, last

LEMMA AppendMemGood ==
    ASSUME NEW d, GoodDisk(d), Readable(d), NEW mode
    PROVE  LET m == ReadMem(d)
               w == AppendMem(d, m, mode)
           IN  GoodMem(w) /\ Longer(m, w) /\ w.bytes = m.bytes
<1> DEFINE m == ReadMem(d)
           w == AppendMem(d, m, mode)
           r == RootInode(d)
           cache == SubSeq(m.data_cache, 1, Len(m.data_cache) - 1)
           dcache == SubSeq(RootContent(d), 1, r.offset)
<1>1. /\ GoodMem(m) /\ Len(m.data_cache) \in Nat \ {0}
      /\ Len(m.directory_table) = LastDirectoryBlock(d)
  BY ReadMemGood
<1>2. /\ r.start \in Nat /\ r.offset \in 0 .. MetaEntries
      /\ r.start =< LastDirectoryBlock(d) /\ LastDirectoryBlock(d) \in Nat
  BY RootGood, RootContentGood
<1> HIDE DEF m, r
<1>3. ASSUME mode = "becomes" PROVE GoodMem(w) /\ Longer(m, w) /\ w.bytes = m.bytes
  <2>1. w = m
    BY <1>3 DEF AppendMem
  <2> HIDE DEF w
  <2> QED BY <1>1, <2>1, LongerReflexive
<1>4. ASSUME mode # "becomes" PROVE GoodMem(w) /\ Longer(m, w) /\ w.bytes = m.bytes
  <2>1. w = [m EXCEPT !.data_cache = cache, !.inode_count = m.inode_count - 1,
                      !.directory_bytes = r.start, !.directory_cache = dcache]
    BY <1>4 DEF AppendMem, r
  <2>2. /\ IsList(cache) /\ Len(cache) = Len(m.data_cache) - 1
        /\ \A k \in 1 .. Len(cache) : cache[k] = m.data_cache[k]
    <3> HIDE DEF cache
    <3>1. Len(m.data_cache) - 1 \in Int
      BY <1>1
    <3>2. cache = SubSeq(m.data_cache, 1, Len(m.data_cache) - 1)
      BY DEF cache
    <3> QED BY <1>1, <3>1, <3>2, SubList
  <2>3. GoodInodes(cache) /\ Len(cache) =< MetaInodes
    <3>1. GoodInodes(m.data_cache) /\ Len(m.data_cache) =< MetaInodes /\ MetaInodes \in Nat
      BY <1>1, SizesNat DEF GoodMem
    <3> HIDE DEF cache
    <3>2. Len(cache) =< MetaInodes /\ \A k \in 1 .. Len(cache) : k \in 1 .. Len(m.data_cache)
      BY <1>1, <2>2, <3>1
    <3> QED BY <2>2, <3>1, <3>2 DEF GoodInodes
  <2>4. IsList(dcache) /\ Len(dcache) =< MetaEntries
    <3>1. r.offset \in Int /\ r.offset =< MetaEntries /\ MetaEntries \in Nat
      BY <1>2, SizesNat
    <3>2. IsList(dcache) /\ Len(dcache) = IF 1 =< r.offset THEN r.offset - 1 + 1 ELSE 0
      BY <3>1, SubList
    <3> QED BY <3>1, <3>2
  <2>5. r.start \in 0 .. Len(m.directory_table)
    BY <1>1, <1>2
  <2> HIDE DEF w, cache, dcache
  <2>6. GoodMem(w)
    BY <1>1, <2>1, <2>3, <2>4, <2>5 DEF GoodMem
  <2>7. /\ w.inode_table = m.inode_table /\ w.directory_table = m.directory_table
        /\ w.bytes = m.bytes
    BY <1>1, <2>1 DEF GoodMem
  <2>8. Longer(m, w)
    BY <1>1, <2>7, LongerReflexive DEF Longer
  <2> QED BY <2>6, <2>7, <2>8
<1>5. GoodMem(w) /\ Longer(m, w) /\ w.bytes = m.bytes
  BY <1>3, <1>4
<1> QED BY <1>5 DEF m

-----------------------------------------------------------------------------
(* The beginning and the end of a run.                                     *)

\* The step writes a file that is a duplicate and may be too large for the
\* memory, and so may take back what it has written.
TakesBack ==
    \E i \in Files : proc.refs[i] = NoRef /\ proc'.refs[i] # NoRef /\ LargeDuplicate(i)

\* What a step keeps: the invariant and, if it takes nothing back, the old data.
Keeps == Inv' /\ (~ TakesBack /\ Behind => Behind')

LEMMA BlankGood ==
    /\ GoodMem(NoMem) /\ GoodSuper(NoSuper) /\ GoodDisk(EmptyDisk) /\ GoodDisk(NoDisk)
    /\ GoodProc(NoProc) /\ ~ NoSave.restore
    /\ NoSave = [restore |-> NoSave.restore, mem |-> NoSave.mem]
<1>1. IsList(<<>>) /\ Len(<<>>) = 0 /\ GoodInodes(<<>>)
  BY EmptyList DEF GoodInodes
<1>2. GoodMem(NoMem)
  <2>1. NoMem.bytes \in Nat \ {0} /\ NoMem.fragments \in Nat
    BY DEF NoMem
  <2>2. 0 \in 0 .. 0 /\ 0 =< MetaInodes /\ 0 =< MetaEntries /\ 0 =< MaxUids /\ 0 =< FragTails
    BY SizesNat
  <2> QED BY <1>1, <2>1, <2>2 DEF GoodMem, NoMem
<1>3. GoodSuper(NoSuper) /\ ~ NoSuper.magic
  <2> DEFINE no == FALSE
             yes == TRUE
             s == SuperBlock(FALSE, 0, NoRef, 0, 0, 0, 0, 0, 0, 0)
  <2>1. s = [magic |-> yes, be |-> no, inodes |-> 0, root |-> NoRef, fragments |-> 0,
             inode_table_start |-> 0, directory_table_start |-> 0,
             fragment_table_start |-> 0, uid_start |-> 0, no_uids |-> 0, no_guids |-> 0]
    BY DEF SuperBlock
  <2>2. NoSuper = [s EXCEPT !.magic = no]
    BY DEF NoSuper
  <2>3. NoRef \in Refs /\ ~ no
    BY DEF Refs
  <2> HIDE DEF no, yes, s
  <2> QED BY <2>1, <2>2, <2>3 DEF GoodSuper
<1>5. GoodDisk(EmptyDisk)
  BY <1>1, <1>3 DEF GoodDisk, EmptyDisk
<1>6. GoodDisk(NoDisk)
  <2> DEFINE no == FALSE
             yes == TRUE
  <2>1. EmptyDisk = [exists |-> yes, super |-> NoSuper, blk |-> <<>>]
    BY DEF EmptyDisk
  <2>2. NoDisk = [EmptyDisk EXCEPT !.exists = no]
    BY DEF NoDisk
  <2> HIDE DEF no, yes
  <2> QED BY <1>1, <1>3, <2>1, <2>2 DEF GoodDisk
<1>7. GoodProc(NoProc)
  BY <1>1 DEF GoodProc, NoProc, Refs
<1> QED BY <1>2, <1>3, <1>5, <1>6, <1>7 DEF NoSave

LEMMA EndsKeep ==
    ASSUME Inv, Ends, GoodDisk(disk'), UNCHANGED <<content, run>>, signals' \in 0 .. MaxSignals
    PROVE  Keeps
<1>1. /\ GoodMem(mem') /\ GoodProc(proc') /\ GoodSuper(sb') /\ ~ save'.restore
      /\ save' = [restore |-> save'.restore, mem |-> save'.mem] /\ phase' = "idle"
  BY BlankGood DEF Ends
<1>2. Inv'
  BY <1>1 DEF Inv, GoodSave
<1>3. Behind'
  BY <1>1 DEF Behind
<1> QED BY <1>2, <1>3 DEF Keeps

\* A step in the middle of a run.
LEMMA StepKeeps ==
    ASSUME Inv, phase # "idle", GoodDisk(disk'), GoodMem(mem'), Longer(mem, mem'),
           GoodProc(proc'), GoodSuper(sb'), UNCHANGED <<content, run, save, origin>>,
           signals' \in 0 .. MaxSignals, phase' \in AllPhases,
           phase' \in {"directories", "frags", "ids", "super"} => sb'.inode_table_start >= 1,
           ~ TakesBack => Adds(disk, mem, disk', mem')
    PROVE  Keeps
<1>1. GoodMem(mem) /\ GoodSave /\ save' = save /\ origin' = origin
  BY DEF Inv
<1>2. phase' # "idle"
  BY DEF AllPhases
<1>3. GoodSave'
  <2>1. save = [restore |-> save.restore, mem |-> save.mem]
    BY <1>1 DEF GoodSave
  <2>2. ASSUME save.restore
        PROVE  /\ GoodMem(save.mem) /\ save.mem.inode_bytes =< Len(mem'.inode_table)
               /\ save.mem.directory_bytes =< Len(mem'.directory_table)
    <3>1. /\ GoodMem(save.mem) /\ save.mem.inode_bytes =< Len(mem.inode_table)
          /\ save.mem.directory_bytes =< Len(mem.directory_table)
      BY <1>1, <2>2 DEF GoodSave
    <3>2. /\ save.mem.inode_bytes \in Int /\ save.mem.directory_bytes \in Int
          /\ Len(mem.inode_table) \in Nat /\ Len(mem.directory_table) \in Nat
          /\ Len(mem'.inode_table) \in Nat /\ Len(mem'.directory_table) \in Nat
      <4>1. save.mem.inode_bytes \in Int /\ save.mem.directory_bytes \in Int
        BY <3>1 DEF GoodMem
      <4>2. Len(mem.inode_table) \in Nat /\ Len(mem.directory_table) \in Nat
        BY <1>1 DEF GoodMem, IsList
      <4>3. Len(mem'.inode_table) \in Nat /\ Len(mem'.directory_table) \in Nat
        BY DEF GoodMem, IsList
      <4> QED BY <4>1, <4>2, <4>3
    <3>3. /\ Len(mem.inode_table) =< Len(mem'.inode_table)
          /\ Len(mem.directory_table) =< Len(mem'.directory_table)
      BY DEF Longer
    <3> QED BY <3>1, <3>2, <3>3
  <2> QED BY <1>1, <1>2, <2>1, <2>2 DEF GoodSave
<1>4. Inv'
  BY <1>2, <1>3 DEF Inv
<1>5. ASSUME ~ TakesBack, Behind PROVE Behind'
  <2>1. Adds(disk, mem, disk', mem')
    BY <1>5
  <2>2. ASSUME save.restore
        PROVE  /\ save.mem.bytes =< mem'.bytes
               /\ \A p \in 1 .. save.mem.bytes - 1 : BlockAt(disk', p) = BlockAt(origin, p)
    <3>1. /\ save.mem.bytes =< mem.bytes
          /\ \A p \in 1 .. save.mem.bytes - 1 : BlockAt(disk, p) = BlockAt(origin, p)
      BY <1>5, <2>2 DEF Behind
    <3>2. GoodMem(save.mem)
      BY <1>1, <2>2 DEF GoodSave
    <3>3. save.mem.bytes \in Nat /\ mem.bytes \in Nat /\ mem'.bytes \in Nat
      BY <1>1, <3>2 DEF GoodMem
    <3>4. mem.bytes =< mem'.bytes
      BY <2>1 DEF Adds
    <3>5. ASSUME NEW p \in 1 .. save.mem.bytes - 1 PROVE BlockAt(disk', p) = BlockAt(disk, p)
      <4>1. p \in Int /\ p < mem.bytes
        BY <3>1, <3>3
      <4> QED BY <2>1, <4>1 DEF Adds
    <3> QED BY <3>1, <3>3, <3>4, <3>5
  <2> QED BY <1>1, <2>2 DEF Behind
<1> QED BY <1>4, <1>5 DEF Keeps

\* Another frame on the stack, the image and the tables as they are.
LEMMA WalkKeeps ==
    ASSUME Inv, phase # "idle", GoodProc(proc'), phase' = phase,
           UNCHANGED <<disk, content, run, mem, sb, save, signals, origin>>
    PROVE  Keeps
<1>1. GoodDisk(disk) /\ GoodMem(mem) /\ GoodSuper(sb) /\ signals \in 0 .. MaxSignals
  BY DEF Inv
<1>2. Longer(mem, mem)
  BY <1>1, LongerReflexive
<1>3. Adds(disk, mem, disk, mem)
  <2>1. mem.bytes =< mem.bytes
    BY <1>1 DEF GoodMem
  <2> QED BY <1>1, <1>2, <2>1 DEF Adds
<1>4. phase' \in AllPhases
  BY DEF Inv
<1>5. phase' \in {"directories", "frags", "ids", "super"} => sb'.inode_table_start >= 1
  BY DEF Inv
<1> QED BY <1>1, <1>2, <1>3, <1>4, <1>5, StepKeeps

LEMMA BeginGood ==
    ASSUME NEW dir, NEW olds, NEW number, NEW parent, NEW be, NEW sorted,
           BeginScan(dir, olds, number, parent, be, sorted)
    PROVE  GoodProc(proc') /\ phase' \in {"sort", "scan"}
<1> DEFINE frame == Frame(dir, <<0, 0>>, TopList(dir, olds))
           refs == [i \in Inos |-> NoRef]
           queue == IF sorted THEN SortQueue(dir) ELSE <<>>
<1>1. GoodFrame(frame)
  BY EmptyList DEF GoodFrame, Frame
<1>2. refs \in [Inos -> Refs]
  BY DEF Refs
<1>3. proc' = [interrupted |-> 0, restoring |-> FALSE, be |-> be, number |-> number,
               parent |-> parent, refs |-> refs, walk |-> <<frame>>, queue |-> queue]
  BY DEF BeginScan
<1> HIDE DEF frame, refs, queue
<1>4. IsList(<<frame>>) /\ Len(<<frame>>) = 1 /\ <<frame>>[1] = frame
  BY DEF IsList
<1>5. GoodProc(proc')
  BY <1>1, <1>2, <1>3, <1>4 DEF GoodProc
<1> QED BY <1>5 DEF BeginScan

LEMMA CreateKeeps ==
    ASSUME Inv, NEW be, NEW sorted, Create(be, sorted) PROVE Keeps
<1>1. /\ GoodMem(mem') /\ GoodSuper(sb') /\ ~ save'.restore
      /\ save' = [restore |-> save'.restore, mem |-> save'.mem]
  BY BlankGood DEF Create
<1>2. GoodProc(proc') /\ phase' \in {"sort", "scan"}
  BY BeginGood DEF Create
<1>3. GoodDisk(disk')
  <2>1. GoodDisk(disk) /\ (disk' = EmptyDisk \/ disk' = [disk EXCEPT !.exists = TRUE])
    BY DEF Inv, Create
  <2>2. ASSUME disk' = [disk EXCEPT !.exists = TRUE] PROVE GoodDisk(disk')
    BY <2>1, <2>2 DEF GoodDisk
  <2> QED BY <2>1, <2>2, BlankGood
<1>4. run' \in 0 .. Len(Sources) /\ run' > 0
  <2>1. run \in Nat /\ run < Len(Sources) /\ run' = run + 1 /\ Len(Sources) \in Nat
    BY MksquashfsAssumption DEF Inv, Create
  <2> QED BY <2>1
<1>5. UNCHANGED <<content, signals>>
  BY DEF Create
<1>6. GoodSave'
  BY <1>1 DEF GoodSave
<1>7. Inv'
  BY <1>1, <1>2, <1>3, <1>4, <1>5, <1>6 DEF Inv, AllPhases
<1>8. Behind'
  BY <1>1 DEF Behind
<1> QED BY <1>7, <1>8 DEF Keeps

LEMMA AppendToKeeps ==
    ASSUME Inv, NEW mode, NEW sorted, AppendTo(mode, sorted) PROVE Keeps
<1> DEFINE m == ReadMem(disk)
<1>1. GoodDisk(disk) /\ Readable(disk)
  BY DEF Inv, AppendTo
<1>2. /\ disk' = [disk EXCEPT !.super.magic = FALSE] /\ mem' = AppendMem(disk, m, mode)
      /\ sb' = disk.super /\ save' = [restore |-> TRUE, mem |-> m] /\ origin' = disk
  BY DEF AppendTo
<1>3. GoodMem(m)
  BY <1>1, ReadMemGood
<1>4. GoodMem(mem') /\ Longer(m, mem') /\ mem'.bytes = m.bytes
  BY <1>1, <1>2, AppendMemGood
<1>5. GoodProc(proc') /\ phase' \in {"sort", "scan"}
  BY BeginGood DEF AppendTo
<1> HIDE DEF m
<1>6. GoodDisk(disk') /\ disk'.blk = disk.blk
  BY <1>1, <1>2 DEF GoodDisk, GoodSuper
<1>7. GoodSuper(sb')
  BY <1>1, <1>2 DEF GoodDisk
<1>8. run' \in 0 .. Len(Sources) /\ run' > 0
  <2>1. run \in Nat /\ run < Len(Sources) /\ run' = run + 1 /\ Len(Sources) \in Nat
    BY MksquashfsAssumption DEF Inv, AppendTo
  <2> QED BY <2>1
<1>9. UNCHANGED <<content, signals>>
  BY DEF AppendTo
<1>10. GoodSave'
  <2>1. /\ m.inode_bytes =< Len(mem'.inode_table)
        /\ m.directory_bytes =< Len(mem'.directory_table)
    <3>1. /\ m.inode_bytes \in 0 .. Len(m.inode_table)
          /\ m.directory_bytes \in 0 .. Len(m.directory_table)
      BY <1>3 DEF GoodMem
    <3>2. \A x \in {m, mem'} : Len(x.inode_table) \in Nat /\ Len(x.directory_table) \in Nat
      BY <1>3, <1>4 DEF GoodMem, IsList
    <3> QED BY <1>4, <3>1, <3>2 DEF Longer
  <2> QED BY <1>2, <1>3, <1>5, <2>1 DEF GoodSave
<1>11. Inv'
  BY <1>4, <1>5, <1>6, <1>7, <1>8, <1>9, <1>10 DEF Inv, AllPhases
<1>12. Behind'
  <2>1. m.bytes \in Nat
    BY <1>3 DEF GoodMem
  <2>2. \A p : BlockAt(disk', p) = BlockAt(disk, p)
    BY <1>6 DEF BlockAt
  <2>3. save'.mem = m /\ m.bytes =< mem'.bytes /\ origin' = disk
    BY <1>2, <1>4, <2>1
  <2> QED BY <2>2, <2>3 DEF Behind
<1> QED BY <1>11, <1>12 DEF Keeps

LEMMA RefusedKeeps ==
    ASSUME Inv, Refused PROVE Keeps
<1>1. run' \in 0 .. Len(Sources)
  <2>1. run \in Nat /\ run < Len(Sources) /\ run' = run + 1 /\ Len(Sources) \in Nat
    BY MksquashfsAssumption DEF Inv, Refused
  <2> QED BY <2>1
<1>2. phase = "idle" /\ UNCHANGED <<disk, content, phase, mem, proc, sb, save, signals>>
  BY DEF Refused
<1>3. Inv'
  BY <1>1, <1>2 DEF Inv, GoodSave
<1>4. ~ save'.restore
  BY <1>2 DEF Inv, GoodSave
<1> QED BY <1>3, <1>4 DEF Keeps, Behind

-----------------------------------------------------------------------------
(* Signals, write errors and a killed process.                             *)

\* What a restore goes back to is whole, and no block in front of it is lost.
LEMMA RestoreKeeps ==
    ASSUME Inv, restorefs, save.restore, signals' \in 0 .. MaxSignals
    PROVE  Keeps
<1> DEFINE m == save.mem
<1>1. /\ GoodMem(mem) /\ GoodMem(m) /\ GoodProc(proc) /\ GoodSave
      /\ m.inode_bytes =< Len(mem.inode_table)
      /\ m.directory_bytes =< Len(mem.directory_table)
      /\ save = [restore |-> save.restore, mem |-> m]
  BY DEF Inv, GoodSave
<1> HIDE DEF m
<1>2. mem' = [m EXCEPT !.inode_table = mem.inode_table,
                       !.directory_table = mem.directory_table,
                       !.fragment_table = mem.fragment_table,
                       !.dupl = mem.dupl]
  BY DEF restorefs, Restored, m
<1>3. /\ m.inode_bytes \in 0 .. Len(mem.inode_table)
      /\ m.directory_bytes \in 0 .. Len(mem.directory_table)
  <2>1. m.inode_bytes \in Nat /\ m.directory_bytes \in Nat
    BY <1>1 DEF GoodMem
  <2>2. Len(mem.inode_table) \in Nat /\ Len(mem.directory_table) \in Nat
    BY <1>1 DEF GoodMem, IsList
  <2> QED BY <1>1, <2>1, <2>2
<1>4. GoodMem(mem')
  <2>1. /\ IsList(mem.inode_table) /\ IsList(mem.directory_table) /\ IsList(mem.dupl)
        /\ \A n \in 1 .. Len(mem.inode_table) : GoodInodes(mem.inode_table[n])
        /\ \A n \in 1 .. Len(mem.directory_table) : IsList(mem.directory_table[n])
        /\ \A n \in 1 .. Len(mem.dupl) : mem.dupl[n].start \in Nat \ {0}
    BY <1>1 DEF GoodMem
  <2> QED BY <1>1, <1>2, <1>3, <2>1 DEF GoodMem
<1>5. /\ mem'.bytes = m.bytes /\ mem'.inode_table = mem.inode_table
      /\ mem'.directory_table = mem.directory_table
  BY <1>1, <1>2 DEF GoodMem
<1>6. GoodProc(proc')
  <2>1. proc' = [proc EXCEPT !.walk = <<>>, !.queue = <<>>, !.restoring = TRUE]
    BY DEF restorefs
  <2>2. IsList(<<>>) /\ Len(<<>>) = 0
    BY EmptyList
  <2> DEFINE yes == TRUE
             none == <<>>
  <2>3. proc' = [proc EXCEPT !.walk = none, !.queue = none, !.restoring = yes]
    BY <2>1
  <2>4. IsList(none) /\ \A n \in 1 .. Len(none) : GoodFrame(none[n])
    BY <2>2
  <2> HIDE DEF yes, none
  <2> QED BY <1>1, <2>3, <2>4 DEF GoodProc
<1>7. phase' = "close" /\ UNCHANGED <<disk, content, run, sb, save, origin>>
  BY DEF restorefs
<1>8. GoodSave'
  BY <1>1, <1>5, <1>7 DEF GoodSave, m
<1>9. phase # "idle"
  BY DEF Inv, GoodSave
<1>10. Inv'
  BY <1>4, <1>6, <1>7, <1>8, <1>9 DEF Inv, AllPhases
<1>11. ASSUME Behind PROVE Behind'
  <2>1. m.bytes =< mem'.bytes
    BY <1>1, <1>5 DEF GoodMem
  <2>2. \A p \in 1 .. m.bytes - 1 : BlockAt(disk, p) = BlockAt(origin, p)
    BY <1>11 DEF Behind, m
  <2> QED BY <1>7, <2>1, <2>2 DEF Behind, m
<1> QED BY <1>10, <1>11 DEF Keeps

LEMMA GivesUpKeeps ==
    ASSUME Inv, GivesUp, signals' \in 0 .. MaxSignals PROVE Keeps
<1>1. GoodDisk(disk')
  BY BlankGood DEF Inv, GivesUp
<1> QED BY <1>1, EndsKeep DEF GivesUp

LEMMA InterruptibleOne ==
    ASSUME Inv, Interruptible, signals' = signals + 1
    PROVE  signals' \in 0 .. MaxSignals
<1>1. signals \in Nat /\ MaxSignals \in Nat /\ signals < MaxSignals
  BY MksquashfsAssumption DEF Inv, Interruptible
<1> QED BY <1>1

LEMMA SignalKeeps ==
    ASSUME Inv, Signal PROVE Keeps
<1>1. signals' \in 0 .. MaxSignals
  BY InterruptibleOne DEF Signal
<1>2. CASE ~ save.restore
  BY <1>1, <1>2, GivesUpKeeps DEF Signal
<1>3. CASE save.restore /\ proc.interrupted = 1
  BY <1>1, <1>3, RestoreKeeps DEF Signal
<1>4. CASE save.restore /\ proc.interrupted # 1
  <2>1. proc' = [proc EXCEPT !.interrupted = 1]
        /\ UNCHANGED <<disk, content, run, phase, mem, sb, save, origin>>
    BY <1>4 DEF Signal
  <2>2. GoodProc(proc) /\ phase # "idle"
    BY <1>4 DEF Inv, GoodSave
  <2>3. GoodProc(proc')
    BY <2>1, <2>2 DEF GoodProc
  <2>4. Inv'
    BY <1>1, <2>1, <2>3 DEF Inv, GoodSave
  <2>5. Behind => Behind'
    BY <2>1 DEF Behind
  <2> QED BY <2>4, <2>5 DEF Keeps
<1> QED BY <1>2, <1>3, <1>4

LEMMA FailureKeeps ==
    ASSUME Inv, Failure PROVE Keeps
<1>1. signals' \in 0 .. MaxSignals
  BY InterruptibleOne DEF Failure
<1>2. CASE ~ save.restore
  BY <1>1, <1>2, GivesUpKeeps DEF Failure
<1>3. CASE save.restore
  BY <1>1, <1>3, RestoreKeeps DEF Failure
<1> QED BY <1>2, <1>3

LEMMA KilledKeeps ==
    ASSUME Inv, Killed PROVE Keeps
<1>1. GoodDisk(disk') /\ signals' \in 0 .. MaxSignals
  BY DEF Inv, Killed
<1> QED BY <1>1, EndsKeep DEF Killed

-----------------------------------------------------------------------------
(* The scan.                                                               *)

\* More in the tables, and the image as it was.
LEMMA SameDisk ==
    ASSUME NEW d, GoodDisk(d), NEW m, GoodMem(m), NEW w, GoodMem(w), Longer(m, w),
           w.bytes = m.bytes
    PROVE  Adds(d, m, d, w)
<1>1. m.bytes =< w.bytes
  BY DEF GoodMem
<1> QED BY <1>1 DEF Adds

LEMMA ScanningGood ==
    ASSUME Inv, Scanning
    PROVE  /\ phase = "scan" /\ GoodProc(proc) /\ IsList(proc.walk) /\ Len(proc.walk) >= 1
           /\ Top = proc.walk[1] /\ GoodFrame(Top)
           /\ IsList(Tail(proc.walk)) /\ Len(Tail(proc.walk)) = Len(proc.walk) - 1
           /\ \A n \in 1 .. Len(Tail(proc.walk)) : GoodFrame(Tail(proc.walk)[n])
<1>1. phase = "scan" /\ proc.walk # <<>> /\ GoodProc(proc)
  BY DEF Inv, Scanning
<1>2. IsList(proc.walk) /\ \A n \in 1 .. Len(proc.walk) : GoodFrame(proc.walk[n])
  BY <1>1 DEF GoodProc
<1> DEFINE walk == proc.walk
           rest == Tail(walk)
<1>3. /\ IsList(rest) /\ Len(rest) = Len(walk) - 1 /\ Len(walk) >= 1 /\ Head(walk) = walk[1]
      /\ \A n \in 1 .. Len(walk) - 1 : rest[n] = walk[n + 1]
  <2> HIDE DEF walk
  <2>1. IsList(walk) /\ walk # <<>>
    BY <1>1, <1>2 DEF walk
  <2> QED BY <2>1, TailList
<1>4. Len(walk) \in Nat
  BY <1>2 DEF IsList
<1>5. ASSUME NEW n \in 1 .. Len(rest) PROVE GoodFrame(rest[n])
  <2> HIDE DEF rest, walk
  <2>1. n \in 1 .. Len(walk) - 1 /\ n + 1 \in 1 .. Len(walk)
    BY <1>3, <1>4
  <2> QED BY <1>2, <1>3, <2>1 DEF walk
<1>6. GoodFrame(walk[1])
  BY <1>2, <1>3, <1>4
<1> QED BY <1>1, <1>2, <1>3, <1>5, <1>6 DEF Top

\* Two lists of frames.
LEMMA FramesConcat ==
    ASSUME NEW s, IsList(s), \A n \in 1 .. Len(s) : GoodFrame(s[n]),
           NEW t, IsList(t), \A n \in 1 .. Len(t) : GoodFrame(t[n])
    PROVE  IsList(s \o t) /\ \A n \in 1 .. Len(s \o t) : GoodFrame((s \o t)[n])
<1>1. IsList(s \o t) /\ Len(s \o t) = Len(s) + Len(t) /\ Len(s) \in Nat /\ Len(t) \in Nat
  BY ConcatList DEF IsList
<1>2. ASSUME NEW n \in 1 .. Len(s \o t) PROVE GoodFrame((s \o t)[n])
  <2>1. CASE n =< Len(s)
    BY <1>1, <2>1, ConcatList
  <2>2. CASE n > Len(s)
    <3>1. n - Len(s) \in 1 .. Len(t) /\ Len(s) + (n - Len(s)) = n
      BY <1>1, <2>2
    <3>2. (s \o t)[Len(s) + (n - Len(s))] = t[n - Len(s)]
      BY <3>1, ConcatList
    <3> QED BY <3>1, <3>2
  <2> QED BY <1>1, <2>1, <2>2
<1> QED BY <1>1, <1>2

\* One more on top.
LEMMA OnTop ==
    ASSUME NEW frame, GoodFrame(frame), NEW rest, IsList(rest),
           \A n \in 1 .. Len(rest) : GoodFrame(rest[n])
    PROVE  /\ IsList(<<frame>> \o rest)
           /\ \A n \in 1 .. Len(<<frame>> \o rest) : GoodFrame((<<frame>> \o rest)[n])
<1> DEFINE one == <<frame>>
<1>1. IsList(one) /\ \A n \in 1 .. Len(one) : GoodFrame(one[n])
  BY DEF IsList
<1> HIDE DEF one
<1>2. IsList(one \o rest) /\ \A n \in 1 .. Len(one \o rest) : GoodFrame((one \o rest)[n])
  BY <1>1, FramesConcat
<1> QED BY <1>2 DEF one

LEMMA AddDirList ==
    ASSUME NEW buf, IsList(buf), NEW name, NEW ref, NEW number, NEW type
    PROVE  IsList(add_dir(buf, name, ref, number, type))
<1> DEFINE base == IF buf # <<>> /\ buf[Len(buf)].ref.block = ref.block
                   THEN buf[Len(buf)].base ELSE number
           e == DirEntry(name, ref, number - base, base, type)
<1>1. add_dir(buf, name, ref, number, type) = Append(buf, e)
  BY DEF add_dir
<1> HIDE DEF e
<1> QED BY <1>1, AppendList

LEMMA FrameGood ==
    ASSUME NEW f, GoodFrame(f), NEW left, NEW buf, IsList(buf)
    PROVE  GoodFrame([f EXCEPT !.left = left, !.buf = buf])
<1> DEFINE g == [f EXCEPT !.left = left, !.buf = buf]
<1>1. g = [f EXCEPT !.left = left, !.buf = buf]
  OBVIOUS
<1> HIDE DEF g
<1>2. GoodFrame(g)
  BY <1>1 DEF GoodFrame
<1> QED BY <1>2 DEF g

LEMMA TakenGood ==
    ASSUME Inv, Scanning, NEW ref, NEW type, NEW added
    PROVE  /\ IsList(Taken(ref, type, added))
           /\ \A n \in 1 .. Len(Taken(ref, type, added)) :
                    GoodFrame(Taken(ref, type, added)[n])
<1> DEFINE e == Head(Top.left)
           k == IF e.old # NotOld THEN e.old.delta ELSE proc.number.of[e.ino]
           buf == IF added THEN add_dir(Top.buf, e.name, ref, k, type) ELSE Top.buf
           left == Tail(Top.left)
           frame == [Top EXCEPT !.left = left, !.buf = buf]
           rest == Tail(proc.walk)
<1>1. Taken(ref, type, added) = <<frame>> \o rest
  BY DEF Taken
<1>2. /\ GoodFrame(Top) /\ IsList(rest)
      /\ \A n \in 1 .. Len(rest) : GoodFrame(rest[n])
  BY ScanningGood
<1>3. IsList(buf)
  BY <1>2, AddDirList DEF GoodFrame
<1> HIDE DEF rest, buf, left
<1>4. GoodFrame(frame)
  BY <1>2, <1>3, FrameGood
<1> HIDE DEF frame
<1> QED BY <1>1, <1>2, <1>4, OnTop

\* The scan's state with another stack.
LEMMA WalkGood ==
    ASSUME GoodProc(proc), NEW walk, IsList(walk), \A n \in 1 .. Len(walk) : GoodFrame(walk[n])
    PROVE  /\ GoodProc([proc EXCEPT !.walk = walk])
           /\ \A i : \A ref \in Refs : GoodProc([proc EXCEPT !.walk = walk, !.refs[i] = ref])
<1>1. GoodProc([proc EXCEPT !.walk = walk])
  BY DEF GoodProc
<1>2. ASSUME NEW i, NEW ref \in Refs
      PROVE  GoodProc([proc EXCEPT !.walk = walk, !.refs[i] = ref])
  <2> DEFINE refs == [proc.refs EXCEPT ![i] = ref]
             p == [proc EXCEPT !.walk = walk, !.refs[i] = ref]
  <2>1. refs \in [Inos -> Refs]
    BY DEF GoodProc
  <2>2. p = [proc EXCEPT !.walk = walk, !.refs = refs]
    BY DEF GoodProc
  <2> HIDE DEF refs, p
  <2>3. GoodProc(p)
    BY <2>1, <2>2 DEF GoodProc
  <2> QED BY <2>3 DEF p
<1> QED BY <1>1, <1>2

LEMMA SortKeeps ==
    ASSUME Inv, sort_files_and_write PROVE Keeps
<1>1. /\ phase = "sort" /\ UNCHANGED <<content, run, sb, save, signals, origin>>
      /\ phase' \in {"sort", "scan"}
  BY DEF sort_files_and_write
<1>2. /\ GoodDisk(disk) /\ GoodMem(mem) /\ GoodProc(proc) /\ GoodSuper(sb)
      /\ content \in [Files -> Contents] /\ signals \in 0 .. MaxSignals
  BY DEF Inv
<1>3. Longer(mem, mem) /\ Adds(disk, mem, disk, mem)
  BY <1>2, LongerReflexive, SameDisk
<1>4. phase' \in AllPhases /\ phase' \notin {"directories", "frags", "ids", "super"}
  BY <1>1 DEF AllPhases
<1>5. CASE UNCHANGED <<disk, mem>> /\ GoodProc(proc')
  BY <1>1, <1>2, <1>3, <1>4, <1>5, StepKeeps
<1>6. CASE \E i \in Files :
                /\ proc.refs[i] = NoRef
                /\ proc' = [proc EXCEPT !.queue = Tail(@), !.refs[i] = RefAfter(mem)]
                /\ \E whole \in Wholes(i) : disk' = write_file(i, whole).disk
                                            /\ mem' = write_file(i, whole).mem
  <2>1. PICK i \in Files :
                /\ proc.refs[i] = NoRef
                /\ proc' = [proc EXCEPT !.queue = Tail(@), !.refs[i] = RefAfter(mem)]
                /\ \E whole \in Wholes(i) : disk' = write_file(i, whole).disk
                                            /\ mem' = write_file(i, whole).mem
    BY <1>6
  <2>2. content[i] \in Contents
    BY <1>2
  <2>3. /\ GoodDisk(disk') /\ GoodMem(mem') /\ Longer(mem, mem')
        /\ ~ LargeDuplicate(i) => Adds(disk, mem, disk', mem')
    BY <1>2, <2>1, <2>2, WriteFileGood
  <2>4. GoodProc(proc')
    <3> DEFINE queue == Tail(proc.queue)
               refs == [proc.refs EXCEPT ![i] = RefAfter(mem)]
    <3>1. proc' = [proc EXCEPT !.queue = queue, !.refs = refs]
      BY <2>1
    <3>2. refs \in [Inos -> Refs]
      BY <1>2, RefAfterGood DEF GoodProc
    <3> HIDE DEF queue, refs
    <3> QED BY <1>2, <3>1, <3>2 DEF GoodProc
  <2>5. ~ TakesBack => ~ LargeDuplicate(i)
    <3>1. i \in Inos /\ RefAfter(mem) # NoRef /\ proc.refs \in [Inos -> Refs]
      BY <1>2, RefAfterGood DEF Files, GoodProc
    <3>2. proc'.refs[i] = RefAfter(mem)
      BY <1>2, <2>1, <3>1 DEF GoodProc
    <3> QED BY <2>1, <3>1, <3>2 DEF TakesBack
  <2> QED BY <1>1, <1>2, <1>4, <2>3, <2>4, <2>5, StepKeeps
<1>7. CASE proc' = [proc EXCEPT !.queue = Tail(@)] /\ UNCHANGED <<disk, mem>>
  <2> DEFINE queue == Tail(proc.queue)
  <2>1. proc' = [proc EXCEPT !.queue = queue]
    BY <1>7
  <2> HIDE DEF queue
  <2>2. GoodProc(proc')
    BY <1>2, <2>1 DEF GoodProc
  <2> QED BY <1>5, <1>7, <2>2
<1> QED BY <1>2, <1>5, <1>6, <1>7 DEF sort_files_and_write

LEMMA ScanOldKeeps ==
    ASSUME Inv, ScanOld PROVE Keeps
<1> DEFINE walk == Taken(Head(Top.left).old.ref, Head(Top.left).old.type, TRUE)
<1>1. Scanning /\ proc' = [proc EXCEPT !.walk = walk]
      /\ UNCHANGED <<disk, content, run, phase, mem, sb, save, signals, origin>>
  BY DEF ScanOld, Step
<1>2. IsList(walk) /\ (\A n \in 1 .. Len(walk) : GoodFrame(walk[n])) /\ GoodProc(proc)
      /\ phase # "idle"
  BY <1>1, TakenGood, ScanningGood
<1> HIDE DEF walk
<1>3. GoodProc(proc')
  BY <1>1, <1>2, WalkGood
<1> QED BY <1>1, <1>2, <1>3, WalkKeeps

LEMMA ScanLinkKeeps ==
    ASSUME Inv, ScanLink PROVE Keeps
<1> DEFINE i == Head(Top.left).ino
           walk == Taken(proc.refs[i], Host[i].type, TRUE)
<1>1. Scanning /\ proc' = [proc EXCEPT !.walk = walk]
      /\ UNCHANGED <<disk, content, run, phase, mem, sb, save, signals, origin>>
  BY DEF ScanLink, Step
<1>2. IsList(walk) /\ (\A n \in 1 .. Len(walk) : GoodFrame(walk[n])) /\ GoodProc(proc)
      /\ phase # "idle"
  BY <1>1, TakenGood, ScanningGood
<1> HIDE DEF walk
<1>3. GoodProc(proc')
  BY <1>1, <1>2, WalkGood
<1> QED BY <1>1, <1>2, <1>3, WalkKeeps

LEMMA ScanUnreadableKeeps ==
    ASSUME Inv, ScanUnreadable PROVE Keeps
<1> DEFINE walk == Taken(NoRef, "file", FALSE)
<1>1. Scanning /\ proc' = [proc EXCEPT !.walk = walk]
      /\ UNCHANGED <<disk, content, run, phase, mem, sb, save, signals, origin>>
  BY DEF ScanUnreadable, NextIs, Step
<1>2. IsList(walk) /\ (\A n \in 1 .. Len(walk) : GoodFrame(walk[n])) /\ GoodProc(proc)
      /\ phase # "idle"
  BY <1>1, TakenGood, ScanningGood
<1> HIDE DEF walk
<1>3. GoodProc(proc')
  BY <1>1, <1>2, WalkGood
<1> QED BY <1>1, <1>2, <1>3, WalkKeeps

LEMMA ScanDirectoryKeeps ==
    ASSUME Inv, ScanDirectory PROVE Keeps
<1> DEFINE e == Head(Top.left)
           frame == Frame(e.ino, e.name, Scanned(e.ino))
           walk == <<frame>> \o proc.walk
<1>1. Scanning /\ proc' = [proc EXCEPT !.walk = walk]
      /\ UNCHANGED <<disk, content, run, phase, mem, sb, save, signals, origin>>
  BY DEF ScanDirectory, NextIs, Step
<1>2. GoodFrame(frame)
  BY EmptyList DEF GoodFrame, Frame
<1>3. GoodProc(proc) /\ phase # "idle"
  BY <1>1, ScanningGood
<1> HIDE DEF frame
<1>4. IsList(walk) /\ \A n \in 1 .. Len(walk) : GoodFrame(walk[n])
  BY <1>2, <1>3, OnTop DEF GoodProc
<1> HIDE DEF walk
<1>5. GoodProc(proc')
  BY <1>1, <1>3, <1>4, WalkGood
<1> QED BY <1>1, <1>3, <1>5, WalkKeeps

LEMMA ScanFileKeeps ==
    ASSUME Inv, ScanFile PROVE Keeps
<1> DEFINE i == Head(Top.left).ino
           walk == Taken(RefAfter(mem), "file", TRUE)
<1>1. /\ Scanning /\ i \in Files /\ proc.refs[i] = NoRef
      /\ \E whole \in Wholes(i) : disk' = write_file(i, whole).disk
                                  /\ mem' = write_file(i, whole).mem
      /\ proc' = [proc EXCEPT !.walk = walk, !.refs[i] = RefAfter(mem)]
      /\ UNCHANGED <<content, run, phase, sb, save, signals, origin>>
  BY DEF ScanFile, NextIs, Files
<1>2. IsList(walk) /\ (\A n \in 1 .. Len(walk) : GoodFrame(walk[n])) /\ GoodProc(proc)
      /\ phase = "scan"
  BY <1>1, TakenGood, ScanningGood
<1>3. /\ GoodDisk(disk) /\ GoodMem(mem) /\ GoodSuper(sb)
      /\ content \in [Files -> Contents] /\ signals \in 0 .. MaxSignals
  BY DEF Inv
<1> HIDE DEF walk, i
<1>4. content[i] \in Contents /\ RefAfter(mem) \in Refs
  BY <1>1, <1>3, RefAfterGood
<1>5. /\ GoodDisk(disk') /\ GoodMem(mem') /\ Longer(mem, mem')
      /\ ~ LargeDuplicate(i) => Adds(disk, mem, disk', mem')
  BY <1>1, <1>3, <1>4, WriteFileGood
<1>6. GoodProc(proc')
  BY <1>1, <1>2, <1>4, WalkGood
<1>7. phase' \in AllPhases /\ phase' \notin {"directories", "frags", "ids", "super"}
  BY <1>1, <1>2 DEF AllPhases
<1>8. ~ TakesBack => ~ LargeDuplicate(i)
  <2>1. i \in Inos /\ RefAfter(mem) # NoRef /\ proc.refs \in [Inos -> Refs]
    BY <1>1, <1>2, <1>3, RefAfterGood DEF Files, GoodProc
  <2>2. proc'.refs[i] = RefAfter(mem)
    BY <1>1, <1>2, <2>1 DEF GoodProc
  <2> QED BY <1>1, <2>1, <2>2 DEF TakesBack
<1> QED BY <1>1, <1>2, <1>3, <1>5, <1>6, <1>7, <1>8, StepKeeps

LEMMA ScanOtherKeeps ==
    ASSUME Inv, ScanOther PROVE Keeps
<1> DEFINE i == Head(Top.left).ino
           walk == Taken(RefAfter(mem), Host[i].type, TRUE)
           inode == OtherInode(Host[i].type, proc.number.of[i], get_uid(mem, i),
                               get_guid(mem, i))
<1>1. /\ Scanning /\ Host[i].type \notin {"file", "dir"}
      /\ mem' = create_inode(mem, i, inode)
      /\ proc' = [proc EXCEPT !.walk = walk, !.refs[i] = RefAfter(mem)]
      /\ UNCHANGED <<disk, content, run, phase, sb, save, signals, origin>>
  BY DEF ScanOther
<1>2. IsList(walk) /\ (\A n \in 1 .. Len(walk) : GoodFrame(walk[n])) /\ GoodProc(proc)
      /\ phase = "scan"
  BY <1>1, TakenGood, ScanningGood
<1>3. GoodDisk(disk) /\ GoodMem(mem) /\ GoodSuper(sb) /\ signals \in 0 .. MaxSignals
  BY DEF Inv
<1>4. GoodInode(inode)
  BY <1>1 DEF GoodInode, OtherInode
<1> HIDE DEF walk, i, inode
<1>5. GoodMem(mem') /\ Longer(mem, mem') /\ mem'.bytes = mem.bytes /\ RefAfter(mem) \in Refs
  BY <1>1, <1>3, <1>4, CreateInodeGood, RefAfterGood
<1>6. Adds(disk, mem, disk', mem')
  BY <1>1, <1>3, <1>5, SameDisk
<1>7. GoodProc(proc')
  BY <1>1, <1>2, <1>5, WalkGood
<1>8. phase' \in AllPhases /\ phase' \notin {"directories", "frags", "ids", "super"}
  BY <1>1, <1>2 DEF AllPhases
<1> QED BY <1>1, <1>2, <1>3, <1>5, <1>6, <1>7, <1>8, StepKeeps

LEMMA SuperFieldsKeeps ==
    ASSUME Inv, SuperFields PROVE Keeps
<1>1. /\ phase = "scan" /\ phase' = "close"
      /\ UNCHANGED <<disk, content, run, mem, proc, save, signals, origin>>
  BY DEF SuperFields
<1>2. /\ GoodDisk(disk) /\ GoodMem(mem) /\ GoodProc(proc) /\ GoodSuper(sb)
      /\ signals \in 0 .. MaxSignals
  BY DEF Inv
<1>3. Longer(mem, mem) /\ Adds(disk, mem, disk, mem)
  BY <1>2, LongerReflexive, SameDisk
<1>4. Sources[run] \in Inos
  <2>1. run \in 1 .. Len(Sources)
    BY <1>1, MksquashfsAssumption DEF Inv
  <2> QED BY <2>1, MksquashfsAssumption DEF Inos
<1>5. GoodSuper(sb')
  <2> DEFINE root == proc.refs[Sources[run]]
             be == proc.be
             inodes == mem.inode_count
             yes == TRUE
  <2>1. sb' = [sb EXCEPT !.magic = yes, !.be = be, !.root = root, !.inodes = inodes]
    BY DEF SuperFields
  <2>2. root \in Refs
    BY <1>2, <1>4 DEF GoodProc
  <2> HIDE DEF root, be, inodes, yes
  <2> QED BY <1>2, <2>1, <2>2 DEF GoodSuper
<1>6. phase' \in AllPhases /\ phase' \notin {"directories", "frags", "ids", "super"}
  BY <1>1 DEF AllPhases
<1> QED BY <1>1, <1>2, <1>3, <1>5, <1>6, StepKeeps

\* A directory is closed: it goes behind its entries, and into the one above.
LEMMA CloseDirectoryKeeps ==
    ASSUME Inv, CloseDirectory PROVE Keeps
<1> DEFINE m == write_dir(mem, Top.buf)
           i == Top.dir
           parent == IF Len(proc.walk) = 1 THEN proc.parent
                     ELSE proc.number.of[proc.walk[2].dir]
           above == proc.walk[2]
           inode == DirInode(proc.number.of[i], get_uid(m, i), get_guid(m, i),
                             mem.directory_bytes, Len(mem.directory_cache),
                             Len(Top.buf), parent)
           left == Tail(above.left)
           buf == add_dir(above.buf, Top.name, RefAfter(m), proc.number.of[i], "dir")
           frame == [above EXCEPT !.left = left, !.buf = buf]
           walk == IF Len(proc.walk) = 1 THEN <<>>
                   ELSE <<frame>> \o SubSeq(proc.walk, 3, Len(proc.walk))
<1>1. /\ Scanning /\ mem' = create_inode(m, i, inode)
      /\ proc' = [proc EXCEPT !.refs[i] = RefAfter(m), !.walk = walk]
      /\ UNCHANGED <<disk, content, run, phase, sb, save, signals, origin>>
  BY DEF CloseDirectory
<1>2. /\ phase = "scan" /\ GoodProc(proc) /\ GoodFrame(Top) /\ Len(proc.walk) >= 1
      /\ IsList(proc.walk) /\ \A n \in 1 .. Len(proc.walk) : GoodFrame(proc.walk[n])
  BY <1>1, ScanningGood DEF GoodProc
<1>3. GoodDisk(disk) /\ GoodMem(mem) /\ GoodSuper(sb) /\ signals \in 0 .. MaxSignals
  BY DEF Inv
<1>4. GoodMem(m) /\ Longer(mem, m) /\ m.bytes = mem.bytes /\ RefAfter(m) \in Refs
  BY <1>2, <1>3, WriteDirGood, RefAfterGood DEF GoodFrame
<1>5. GoodInode(inode)
  <2> DEFINE start == mem.directory_bytes
             size == Len(Top.buf)
             offset == Len(mem.directory_cache)
  <2>1. start \in Nat
    BY <1>3 DEF GoodMem
  <2>2. size \in Nat
    BY <1>2 DEF GoodFrame, IsList
  <2>3. offset \in 0 .. MetaEntries
    <3>1. offset \in Nat /\ offset =< MetaEntries
      BY <1>3 DEF GoodMem, IsList
    <3>2. MetaEntries \in Nat
      BY SizesNat
    <3> HIDE DEF offset
    <3> QED BY <3>1, <3>2
  <2>4. /\ inode.type = "dir" /\ inode.start = start /\ inode.size = size
        /\ inode.offset = offset
    BY DEF DirInode
  <2> HIDE DEF inode, start, size, offset
  <2> QED BY <2>1, <2>2, <2>3, <2>4 DEF GoodInode
<1>6. IsList(walk) /\ \A n \in 1 .. Len(walk) : GoodFrame(walk[n])
  <2> DEFINE all == proc.walk
             rest == SubSeq(all, 3, Len(all))
  <2>1. CASE Len(all) = 1
    <3>1. walk = <<>>
      BY <2>1
    <3> HIDE DEF walk
    <3> QED BY <3>1, EmptyList
  <2>2. CASE Len(all) # 1
    <3>1. Len(all) \in Nat /\ 2 \in 1 .. Len(all)
      <4> DEFINE k == Len(all)
      <4>1. k \in Nat /\ k >= 1 /\ k # 1
        BY <1>2, <2>2 DEF IsList
      <4> HIDE DEF k
      <4>2. k \in Nat /\ 2 \in 1 .. k
        BY <4>1
      <4> QED BY <4>2 DEF k
    <3>2. GoodFrame(above)
      BY <1>2, <3>1
    <3>3. IsList(buf)
      BY <3>2, AddDirList DEF GoodFrame
    <3>4. GoodFrame(frame)
      <4> HIDE DEF above, left, buf
      <4> QED BY <3>2, <3>3, FrameGood
    <3>5. IsList(rest) /\ \A n \in 1 .. Len(rest) : rest[n] = all[n + 3 - 1] /\ n + 2 \in 1 .. Len(all)
      <4> HIDE DEF all
      <4>1. IsList(rest) /\ Len(rest) = IF 3 =< Len(all) THEN Len(all) - 3 + 1 ELSE 0
        BY <3>1, SubList
      <4>2. ASSUME NEW n \in 1 .. Len(rest) PROVE rest[n] = all[n + 3 - 1]
        BY <3>1, SubList
      <4>3. \A n \in 1 .. Len(rest) : n + 2 \in 1 .. Len(all)
        BY <3>1, <4>1
      <4> QED BY <4>1, <4>2, <4>3
    <3>6. \A n \in 1 .. Len(rest) : GoodFrame(rest[n])
      <4> TAKE n \in 1 .. Len(rest)
      <4>1. rest[n] = all[n + 3 - 1] /\ n + 2 \in 1 .. Len(all)
        BY <3>5
      <4>2. n + 3 - 1 = n + 2
        BY <3>5 DEF IsList
      <4> QED BY <1>2, <4>1, <4>2
    <3>7. walk = <<frame>> \o rest
      BY <2>2
    <3> HIDE DEF walk, frame, rest
    <3> QED BY <3>4, <3>5, <3>6, <3>7, OnTop
  <2> QED BY <2>1, <2>2
<1> HIDE DEF m, i, inode, walk
<1>7. GoodMem(mem') /\ Longer(m, mem') /\ mem'.bytes = m.bytes
  BY <1>1, <1>4, <1>5, CreateInodeGood
<1>8. Longer(mem, mem')
  BY <1>3, <1>4, <1>7, LongerTransitive
<1>9. Adds(disk, mem, disk', mem')
  BY <1>1, <1>3, <1>4, <1>7, <1>8, SameDisk
<1>10. GoodProc(proc')
  <2>1. proc' = [proc EXCEPT !.walk = walk, !.refs[i] = RefAfter(m)]
    <3> DEFINE refs == [proc.refs EXCEPT ![i] = RefAfter(m)]
               p == [proc EXCEPT !.walk = walk, !.refs[i] = RefAfter(m)]
    <3>1. proc' = [proc EXCEPT !.refs = refs, !.walk = walk]
      BY <1>1
    <3>2. p = [proc EXCEPT !.walk = walk, !.refs = refs]
      BY <1>2 DEF GoodProc
    <3> HIDE DEF refs, p
    <3>3. proc' = p
      BY <1>2, <3>1, <3>2 DEF GoodProc
    <3> QED BY <3>3 DEF p
  <2> QED BY <1>2, <1>4, <1>6, <2>1, WalkGood
<1>11. phase' \in AllPhases /\ phase' \notin {"directories", "frags", "ids", "super"}
  BY <1>1, <1>2 DEF AllPhases
<1> QED BY <1>1, <1>2, <1>3, <1>7, <1>8, <1>9, <1>10, <1>11, StepKeeps

-----------------------------------------------------------------------------
(* The tables behind the data.                                             *)

LEMMA MetaGood ==
    ASSUME NEW blocks, IsList(blocks), NEW kind \in Kinds,
           kind = "inodes" => \A n \in 1 .. Len(blocks) : GoodInodes(blocks[n]),
           kind = "entries" => \A n \in 1 .. Len(blocks) : IsList(blocks[n]),
           kind \in {"uids", "gids"} =>
                \A n \in 1 .. Len(blocks) : IsList(blocks[n]) /\ Len(blocks[n]) =< MaxUids
    PROVE  /\ IsList(Meta(kind, blocks)) /\ Len(Meta(kind, blocks)) = Len(blocks)
           /\ \A n \in 1 .. Len(Meta(kind, blocks)) : GoodBlock(Meta(kind, blocks)[n])
<1> DEFINE k == Len(blocks)
           F(n) == Block(kind, proc.be, blocks[n])
           made == [n \in 1 .. k |-> F(n)]
<1>1. Meta(kind, blocks) = made
  BY DEF Meta
<1>2. k \in Nat
  BY DEF IsList
<1>3. \A n \in 1 .. k : GoodBlock(F(n))
  BY DEF GoodBlock, Block, BlockKind, BlockData
<1> HIDE DEF k, F
<1>4. IsList(made) /\ Len(made) = k /\ \A n \in 1 .. k : made[n] = F(n)
  BY <1>2 DEF IsList
<1> HIDE DEF made
<1> QED BY <1>1, <1>3, <1>4 DEF k

LEMMA BlocksConcat ==
    ASSUME NEW s, IsList(s), \A n \in 1 .. Len(s) : GoodBlock(s[n]),
           NEW t, IsList(t), \A n \in 1 .. Len(t) : GoodBlock(t[n])
    PROVE  IsList(s \o t) /\ \A n \in 1 .. Len(s \o t) : GoodBlock((s \o t)[n])
<1>1. IsList(s \o t) /\ Len(s \o t) = Len(s) + Len(t) /\ Len(s) \in Nat /\ Len(t) \in Nat
  BY ConcatList DEF IsList
<1>2. ASSUME NEW n \in 1 .. Len(s \o t) PROVE GoodBlock((s \o t)[n])
  <2>1. CASE n =< Len(s)
    BY <1>1, <2>1, ConcatList
  <2>2. CASE n > Len(s)
    <3>1. n - Len(s) \in 1 .. Len(t) /\ Len(s) + (n - Len(s)) = n
      BY <1>1, <2>2
    <3>2. (s \o t)[Len(s) + (n - Len(s))] = t[n - Len(s)]
      BY <3>1, ConcatList
    <3> QED BY <3>1, <3>2
  <2> QED BY <1>1, <2>1, <2>2
<1> QED BY <1>1, <1>2

LEMMA LastFragmentKeeps ==
    ASSUME Inv, LastFragment PROVE Keeps
<1>1. /\ phase = "close" /\ phase' = "inodes" /\ disk' = FragmentDisk(disk, mem)
      /\ mem' = FragmentMem(mem)
      /\ UNCHANGED <<content, run, proc, save, signals, origin>>
  BY DEF LastFragment
<1>2. /\ GoodDisk(disk) /\ GoodMem(mem) /\ GoodProc(proc) /\ GoodSuper(sb)
      /\ signals \in 0 .. MaxSignals
  BY DEF Inv
<1>3. Adds(disk, mem, disk', mem')
  BY <1>1, <1>2, FragmentGood
<1>4. GoodSuper(sb')
  <2> DEFINE fragments == mem'.fragments
  <2>1. sb' = [sb EXCEPT !.fragments = fragments]
    BY DEF LastFragment
  <2>2. fragments \in Nat
    BY <1>3 DEF Adds, GoodMem
  <2> HIDE DEF fragments
  <2> QED BY <1>2, <2>1, <2>2 DEF GoodSuper
<1>5. phase' \in AllPhases /\ phase' \notin {"directories", "frags", "ids", "super"}
  BY <1>1 DEF AllPhases
<1> QED BY <1>1, <1>2, <1>3, <1>4, <1>5, StepKeeps DEF Adds

\* Blocks written where the image ends, and the counter past them.
LEMMA WrittenAdds ==
    ASSUME NEW d, GoodDisk(d), NEW m, GoodMem(m), NEW blocks, IsList(blocks),
           \A n \in 1 .. Len(blocks) : GoodBlock(blocks[n]),
           NEW w, GoodMem(w), Longer(m, w), m.bytes =< w.bytes
    PROVE  Adds(d, m, Written(d, m.bytes, blocks), w)
<1>1. m.bytes \in Nat \ {0}
  BY DEF GoodMem
<1> QED BY <1>1, WrittenGood DEF Adds

LEMMA WriteInodesKeeps ==
    ASSUME Inv, write_inodes PROVE Keeps
<1> DEFINE rest == Chunks(mem.data_cache, MetaInodes)
           count == mem.inode_bytes + Len(rest)
           bytes == mem.bytes + count
           table == PutBlocks(mem.inode_table, mem.inode_bytes, rest)
           none == <<>>
           blocks == SubSeq(table, 1, count)
<1>1. /\ phase = "inodes" /\ phase' = "directories"
      /\ mem' = [mem EXCEPT !.bytes = bytes, !.inode_bytes = count,
                            !.inode_table = table, !.data_cache = none]
      /\ disk' = Written(disk, mem.bytes, Meta("inodes", SubSeq(mem'.inode_table, 1, count)))
      /\ sb' = [sb EXCEPT !.inode_table_start = mem.bytes]
      /\ UNCHANGED <<content, run, proc, save, signals, origin>>
  BY DEF write_inodes
<1>2. /\ GoodDisk(disk) /\ GoodMem(mem) /\ GoodProc(proc) /\ GoodSuper(sb)
      /\ signals \in 0 .. MaxSignals
  BY DEF Inv
<1>3. IsList(rest) /\ \A n \in 1 .. Len(rest) : GoodInodes(rest[n])
  <2> DEFINE cache == mem.data_cache
  <2>1. GoodInodes(cache) /\ IsList(cache) /\ MetaInodes \in Nat \ {0}
    BY <1>2, SizesNat DEF GoodMem, GoodInodes
  <2> HIDE DEF cache
  <2>2. IsList(Chunks(cache, MetaInodes))
        /\ \A n \in 1 .. Len(Chunks(cache, MetaInodes)) :
                GoodInodes(Chunks(cache, MetaInodes)[n])
    BY <2>1, ChunksList DEF GoodInodes
  <2> QED BY <2>2 DEF cache
<1> HIDE DEF rest
<1>4. /\ IsList(table) /\ Len(table) >= Len(mem.inode_table) /\ Len(table) >= count
      /\ \A n \in 1 .. Len(table) : GoodInodes(table[n])
  <2> DEFINE old == mem.inode_table
             from == mem.inode_bytes
  <2>1. IsList(old) /\ from \in 0 .. Len(old) /\ \A n \in 1 .. Len(old) : GoodInodes(old[n])
    BY <1>2 DEF GoodMem
  <2> HIDE DEF old, from
  <2> DEFINE put == PutBlocks(old, from, rest)
  <2>2. /\ IsList(put) /\ Len(put) >= Len(old) /\ Len(put) >= from + Len(rest)
        /\ \A i \in 1 .. Len(put) : \/ i \in 1 .. Len(old) /\ put[i] = old[i]
                                    \/ \E k \in 1 .. Len(rest) : put[i] = rest[k]
    BY <1>3, <2>1, PutBlocksList
  <2> HIDE DEF put
  <2>3. \A n \in 1 .. Len(put) : GoodInodes(put[n])
    BY <1>3, <2>1, <2>2
  <2> QED BY <2>2, <2>3 DEF old, from, put
<1>5. count \in Nat /\ mem.bytes \in Nat \ {0}
  BY <1>2, <1>3 DEF GoodMem, IsList
<1>6. bytes \in Nat \ {0} /\ mem.bytes =< bytes
  BY <1>5
<1>7. GoodInodes(none) /\ Len(none) =< MetaInodes
  BY EmptyList, SizesNat DEF GoodInodes
<1> HIDE DEF count, bytes, table, none
<1>8. count \in 0 .. Len(table)
  <2>1. Len(table) \in Nat
    BY <1>4 DEF IsList
  <2> QED BY <1>4, <1>5, <2>1
<1>9. GoodMem(mem')
  BY <1>1, <1>2, <1>4, <1>6, <1>7, <1>8 DEF GoodMem
<1>10. /\ mem'.inode_table = table /\ mem'.directory_table = mem.directory_table
       /\ mem'.bytes = bytes
  BY <1>1, <1>2 DEF GoodMem
<1>11. Longer(mem, mem')
  BY <1>2, <1>4, <1>10, LongerReflexive DEF Longer, IsList
<1>12. IsList(blocks) /\ \A n \in 1 .. Len(blocks) : GoodInodes(blocks[n])
  <2>1. /\ IsList(blocks) /\ Len(blocks) = IF 1 =< count THEN count - 1 + 1 ELSE 0
        /\ \A k \in 1 .. Len(blocks) : blocks[k] = table[k + 1 - 1]
    BY <1>5, SubList
  <2>2. \A k \in 1 .. Len(blocks) : k \in 1 .. Len(table) /\ k + 1 - 1 = k
    BY <1>5, <1>8, <2>1
  <2> QED BY <1>4, <2>1, <2>2
<1> HIDE DEF blocks
<1>13. /\ IsList(Meta("inodes", blocks))
       /\ \A n \in 1 .. Len(Meta("inodes", blocks)) : GoodBlock(Meta("inodes", blocks)[n])
  BY <1>12, MetaGood DEF Kinds
<1>14. disk' = Written(disk, mem.bytes, Meta("inodes", blocks))
  BY <1>1, <1>10 DEF blocks
<1>15. Adds(disk, mem, disk', mem')
  BY <1>2, <1>6, <1>9, <1>10, <1>11, <1>13, <1>14, WrittenAdds
<1>16. GoodSuper(sb') /\ sb'.inode_table_start >= 1
  <2> DEFINE start == mem.bytes
  <2>1. sb' = [sb EXCEPT !.inode_table_start = start] /\ start \in Nat \ {0}
    BY <1>1, <1>5
  <2> HIDE DEF start
  <2> QED BY <1>2, <2>1 DEF GoodSuper
<1>17. phase' \in AllPhases
  BY <1>1 DEF AllPhases
<1> QED BY <1>1, <1>2, <1>9, <1>11, <1>15, <1>16, <1>17, StepKeeps DEF Adds

LEMMA WriteDirectoriesKeeps ==
    ASSUME Inv, write_directories PROVE Keeps
<1> DEFINE rest == Chunks(mem.directory_cache, MetaEntries)
           count == mem.directory_bytes + Len(rest)
           bytes == mem.bytes + count
           table == PutBlocks(mem.directory_table, mem.directory_bytes, rest)
           none == <<>>
           blocks == SubSeq(table, 1, count)
<1>1. /\ phase = "directories" /\ phase' = "frags"
      /\ mem' = [mem EXCEPT !.bytes = bytes, !.directory_bytes = count,
                            !.directory_table = table, !.directory_cache = none]
      /\ disk' = Written(disk, mem.bytes,
                         Meta("entries", SubSeq(mem'.directory_table, 1, count)))
      /\ sb' = [sb EXCEPT !.directory_table_start = mem.bytes]
      /\ UNCHANGED <<content, run, proc, save, signals, origin>>
  BY DEF write_directories
<1>2. /\ GoodDisk(disk) /\ GoodMem(mem) /\ GoodProc(proc) /\ GoodSuper(sb)
      /\ signals \in 0 .. MaxSignals /\ sb.inode_table_start >= 1
  BY <1>1 DEF Inv
<1>3. IsList(rest) /\ \A n \in 1 .. Len(rest) : IsList(rest[n])
  <2> DEFINE cache == mem.directory_cache
  <2>1. IsList(cache) /\ MetaEntries \in Nat \ {0}
    BY <1>2, SizesNat DEF GoodMem
  <2> HIDE DEF cache
  <2>2. IsList(Chunks(cache, MetaEntries))
        /\ \A n \in 1 .. Len(Chunks(cache, MetaEntries)) :
                IsList(Chunks(cache, MetaEntries)[n])
    BY <2>1, ChunksList
  <2> QED BY <2>2 DEF cache
<1> HIDE DEF rest
<1>4. /\ IsList(table) /\ Len(table) >= Len(mem.directory_table) /\ Len(table) >= count
      /\ \A n \in 1 .. Len(table) : IsList(table[n])
  <2> DEFINE old == mem.directory_table
             from == mem.directory_bytes
  <2>1. IsList(old) /\ from \in 0 .. Len(old) /\ \A n \in 1 .. Len(old) : IsList(old[n])
    BY <1>2 DEF GoodMem
  <2> HIDE DEF old, from
  <2> DEFINE put == PutBlocks(old, from, rest)
  <2>2. /\ IsList(put) /\ Len(put) >= Len(old) /\ Len(put) >= from + Len(rest)
        /\ \A i \in 1 .. Len(put) : \/ i \in 1 .. Len(old) /\ put[i] = old[i]
                                    \/ \E k \in 1 .. Len(rest) : put[i] = rest[k]
    BY <1>3, <2>1, PutBlocksList
  <2> HIDE DEF put
  <2>3. \A n \in 1 .. Len(put) : IsList(put[n])
    BY <1>3, <2>1, <2>2
  <2> QED BY <2>2, <2>3 DEF old, from, put
<1>5. count \in Nat /\ mem.bytes \in Nat \ {0}
  BY <1>2, <1>3 DEF GoodMem, IsList
<1>6. bytes \in Nat \ {0} /\ mem.bytes =< bytes
  BY <1>5
<1>7. IsList(none) /\ Len(none) =< MetaEntries
  BY EmptyList, SizesNat
<1> HIDE DEF count, bytes, table, none
<1>8. count \in 0 .. Len(table)
  <2>1. Len(table) \in Nat
    BY <1>4 DEF IsList
  <2> QED BY <1>4, <1>5, <2>1
<1>9. GoodMem(mem')
  BY <1>1, <1>2, <1>4, <1>6, <1>7, <1>8 DEF GoodMem
<1>10. /\ mem'.directory_table = table /\ mem'.inode_table = mem.inode_table
       /\ mem'.bytes = bytes
  BY <1>1, <1>2 DEF GoodMem
<1>11. Longer(mem, mem')
  BY <1>2, <1>4, <1>10, LongerReflexive DEF Longer, IsList
<1>12. IsList(blocks) /\ \A n \in 1 .. Len(blocks) : IsList(blocks[n])
  <2>1. /\ IsList(blocks) /\ Len(blocks) = IF 1 =< count THEN count - 1 + 1 ELSE 0
        /\ \A k \in 1 .. Len(blocks) : blocks[k] = table[k + 1 - 1]
    BY <1>5, SubList
  <2>2. \A k \in 1 .. Len(blocks) : k \in 1 .. Len(table) /\ k + 1 - 1 = k
    BY <1>5, <1>8, <2>1
  <2> QED BY <1>4, <2>1, <2>2
<1> HIDE DEF blocks
<1>13. /\ IsList(Meta("entries", blocks))
       /\ \A n \in 1 .. Len(Meta("entries", blocks)) : GoodBlock(Meta("entries", blocks)[n])
  BY <1>12, MetaGood DEF Kinds
<1>14. disk' = Written(disk, mem.bytes, Meta("entries", blocks))
  BY <1>1, <1>10 DEF blocks
<1>15. Adds(disk, mem, disk', mem')
  BY <1>2, <1>6, <1>9, <1>10, <1>11, <1>13, <1>14, WrittenAdds
<1>16. GoodSuper(sb') /\ sb'.inode_table_start >= 1
  <2> DEFINE start == mem.bytes
  <2>1. sb' = [sb EXCEPT !.directory_table_start = start] /\ start \in Nat
    BY <1>1, <1>5
  <2> HIDE DEF start
  <2> QED BY <1>2, <2>1 DEF GoodSuper
<1>17. phase' \in AllPhases
  BY <1>1 DEF AllPhases
<1> QED BY <1>1, <1>2, <1>9, <1>11, <1>15, <1>16, <1>17, StepKeeps DEF Adds

LEMMA WriteFragmentsKeeps ==
    ASSUME Inv, write_fragment_table PROVE Keeps
<1> DEFINE count == FragIndexes(mem.fragments)
           frags == [n \in 1 .. count |-> FragsIn(n)]
           where == <<[n \in 1 .. count |-> mem.bytes + n - 1]>>
           blocks == Meta("frags", frags)
           index == Meta("index", where)
           bytes == IF count = 0 THEN mem.bytes ELSE mem.bytes + count + 1
           start == mem.bytes + count
<1>1. /\ phase = "frags" /\ phase' = "ids"
      /\ disk' = IF count = 0 THEN disk ELSE Written(disk, mem.bytes, blocks \o index)
      /\ mem' = [mem EXCEPT !.bytes = bytes]
      /\ sb' = [sb EXCEPT !.fragment_table_start = start]
      /\ UNCHANGED <<content, run, proc, save, signals, origin>>
  BY DEF write_fragment_table
<1>2. /\ GoodDisk(disk) /\ GoodMem(mem) /\ GoodProc(proc) /\ GoodSuper(sb)
      /\ signals \in 0 .. MaxSignals /\ sb.inode_table_start >= 1
  BY <1>1 DEF Inv
<1>3. count \in Nat /\ mem.bytes \in Nat \ {0}
  <2> DEFINE n == mem.fragments
  <2>1. n \in Nat /\ mem.bytes \in Nat \ {0} /\ MetaFrags \in Nat \ {0}
    BY <1>2, SizesNat DEF GoodMem
  <2> HIDE DEF n
  <2>2. FragIndexes(n) \in Nat
    BY <2>1 DEF FragIndexes
  <2> QED BY <2>1, <2>2 DEF n
<1>4. IsList(frags) /\ IsList(where)
  <2> DEFINE F(n) == FragsIn(n)
             W(n) == mem.bytes + n - 1
             list == [n \in 1 .. count |-> W(n)]
  <2>1. frags = [n \in 1 .. count |-> F(n)] /\ where = <<list>>
    OBVIOUS
  <2> HIDE DEF count, frags, where, F, W, list
  <2> QED BY <1>3, <2>1 DEF IsList
<1> HIDE DEF count, frags, where
<1>5. /\ IsList(blocks) /\ \A n \in 1 .. Len(blocks) : GoodBlock(blocks[n])
      /\ IsList(index) /\ \A n \in 1 .. Len(index) : GoodBlock(index[n])
  BY <1>4, MetaGood DEF Kinds
<1> HIDE DEF blocks, index
<1>6. /\ IsList(blocks \o index)
      /\ \A n \in 1 .. Len(blocks \o index) : GoodBlock((blocks \o index)[n])
  BY <1>5, BlocksConcat
<1>7. bytes \in Nat \ {0} /\ start \in Nat /\ mem.bytes =< bytes
  BY <1>3
<1> HIDE DEF bytes, start
<1>8. /\ GoodMem(mem') /\ mem'.bytes = bytes /\ mem'.inode_table = mem.inode_table
      /\ mem'.directory_table = mem.directory_table
  BY <1>1, <1>2, <1>7 DEF GoodMem
<1>9. Longer(mem, mem')
  BY <1>2, <1>8, LongerReflexive DEF Longer
<1>10. Adds(disk, mem, disk', mem')
  <2>1. Adds(disk, mem, disk, mem')
    BY <1>2, <1>7, <1>8, <1>9 DEF Adds
  <2>2. Adds(disk, mem, Written(disk, mem.bytes, blocks \o index), mem')
    BY <1>2, <1>6, <1>7, <1>8, <1>9, WrittenAdds
  <2> QED BY <1>1, <2>1, <2>2
<1>11. GoodSuper(sb') /\ sb'.inode_table_start >= 1
  BY <1>1, <1>2, <1>7 DEF GoodSuper
<1>12. phase' \in AllPhases
  BY <1>1 DEF AllPhases
<1> QED BY <1>1, <1>2, <1>8, <1>9, <1>10, <1>11, <1>12, StepKeeps DEF Adds

LEMMA WriteIdsKeeps ==
    ASSUME Inv, WriteIds PROVE Keeps
<1> DEFINE us == <<mem.uids>>
           gs == <<mem.gids>>
           utable == Meta("uids", us)
           gtable == IF mem.gids = <<>> THEN <<>> ELSE Meta("gids", gs)
           bytes == mem.bytes + Len(utable \o gtable)
           start == mem.bytes
           uids == Len(mem.uids)
           gids == Len(mem.gids)
<1>1. /\ phase = "ids" /\ phase' = "super"
      /\ disk' = Written(disk, mem.bytes, utable \o gtable)
      /\ mem' = [mem EXCEPT !.bytes = bytes]
      /\ sb' = [sb EXCEPT !.uid_start = start, !.no_uids = uids, !.no_guids = gids]
      /\ UNCHANGED <<content, run, proc, save, signals, origin>>
  BY DEF WriteIds
<1>2. /\ GoodDisk(disk) /\ GoodMem(mem) /\ GoodProc(proc) /\ GoodSuper(sb)
      /\ signals \in 0 .. MaxSignals /\ sb.inode_table_start >= 1
  BY <1>1 DEF Inv
<1>3. /\ IsList(us) /\ \A n \in 1 .. Len(us) : IsList(us[n]) /\ Len(us[n]) =< MaxUids
      /\ IsList(gs) /\ \A n \in 1 .. Len(gs) : IsList(gs[n]) /\ Len(gs[n]) =< MaxUids
  <2> DEFINE u == mem.uids
             g == mem.gids
  <2>1. IsList(u) /\ Len(u) =< MaxUids /\ IsList(g) /\ Len(g) =< MaxUids
    BY <1>2 DEF GoodMem
  <2> HIDE DEF u, g
  <2>2. /\ IsList(<<u>>) /\ Len(<<u>>) = 1 /\ <<u>>[1] = u
        /\ IsList(<<g>>) /\ Len(<<g>>) = 1 /\ <<g>>[1] = g
    BY DEF IsList
  <2>3. us = <<u>> /\ gs = <<g>>
    BY DEF u, g
  <2> HIDE DEF us, gs
  <2> QED BY <2>1, <2>2, <2>3
<1> HIDE DEF us, gs
<1>4. IsList(utable) /\ \A n \in 1 .. Len(utable) : GoodBlock(utable[n])
  BY <1>3, MetaGood DEF Kinds
<1>5. IsList(gtable) /\ \A n \in 1 .. Len(gtable) : GoodBlock(gtable[n])
  <2>1. CASE mem.gids = <<>>
    BY <2>1, EmptyList
  <2>2. CASE mem.gids # <<>>
    BY <1>3, <2>2, MetaGood DEF Kinds
  <2> QED BY <2>1, <2>2
<1> HIDE DEF utable, gtable
<1> DEFINE both == utable \o gtable
<1>6. IsList(both) /\ \A n \in 1 .. Len(both) : GoodBlock(both[n])
  BY <1>4, <1>5, BlocksConcat
<1> HIDE DEF both
<1>7. start \in Nat \ {0} /\ bytes \in Nat \ {0} /\ mem.bytes =< bytes
  <2>1. start \in Nat \ {0} /\ Len(both) \in Nat /\ bytes = start + Len(both)
    BY <1>2, <1>6 DEF GoodMem, IsList, both
  <2> QED BY <2>1
<1> HIDE DEF bytes
<1>8. /\ GoodMem(mem') /\ mem'.bytes = bytes /\ mem'.inode_table = mem.inode_table
      /\ mem'.directory_table = mem.directory_table
  BY <1>1, <1>2, <1>7 DEF GoodMem
<1>9. Longer(mem, mem')
  BY <1>2, <1>8, LongerReflexive DEF Longer
<1>10. Adds(disk, mem, disk', mem')
  <2>1. disk' = Written(disk, mem.bytes, both)
    BY <1>1 DEF both
  <2> QED BY <1>2, <1>6, <1>7, <1>8, <1>9, <2>1, WrittenAdds
<1> HIDE DEF start, uids, gids
<1>11. GoodSuper(sb') /\ sb'.inode_table_start >= 1
  BY <1>1, <1>2, <1>7 DEF GoodSuper
<1>12. phase' \in AllPhases
  BY <1>1 DEF AllPhases
<1> QED BY <1>1, <1>2, <1>8, <1>9, <1>10, <1>11, <1>12, StepKeeps DEF Adds

LEMMA WriteSuperKeeps ==
    ASSUME Inv, WriteSuper PROVE Keeps
<1>1. Ends /\ disk' = [disk EXCEPT !.super = sb] /\ UNCHANGED <<content, run, signals>>
      /\ phase = "super"
  BY DEF WriteSuper
<1>2. /\ GoodDisk(disk) /\ GoodSuper(sb) /\ sb.inode_table_start >= 1
      /\ signals \in 0 .. MaxSignals
  BY <1>1 DEF Inv
<1>3. GoodDisk(disk')
  BY <1>1, <1>2 DEF GoodDisk
<1> QED BY <1>1, <1>2, <1>3, EndsKeep

-----------------------------------------------------------------------------
(* The program.                                                            *)

LEMMA StartGood == ASSUME Init PROVE Inv /\ Behind
<1>1. /\ disk = NoDisk /\ mem = NoMem /\ proc = NoProc /\ sb = NoSuper /\ save = NoSave
      /\ content \in [Files -> Contents] /\ run = 0 /\ phase = "idle" /\ signals = 0
  BY DEF Init
<1>2. 0 \in 0 .. Len(Sources) /\ 0 \in 0 .. MaxSignals
  BY MksquashfsAssumption
<1>3. Inv
  BY <1>1, <1>2, BlankGood DEF Inv, GoodSave
<1>4. Behind
  BY <1>1, BlankGood DEF Behind
<1> QED BY <1>3, <1>4

LEMMA NextKeeps == ASSUME Inv, [Next]_vars PROVE Keeps
<1>1. CASE Next
  <2>1. ASSUME NEW be \in Orders, NEW sorted \in Sortings, Create(be, sorted) PROVE Keeps
    BY <2>1, CreateKeeps
  <2>2. ASSUME NEW mode \in {"append", "becomes"}, NEW sorted \in Sortings,
               AppendTo(mode, sorted)
        PROVE  Keeps
    BY <2>2, AppendToKeeps
  <2>3. CASE Refused
    BY <2>3, RefusedKeeps
  <2>4. CASE sort_files_and_write
    BY <2>4, SortKeeps
  <2>5. CASE ScanOld \/ ScanLink \/ ScanFile \/ ScanUnreadable \/ ScanOther
    BY <2>5, ScanOldKeeps, ScanLinkKeeps, ScanFileKeeps, ScanUnreadableKeeps, ScanOtherKeeps
  <2>6. CASE ScanDirectory \/ CloseDirectory \/ SuperFields
    BY <2>6, ScanDirectoryKeeps, CloseDirectoryKeeps, SuperFieldsKeeps
  <2>7. CASE LastFragment \/ write_inodes \/ write_directories
    BY <2>7, LastFragmentKeeps, WriteInodesKeeps, WriteDirectoriesKeeps
  <2>8. CASE write_fragment_table \/ WriteIds \/ WriteSuper
    BY <2>8, WriteFragmentsKeeps, WriteIdsKeeps, WriteSuperKeeps
  <2>9. CASE Signal \/ Failure \/ Killed
    BY <2>9, SignalKeeps, FailureKeeps, KilledKeeps
  <2> QED BY <1>1, <2>1, <2>2, <2>3, <2>4, <2>5, <2>6, <2>7, <2>8, <2>9 DEF Next
<1>2. CASE UNCHANGED vars
  BY <1>2 DEF vars, Keeps, Inv, GoodSave, Behind
<1> QED BY <1>1, <1>2

\* The tables of a run keep within their blocks, whatever files it finds,
\* whatever image it appends to and however it is interrupted: the caches of
\* get_inode and write_dir, the tails of get_and_fill_fragment and the owner
\* tables of get_uid and get_guid, which read_filesystem fills from the image.
THEOREM PackerTypes == Spec => []SquashTypeOK
<1>1. Init => Inv
  BY StartGood
<1>2. Inv /\ [Next]_vars => Inv'
  BY NextKeeps DEF Keeps
<1>3. Inv => SquashTypeOK
  <2> SUFFICES ASSUME Inv PROVE SquashTypeOK
    OBVIOUS
  <2>1. \A p \in DOMAIN disk.blk : BlockKind(disk.blk[p]) \in Kinds
    BY DEF Inv, GoodDisk, GoodBlock, IsList
  <2>2. mem.bytes >= 1
    BY DEF Inv, GoodMem
  <2>3. /\ Len(mem.fragment_data) =< FragTails /\ Len(mem.data_cache) =< MetaInodes
        /\ Len(mem.directory_cache) =< MetaEntries
        /\ Len(mem.uids) =< MaxUids /\ Len(mem.gids) =< MaxUids
    BY DEF Inv, GoodMem
  <2>4. phase \in AllPhases \cup {"idle"} /\ run \in 0 .. Len(Sources)
        /\ signals \in 0 .. MaxSignals
    BY DEF Inv
  <2> QED BY <2>1, <2>2, <2>3, <2>4 DEF SquashTypeOK, Kinds
<1> QED BY <1>1, <1>2, <1>3, PTL DEF Spec

\* The data an append finds in the image stay where they are, up to the
\* position that a restore goes back to - as long as write_file takes nothing
\* back: for a duplicate that did not fit into memory it goes back too far.
THEOREM AppendKeepsData == Spec /\ [][~ TakesBack]_vars => []OldDataKept
<1>1. Init => Inv /\ Behind
  BY StartGood
<1>2. Inv /\ Behind /\ [Next]_vars /\ [~ TakesBack]_vars => Inv' /\ Behind'
  <2> SUFFICES ASSUME Inv, Behind, [Next]_vars, [~ TakesBack]_vars PROVE Inv' /\ Behind'
    OBVIOUS
  <2>1. UNCHANGED vars => ~ TakesBack
    BY DEF vars, TakesBack
  <2> QED BY <2>1, NextKeeps DEF Keeps
<1>3. Behind => OldDataKept
  BY DEF Behind, OldDataKept
<1> QED BY <1>1, <1>2, <1>3, PTL DEF Spec

\* So they do with -no-duplicates, and where the memory holds every file.
COROLLARY AppendKeepsDataInMemory ==
    ASSUME ~ DuplicateCheck \/ \A c \in Contents : Len(c.blocks) < BigFile
    PROVE  Spec => []OldDataKept
<1>1. Init => Inv
  BY StartGood
<1>2. Inv /\ [Next]_vars => Inv'
  BY NextKeeps DEF Keeps
<1>3. Inv => [~ TakesBack]_vars
  <2>1. ASSUME Inv, NEW i \in Files PROVE ~ LargeDuplicate(i)
    <3>1. content[i] \in Contents
      BY <2>1 DEF Inv
    <3>2. Len(content[i].blocks) \in Nat /\ BigFile \in Nat
      BY <3>1, MksquashfsAssumption
    <3> QED BY <3>1, <3>2 DEF LargeDuplicate, DuplicatesOf
  <2> QED BY <2>1 DEF TakesBack
<1> QED BY <1>1, <1>2, <1>3, AppendKeepsData, PTL DEF Spec
=============================================================================
