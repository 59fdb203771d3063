------------------------------ MODULE ReadDir ------------------------------
(***************************************************************************)
(* Reading a directory of the union (dirfops.c, rdstate.c): several users  *)
(* scan one directory, in as many calls as their buffers make necessary,   *)
(* while others create, unlink and copy up names in it and while branches  *)
(* are inserted.                                                           *)
(*                                                                         *)
(* A scan's state is an rdstate: the branch and the position in it to go   *)
(* on from, and the names seen so far, shown or whited out.  It belongs to *)
(* the open file.  Closing the file leaves it in a cache of the inode,     *)
(* where a later open can find it by its cookie and offset: a stateless    *)
(* file server opens, seeks, reads and closes for every request.           *)
(*                                                                         *)
(* A step reads one slot of a lower directory.  The VFS holds the union    *)
(* directory's i_mutex during a whole call of readdir, and the lower       *)
(* file system that of the lower directory while it is read.               *)
(***************************************************************************)
EXTENDS Integers, Sequences, FiniteSets

CONSTANTS
    Names,      \* what the directory may hold
    Branch,     \* identities of branches
    Mounted,    \* the initial branches, leftmost first
    Writable,   \* branches mounted =rw
    Dirless,    \* branches that do not have the directory
    Slots,      \* places in a lower directory, read in order
    Chunk,      \* places that one call of a lower readdir gets through
    Users,
    MaxRoom,    \* bound: entries that a user's buffer takes
    MaxCookie,  \* MAXRDCOOKIE
    Budget,     \* bound: rdstates allocated and changes made, together
    NoEntry, NoState, Closed, None

ASSUME ReadDirAssumption ==
    /\ Mounted \in Seq(Branch) /\ Mounted # <<>>
    /\ \A i, j \in 1 .. Len(Mounted) : Mounted[i] = Mounted[j] => i = j
    /\ Writable \subseteq Branch /\ Mounted[1] \in Writable
    /\ Dirless \subseteq Branch /\ Mounted[1] \notin Dirless
    /\ Slots \in Nat \ {0} /\ Chunk \in Nat \ {0}
    /\ MaxRoom \in Nat \ {0} /\ MaxCookie \in Nat /\ MaxCookie > 1
    /\ Budget \in Nat

VARIABLES
    dir,        \* dir[b]: the lower directory of branch b, a slot each
    table,      \* the branches of the union
    cookie,     \* uii_cookie, of the directory's inode
    made,       \* number of rdstates allocated
    cache,      \* uii_readdircache, oldest first
    file,       \* file[u]: the open directory of user u
    at,         \* at[u]: the position that u remembers
    scan,       \* what u has been shown, and what it had a right to see
    changes,    \* number of changes
    oops        \* a BUG_ON has been hit

vars == <<dir, table, cookie, made, cache, file, at, scan, changes, oops>>

Entries == [name : Names, wh : BOOLEAN]

Directories == [1 .. Slots -> Entries \cup {NoEntry}]

\* A lower directory holds a name once, and not with its whiteout.
SoundDirs ==
    {d \in Directories : \A i, j \in 1 .. Slots :
        d[i] # NoEntry /\ d[j] # NoEntry /\ d[i].name = d[j].name => i = j}

\* A position in the directory: 12 bits of cookie and 20 bits of offset.
Positions == [cookie : 0 .. MaxCookie - 1, offset : Nat]
Start == [cookie |-> 0, offset |-> 0]
DIREOF == [cookie |-> 0, offset |-> 1048575]

RdStates == [cookie : 1 .. MaxCookie - 1, offset : Nat, bindex : Nat \ {0},
             dirpos : 0 .. Slots, seen : SUBSET Names]

Files == [pos : Positions, rd : RdStates \cup {NoState},
          low : Seq(Branch \cup {None}), call : {"idle", "loop", "lower"},
          room : Nat, left : Nat, written : BOOLEAN]

ASSUME MarkerAssumption ==
    /\ NoEntry \notin Entries /\ None \notin Branch
    /\ NoState \notin RdStates /\ Closed \notin Files

TypeOK ==
    /\ dir \in [Branch -> SoundDirs]
    /\ table \in Seq(Branch)
    /\ cookie \in 0 .. MaxCookie - 1
    /\ made \in 0 .. Budget
    /\ cache \in Seq(RdStates)
    /\ file \in [Users -> Files \cup {Closed}]
    /\ at \in [Users -> Positions]
    /\ scan \in [Users -> [got : [Names -> 0 .. 2], ever : SUBSET Names,
                           steady : SUBSET Names, split : SUBSET Names,
                           done : BOOLEAN]]
    /\ changes \in 0 .. Budget
    /\ oops \in BOOLEAN

-----------------------------------------------------------------------------
(* What the union shows, by its definition: the leftmost entry decides.    *)

Named(d, n) == {i \in 1 .. Slots : d[i] # NoEntry /\ d[i].name = n}
Positioned(n) == {i \in 1 .. Len(table) : /\ table[i] \notin Dirless
                                          /\ Named(dir[table[i]], n) # {}}
First(S) == CHOOSE i \in S : \A j \in S : i =< j
IsWhiteout(i, n) == \E s \in Named(dir[table[i]], n) : dir[table[i]][s].wh
Visible == {n \in Names : /\ Positioned(n) # {}
                          /\ ~IsWhiteout(First(Positioned(n)), n)}

\* Branch b, inserted at position i, puts its whiteout of n between copies.
Copies(n) == {j \in Positioned(n) : ~IsWhiteout(j, n)}
Divides(b, i, n) ==
    /\ b \notin Dirless /\ \E s \in Named(dir[b], n) : dir[b][s].wh
    /\ \E j, k \in Copies(n) : j < i /\ i =< k

\* Every change of the branches is a change of what scans may expect: what
\* shows at some time (ever), what has shown all the time (steady), and what
\* had its copies divided by an inserted whiteout (split).
Watched(divided) ==
    /\ made + changes < Budget /\ changes' = changes + 1
    /\ scan' = [u \in Users |->
                [scan[u] EXCEPT !.ever = @ \cup Visible',
                                !.steady = @ \cap Visible',
                                !.split = @ \cup divided]]

\* A user who begins anew has no use for the positions of the scan before.
NewScan(u) ==
    /\ at' = [at EXCEPT ![u] = Start]
    /\ scan' = [scan EXCEPT ![u] =
            [got |-> [n \in Names |-> 0], ever |-> Visible,
             steady |-> Visible, split |-> {}, done |-> FALSE]]

-----------------------------------------------------------------------------
(* rdstate.c                                                               *)

NextCookie == IF cookie >= MaxCookie - 1 THEN 1 ELSE cookie + 1

\* unionfs_file_revalidate and open: the lower directories by position.
Lower == [i \in 1 .. Len(table) |->
            IF table[i] \in Dirless THEN None ELSE table[i]]
fbstart(low) == First({i \in 1 .. Len(low) : low[i] # None})
fbend(low) == CHOOSE i \in 1 .. Len(low) :
                /\ low[i] # None
                /\ \A j \in i + 1 .. Len(low) : low[j] = None

init_rdstate(low) ==
    [cookie |-> NextCookie, offset |-> 1, bindex |-> fbstart(low),
     dirpos |-> 0, seen |-> {}]

Allocates ==
    /\ made + changes < Budget
    /\ made' = made + 1
    /\ cookie' = NextCookie

rdstate2offset(r) == [cookie |-> r.cookie, offset |-> r.offset]

\* Indices of the cached rdstates that stand for position p.
find_rdstate(p) == {i \in 1 .. Len(cache) : rdstate2offset(cache[i]) = p}

Without(s, i) == SubSeq(s, 1, i - 1) \o SubSeq(s, i + 1, Len(s))

-----------------------------------------------------------------------------
(* open, release, and the inode's cache of rdstates.                       *)

IsOpen(u) == file[u] # Closed
InCall(u) == IsOpen(u) /\ file[u].call # "idle"
Mutex == \A u \in Users : ~InCall(u)      \* i_mutex of the union directory

\* An open file between calls.
Idle(pos, r) == [pos |-> pos, rd |-> r, low |-> <<>>, call |-> "idle",
                 room |-> 0, left |-> 0, written |-> FALSE]

unionfs_open(u) ==
    /\ ~oops /\ ~IsOpen(u)
    /\ file' = [file EXCEPT ![u] = Idle(Start, NoState)]
    /\ UNCHANGED <<dir, table, cookie, made, cache, at, scan, changes, oops>>

unionfs_file_release(u) ==
    /\ ~oops /\ IsOpen(u) /\ ~InCall(u)
    /\ cache' = IF file[u].rd = NoState THEN cache ELSE Append(cache, file[u].rd)
    /\ file' = [file EXCEPT ![u] = Closed]
    /\ UNCHANGED <<dir, table, cookie, made, at, scan, changes, oops>>

\* The oldest are thrown out when the inode is written.
unionfs_write_inode ==
    /\ ~oops /\ cache # <<>>
    /\ cache' = Tail(cache)
    /\ UNCHANGED <<dir, table, cookie, made, file, at, scan, changes, oops>>

-----------------------------------------------------------------------------
(* unionfs_dir_llseek                                                      *)

\* To the start: a new rdstate.  f_pos is not changed.
SeekToStart(u) ==
    /\ ~oops /\ IsOpen(u) /\ ~InCall(u) /\ Allocates
    /\ file' = [file EXCEPT ![u].rd = init_rdstate(Lower)]
    /\ NewScan(u)
    /\ UNCHANGED <<dir, table, cache, changes, oops>>

\* To where an earlier open of the directory has stopped.
SeekToCookie(u) ==
    /\ ~oops /\ IsOpen(u) /\ ~InCall(u) /\ file[u].rd = NoState
    /\ at[u] \notin {Start, DIREOF}
    /\ \E i \in find_rdstate(at[u]) :
        /\ \A j \in find_rdstate(at[u]) : i =< j
        /\ file' = [file EXCEPT ![u].rd = cache[i]]
        /\ cache' = Without(cache, i)
    /\ UNCHANGED <<dir, table, cookie, made, at, scan, changes, oops>>

\* "returns where you are", and insists that f_pos is the rdstate's.
Tell(u) ==
    /\ ~oops /\ IsOpen(u) /\ ~InCall(u) /\ file[u].pos # Start
    /\ IF \/ file[u].pos = DIREOF
          \/ file[u].rd # NoState /\ file[u].pos = rdstate2offset(file[u].rd)
       THEN at' = [at EXCEPT ![u] = file[u].pos] /\ UNCHANGED oops
       ELSE oops' = TRUE /\ UNCHANGED at
    /\ UNCHANGED <<dir, table, cookie, made, cache, file, scan, changes>>

-----------------------------------------------------------------------------
(* unionfs_readdir                                                         *)

\* A scan goes on, or a new one begins; at the end there is nothing to do.
StartCall(u, room) ==
    /\ ~oops /\ IsOpen(u) /\ Mutex
    /\ \/ /\ file[u].rd # NoState
          /\ file' = [file EXCEPT ![u].low = Lower, ![u].call = "loop",
                                  ![u].room = room]
          /\ UNCHANGED <<cookie, made, at, scan>>
       \/ /\ file[u].rd = NoState /\ file[u].pos = Start /\ Allocates
          /\ file' = [file EXCEPT ![u].low = Lower, ![u].call = "loop",
                                  ![u].room = room,
                                  ![u].rd = init_rdstate(Lower)]
          /\ NewScan(u)
    /\ UNCHANGED <<dir, table, cache, changes, oops>>

\* Mutant of NextBranch: the position is not set back.
PositionKept(r) == [r EXCEPT !.bindex = @ + 1]
\* Mutant of NextBranch: the same branch again.
SameBranch(r) == [r EXCEPT !.dirpos = 0]

NextBranch(r) == [r EXCEPT !.bindex = @ + 1, !.dirpos = 0]

\* The head of the while loop: the next branch with the directory, or the end.
PickBranch(u) ==
    LET f == file[u] IN
    /\ ~oops /\ IsOpen(u) /\ f.call = "loop" /\ f.rd.bindex =< fbend(f.low)
    /\ file' = [file EXCEPT ![u] =
            IF f.low[f.rd.bindex] = None THEN [f EXCEPT !.rd = NextBranch(@)]
            ELSE [f EXCEPT !.call = "lower", !.left = Chunk, !.written = FALSE]]
    /\ UNCHANGED <<dir, table, cookie, made, cache, at, scan, changes, oops>>

EndOfScan(u) ==
    /\ ~oops /\ IsOpen(u)
    /\ file[u].call = "loop" /\ file[u].rd.bindex > fbend(file[u].low)
    /\ file' = [file EXCEPT ![u] = Idle(DIREOF, NoState)]
    /\ at' = [at EXCEPT ![u] = DIREOF]
    /\ scan' = [scan EXCEPT ![u].done = TRUE]
    /\ UNCHANGED <<dir, table, cookie, made, cache, changes, oops>>

\* The lower readdir hands unionfs_filldir the next slot, if it has an entry.
Reading(u) ==
    IsOpen(u) /\ file[u].call = "lower"
    /\ file[u].rd.dirpos < Slots /\ file[u].left > 0
NextSlot(f) == dir[f.low[f.rd.bindex]][f.rd.dirpos + 1]
Passed(f) == [f EXCEPT !.rd.dirpos = @ + 1, !.left = @ - 1]
Known(f, n) == n \in f.rd.seen
\* Mutant of Noted: shown names are not put in the hash table.
ShownForgotten(f, n) ==
    [Passed(f) EXCEPT !.rd.seen = IF NextSlot(f).wh THEN @ \cup {n} ELSE @,
                      !.written = TRUE]
\* Mutant of Noted: whiteouts are not.
WhiteoutForgotten(f, n) ==
    [Passed(f) EXCEPT !.rd.seen = IF NextSlot(f).wh THEN @ ELSE @ \cup {n},
                      !.written = TRUE]

Noted(f, n) ==
    [Passed(f) EXCEPT !.rd.seen = @ \cup {n}, !.written = TRUE]

SkipEntry(u) ==
    LET f == file[u]  e == NextSlot(f) IN
    /\ ~oops /\ Reading(u)
    /\ IF e = NoEntry THEN TRUE ELSE Known(f, e.name)
    /\ file' = [file EXCEPT ![u] = Passed(f)]
    /\ UNCHANGED <<dir, table, cookie, made, cache, at, scan, changes, oops>>

NoteWhiteout(u) ==
    LET f == file[u]  e == NextSlot(f) IN
    /\ ~oops /\ Reading(u)
    /\ e # NoEntry /\ ~Known(f, e.name) /\ e.wh
    /\ file' = [file EXCEPT ![u] = Noted(f, e.name)]
    /\ UNCHANGED <<dir, table, cookie, made, cache, at, scan, changes, oops>>

ShowEntry(u) ==
    LET f == file[u]  e == NextSlot(f) IN
    /\ ~oops /\ Reading(u)
    /\ e # NoEntry /\ ~Known(f, e.name) /\ ~e.wh /\ f.room > 0
    /\ file' = [file EXCEPT ![u] =
            [Noted(f, e.name) EXCEPT !.room = @ - 1, !.rd.offset = @ + 1]]
    /\ scan' = [scan EXCEPT ![u].got[e.name] = IF @ = 2 THEN 2 ELSE @ + 1]
    /\ UNCHANGED <<dir, table, cookie, made, cache, at, changes, oops>>

\* The user's buffer is full.  The offset is counted up all the same; the
\* entry is not noted and the lower position stays before it.
BufferFull(u) ==
    LET f == file[u]  e == NextSlot(f)
        r == [f.rd EXCEPT !.offset = @ + 1]
    IN
    /\ ~oops /\ Reading(u)
    /\ e # NoEntry /\ ~Known(f, e.name) /\ ~e.wh /\ f.room = 0
    /\ file' = [file EXCEPT ![u] = Idle(rdstate2offset(r), r)]
    /\ at' = [at EXCEPT ![u] = rdstate2offset(r)]
    /\ UNCHANGED <<dir, table, cookie, made, cache, scan, changes, oops>>

\* The lower call returns: once more if it brought anything new.
LowerReturns(u) ==
    LET f == file[u] IN
    /\ ~oops /\ IsOpen(u) /\ f.call = "lower" /\ ~Reading(u)
    /\ file' = [file EXCEPT ![u] =
            [f EXCEPT !.call = "loop",
                      !.rd = IF f.written THEN @ ELSE NextBranch(@)]]
    /\ UNCHANGED <<dir, table, cookie, made, cache, at, scan, changes, oops>>

Kernel(u) ==
    \/ PickBranch(u) \/ EndOfScan(u) \/ LowerReturns(u)
    \/ SkipEntry(u) \/ NoteWhiteout(u) \/ ShowEntry(u) \/ BufferFull(u)

-----------------------------------------------------------------------------
(* What others do to the directory.  create and unlink hold its i_mutex,   *)
(* a copyup (of a file that is opened for writing) only the lower one.     *)

BeingRead(b) == \E u \in Users : InCall(u) /\ file[u].call = "lower"
                                   /\ file[u].low[file[u].rd.bindex] = b

\* The nearest branch at or left of position i that may be written.
WritableFrom(i) ==
    CHOOSE j \in 1 .. i : /\ table[j] \in Writable \ Dirless
                          /\ \A k \in j + 1 .. i : table[k] \notin Writable \ Dirless

\* Mutant of Replaced: the entry that was there stays.
Beside(d, n, e) ==
    {[d EXCEPT ![i] = e] : i \in {j \in 1 .. Slots : d[j] = NoEntry}}

\* d without n, and with entry e in a free slot instead.
Replaced(d, n, e) ==
    LET c == [i \in 1 .. Slots |-> IF i \in Named(d, n) THEN NoEntry ELSE d[i]]
    IN  {[c EXCEPT ![i] = e] : i \in {j \in 1 .. Slots : c[j] = NoEntry}}

Write(i, n, wh) ==
    /\ ~BeingRead(table[i])
    /\ \E d \in Replaced(dir[table[i]], n, [name |-> n, wh |-> wh]) :
            dir' = [dir EXCEPT ![table[i]] = d]
    /\ UNCHANGED <<table, cookie, made, cache, file, at, oops>>
    /\ Watched({})

create(n) ==
    /\ ~oops /\ Mutex /\ n \notin Visible
    /\ Write(WritableFrom(IF Positioned(n) = {} THEN fbstart(Lower)
                          ELSE First(Positioned(n))), n, FALSE)

\* The object goes from a writable branch; a whiteout takes its place, or is
\* put to the left of a read-only one.
unlink(n) ==
    /\ ~oops /\ Mutex /\ n \in Visible
    /\ Write(WritableFrom(First(Positioned(n))), n, TRUE)

copyup(n) ==
    /\ ~oops /\ n \in Visible
    /\ table[First(Positioned(n))] \notin Writable
    /\ Write(WritableFrom(First(Positioned(n))), n, FALSE)

\* A read-only branch only to the right of a writable one.  The leftmost branch
\* has the directory: a write that first has to make it is not modelled.
addbranch(b, i) ==
    /\ ~oops /\ b \notin {table[j] : j \in 1 .. Len(table)}
    /\ i = 1 => b \in Writable \ Dirless
    /\ table' = SubSeq(table, 1, i - 1) \o <<b>> \o SubSeq(table, i, Len(table))
    /\ UNCHANGED <<dir, cookie, made, cache, file, at, oops>>
    /\ Watched({n \in Names : Divides(b, i, n)})

-----------------------------------------------------------------------------
Init ==
    /\ dir \in [Branch -> SoundDirs]
    /\ table = Mounted
    /\ cookie = 0 /\ made = 0 /\ cache = <<>>
    /\ file = [u \in Users |-> Closed]
    /\ at = [u \in Users |-> Start]
    /\ scan = [u \in Users |-> [got |-> [n \in Names |-> 0], ever |-> {},
                                steady |-> {}, split |-> {}, done |-> FALSE]]
    /\ changes = 0
    /\ oops = FALSE

Next ==
    \/ \E u \in Users :
        \/ unionfs_open(u) \/ unionfs_file_release(u)
        \/ SeekToStart(u) \/ SeekToCookie(u) \/ Tell(u)
        \/ \E room \in 1 .. MaxRoom : StartCall(u, room)
        \/ Kernel(u)
    \/ unionfs_write_inode
    \/ \E n \in Names : create(n) \/ unlink(n) \/ copyup(n)
    \/ \E b \in Branch, i \in 1 .. Len(table) + 1 : addbranch(b, i)

Spec == Init /\ [][Next]_vars

\* The kernel goes on with a call that it has begun.
FairSpec == Spec /\ \A u \in Users : WF_vars(Kernel(u))

-----------------------------------------------------------------------------
(***************************************************************************)
(* Properties                                                              *)
(***************************************************************************)

\* A scan, over however many calls and opens, shows no name twice, whatever
\* is copied up or inserted meanwhile.
NoDuplicates == \A u \in Users, n \in Names : scan[u].got[n] =< 1

\* A scan that has come to its end has shown every name that was visible all
\* the time, a name excepted that had its copies in two branches when a third
\* with its whiteout was inserted between them.
NothingMissed ==
    \A u \in Users : scan[u].done =>
        \A n \in scan[u].steady \ scan[u].split : scan[u].got[n] > 0

\* It has shown every name that was visible all the time, without exception:
\* "see if all appear in the unionfs" (regression/readdir.sh:5).
AllShown ==
    \A u \in Users : scan[u].done =>
        \A n \in scan[u].steady : scan[u].got[n] > 0

\* It shows no name that was not there at some time since it began.
NothingInvented ==
    \A u \in Users, n \in Names : scan[u].got[n] > 0 => n \in scan[u].ever

\* No BUG_ON is hit by any order of calls.
NoBug == ~oops

\* A call of readdir returns, unless a BUG_ON stops the kernel.
CallsReturn == \A u \in Users : InCall(u) ~> ~InCall(u) \/ oops
=============================================================================
