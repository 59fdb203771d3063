---------------------------- MODULE UnionRename ----------------------------
(***************************************************************************)
(* rename and link in Unionfs 1.3, in its default build (delete=whiteout), *)
(* write by write.  Both change several branches one after the other:      *)
(* unionfs_rename removes whiteouts, renames in the branch of the source,  *)
(* unlinks older destinations, copies the source up, marks it opaque and   *)
(* leaves a whiteout behind, and it tries to take some of that back when a *)
(* later write fails.  The machine may stop between any two of them.       *)
(*                                                                         *)
(* A call changes a name of the root directory, which every branch has, to *)
(* its twin in the same directory; a name may be a directory with entries. *)
(* The VFS holds the i_mutex of the directory and unionfs the semaphores   *)
(* of both dentries (double_lock_dentry) throughout, so calls do not       *)
(* interleave.  Every call starts from dentries just looked up, and nobody *)
(* else holds the lower ones: a lower dentry that is unlinked is negative. *)
(***************************************************************************)
EXTENDS UnionDentry

CONSTANTS
    Twin,       \* Twin[p]: the other name; Twin[q]: the same entry below it
    Faults      \* the lower-file-system calls that may fail

FaultKinds == {"unlink", "rename", "link", "copyup", "copydata", "opaque", "whiteout"}

Names == {p \in Paths : Parent[p] = Root}

ASSUME TwinAssumption ==
    /\ Twin \in [Paths -> Paths]
    /\ \A q \in Paths : /\ Twin[q] # q /\ Twin[Twin[q]] = q
                        /\ Parent[Twin[q]] = IF q \in Names THEN Root
                                             ELSE Twin[Parent[q]]

ASSUME FaultsAssumption == Faults \subseteq FaultKinds

VARIABLES
    fs,         \* the branches (lower file systems)
    pc,         \* what the call does next; "idle" between calls
    call,       \* its local variables
    before,     \* history: the merged view when it began
    oops,       \* a BUG_ON was hit, or a pointer that is none was followed
    last        \* how the last call ended

vars == <<fs, pc, call, before, oops, last>>

Steps == {"idle", "clean", "rename", "unlink", "copyup", "copydata", "opaque",
          "whiteout", "revert", "link"}

NoCall == [op |-> "none"]
NoView == [p \in Paths |-> None]

\* The locals of unionfs_rename and unionfs_link under the code's names, but:
\*   old     the old name (the new one is its twin)
\*   o, n    the private data of old_dentry and new_dentry
\*   positive  new_dentry has an inode
\*   stage   which call of do_rename or vfs_link this is: the "first", the
\*           "second", after a copyup, or the one "back"
\*   moved   branches in which old_dentry's lower dentry has the new name by now
\*   wh_old  "null", the looked-up "whiteout", or one already "put"
Calls == [op : {"rename", "link"}, old : Names, dir : BOOLEAN,
          o : Dentries, n : Dentries, positive : BOOLEAN,
          old_bstart : Branches, old_bend : Branches, new_bstart : Branches,
          bindex : -1 .. NB - 1, do_copyup : -1 .. NB - 1, bwh_old : Branches,
          wh_old : {"null", "whiteout", "put"}, stage : {"first", "second", "back"},
          revert : BOOLEAN, moved : SUBSET Branches, err : {"none", "error"}]

TypeOK ==
    /\ fs \in Unions
    /\ pc \in Steps
    /\ call \in Calls \cup {NoCall}
    /\ (pc = "idle") = (call = NoCall)
    /\ before \in [Paths -> Nodes]
    /\ oops \in BOOLEAN
    /\ last \in [op : {"mount", "rename", "link"}, path : Names \cup {"root"},
                 end : {"ok", "error", "crash", "torn"}]

Old == call.old
New == Twin[call.old]

Subtree(p) == {p} \cup Below(p)

-----------------------------------------------------------------------------
(* How a step continues.                                                   *)

Goto(step, c) ==
    /\ pc' = step /\ call' = c
    /\ UNCHANGED <<before, oops, last>>

\* The call is over; the dentries it used are dropped with it.
Ends(op, p, end) ==
    /\ pc' = "idle" /\ call' = NoCall /\ before' = NoView
    /\ last' = [op |-> op, path |-> p, end |-> end]
    /\ UNCHANGED oops

Returns(err) == Ends(call.op, Old, IF err = "none" THEN "ok" ELSE "error")

Bug ==
    /\ oops' = TRUE
    /\ UNCHANGED <<fs, pc, call, before, last>>

At(step) == pc = step /\ ~oops

-----------------------------------------------------------------------------
(***************************************************************************)
(* unionfs_rename up to its first write.                                   *)
(***************************************************************************)

\* unionfs_partial_lookup of a dentry that may be negative: one that turns
\* positive starts at what was found (update_bstart).
Completed(d, p) ==
    LET e   == PartialLookup(fs, RootDentry, d, p)
        pos == {b \in Branches : e.hid[b] = "live" /\ fs[b].node[p] # None}
    IN  IF pos = {} THEN e
        ELSE [e EXCEPT !.bstart = Leftmost(pos),
                       !.hid = [b \in Branches |->
                                   IF b < Leftmost(pos) THEN "null" ELSE e.hid[b]]]

\* check_empty: a whiteout hides the name in the branches read after its own.
CheckEmpty(d, p) ==
    LET read == {b \in Branches : /\ d.bstart =< b /\ b =< d.bend
                                  /\ d.bopaque = -1 \/ b =< d.bopaque
                                  /\ d.hid[b] = "live" /\ fs[b].node[p] = Dir}
    IN  \A b \in read, c \in Children(p) :
            fs[b].node[c] # None => \E a \in read : a < b /\ c \in fs[a].wh

\* Mutant of MayRenameDir: only a read-only first branch forbids it.
MayRenameMerged(o, p) == IsRobranch(o.bstart) => CheckEmpty(o, p)

\* Only a directory whose entries all lie in one writable branch moves.
MayRenameDir(o, p) ==
    /\ IsRobranch(o.bstart) => CheckEmpty(o, p)
    /\ \/ o.bend = o.bstart
       \/ o.bopaque = o.bstart
       \/ CheckEmpty([o EXCEPT !.bstart = @ + 1], p)

\* What delete_whiteouts finds in directory p of branch b.
Whiteouts(b, p) == (fs[b].wh \cap Below(p)) \cup (fs[b].opq \cap {p})

unionfs_rename(p) ==
    LET t      == Twin[p]
        o0     == Lookup(fs, RootDentry, p)
        n0     == Lookup(fs, RootDentry, t)
        dir    == Object(fs, o0, p) = Dir
        o      == Completed(o0, p)
        n      == Completed(n0, t)
        positive == ~IsNegative(fs, n, t)
        emptied == dir /\ positive /\ \A b \in Branches : t \notin fs[b].wh
        refused == \/ dir /\ ~MayRenameDir(o, p)
                   \/ emptied /\ ~CheckEmpty(n, t)
        cleaned == emptied /\ ~IsRobranch(n.bstart)
    IN  /\ At("idle")
        \* The VFS has found the source, and a destination of its kind if any.
        /\ ~IsNegative(fs, o0, p)
        /\ ~IsNegative(fs, n0, t) => (Object(fs, n0, t) = Dir) = dir
        /\ \/ refused /\ Ends("rename", p, "error")
           \/ /\ ~refused
              /\ pc' = IF cleaned THEN "clean" ELSE "rename"
              /\ call' = [op |-> "rename", old |-> p, dir |-> dir, o |-> o, n |-> n,
                          positive |-> positive, old_bstart |-> o.bstart,
                          old_bend |-> o.bend, new_bstart |-> n.bstart,
                          bindex |-> o.bstart, do_copyup |-> -1,
                          bwh_old |-> o.bstart, wh_old |-> "null",
                          stage |-> "first", revert |-> FALSE, moved |-> {},
                          err |-> "none"]
              /\ before' = View(fs)
              /\ UNCHANGED <<oops, last>>
        /\ UNCHANGED fs

\* delete_whiteouts: one unlink in the emptied destination per entry, in the
\* order of the hash table that check_empty filled.
delete_whiteouts ==
    LET b == call.n.bstart
        W == Whiteouts(b, New)
    IN  /\ At("clean")
        /\ \/ W = {} /\ Goto("rename", call) /\ UNCHANGED fs
           \/ \E q \in W :
                /\ fs' = [fs EXCEPT ![b].wh = @ \ {q},
                                    ![b].opq = IF q = New THEN @ \ {q} ELSE @]
                /\ Goto("clean", call)
           \/ W # {} /\ "unlink" \in Faults /\ Returns("error") /\ UNCHANGED fs

-----------------------------------------------------------------------------
(***************************************************************************)
(* do_rename(old_dentry, new_dentry, bindex): unionfs_rename_whiteout      *)
(* calls it for the first branch of the source, again after a copyup, and  *)
(* with the dentries exchanged to take the first one back.                 *)
(***************************************************************************)
From == IF call.stage = "back" THEN New ELSE Old
To == Twin[From]
Branch == IF call.stage = "second" THEN call.bindex ELSE call.old_bstart

\* create_parents, which refuses a read-only branch, gives the destination a
\* pointer where it has none.
Target == IF call.stage = "back" THEN call.o ELSE call.n
Aimed ==
    IF Target.hid[Branch] # "null" \/ IsRobranch(Branch) THEN call
    ELSE IF call.stage = "back"
         THEN [call EXCEPT !.o = Pointed(fs, Target, To, Branch)]
         ELSE [call EXCEPT !.n = Pointed(fs, Target, To, Branch)]

\* Where unionfs_rename_whiteout goes on when do_rename returns err.
DoRenameReturns(c, err) ==
    \/ c.stage = "first" /\ err = "error" /\ Returns("error")
    \/ /\ c.stage = "first" /\ err = "EROFS"
       /\ Goto("unlink", [c EXCEPT !.do_copyup = c.old_bstart - 1])
    \/ /\ c.stage = "first" /\ err = "none"
       /\ Goto("unlink", [c EXCEPT !.revert = TRUE])
    \/ c.stage = "second" /\ Goto("opaque", [c EXCEPT !.err = err])
    \/ c.stage = "back" /\ Returns("error")

\* Mutant of ReadOnly: is_robranch_super is not asked.
ReadOnlyIgnored == FALSE

ReadOnly == IsRobranch(Branch)

\* The destination's whiteout goes first.
do_rename_unlink ==
    /\ At("rename") /\ To \in fs[Branch].wh
    /\ \/ /\ fs[Branch].node[To] # None      \* both a whiteout and a dentry
          /\ DoRenameReturns(Aimed, "error") /\ UNCHANGED fs
       \/ /\ fs[Branch].node[To] = None /\ ReadOnly
          /\ DoRenameReturns(Aimed, "EROFS") /\ UNCHANGED fs
       \/ /\ fs[Branch].node[To] = None /\ ~ReadOnly
          /\ \/ fs' = DelWhiteout(fs, Branch, To) /\ Goto("rename", Aimed)
             \/ /\ "unlink" \in Faults
                /\ DoRenameReturns(Aimed, "error") /\ UNCHANGED fs

\* The lower rename moves the object with all that the branch has below it; it
\* replaces nothing but its like, and no directory that holds an entry.
Renamed(br, s, t) ==
    [node |-> [q \in Paths |-> IF q \in Subtree(s) THEN None
                               ELSE IF q \in Subtree(t) THEN br.node[Twin[q]]
                               ELSE br.node[q]],
     wh   |-> (br.wh \ (Below(s) \cup Below(t)))
                \cup {q \in Below(t) : Twin[q] \in br.wh},
     opq  |-> (br.opq \ (Subtree(s) \cup Subtree(t)))
                \cup {q \in Subtree(t) : Twin[q] \in br.opq}]

Replaces(b, s, t) ==
    fs[b].node[t] # None =>
        /\ (fs[b].node[s] = Dir) = (fs[b].node[t] = Dir)
        /\ Whiteouts(b, t) = {}
        /\ \A c \in Children(t) : fs[b].node[c] = None

do_rename ==
    LET c     == [Aimed EXCEPT !.wh_old = IF call.stage = "back" THEN @ ELSE "whiteout"]
        there == [c EXCEPT !.moved = IF call.stage = "back" THEN @ \ {Branch}
                                     ELSE @ \cup {Branch}]
    IN  /\ At("rename") /\ To \notin fs[Branch].wh
        /\ \/ /\ ReadOnly
              /\ DoRenameReturns(call, "EROFS") /\ UNCHANGED fs
           \/ /\ ~ReadOnly /\ Replaces(Branch, From, To)
              /\ fs' = [fs EXCEPT ![Branch] = Renamed(@, From, To)]
              /\ DoRenameReturns(there, "none")
           \/ /\ ~ReadOnly
              /\ "rename" \in Faults \/ ~Replaces(Branch, From, To)
              /\ DoRenameReturns(c, "error") /\ UNCHANGED fs

-----------------------------------------------------------------------------
(***************************************************************************)
(* The rest of unionfs_rename_whiteout.                                    *)
(***************************************************************************)

\* Mutant of Left: the source's own branch is one of them.
LeftThrough == {i \in Branches : /\ call.new_bstart =< i
                                 /\ i =< call.old_bstart /\ i =< call.bindex
                                 /\ call.n.hid[i] # "null"}

\* The instances of the destination to the left of the source, from right to
\* left.  They end here when none is left; bindex stands one before the loop's
\* last then.
Left == {i \in Branches : /\ call.new_bstart =< i
                          /\ i < call.old_bstart /\ i =< call.bindex
                          /\ call.n.hid[i] # "null"}

LoopEnd == IF call.new_bstart < call.old_bstart
           THEN call.new_bstart - 1 ELSE call.old_bstart - 1

unlink_left ==
    LET i      == Rightmost(Left)
        passed == [call EXCEPT !.bindex = i - 1]
    IN  /\ At("unlink")
        /\ \/ /\ Left = {} /\ UNCHANGED fs
              /\ IF call.do_copyup = -1
                 THEN Goto("opaque", [call EXCEPT !.bindex = LoopEnd])
                 ELSE Goto("copyup", [call EXCEPT !.bindex = call.do_copyup])
           \/ /\ Left # {} /\ IsRobranch(i) /\ UNCHANGED fs
              /\ Goto("unlink", [passed EXCEPT !.do_copyup = i - 1])
           \/ /\ Left # {} /\ ~IsRobranch(i) /\ fs[i].node[New] \in Values
              /\ fs' = SetNode(fs, i, New, None)
              /\ Goto("unlink", IF i = call.new_bstart THEN passed
                                ELSE [passed EXCEPT !.n.hid[i] = "null"])
           \* vfs_unlink refuses a directory, and a pointer to nothing.
           \/ /\ Left # {} /\ ~IsRobranch(i) /\ UNCHANGED fs
              /\ "unlink" \in Faults \/ fs[i].node[New] \in {None, Dir}
              /\ IF call.revert THEN Goto("revert", [call EXCEPT !.bindex = i])
                 ELSE Goto("unlink", passed)

\* copyup_dentry(old_dentry, old_bstart, bindex), tried from do_copyup to the
\* left until one succeeds: first the object, then a file's data.
Tried == {i \in Writable : i =< call.bindex}

CopiedTo(i) == [call EXCEPT !.o = Pointed(fs, @, Old, i), !.bindex = i]

\* Mutant of CopyupDone: the copy is renamed with the first attempt's branch.
CopyupDoneFirst(c) == Goto("rename", [c EXCEPT !.stage = "first"])

CopyupDone(c) ==
    IF c.op = "link" THEN Goto("link", [c EXCEPT !.stage = "second"])
    ELSE Goto("rename",
              [c EXCEPT !.stage = "second", !.bwh_old = c.bindex,
                        !.wh_old = IF @ = "null" THEN @ ELSE "put"])

\* The loop is exhausted, and err is that of the last attempt.
CopyupFails ==
    IF call.op = "link" THEN Returns("error")
    ELSE Goto("opaque", [call EXCEPT !.err = "error"])

copyup_create ==
    LET i == Rightmost(Tried)
        n == fs[call.old_bstart].node[IF call.old_bstart \in call.moved THEN New ELSE Old]
    IN  /\ At("copyup")
        /\ \/ Tried = {} /\ CopyupFails /\ UNCHANGED fs
           \/ /\ Tried # {} /\ fs[i].node[Old] = None
              /\ fs' = SetNode(fs, i, Old, IF n = Dir THEN Dir ELSE Empty)
              /\ IF n = Dir THEN CopyupDone(CopiedTo(i)) ELSE Goto("copydata", CopiedTo(i))
           \/ /\ Tried # {}
              /\ "copyup" \in Faults \/ fs[i].node[Old] # None
              /\ Goto("copyup", [call EXCEPT !.bindex = i - 1]) /\ UNCHANGED fs

copyup_data ==
    LET i == call.bindex
        n == fs[call.old_bstart].node[IF call.old_bstart \in call.moved THEN New ELSE Old]
    IN  /\ At("copydata")
        /\ \/ fs' = SetNode(fs, i, Old, n) /\ CopyupDone(call)
           \/ /\ "copydata" \in Faults
              /\ fs' = SetNode(fs, i, Old, None)
              /\ Goto("copyup", [call EXCEPT !.bindex = i - 1])

\* make_dir_opaque(old_dentry, dbstart(old_dentry)), for directories.  Its
\* success overwrites an error that do_rename has returned.
make_opaque ==
    LET b == call.o.bstart
        q == IF b \in call.moved THEN New ELSE Old
    IN  /\ At("opaque")
        /\ \/ ~call.dir /\ Goto("whiteout", call) /\ UNCHANGED fs
           \/ /\ call.dir /\ ~IsRobranch(b)
              /\ fs' = AddOpaque(fs, b, q)
              /\ Goto("whiteout", [call EXCEPT !.err = "none"])
           \/ /\ call.dir
              /\ "opaque" \in Faults \/ IsRobranch(b)
              /\ Goto("revert", call) /\ UNCHANGED fs

\* The source has other instances, or is one itself.
WhiteoutDue == call.old_bstart # call.old_bend \/ call.do_copyup # -1

\* create the whiteout for the source; an error of do_rename does not stop it.
whiteout_source ==
    LET b     == call.bwh_old
        sound == call.wh_old = "whiteout" /\ Old \notin fs[b].wh
    IN  /\ At("whiteout")
        /\ \/ ~WhiteoutDue /\ Returns(call.err) /\ UNCHANGED fs
           \/ WhiteoutDue /\ ~sound /\ Bug
           \/ /\ WhiteoutDue /\ sound
              /\ fs' = AddWhiteout(fs, b, Old) /\ Returns(call.err)
           \/ /\ WhiteoutDue /\ sound /\ "whiteout" \in Faults
              /\ Returns("error") /\ UNCHANGED fs

\* Both dentries are looked up again in the first branch (the inode of the new
\* one is taken for granted) and the objects of branch bindex, which may be -1,
\* are inspected before do_rename is called the other way round.
Refreshed(d, p, b) ==
    [d EXCEPT !.hid[b] = IF fs[b].node[p] = None THEN "null" ELSE "live"]

revert_rename ==
    LET b == call.old_bstart
        i == call.bindex
        o == Refreshed(call.o, Old, b)
        n == Refreshed(call.n, New, b)
        oldThere == o.hid[i] # "null" /\ (i \in call.moved \ {b} \/ fs[i].node[Old] # None)
        newThere == n.hid[i] # "null" /\ i \notin call.moved \ {b} /\ fs[i].node[New] # None
    IN  /\ At("revert")
        /\ \/ (~call.positive \/ i = -1) /\ Bug
           \/ i = -1 /\ call.positive /\ Returns("error") /\ UNCHANGED fs
           \/ /\ call.positive /\ i # -1 /\ (oldThere \/ ~newThere)
              /\ Returns("error") /\ UNCHANGED fs
           \/ /\ call.positive /\ i # -1 /\ ~oldThere /\ newThere
              /\ Goto("rename", [call EXCEPT !.o = o, !.n = n, !.stage = "back"])
              /\ UNCHANGED fs

-----------------------------------------------------------------------------
(***************************************************************************)
(* unionfs_link: remove the new name's whiteout, then link in the branch   *)
(* of the old name, or where copyup has put it.                            *)
(***************************************************************************)
unionfs_link(p) ==
    LET t == Twin[p]
        o == Lookup(fs, RootDentry, p)
        n == Lookup(fs, RootDentry, t)
    IN  /\ At("idle")
        /\ ~IsNegative(fs, o, p) /\ Object(fs, o, p) # Dir /\ IsNegative(fs, n, t)
        /\ pc' = "link"
        /\ call' = [op |-> "link", old |-> p, dir |-> FALSE, o |-> o, n |-> n,
                    positive |-> FALSE, old_bstart |-> o.bstart, old_bend |-> o.bend,
                    new_bstart |-> n.bstart, bindex |-> o.bstart, do_copyup |-> -1,
                    bwh_old |-> o.bstart, wh_old |-> "null", stage |-> "first",
                    revert |-> FALSE, moved |-> {}, err |-> "none"]
        /\ before' = View(fs)
        /\ UNCHANGED <<fs, oops, last>>

\* Mutant of LinkWhiteout: the whiteout is left alone.
LinkWhiteoutStays == FALSE

LinkWhiteout == call.stage = "first" /\ New \in fs[call.n.bstart].wh

link_unlink ==
    LET b == call.n.bstart
    IN  /\ At("link") /\ LinkWhiteout
        /\ \/ /\ ~IsRobranch(b) /\ fs' = DelWhiteout(fs, b, New)
              /\ Goto("link", call)
           \/ /\ "unlink" \in Faults \/ IsRobranch(b)
              /\ Returns("error") /\ UNCHANGED fs

vfs_link ==
    LET b == IF call.stage = "second" THEN call.bindex ELSE call.old_bstart
    IN  /\ At("link") /\ ~LinkWhiteout
        /\ \/ /\ IsRobranch(b) /\ UNCHANGED fs
              /\ Goto("copyup", [call EXCEPT !.bindex = b - 1])
           \/ /\ ~IsRobranch(b) /\ fs[b].node[New] = None
              /\ fs' = SetNode(fs, b, New, fs[b].node[Old]) /\ Returns("none")
           \/ /\ ~IsRobranch(b)
              /\ "link" \in Faults \/ fs[b].node[New] # None
              /\ Returns("error") /\ UNCHANGED fs

-----------------------------------------------------------------------------
\* The machine stops in the middle of a call, and the union is mounted again
\* from the branches as they are.
Crash ==
    /\ pc # "idle" /\ ~oops
    /\ Ends(call.op, Old, IF pc = "copydata" THEN "torn" ELSE "crash")
    /\ UNCHANGED fs

Start ==
    /\ pc = "idle" /\ call = NoCall /\ before = NoView
    /\ oops = FALSE
    /\ last = [op |-> "mount", path |-> "root", end |-> "ok"]

Init == fs \in [Branches -> SoundBranches] /\ Start

Next ==
    \/ \E p \in Names : unionfs_rename(p) \/ unionfs_link(p)
    \/ delete_whiteouts \/ do_rename_unlink \/ do_rename \/ unlink_left
    \/ copyup_create \/ copyup_data \/ make_opaque \/ whiteout_source
    \/ revert_rename \/ link_unlink \/ vfs_link
    \/ Crash

Spec == Init /\ [][Next]_vars

-----------------------------------------------------------------------------
(***************************************************************************)
(* Properties                                                              *)
(***************************************************************************)

\* To its users a rename or a link happens at once: the step in which it
\* returns success changes the name space as asked, one that ends in an error
\* changes nothing, and after a crash between any two writes what was to be
\* moved is still found, whole, under one of its names (AtomicRename).
AR == INSTANCE AtomicRename WITH
        Within <- [p \in Paths |-> Below(p)],
        view  <- IF pc = "idle" THEN View(fs) ELSE before

RenameIsAtomic == AR!ARSpec

\* The BUG_ONs of unionfs_rename_whiteout hold, and no error path follows a
\* pointer that is not there.
NoBug == ~oops

\* At no moment, so after no crash either, does a branch hold a name beside its
\* whiteout, or an entry without its directory.
BranchesSound == fs \in [Branches -> SoundBranches]

\* Whatever fails, and wherever the machine stops, some branch still holds what
\* the call was given under the old name or the new one: it can be repaired.
SourceKept ==
    [][call # NoCall =>
        \E b \in Branches, q \in {Old, New} : fs'[b].node[q] = before[Old]]_vars

\* A branch that is not writable is never changed: neither by the call itself,
\* nor while it takes something back, nor with the disk failing at any step.
ReadOnlyUntouched ==
    [][\A b \in Branches : IsRobranch(b) => fs'[b] = fs[b]]_vars

\* A destination that existed is there throughout (rename(2)).
DestinationStays ==
    pc # "idle" /\ call.op = "rename" /\ before[New] # None => View(fs)[New] # None
=============================================================================
