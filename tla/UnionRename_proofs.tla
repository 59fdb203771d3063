------------------------- MODULE UnionRename_proofs -------------------------
(***************************************************************************)
(* Proofs about UnionRename, for every union, every kind of failure and a  *)
(* machine that may stop anywhere, unless something else is said.          *)
(*                                                                         *)
(* 1. No rename and no link ever changes a branch that is not writable,    *)
(*    and no local of theirs leaves its range.                             *)
(* 2. Where a union has one writable branch over branches that hold no     *)
(*    whiteouts, as the live CD mounts it, no rename and no link leaves    *)
(*    the writable branch with a name beside its whiteout or an entry      *)
(*    without its directory, and no BUG_ON is hit (RenameSound and         *)
(*    RenameNoBug), for every number of branches, every tree of paths and  *)
(*    every contents.                                                      *)
(* 3. The object that a call was given stays in some branch                *)
(*    (RenameKeepsSource).                                                 *)
(* 4. In the union of 2, and if no lower call fails, rename and link       *)
(*    implement AtomicRename: they happen at once for those who look at    *)
(*    the union, a machine that stops in between included                  *)
(*    (RenameRefinesAtomic).                                               *)
(***************************************************************************)
EXTENDS UnionRename, UnionDentry_proofs

\* What ReadOnlyUntouched says of a step.
Kept == \A b \in Branches : IsRobranch(b) => fs'[b] = fs[b]

\* What is known of a call's locals: the whiteout that do_rename has looked up
\* is one in a branch that it was allowed to change.
Locals(c) ==
    /\ {"bindex", "stage", "old_bstart", "bwh_old", "wh_old"} \subseteq DOMAIN c
    /\ c.wh_old = "whiteout" => ~IsRobranch(c.bwh_old)

\* bwh_old follows the branch that do_rename works on.
Follows(c) ==
    c.stage # "back" =>
        c.bwh_old = IF c.stage = "second" THEN c.bindex ELSE c.old_bstart

\* Three steps write to a branch without asking whether they may: what an
\* earlier step of the call has found out must still hold for the branch that
\* the call's locals name by then.
CallInv ==
    /\ pc # "idle" => Locals(call)
    /\ pc \in {"clean", "rename"} => Follows(call)
    /\ pc = "clean" => ~IsRobranch(call.n.bstart)
    /\ pc = "copydata" => ~IsRobranch(call.bindex)

RInv == DOMAIN fs = Branches /\ CallInv

-----------------------------------------------------------------------------
(* How a step writes, and how it goes on.                                  *)

\* A write to one branch leaves the others alone.
LEMMA WriteKeeps ==
    ASSUME DOMAIN fs = Branches, NEW b, ~IsRobranch(b), NEW e,
           fs' = [fs EXCEPT ![b] = e]
    PROVE  DOMAIN fs' = Branches /\ Kept
<1>1. DOMAIN fs' = Branches
  OBVIOUS
<1>2. ASSUME NEW c \in Branches, IsRobranch(c)
      PROVE  fs'[c] = fs[c]
  <2>1. c # b
    BY <1>2
  <2> QED BY <2>1
<1> QED BY <1>1, <1>2 DEF Kept

LEMMA UnchangedKeeps ==
    ASSUME DOMAIN fs = Branches, UNCHANGED fs
    PROVE  DOMAIN fs' = Branches /\ Kept
BY DEF Kept

\* The lower file system's operations write to one branch each.
LEMMA SetNodeKeeps ==
    ASSUME DOMAIN fs = Branches, NEW b, ~IsRobranch(b), NEW p, NEW n,
           fs' = SetNode(fs, b, p, n)
    PROVE  DOMAIN fs' = Branches /\ Kept
BY WriteKeeps DEF SetNode

LEMMA MarksKeep ==
    ASSUME DOMAIN fs = Branches, NEW b, ~IsRobranch(b), NEW p,
           \/ fs' = AddWhiteout(fs, b, p)
           \/ fs' = DelWhiteout(fs, b, p)
           \/ fs' = AddOpaque(fs, b, p)
    PROVE  DOMAIN fs' = Branches /\ Kept
BY WriteKeeps DEF AddWhiteout, DelWhiteout, AddOpaque

\* The steps that need no fact about the locals but that they are there.
LEMMA GotoKeeps ==
    ASSUME NEW step, step \notin {"clean", "copydata", "rename"}, NEW c,
           Locals(c), Goto(step, c)
    PROVE  CallInv'
<1>1. pc' = step /\ call' = c
  BY DEF Goto
<1> QED BY <1>1 DEF CallInv, Locals, IsRobranch

LEMMA GotoRenameKeeps ==
    ASSUME NEW c, Locals(c), Follows(c), Goto("rename", c)
    PROVE  CallInv'
<1>1. pc' = "rename" /\ call' = c
  BY DEF Goto
<1> QED BY <1>1 DEF CallInv, Locals, Follows, IsRobranch

LEMMA EndsKeep ==
    ASSUME NEW op, NEW p, NEW end, Ends(op, p, end)
    PROVE  CallInv'
BY DEF Ends, CallInv

LEMMA ReturnsKeep ==
    ASSUME NEW err, Returns(err)
    PROVE  CallInv'
BY EndsKeep DEF Returns

LEMMA BugKeeps ==
    ASSUME RInv, Bug
    PROVE  RInv' /\ Kept
BY DEF RInv, CallInv, Bug, Kept, IsRobranch

LEMMA DoRenameReturnsKeeps ==
    ASSUME NEW c, Locals(c), NEW err, DoRenameReturns(c, err)
    PROVE  CallInv'
<1>1. /\ \A i : Locals([c EXCEPT !.do_copyup = i])
      /\ Locals([c EXCEPT !.revert = TRUE]) /\ Locals([c EXCEPT !.err = err])
  BY DEF Locals
<1>2. CASE Returns("error")
  BY <1>2, ReturnsKeep
<1>3. CASE Goto("unlink", [c EXCEPT !.do_copyup = c.old_bstart - 1])
  BY <1>1, <1>3, GotoKeeps
<1>4. CASE Goto("unlink", [c EXCEPT !.revert = TRUE])
  BY <1>1, <1>4, GotoKeeps
<1>5. CASE Goto("opaque", [c EXCEPT !.err = err])
  BY <1>1, <1>5, GotoKeeps
<1> QED BY <1>2, <1>3, <1>4, <1>5 DEF DoRenameReturns

LEMMA AimedThere ==
    ASSUME Locals(call)
    PROVE  Locals(Aimed) /\ (Follows(call) => Follows(Aimed))
BY DEF Aimed, Locals, Follows

-----------------------------------------------------------------------------
(* The actions.                                                            *)

LEMMA RenameBegins ==
    ASSUME RInv, NEW p, unionfs_rename(p)
    PROVE  RInv' /\ Kept
<1>1. DOMAIN fs' = Branches /\ Kept
  BY UnchangedKeeps DEF RInv, unionfs_rename
<1>2. CallInv'
  <2>1. CASE Ends("rename", p, "error")
    BY <2>1, EndsKeep
  <2>2. CASE ~Ends("rename", p, "error")
    <3>1. /\ Locals(call') /\ Follows(call')
          /\ pc' = "clean" => ~IsRobranch(call'.n.bstart)
          /\ pc' \in {"clean", "rename"}
      BY <2>2 DEF unionfs_rename, Locals, Follows
    <3> QED BY <3>1 DEF CallInv, IsRobranch
  <2> QED BY <2>1, <2>2
<1> QED BY <1>1, <1>2 DEF RInv

LEMMA CleanKeeps ==
    ASSUME RInv, delete_whiteouts
    PROVE  RInv' /\ Kept
<1> DEFINE b == call.n.bstart
           W == Whiteouts(b, New)
<1> USE DEF RInv
<1>1. /\ pc = "clean" /\ ~IsRobranch(b)
      /\ Locals(call) /\ Follows(call)
  BY DEF delete_whiteouts, At, CallInv
<1>2. CASE Goto("rename", call) /\ UNCHANGED fs
  BY <1>1, <1>2, GotoRenameKeeps, UnchangedKeeps
<1>3. CASE \E q \in W :
                /\ fs' = [fs EXCEPT ![b].wh = @ \ {q},
                                    ![b].opq = IF q = New THEN @ \ {q} ELSE @]
                /\ Goto("clean", call)
  <2>1. PICK q \in W :
                /\ fs' = [fs EXCEPT ![b].wh = @ \ {q},
                                    ![b].opq = IF q = New THEN @ \ {q} ELSE @]
                /\ Goto("clean", call)
    BY <1>3
  <2>2. DOMAIN fs' = Branches /\ Kept
    BY <2>1, <1>1 DEF Kept
  <2>3. CallInv'
    BY <2>1, <1>1 DEF Goto, CallInv, IsRobranch
  <2> QED BY <2>2, <2>3
<1>4. CASE Returns("error") /\ UNCHANGED fs
  BY <1>4, ReturnsKeep, UnchangedKeeps
<1> QED BY <1>2, <1>3, <1>4 DEF delete_whiteouts

LEMMA RenameUnlinkKeeps ==
    ASSUME RInv, do_rename_unlink
    PROVE  RInv' /\ Kept
<1> USE DEF RInv
<1>1. Locals(call) /\ Locals(Aimed) /\ Follows(Aimed)
  BY AimedThere DEF do_rename_unlink, At, CallInv
<1>2. CASE \E err : DoRenameReturns(Aimed, err) /\ UNCHANGED fs
  BY <1>1, <1>2, DoRenameReturnsKeeps, UnchangedKeeps
<1>3. CASE ~ReadOnly /\ fs' = DelWhiteout(fs, Branch, To) /\ Goto("rename", Aimed)
  BY <1>1, <1>3, MarksKeep, GotoRenameKeeps DEF ReadOnly
<1> QED BY <1>2, <1>3 DEF do_rename_unlink

LEMMA RenameKeeps ==
    ASSUME RInv, do_rename
    PROVE  RInv' /\ Kept
<1> USE DEF RInv
<1> DEFINE c == [Aimed EXCEPT !.wh_old = IF call.stage = "back" THEN @ ELSE "whiteout"]
           there == [c EXCEPT !.moved = IF call.stage = "back" THEN @ \ {Branch}
                                        ELSE @ \cup {Branch}]
<1>1. Locals(call) /\ Follows(call) /\ Locals(Aimed) /\ Follows(Aimed)
  BY AimedThere DEF do_rename, At, CallInv
<1>2. ASSUME ~ReadOnly PROVE Locals(c) /\ Locals(there)
  <2>1. /\ Aimed.bwh_old = call.bwh_old /\ Aimed.stage = call.stage
        /\ DOMAIN Aimed = DOMAIN call /\ Aimed.wh_old = call.wh_old
    BY <1>1 DEF Aimed, Locals
  <2>2. call.stage # "back" => ~IsRobranch(call.bwh_old)
    BY <1>1, <1>2 DEF Follows, ReadOnly, Branch
  <2>3. Locals(c)
    BY <1>1, <2>1, <2>2 DEF Locals, IsRobranch
  <2>4. Locals(there)
    BY <2>3 DEF Locals, IsRobranch
  <2> QED BY <2>3, <2>4
<1> HIDE DEF c, there
<1>3. CASE DoRenameReturns(call, "EROFS") /\ UNCHANGED fs
  BY <1>1, <1>3, DoRenameReturnsKeeps, UnchangedKeeps
<1>4. CASE /\ ~ReadOnly
           /\ fs' = [fs EXCEPT ![Branch] = Renamed(@, From, To)]
           /\ DoRenameReturns(there, "none")
  BY <1>2, <1>4, DoRenameReturnsKeeps, WriteKeeps DEF ReadOnly
<1>5. CASE ~ReadOnly /\ DoRenameReturns(c, "error") /\ UNCHANGED fs
  BY <1>2, <1>5, DoRenameReturnsKeeps, UnchangedKeeps
<1> QED BY <1>3, <1>4, <1>5 DEF do_rename, c, there

LEMMA UnlinkLeftKeeps ==
    ASSUME RInv, unlink_left
    PROVE  RInv' /\ Kept
<1> USE DEF RInv
<1> DEFINE i      == Rightmost(Left)
           passed == [call EXCEPT !.bindex = i - 1]
           begin  == [call EXCEPT !.bindex = call.do_copyup]
           over   == [call EXCEPT !.bindex = LoopEnd]
           here   == [call EXCEPT !.bindex = i]
           later  == [passed EXCEPT !.do_copyup = i - 1]
           erased == [passed EXCEPT !.n.hid[i] = "null"]
<1>1. /\ Locals(passed) /\ Locals(begin)
      /\ Locals(over) /\ Locals(here)
      /\ Locals(later) /\ Locals(erased)
  BY DEF unlink_left, At, CallInv, Locals
<1> HIDE DEF i, passed, begin, over, here, later, erased
<1>2. \/ UNCHANGED fs
      \/ ~IsRobranch(i) /\ fs' = SetNode(fs, i, New, None)
  BY DEF unlink_left, i
<1>3. DOMAIN fs' = Branches /\ Kept
  BY <1>2, UnchangedKeeps, SetNodeKeeps
<1>4. \/ Goto("opaque", over) \/ Goto("copyup", begin) \/ Goto("unlink", later)
      \/ Goto("unlink", passed) \/ Goto("unlink", erased) \/ Goto("revert", here)
  BY DEF unlink_left, i, passed, begin, over, here, later, erased
<1>5. CallInv'
  BY <1>1, <1>4, GotoKeeps
<1> QED BY <1>3, <1>5

LEMMA CopyupDoneKeeps ==
    ASSUME NEW c, Locals(c), CopyupDone(c)
    PROVE  CallInv'
<1> DEFINE l == [c EXCEPT !.stage = "second"]
           r == [c EXCEPT !.stage = "second", !.bwh_old = c.bindex,
                          !.wh_old = IF @ = "null" THEN @ ELSE "put"]
<1>1. Locals(l) /\ Locals(r) /\ Follows(r)
  BY DEF Locals, Follows
<1> HIDE DEF l, r
<1>2. Goto("link", l) \/ Goto("rename", r)
  BY DEF CopyupDone, l, r
<1> QED BY <1>1, <1>2, GotoKeeps, GotoRenameKeeps

LEMMA CopyupFailsKeeps ==
    ASSUME Locals(call), CopyupFails
    PROVE  CallInv'
<1>1. Locals([call EXCEPT !.err = "error"])
  BY DEF Locals
<1> QED BY <1>1, ReturnsKeep, GotoKeeps DEF CopyupFails

LEMMA CopyupCreateKeeps ==
    ASSUME RInv, copyup_create
    PROVE  RInv' /\ Kept
<1> USE DEF RInv
<1> DEFINE i    == Rightmost(Tried)
           next == [call EXCEPT !.bindex = i - 1]
<1>1. Locals(call) /\ Locals(next)
  BY DEF copyup_create, At, CallInv, Locals
<1>2. Locals(CopiedTo(i)) /\ CopiedTo(i).bindex = i
  BY <1>1 DEF CopiedTo, Locals
<1>3. Tried # {} => ~IsRobranch(i)
  <2>1. Tried \in SUBSET Branches /\ Tried \subseteq Writable
    BY BranchAssumption DEF Tried
  <2> QED BY <2>1, RightmostIsGreatest DEF IsRobranch
<1> HIDE DEF i, next
<1>4. CASE CopyupFails /\ UNCHANGED fs
  BY <1>1, <1>4, CopyupFailsKeeps, UnchangedKeeps
<1>5. CASE /\ Tried # {}
           /\ \E n : fs' = SetNode(fs, i, Old, n)
           /\ CopyupDone(CopiedTo(i)) \/ Goto("copydata", CopiedTo(i))
  <2>1. DOMAIN fs' = Branches /\ Kept
    BY <1>3, <1>5, SetNodeKeeps
  <2>2. CASE CopyupDone(CopiedTo(i))
    BY <1>2, <2>1, <2>2, CopyupDoneKeeps
  <2>3. CASE Goto("copydata", CopiedTo(i))
    BY <1>2, <1>3, <1>5, <2>1, <2>3 DEF Goto, CallInv, IsRobranch
  <2> QED BY <1>5, <2>2, <2>3
<1>6. CASE Goto("copyup", next) /\ UNCHANGED fs
  BY <1>1, <1>6, GotoKeeps, UnchangedKeeps
<1> QED BY <1>4, <1>5, <1>6 DEF copyup_create, i, next

LEMMA CopyupDataKeeps ==
    ASSUME RInv, copyup_data
    PROVE  RInv' /\ Kept
<1> USE DEF RInv
<1> DEFINE i    == call.bindex
           next == [call EXCEPT !.bindex = i - 1]
<1>1. /\ Locals(call) /\ Locals(next)
      /\ ~IsRobranch(i)
  BY DEF copyup_data, At, CallInv, Locals
<1>2. \E n : fs' = SetNode(fs, i, Old, n)
  BY DEF copyup_data
<1>3. CopyupDone(call) \/ Goto("copyup", next)
  BY DEF copyup_data
<1> HIDE DEF i, next
<1>4. DOMAIN fs' = Branches /\ Kept
  BY <1>1, <1>2, SetNodeKeeps
<1> QED BY <1>1, <1>3, <1>4, CopyupDoneKeeps, GotoKeeps

LEMMA OpaqueKeeps ==
    ASSUME RInv, make_opaque
    PROVE  RInv' /\ Kept
<1> USE DEF RInv
<1> DEFINE b    == call.o.bstart
           done == [call EXCEPT !.err = "none"]
<1>1. Locals(call) /\ Locals(done)
  BY DEF make_opaque, At, CallInv, Locals
<1>2. \/ UNCHANGED fs
      \/ ~IsRobranch(b) /\ \E q : fs' = AddOpaque(fs, b, q)
  BY DEF make_opaque
<1>3. Goto("whiteout", call) \/ Goto("whiteout", done) \/ Goto("revert", call)
  BY DEF make_opaque
<1> HIDE DEF b, done
<1>4. DOMAIN fs' = Branches /\ Kept
  BY <1>2, UnchangedKeeps, MarksKeep
<1> QED BY <1>1, <1>3, <1>4, GotoKeeps

\* The branch of the whiteout is not asked about either: do_rename, which has
\* looked the whiteout up, has.
LEMMA WhiteoutKeeps ==
    ASSUME RInv, whiteout_source
    PROVE  RInv' /\ Kept
<1> USE DEF RInv
<1>1. Locals(call)
  BY DEF whiteout_source, At, CallInv
<1>2. CASE UNCHANGED fs /\ \E err : Returns(err)
  BY <1>2, ReturnsKeep, UnchangedKeeps
<1>3. CASE Bug
  BY <1>3, BugKeeps
<1>4. CASE /\ call.wh_old = "whiteout" /\ Returns(call.err)
           /\ fs' = AddWhiteout(fs, call.bwh_old, Old)
  BY <1>1, <1>4, ReturnsKeep, MarksKeep DEF Locals
<1> QED BY <1>2, <1>3, <1>4 DEF whiteout_source

LEMMA RevertKeeps ==
    ASSUME RInv, revert_rename
    PROVE  RInv' /\ Kept
<1> USE DEF RInv
<1> DEFINE back(o, n) == [call EXCEPT !.o = o, !.n = n, !.stage = "back"]
<1>1. \A o, n : Locals(back(o, n)) /\ Follows(back(o, n))
  BY DEF revert_rename, At, CallInv, Locals, Follows
<1> HIDE DEF back
<1>2. CASE Bug
  BY <1>2, BugKeeps
<1>3. CASE Returns("error") /\ UNCHANGED fs
  BY <1>3, ReturnsKeep, UnchangedKeeps
<1>4. CASE UNCHANGED fs /\ \E o, n : Goto("rename", back(o, n))
  BY <1>1, <1>4, GotoRenameKeeps, UnchangedKeeps
<1> QED BY <1>2, <1>3, <1>4 DEF revert_rename, back

LEMMA LinkBegins ==
    ASSUME RInv, NEW p, unionfs_link(p)
    PROVE  RInv' /\ Kept
<1>1. DOMAIN fs' = Branches /\ Kept
  BY UnchangedKeeps DEF RInv, unionfs_link
<1>2. Locals(call') /\ pc' = "link"
  BY DEF unionfs_link, Locals
<1> QED BY <1>1, <1>2 DEF RInv, CallInv

LEMMA LinkUnlinkKeeps ==
    ASSUME RInv, link_unlink
    PROVE  RInv' /\ Kept
<1> USE DEF RInv
<1>1. Locals(call)
  BY DEF link_unlink, At, CallInv
<1>2. CASE /\ ~IsRobranch(call.n.bstart)
           /\ fs' = DelWhiteout(fs, call.n.bstart, New) /\ Goto("link", call)
  BY <1>1, <1>2, MarksKeep, GotoKeeps
<1>3. CASE Returns("error") /\ UNCHANGED fs
  BY <1>3, ReturnsKeep, UnchangedKeeps
<1> QED BY <1>2, <1>3 DEF link_unlink

LEMMA LinkKeeps ==
    ASSUME RInv, vfs_link
    PROVE  RInv' /\ Kept
<1> USE DEF RInv
<1> DEFINE b == IF call.stage = "second" THEN call.bindex ELSE call.old_bstart
           next == [call EXCEPT !.bindex = b - 1]
<1>1. Locals(next)
  BY DEF vfs_link, At, CallInv, Locals
<1>2. CASE Goto("copyup", next) /\ UNCHANGED fs
  BY <1>1, <1>2, GotoKeeps, UnchangedKeeps
<1>3. CASE ~IsRobranch(b) /\ (\E n : fs' = SetNode(fs, b, New, n)) /\ Returns("none")
  <2> HIDE DEF b
  <2> QED BY <1>3, SetNodeKeeps, ReturnsKeep
<1>4. CASE Returns("error") /\ UNCHANGED fs
  BY <1>4, ReturnsKeep, UnchangedKeeps
<1> QED BY <1>2, <1>3, <1>4 DEF vfs_link

LEMMA CrashKeeps ==
    ASSUME RInv, Crash
    PROVE  RInv' /\ Kept
<1>1. CallInv'
  BY EndsKeep DEF Crash
<1> QED BY <1>1, UnchangedKeeps DEF RInv, Crash

-----------------------------------------------------------------------------
(* The specification.                                                      *)

LEMMA InitGood == Init => RInv
BY DEF Init, Start, RInv, CallInv

LEMMA StepKeeps ==
    ASSUME RInv, [Next]_vars
    PROVE  RInv' /\ Kept
<1>1. CASE UNCHANGED vars
  BY <1>1 DEF vars, RInv, CallInv, Kept, IsRobranch
<1>2. CASE Next
  BY <1>2, RenameBegins, CleanKeeps, RenameUnlinkKeeps, RenameKeeps,
     UnlinkLeftKeeps, CopyupCreateKeeps, CopyupDataKeeps, OpaqueKeeps,
     WhiteoutKeeps, RevertKeeps, LinkBegins, LinkUnlinkKeeps, LinkKeeps,
     CrashKeeps DEF Next
<1> QED BY <1>1, <1>2

\* A branch that is not writable is never changed by a rename or a link, nor by
\* what they do to take a failed one back.
THEOREM RenameReadOnlySafe == Spec => ReadOnlyUntouched
<1>1. Init => RInv
  BY InitGood
<1>2. RInv /\ [Next]_vars => RInv'
  BY StepKeeps
<1>3. RInv /\ [Next]_vars => [Kept]_vars
  BY StepKeeps
<1> QED BY <1>1, <1>2, <1>3, PTL DEF Spec, ReadOnlyUntouched, Kept

-----------------------------------------------------------------------------
(* Types.  A call's locals stay in the range that the code uses them in.   *)

\* Setting one local keeps the type of the locals.
LEMMA CallFields ==
    ASSUME NEW c \in Calls
    PROVE  /\ c.op \in {"rename", "link"} /\ c.old \in Names /\ c.o \in Dentries
           /\ c.n \in Dentries /\ c.old_bstart \in Branches /\ c.new_bstart \in Branches
           /\ c.bindex \in -1 .. NB - 1 /\ c.do_copyup \in -1 .. NB - 1
           /\ c.bwh_old \in Branches /\ c.wh_old \in {"null", "whiteout", "put"}
           /\ c.stage \in {"first", "second", "back"} /\ c.moved \in SUBSET Branches
           /\ c.err \in {"none", "error"}
           /\ {"bindex", "stage", "old_bstart", "bwh_old", "wh_old"} \subseteq DOMAIN c
BY DEF Calls

LEMMA SetLocal ==
    ASSUME NEW c \in Calls
    PROVE  /\ \A x \in -1 .. NB - 1 :
                /\ [c EXCEPT !.bindex = x] \in Calls
                /\ [c EXCEPT !.do_copyup = x] \in Calls
           /\ \A x \in Dentries : /\ [c EXCEPT !.o = x] \in Calls
                                  /\ [c EXCEPT !.n = x] \in Calls
           /\ \A x \in Branches : [c EXCEPT !.bwh_old = x] \in Calls
           /\ \A x \in {"null", "whiteout", "put"} : [c EXCEPT !.wh_old = x] \in Calls
           /\ \A x \in {"first", "second", "back"} : [c EXCEPT !.stage = x] \in Calls
           /\ \A x \in BOOLEAN : [c EXCEPT !.revert = x] \in Calls
           /\ \A x \in SUBSET Branches : [c EXCEPT !.moved = x] \in Calls
           /\ \A x \in {"none", "error"} : [c EXCEPT !.err = x] \in Calls
<1>1. \A x \in -1 .. NB - 1 : /\ [c EXCEPT !.bindex = x] \in Calls
                              /\ [c EXCEPT !.do_copyup = x] \in Calls
  BY DEF Calls
<1>2. \A x \in Dentries : /\ [c EXCEPT !.o = x] \in Calls
                          /\ [c EXCEPT !.n = x] \in Calls
  BY DEF Calls
<1>3. \A x \in Branches : [c EXCEPT !.bwh_old = x] \in Calls
  BY DEF Calls
<1>4. \A x \in {"null", "whiteout", "put"} : [c EXCEPT !.wh_old = x] \in Calls
  BY DEF Calls
<1>5. \A x \in {"first", "second", "back"} : [c EXCEPT !.stage = x] \in Calls
  BY DEF Calls
<1>6. \A x \in BOOLEAN : [c EXCEPT !.revert = x] \in Calls
  BY DEF Calls
<1>7. \A x \in SUBSET Branches : [c EXCEPT !.moved = x] \in Calls
  BY DEF Calls
<1>8. \A x \in {"none", "error"} : [c EXCEPT !.err = x] \in Calls
  BY DEF Calls
<1> QED BY <1>1, <1>2, <1>3, <1>4, <1>5, <1>6, <1>7, <1>8

\* A branch can be counted down from.
LEMMA BranchBefore ==
    ASSUME NEW b \in Branches
    PROVE  b \in -1 .. NB - 1 /\ b - 1 \in -1 .. NB - 1 /\ -1 \in -1 .. NB - 1
BY BranchAssumption DEF Branches

\* The twin of a name is one.
LEMMA NamesTwin ==
    ASSUME NEW p \in Names
    PROVE  p \in Paths /\ Twin[p] \in Names /\ Parent[p] = Root
BY TwinAssumption DEF Names

\* bindex is a writable branch where do_rename or vfs_link works on it and where
\* data is copied to it.
InRange ==
    /\ pc = "copydata" => call.bindex \in Writable
    /\ pc \in {"clean", "rename", "link"} /\ call.stage = "second" =>
            call.bindex \in Writable

TypeInv == TypeOK /\ InRange

\* In a call the locals are those of one.
LEMMA InCall ==
    ASSUME TypeInv, pc # "idle"
    PROVE  call \in Calls
BY DEF TypeInv, TypeOK

-----------------------------------------------------------------------------
(* Writes keep the type of the branches.                                   *)

LEMMA WritesTyped ==
    ASSUME fs \in Unions, NEW b \in Branches, NEW p \in Paths
    PROVE  /\ \A n \in Nodes : SetNode(fs, b, p, n) \in Unions
           /\ AddWhiteout(fs, b, p) \in Unions
           /\ DelWhiteout(fs, b, p) \in Unions
           /\ AddOpaque(fs, b, p) \in Unions
<1>1. \A n \in Nodes : SetNode(fs, b, p, n) \in Unions
  BY DEF SetNode, Unions, BranchStates
<1>2. AddWhiteout(fs, b, p) \in Unions
  BY DEF AddWhiteout, Unions, BranchStates
<1>3. DelWhiteout(fs, b, p) \in Unions
  BY DEF DelWhiteout, Unions, BranchStates
<1>4. AddOpaque(fs, b, p) \in Unions
  BY DEF AddOpaque, Unions, BranchStates
<1> QED BY <1>1, <1>2, <1>3, <1>4

LEMMA RenamedTyped ==
    ASSUME NEW br \in BranchStates, NEW s, NEW t \in Paths
    PROVE  Renamed(br, s, t) \in BranchStates
<1> DEFINE node == [q \in Paths |-> IF q \in Subtree(s) THEN None
                                    ELSE IF q \in Subtree(t) THEN br.node[Twin[q]]
                                    ELSE br.node[q]]
           wh == (br.wh \ (Below(s) \cup Below(t)))
                    \cup {q \in Below(t) : Twin[q] \in br.wh}
           opq == (br.opq \ (Subtree(s) \cup Subtree(t)))
                    \cup {q \in Subtree(t) : Twin[q] \in br.opq}
<1>1. node \in [Paths -> Nodes]
  BY TwinAssumption DEF BranchStates, Nodes
<1>2. wh \in SUBSET Paths
  BY DEF BranchStates, Below
<1>3. opq \in SUBSET Paths
  BY DEF BranchStates, Subtree, Below
<1> HIDE DEF node, wh, opq
<1>4. Renamed(br, s, t) = [node |-> node, wh |-> wh, opq |-> opq]
  BY DEF Renamed, node, wh, opq
<1> QED BY <1>1, <1>2, <1>3, <1>4 DEF BranchStates

-----------------------------------------------------------------------------
(* How a step goes on, and that it keeps the types.                        *)

LEMMA GotoTyped ==
    ASSUME TypeInv, NEW step \in Steps \ {"idle"}, NEW c \in Calls, Goto(step, c),
           fs' \in Unions, step = "copydata" => c.bindex \in Writable,
           step \in {"clean", "rename", "link"} /\ c.stage = "second" => c.bindex \in Writable
    PROVE  TypeInv'
<1>1. c # NoCall
  BY DEF Calls, NoCall
<1>2. pc' = step /\ call' = c /\ UNCHANGED <<before, oops, last>>
  BY DEF Goto
<1>3. TypeOK'
  BY <1>1, <1>2 DEF TypeInv, TypeOK
<1>4. InRange'
  BY <1>2 DEF InRange, Branches
<1> QED BY <1>3, <1>4 DEF TypeInv

LEMMA EndsTyped ==
    ASSUME TypeInv, NEW op \in {"rename", "link"}, NEW p \in Names,
           NEW end \in {"ok", "error", "crash", "torn"}, Ends(op, p, end), fs' \in Unions
    PROVE  TypeInv'
<1>1. /\ pc' = "idle" /\ call' = NoCall /\ before' = NoView /\ oops' = oops
      /\ last' = [op |-> op, path |-> p, end |-> end]
  BY DEF Ends
<1>2. NoView \in [Paths -> Nodes]
  BY DEF NoView, Nodes
<1>3. TypeOK'
  BY <1>1, <1>2 DEF TypeInv, TypeOK, Steps
<1>4. InRange'
  BY <1>1 DEF InRange
<1> QED BY <1>3, <1>4 DEF TypeInv

LEMMA ReturnsTyped ==
    ASSUME TypeInv, pc # "idle", NEW err, Returns(err), fs' \in Unions
    PROVE  TypeInv'
<1>1. call.op \in {"rename", "link"} /\ Old \in Names
  BY InCall, CallFields DEF Old
<1> QED BY <1>1, EndsTyped DEF Returns

LEMMA BugTyped ==
    ASSUME TypeInv, Bug
    PROVE  TypeInv'
BY DEF TypeInv, TypeOK, InRange, Bug, Branches

\* do_rename returns EROFS only on the first call, so that err is none or error.
LEMMA DoRenameReturnsTyped ==
    ASSUME TypeInv, pc # "idle", NEW c \in Calls, fs' \in Unions,
           NEW err \in {"none", "error", "EROFS"}, c.stage = "second" => err # "EROFS",
           DoRenameReturns(c, err)
    PROVE  TypeInv'
<1> DEFINE left   == [c EXCEPT !.do_copyup = c.old_bstart - 1]
           undo   == [c EXCEPT !.revert = TRUE]
           failed == [c EXCEPT !.err = err]
<1>1. left \in Calls /\ undo \in Calls
  BY CallFields, SetLocal, BranchBefore
<1>2. c.stage = "second" => failed \in Calls
  BY SetLocal
<1>3. {"unlink", "opaque"} \subseteq Steps \ {"idle"}
  BY DEF Steps
<1>4. \/ Returns("error") \/ Goto("unlink", left) \/ Goto("unlink", undo)
      \/ c.stage = "second" /\ Goto("opaque", failed)
  BY DEF DoRenameReturns
<1> HIDE DEF left, undo, failed
<1>5. CASE Returns("error")
  BY <1>5, ReturnsTyped
<1>6. CASE Goto("unlink", left) \/ Goto("unlink", undo)
  BY <1>1, <1>3, <1>6, GotoTyped
<1>7. CASE c.stage = "second" /\ Goto("opaque", failed)
  BY <1>2, <1>3, <1>7, GotoTyped
<1> QED BY <1>4, <1>5, <1>6, <1>7

-----------------------------------------------------------------------------
(* Dentries that a call begins and goes on with.                           *)

LEMMA DentryFields ==
    ASSUME NEW d \in Dentries
    PROVE  /\ d = [bstart |-> d.bstart, bend |-> d.bend,
                   bopaque |-> d.bopaque, hid |-> d.hid]
           /\ d.bstart \in Branches /\ d.bend \in Branches
           /\ d.bopaque \in -1 .. NB - 1 /\ d.hid \in [Branches -> Pointers]
           /\ \A x \in Pointers : \A b : [d EXCEPT !.hid[b] = x] \in Dentries
<1>1. ASSUME NEW x \in Pointers, NEW b PROVE [d EXCEPT !.hid[b] = x] \in Dentries
  BY DEF Dentries
<1> QED BY <1>1 DEF Dentries

LEMMA Restarted ==
    ASSUME NEW d \in Dentries, NEW s \in Branches, NEW h \in [Branches -> Pointers],
           h[s] # "null", NEW r, r = [d EXCEPT !.bstart = s, !.hid = h]
    PROVE  r \in GoodDentries
<1>1. r \in Dentries
  BY DEF Dentries
<1>2. r.bstart = s /\ r.hid = h
  BY DEF Dentries
<1> QED BY <1>1, <1>2 DEF GoodDentries

LEMMA CompletedGood ==
    ASSUME NEW d \in GoodDentries, NEW p \in Paths
    PROVE  Completed(d, p) \in GoodDentries
<1> DEFINE e   == PartialLookup(fs, RootDentry, d, p)
           pos == {b \in Branches : e.hid[b] = "live" /\ fs[b].node[p] # None}
           h   == [b \in Branches |-> IF b < Leftmost(pos) THEN "null" ELSE e.hid[b]]
<1>1. e \in GoodDentries
  BY PartialLookupGood
<1>2. CASE pos = {}
  BY <1>1, <1>2 DEF Completed
<1>3. CASE pos # {}
  <2>1. Completed(d, p) = [e EXCEPT !.bstart = Leftmost(pos), !.hid = h]
    BY <1>3 DEF Completed
  <2>2. pos \in SUBSET Branches /\ \A b \in pos : e.hid[b] = "live"
    OBVIOUS
  <2> HIDE DEF pos, e
  <2>3. Leftmost(pos) \in pos /\ Leftmost(pos) \in Branches
    BY <1>3, <2>2, LeftmostIsLeast
  <2>4. h \in [Branches -> Pointers] /\ h[Leftmost(pos)] # "null"
    BY <1>1, <2>2, <2>3, GoodFields, BranchAssumption DEF Pointers, Branches
  <2>5. e \in Dentries
    BY <1>1 DEF GoodDentries
  <2> HIDE DEF h
  <2> QED BY <2>1, <2>3, <2>4, <2>5, Restarted
<1> QED BY <1>2, <1>3

LEMMA PointedTyped ==
    ASSUME NEW d \in Dentries, NEW p \in Paths, NEW b \in Branches
    PROVE  Pointed(fs, d, p, b) \in Dentries
<1>1. Pointed(fs, [bstart |-> d.bstart, bend |-> d.bend, bopaque |-> d.bopaque,
                   hid |-> d.hid], p, b) \in GoodDentries
  BY DentryFields, PointedGood
<1> QED BY <1>1, DentryFields DEF GoodDentries

\* do_rename works in a branch, on a dentry that may have to be aimed there.
LEMMA AimedTyped ==
    ASSUME TypeInv, pc = "rename"
    PROVE  /\ Branch \in Branches /\ From \in Names /\ To \in Names
           /\ Aimed \in Calls /\ Aimed.stage = call.stage /\ Aimed.bindex = call.bindex
           /\ Aimed.old_bstart = call.old_bstart /\ Aimed.moved = call.moved
           /\ call.stage = "second" => ~ReadOnly
<1>1. call \in Calls
  BY InCall
<1>2. Branch \in Branches /\ (call.stage = "second" => ~ReadOnly)
  BY <1>1, CallFields, BranchAssumption DEF Branch, ReadOnly, IsRobranch, TypeInv, InRange
<1>3. From \in Names /\ To \in Names
  BY <1>1, CallFields, NamesTwin DEF From, To, Old, New
<1>4. Pointed(fs, Target, To, Branch) \in Dentries
  BY <1>1, <1>2, <1>3, CallFields, NamesTwin, PointedTyped DEF Target
<1> DEFINE d == Pointed(fs, Target, To, Branch)
<1> HIDE DEF d
<1>5. /\ [call EXCEPT !.o = d] \in Calls /\ [call EXCEPT !.n = d] \in Calls
  BY <1>1, <1>4, SetLocal DEF d
<1>6. Aimed \in {call, [call EXCEPT !.o = d], [call EXCEPT !.n = d]}
  BY DEF Aimed, d
<1>7. /\ Aimed.stage = call.stage /\ Aimed.bindex = call.bindex
      /\ Aimed.old_bstart = call.old_bstart /\ Aimed.moved = call.moved
  BY <1>1, <1>6 DEF Calls
<1> QED BY <1>1, <1>2, <1>3, <1>5, <1>6, <1>7

-----------------------------------------------------------------------------
(* Every action keeps the types.                                           *)

\* A call begins with dentries of two names just looked up.
LEMMA CallBegins ==
    ASSUME TypeInv, NEW p \in Names, NEW op \in {"rename", "link"}, NEW dir \in BOOLEAN,
           NEW o \in Dentries, NEW n \in Dentries, NEW positive \in BOOLEAN,
           NEW step \in {"clean", "rename", "link"}, pc' = step,
           call' = [op |-> op, old |-> p, dir |-> dir, o |-> o, n |-> n,
                    positive |-> positive, old_bstart |-> o.bstart,
                    old_bend |-> o.bend, new_bstart |-> n.bstart,
                    bindex |-> o.bstart, do_copyup |-> -1,
                    bwh_old |-> o.bstart, wh_old |-> "null",
                    stage |-> "first", revert |-> FALSE, moved |-> {}, err |-> "none"],
           before' = View(fs), UNCHANGED <<fs, oops, last>>
    PROVE  TypeInv'
<1>1. /\ o.bstart \in Branches /\ o.bend \in Branches /\ n.bstart \in Branches
      /\ o.bstart \in -1 .. NB - 1 /\ -1 \in -1 .. NB - 1
  BY DentryFields, BranchBefore
<1>2. call' \in Calls /\ call'.stage = "first" /\ call' # NoCall
  BY <1>1 DEF Calls, NoCall
<1>3. before' \in [Paths -> Nodes]
  BY ViewType DEF TypeInv, TypeOK
<1>4. step \in Steps /\ step # "idle" /\ step # "copydata"
  BY DEF Steps
<1>5. TypeOK'
  BY <1>2, <1>3, <1>4 DEF TypeInv, TypeOK
<1>6. InRange'
  BY <1>2, <1>4 DEF InRange
<1> QED BY <1>5, <1>6 DEF TypeInv

LEMMA RenameBeginsTyped ==
    ASSUME TypeInv, NEW p \in Names, unionfs_rename(p)
    PROVE  TypeInv'
<1> DEFINE t   == Twin[p]
           o0  == Lookup(fs, RootDentry, p)
           n0  == Lookup(fs, RootDentry, t)
           dir == Object(fs, o0, p) = Dir
           o   == Completed(o0, p)
           n   == Completed(n0, t)
           positive == ~IsNegative(fs, n, t)
<1>1. p \in Paths /\ t \in Paths /\ Parent[p] = Root /\ Parent[t] = Root
  BY NamesTwin
<1>2. o \in Dentries /\ n \in Dentries
  BY <1>1, RootSearched, CompletedGood DEF GoodDentries
<1>3. dir \in BOOLEAN /\ positive \in BOOLEAN
  BY DEF IsNegative
<1> HIDE DEF o, n, o0, n0, dir, positive
<1>4. \/ Ends("rename", p, "error") /\ UNCHANGED fs
      \/ \E step \in {"clean", "rename"} :
           /\ pc' = step
           /\ call' = [op |-> "rename", old |-> p, dir |-> dir, o |-> o, n |-> n,
                       positive |-> positive, old_bstart |-> o.bstart,
                       old_bend |-> o.bend, new_bstart |-> n.bstart,
                       bindex |-> o.bstart, do_copyup |-> -1,
                       bwh_old |-> o.bstart, wh_old |-> "null",
                       stage |-> "first", revert |-> FALSE, moved |-> {}, err |-> "none"]
           /\ before' = View(fs) /\ UNCHANGED <<fs, oops, last>>
  BY DEF unionfs_rename, o, n, o0, n0, dir, positive
<1>5. CASE Ends("rename", p, "error") /\ UNCHANGED fs
  BY <1>5, EndsTyped DEF TypeInv, TypeOK
<1>6. CASE ~Ends("rename", p, "error")
  BY <1>2, <1>3, <1>4, <1>6, CallBegins
<1> QED BY <1>5, <1>6, <1>4

LEMMA LinkBeginsTyped ==
    ASSUME TypeInv, NEW p \in Names, unionfs_link(p)
    PROVE  TypeInv'
<1> DEFINE t == Twin[p]
           o == Lookup(fs, RootDentry, p)
           n == Lookup(fs, RootDentry, t)
<1>1. p \in Paths /\ t \in Paths /\ Parent[p] = Root /\ Parent[t] = Root
  BY NamesTwin
<1>2. o \in Dentries /\ n \in Dentries
  BY <1>1, RootSearched DEF GoodDentries
<1> HIDE DEF o, n
<1>3. /\ pc' = "link"
      /\ call' = [op |-> "link", old |-> p, dir |-> FALSE, o |-> o, n |-> n,
                  positive |-> FALSE, old_bstart |-> o.bstart, old_bend |-> o.bend,
                  new_bstart |-> n.bstart, bindex |-> o.bstart, do_copyup |-> -1,
                  bwh_old |-> o.bstart, wh_old |-> "null", stage |-> "first",
                  revert |-> FALSE, moved |-> {}, err |-> "none"]
      /\ before' = View(fs) /\ UNCHANGED <<fs, oops, last>>
  BY DEF unionfs_link, o, n
<1> QED BY <1>2, <1>3, CallBegins

LEMMA CleanTyped ==
    ASSUME TypeInv, delete_whiteouts
    PROVE  TypeInv'
<1> DEFINE b == call.n.bstart
           W == Whiteouts(b, New)
           Erased(q) == [fs EXCEPT ![b].wh = @ \ {q},
                                   ![b].opq = IF q = New THEN @ \ {q} ELSE @]
<1>1. pc = "clean" /\ call \in Calls /\ fs \in Unions
  BY InCall DEF delete_whiteouts, At, TypeInv, TypeOK
<1>2. \A q : Erased(q) \in Unions
  <2> SUFFICES ASSUME NEW q PROVE Erased(q) \in Unions
    OBVIOUS
  <2> DEFINE e == [fs[b] EXCEPT !.wh = @ \ {q}, !.opq = IF q = New THEN @ \ {q} ELSE @]
  <2>1. b \in Branches => e \in BranchStates
    BY <1>1 DEF Unions, BranchStates
  <2>2. Erased(q) = [fs EXCEPT ![b] = e]
    BY <1>1 DEF Unions
  <2> HIDE DEF e, Erased, b
  <2> QED BY <1>1, <2>1, <2>2 DEF Unions
<1>3. call.stage = "second" => call.bindex \in Writable
  BY <1>1 DEF TypeInv, InRange
<1> HIDE DEF Erased, b
<1>4. \/ Goto("rename", call) /\ UNCHANGED fs
      \/ \E q \in W : fs' = Erased(q) /\ Goto("clean", call)
      \/ Returns("error") /\ UNCHANGED fs
  BY DEF delete_whiteouts, Erased, b
<1>5. fs' \in Unions
  BY <1>1, <1>2, <1>4
<1>6. "clean" \in Steps \ {"idle"} /\ "rename" \in Steps \ {"idle"}
  BY DEF Steps
<1>7. Goto("rename", call) \/ Goto("clean", call) \/ Returns("error")
  BY <1>4
<1>8. CASE Goto("rename", call)
  BY <1>1, <1>3, <1>5, <1>6, <1>8, GotoTyped
<1>9. CASE Goto("clean", call)
  BY <1>1, <1>3, <1>5, <1>6, <1>9, GotoTyped
<1>10. CASE Returns("error")
  BY <1>1, <1>5, <1>10, ReturnsTyped
<1> QED BY <1>7, <1>8, <1>9, <1>10

LEMMA RenameUnlinkTyped ==
    ASSUME TypeInv, do_rename_unlink
    PROVE  TypeInv'
<1>1. pc = "rename" /\ fs \in Unions
  BY DEF do_rename_unlink, At, TypeInv, TypeOK
<1>2. /\ Branch \in Branches /\ To \in Paths /\ Aimed \in Calls
      /\ Aimed.stage = call.stage /\ Aimed.bindex = call.bindex
      /\ call.stage = "second" => ~ReadOnly
  BY <1>1, AimedTyped, NamesTwin
<1>3. CASE DoRenameReturns(Aimed, "error") /\ UNCHANGED fs
  BY <1>1, <1>2, <1>3, DoRenameReturnsTyped
<1>4. CASE ReadOnly /\ DoRenameReturns(Aimed, "EROFS") /\ UNCHANGED fs
  BY <1>1, <1>2, <1>4, DoRenameReturnsTyped
<1>5. CASE fs' = DelWhiteout(fs, Branch, To) /\ Goto("rename", Aimed)
  <2>1. fs' \in Unions
    BY <1>1, <1>2, <1>5, WritesTyped
  <2>2. "rename" \in Steps \ {"idle"}
    BY DEF Steps
  <2>3. Aimed.stage = "second" => Aimed.bindex \in Writable
    BY <1>1, <1>2 DEF TypeInv, InRange
  <2> QED BY <1>2, <1>5, <2>1, <2>2, <2>3, GotoTyped
<1> QED BY <1>3, <1>4, <1>5 DEF do_rename_unlink

LEMMA DoRenameTyped ==
    ASSUME TypeInv, do_rename
    PROVE  TypeInv'
<1> DEFINE wh    == IF call.stage = "back" THEN Aimed.wh_old ELSE "whiteout"
           c     == [Aimed EXCEPT !.wh_old = IF call.stage = "back" THEN @ ELSE "whiteout"]
           moved == IF call.stage = "back" THEN c.moved \ {Branch} ELSE c.moved \cup {Branch}
           there == [c EXCEPT !.moved = IF call.stage = "back" THEN @ \ {Branch}
                                        ELSE @ \cup {Branch}]
<1>1. pc = "rename" /\ fs \in Unions /\ call \in Calls
  BY InCall DEF do_rename, At, TypeInv, TypeOK
<1>2. /\ Branch \in Branches /\ From \in Paths /\ To \in Paths /\ Aimed \in Calls
      /\ Aimed.stage = call.stage
      /\ call.stage = "second" => ~ReadOnly
  BY <1>1, AimedTyped, NamesTwin
<1>3. c \in Calls /\ c.stage = call.stage
  <2>1. wh \in {"null", "whiteout", "put"}
    BY <1>2, CallFields
  <2>2. c = [Aimed EXCEPT !.wh_old = wh]
    BY <1>2 DEF Calls
  <2> HIDE DEF wh, c
  <2>3. c \in Calls
    BY <1>2, <2>1, <2>2, SetLocal
  <2>4. c.stage = Aimed.stage
    BY <1>2, <2>2 DEF Calls
  <2> QED BY <1>2, <2>3, <2>4
<1> HIDE DEF c
<1>4. there \in Calls /\ there.stage = call.stage
  <2>1. moved \in SUBSET Branches
    BY <1>2, <1>3, CallFields
  <2>2. there = [c EXCEPT !.moved = moved]
    BY <1>3 DEF Calls
  <2> HIDE DEF moved, there
  <2>3. there \in Calls
    BY <1>3, <2>1, <2>2, SetLocal
  <2>4. there.stage = c.stage
    BY <1>3, <2>2 DEF Calls
  <2> QED BY <1>3, <2>3, <2>4
<1> HIDE DEF there
<1>5. CASE ReadOnly /\ DoRenameReturns(call, "EROFS") /\ UNCHANGED fs
  BY <1>1, <1>2, <1>5, DoRenameReturnsTyped
<1>6. CASE /\ fs' = [fs EXCEPT ![Branch] = Renamed(@, From, To)]
           /\ DoRenameReturns(there, "none")
  <2>1. fs' \in Unions
    BY <1>1, <1>2, <1>6, RenamedTyped DEF Unions
  <2> QED BY <1>1, <1>4, <1>6, <2>1, DoRenameReturnsTyped
<1>7. CASE DoRenameReturns(c, "error") /\ UNCHANGED fs
  BY <1>1, <1>3, <1>7, DoRenameReturnsTyped
<1> QED BY <1>5, <1>6, <1>7 DEF do_rename, c, there

LEMMA UnlinkLeftTyped ==
    ASSUME TypeInv, unlink_left
    PROVE  TypeInv'
<1> DEFINE i      == Rightmost(Left)
           passed == [call EXCEPT !.bindex = i - 1]
           begin  == [call EXCEPT !.bindex = call.do_copyup]
           over   == [call EXCEPT !.bindex = LoopEnd]
           here   == [call EXCEPT !.bindex = i]
           later  == [passed EXCEPT !.do_copyup = i - 1]
           erased == [passed EXCEPT !.n.hid[i] = "null"]
<1>1. pc = "unlink" /\ call \in Calls /\ fs \in Unions
  BY InCall DEF unlink_left, At, TypeInv, TypeOK
<1>2. /\ call.do_copyup \in -1 .. NB - 1
      /\ LoopEnd \in -1 .. NB - 1
  BY <1>1, CallFields, BranchBefore DEF LoopEnd
<1>3. Left # {} => i \in Branches
  BY RightmostIsGreatest DEF Left
<1>4. begin \in Calls /\ over \in Calls
  BY <1>1, <1>2, SetLocal
<1>5. ASSUME Left # {} PROVE passed \in Calls /\ here \in Calls
  <2>1. i \in -1 .. NB - 1 /\ i - 1 \in -1 .. NB - 1
    BY <1>3, <1>5, BranchBefore
  <2> QED BY <1>1, <2>1, SetLocal
<1>6. ASSUME Left # {} PROVE later \in Calls /\ erased \in Calls
  <2>1. i - 1 \in -1 .. NB - 1
    BY <1>3, <1>6, BranchBefore
  <2> HIDE DEF passed
  <2>2. passed.n \in Dentries
    BY <1>5, <1>6, CallFields
  <2>3. [passed.n EXCEPT !.hid[i] = "null"] \in Dentries
    BY <2>2, DentryFields DEF Pointers
  <2>4. erased = [passed EXCEPT !.n = [passed.n EXCEPT !.hid[i] = "null"]]
    OBVIOUS
  <2> HIDE DEF erased
  <2> QED BY <1>5, <1>6, <2>1, <2>3, <2>4, SetLocal
<1>7. New \in Paths /\ None \in Nodes
  BY <1>1, CallFields, NamesTwin DEF New, Old, Nodes
<1> HIDE DEF i, passed, begin, over, here, later, erased
<1>8. /\ \/ UNCHANGED fs
         \/ Left # {} /\ fs' = SetNode(fs, i, New, None)
      /\ \/ Goto("opaque", over) \/ Goto("copyup", begin)
         \/ /\ Left # {}
            /\ \/ Goto("unlink", later) \/ Goto("unlink", passed)
               \/ Goto("unlink", erased) \/ Goto("revert", here)
  BY DEF unlink_left, i, passed, begin, over, here, later, erased
<1>9. fs' \in Unions
  BY <1>1, <1>3, <1>7, <1>8, WritesTyped
<1>10. {"opaque", "copyup", "unlink", "revert"} \subseteq Steps \ {"idle"}
  BY DEF Steps
<1>11. \E step \in {"opaque", "copyup", "unlink", "revert"}, c \in Calls : Goto(step, c)
  BY <1>4, <1>5, <1>6, <1>8
<1> QED BY <1>9, <1>10, <1>11, GotoTyped

LEMMA CopyupDoneTyped ==
    ASSUME TypeInv, NEW c \in Calls, c.bindex \in Writable, CopyupDone(c), fs' \in Unions
    PROVE  TypeInv'
<1> DEFINE l  == [c EXCEPT !.stage = "second"]
           l2 == [l EXCEPT !.bwh_old = c.bindex]
           wh == IF c.wh_old = "null" THEN "null" ELSE "put"
           r  == [c EXCEPT !.stage = "second", !.bwh_old = c.bindex,
                           !.wh_old = IF @ = "null" THEN @ ELSE "put"]
<1>1. l \in Calls /\ l.bindex = c.bindex
  <2>1. l \in Calls
    BY SetLocal
  <2>2. l.bindex = c.bindex
    BY DEF Calls
  <2> QED BY <2>1, <2>2
<1>2. l2 \in Calls /\ l2.bindex = c.bindex
  <2> HIDE DEF l
  <2>1. c.bindex \in Branches
    BY BranchAssumption
  <2>2. l2 \in Calls
    BY <1>1, <2>1, SetLocal
  <2>3. l2.bindex = l.bindex
    BY <1>1 DEF Calls
  <2> QED BY <1>1, <2>2, <2>3
<1>3. r \in Calls /\ r.bindex = c.bindex
  <2>1. r = [l2 EXCEPT !.wh_old = wh]
    BY DEF Calls
  <2> HIDE DEF l2, r
  <2>2. [l2 EXCEPT !.wh_old = wh] \in Calls
    BY <1>2, SetLocal
  <2> QED BY <1>2, <2>1, <2>2 DEF Calls
<1>4. {"link", "rename"} \subseteq Steps \ {"idle"}
  BY DEF Steps
<1> HIDE DEF l, r
<1>5. Goto("link", l) \/ Goto("rename", r)
  BY DEF CopyupDone, l, r
<1> QED BY <1>1, <1>3, <1>4, <1>5, GotoTyped

LEMMA CopyupCreateTyped ==
    ASSUME TypeInv, copyup_create
    PROVE  TypeInv'
<1> DEFINE i    == Rightmost(Tried)
           next == [call EXCEPT !.bindex = i - 1]
           fail == [call EXCEPT !.err = "error"]
           n == fs[call.old_bstart].node[IF call.old_bstart \in call.moved
                                         THEN New ELSE Old]
           d == Pointed(fs, call.o, Old, i)
           l == [call EXCEPT !.o = d]
           copy == CopiedTo(i)
<1>1. pc = "copyup" /\ call \in Calls /\ fs \in Unions
  BY InCall DEF copyup_create, At, TypeInv, TypeOK
<1>2. Old \in Paths /\ New \in Paths /\ call.old_bstart \in Branches
  BY <1>1, CallFields, NamesTwin DEF New, Old
<1>3. n \in Nodes /\ Dir \in Nodes /\ Empty \in Nodes
  BY <1>1, <1>2, ValuesAssumption DEF Unions, BranchStates, Nodes
<1>4. fail \in Calls
  BY <1>1, SetLocal
<1>5. Tried # {} => i \in Writable /\ i \in Branches
  BY BranchAssumption, RightmostIsGreatest DEF Tried
<1>6. ASSUME Tried # {} PROVE next \in Calls
  BY <1>1, <1>5, <1>6, BranchBefore, SetLocal
<1>7. ASSUME Tried # {} PROVE copy \in Calls /\ copy.bindex = i
  <2>1. d \in Dentries
    BY <1>1, <1>2, <1>5, <1>7, CallFields, PointedTyped
  <2>2. l \in Calls
    <3> HIDE DEF d
    <3> QED BY <1>1, <2>1, SetLocal
  <2>3. copy = [l EXCEPT !.bindex = i]
    BY DEF CopiedTo
  <2> HIDE DEF l, copy
  <2>4. copy \in Calls
    BY <1>5, <1>7, <2>2, <2>3, BranchBefore, SetLocal
  <2>5. copy.bindex = i
    BY <2>2, <2>3 DEF Calls
  <2> QED BY <2>4, <2>5
<1> HIDE DEF i, next, fail, n, copy
<1>8. \/ CopyupFails /\ UNCHANGED fs
      \/ /\ Tried # {}
         /\ \E x \in Nodes : fs' = SetNode(fs, i, Old, x)
         /\ CopyupDone(copy) \/ Goto("copydata", copy)
      \/ Tried # {} /\ Goto("copyup", next) /\ UNCHANGED fs
  BY <1>3 DEF copyup_create, i, next, n, copy
<1>9. fs' \in Unions
  BY <1>1, <1>2, <1>5, <1>8, WritesTyped
<1>10. {"opaque", "copydata", "copyup"} \subseteq Steps \ {"idle"}
  BY DEF Steps
<1>11. CASE CopyupFails
  <2>1. Returns("error") \/ Goto("opaque", fail)
    BY <1>11 DEF CopyupFails, fail
  <2> QED BY <1>1, <1>4, <1>9, <1>10, <2>1, ReturnsTyped, GotoTyped
<1>12. CASE Tried # {} /\ CopyupDone(copy)
  BY <1>5, <1>7, <1>9, <1>12, CopyupDoneTyped
<1>13. CASE Tried # {} /\ Goto("copydata", copy)
  BY <1>5, <1>7, <1>9, <1>10, <1>13, GotoTyped
<1>14. CASE Tried # {} /\ Goto("copyup", next)
  BY <1>6, <1>9, <1>10, <1>14, GotoTyped
<1> QED BY <1>8, <1>11, <1>12, <1>13, <1>14

LEMMA CopyupDataTyped ==
    ASSUME TypeInv, copyup_data
    PROVE  TypeInv'
<1> DEFINE i    == call.bindex
           next == [call EXCEPT !.bindex = i - 1]
           n == fs[call.old_bstart].node[IF call.old_bstart \in call.moved
                                         THEN New ELSE Old]
<1>1. pc = "copydata" /\ call \in Calls /\ fs \in Unions
  BY InCall DEF copyup_data, At, TypeInv, TypeOK
<1>2. Old \in Paths /\ New \in Paths /\ call.old_bstart \in Branches
  BY <1>1, CallFields, NamesTwin DEF New, Old
<1>3. n \in Nodes /\ None \in Nodes
  BY <1>1, <1>2 DEF Unions, BranchStates, Nodes
<1>4. i \in Writable /\ i \in Branches
  BY <1>1, BranchAssumption DEF TypeInv, InRange
<1>5. next \in Calls
  BY <1>1, <1>4, BranchBefore, SetLocal
<1> HIDE DEF i, next, n
<1>6. /\ \E x \in Nodes : fs' = SetNode(fs, i, Old, x)
      /\ CopyupDone(call) \/ Goto("copyup", next)
  BY <1>3 DEF copyup_data, i, next, n
<1>7. fs' \in Unions
  BY <1>1, <1>2, <1>4, <1>6, WritesTyped
<1>8. "copyup" \in Steps \ {"idle"}
  BY DEF Steps
<1>9. CASE CopyupDone(call)
  BY <1>1, <1>4, <1>7, <1>9, CopyupDoneTyped DEF i
<1>10. CASE Goto("copyup", next)
  BY <1>5, <1>7, <1>8, <1>10, GotoTyped
<1> QED BY <1>6, <1>9, <1>10

LEMMA OpaqueTyped ==
    ASSUME TypeInv, make_opaque
    PROVE  TypeInv'
<1> DEFINE b    == call.o.bstart
           q    == IF b \in call.moved THEN New ELSE Old
           done == [call EXCEPT !.err = "none"]
<1>1. pc = "opaque" /\ call \in Calls /\ fs \in Unions
  BY InCall DEF make_opaque, At, TypeInv, TypeOK
<1>2. b \in Branches /\ q \in Paths /\ done \in Calls
  BY <1>1, CallFields, DentryFields, NamesTwin, SetLocal DEF New, Old
<1> HIDE DEF b, q, done
<1>3. /\ UNCHANGED fs \/ fs' = AddOpaque(fs, b, q)
      /\ Goto("whiteout", call) \/ Goto("whiteout", done) \/ Goto("revert", call)
  BY DEF make_opaque, b, q, done
<1>4. fs' \in Unions
  BY <1>1, <1>2, <1>3, WritesTyped
<1>5. {"whiteout", "revert"} \subseteq Steps \ {"idle"}
  BY DEF Steps
<1> QED BY <1>1, <1>2, <1>3, <1>4, <1>5, GotoTyped

LEMMA WhiteoutTyped ==
    ASSUME TypeInv, whiteout_source
    PROVE  TypeInv'
<1>1. pc = "whiteout" /\ call \in Calls /\ fs \in Unions
  BY InCall DEF whiteout_source, At, TypeInv, TypeOK
<1>2. Old \in Paths /\ call.bwh_old \in Branches
  BY <1>1, CallFields, NamesTwin DEF Old
<1>3. \/ Bug
      \/ /\ UNCHANGED fs \/ fs' = AddWhiteout(fs, call.bwh_old, Old)
         /\ \E err : Returns(err)
  BY DEF whiteout_source
<1>4. CASE Bug
  BY <1>4, BugTyped
<1>5. CASE ~Bug
  <2>1. fs' \in Unions
    BY <1>1, <1>2, <1>3, <1>5, WritesTyped
  <2> QED BY <1>1, <1>3, <1>5, <2>1, ReturnsTyped
<1> QED BY <1>4, <1>5

LEMMA RevertTyped ==
    ASSUME TypeInv, revert_rename
    PROVE  TypeInv'
<1> DEFINE b == call.old_bstart
           o == Refreshed(call.o, Old, b)
           n == Refreshed(call.n, New, b)
           l1 == [call EXCEPT !.o = o]
           l2 == [l1 EXCEPT !.n = n]
           back == [call EXCEPT !.o = o, !.n = n, !.stage = "back"]
<1>1. pc = "revert" /\ call \in Calls /\ fs \in Unions
  BY InCall DEF revert_rename, At, TypeInv, TypeOK
<1>2. o \in Dentries /\ n \in Dentries
  BY <1>1, CallFields, DentryFields DEF Refreshed, Pointers
<1> HIDE DEF o, n
<1>3. back \in Calls
  <2>1. l1 \in Calls
    BY <1>1, <1>2, SetLocal
  <2>2. l2 \in Calls
    <3> HIDE DEF l1
    <3> QED BY <1>2, <2>1, SetLocal
  <2>3. back = [l2 EXCEPT !.stage = "back"]
    OBVIOUS
  <2> HIDE DEF l2, back
  <2> QED BY <2>2, <2>3, SetLocal
<1>4. back.stage = "back"
  BY <1>1 DEF Calls
<1> HIDE DEF back
<1>5. Bug \/ (UNCHANGED fs /\ (Returns("error") \/ Goto("rename", back)))
  BY DEF revert_rename, b, o, n, back
<1>6. "rename" \in Steps \ {"idle"}
  BY DEF Steps
<1> QED BY <1>1, <1>3, <1>4, <1>5, <1>6, BugTyped, ReturnsTyped, GotoTyped

LEMMA LinkUnlinkTyped ==
    ASSUME TypeInv, link_unlink
    PROVE  TypeInv'
<1>1. pc = "link" /\ call \in Calls /\ fs \in Unions
  BY InCall DEF link_unlink, At, TypeInv, TypeOK
<1>2. New \in Paths /\ call.n.bstart \in Branches
  BY <1>1, CallFields, DentryFields, NamesTwin DEF New, Old
<1>3. \/ fs' = DelWhiteout(fs, call.n.bstart, New) /\ Goto("link", call)
      \/ Returns("error") /\ UNCHANGED fs
  BY DEF link_unlink
<1>4. fs' \in Unions
  BY <1>1, <1>2, <1>3, WritesTyped
<1>5. "link" \in Steps \ {"idle"}
  BY DEF Steps
<1>6. call.stage = "second" => call.bindex \in Writable
  BY <1>1 DEF TypeInv, InRange
<1> QED BY <1>1, <1>3, <1>4, <1>5, <1>6, ReturnsTyped, GotoTyped

LEMMA LinkTyped ==
    ASSUME TypeInv, vfs_link
    PROVE  TypeInv'
<1> DEFINE b == IF call.stage = "second" THEN call.bindex ELSE call.old_bstart
           next == [call EXCEPT !.bindex = b - 1]
<1>1. pc = "link" /\ call \in Calls /\ fs \in Unions
  BY InCall DEF vfs_link, At, TypeInv, TypeOK
<1>2. New \in Paths /\ Old \in Paths
  BY <1>1, CallFields, NamesTwin DEF New, Old
<1>3. b \in Branches
  BY <1>1, CallFields, BranchAssumption DEF TypeInv, InRange
<1>4. next \in Calls
  <2> HIDE DEF b
  <2> QED BY <1>1, <1>3, BranchBefore, SetLocal
<1> HIDE DEF b, next
<1>5. /\ UNCHANGED fs \/ fs' = SetNode(fs, b, New, fs[b].node[Old])
      /\ Goto("copyup", next) \/ \E err : Returns(err)
  BY DEF vfs_link, b, next
<1>6. fs[b].node[Old] \in Nodes
  BY <1>1, <1>2, <1>3 DEF Unions, BranchStates
<1>7. fs' \in Unions
  BY <1>1, <1>2, <1>3, <1>5, <1>6, WritesTyped
<1>8. "copyup" \in Steps \ {"idle"}
  BY DEF Steps
<1> QED BY <1>1, <1>4, <1>5, <1>7, <1>8, ReturnsTyped, GotoTyped

LEMMA CrashTyped ==
    ASSUME TypeInv, Crash
    PROVE  TypeInv'
<1>1. pc # "idle" /\ call \in Calls /\ fs' \in Unions
  BY InCall DEF Crash, TypeInv, TypeOK
<1>2. call.op \in {"rename", "link"} /\ Old \in Names
  BY <1>1, CallFields DEF Old
<1> QED BY <1>1, <1>2, EndsTyped DEF Crash

LEMMA InitTyped == Init => TypeInv
<1> SUFFICES ASSUME Init PROVE TypeInv
  OBVIOUS
<1>1. fs \in Unions
  BY DEF Init, SoundBranches, Unions
<1>2. NoView \in [Paths -> Nodes]
  BY DEF NoView, Nodes
<1>3. TypeOK
  BY <1>1, <1>2 DEF Init, Start, TypeOK, Steps
<1>4. InRange
  BY DEF Init, Start, InRange
<1> QED BY <1>3, <1>4 DEF TypeInv

LEMMA StepTyped ==
    ASSUME TypeInv, [Next]_vars
    PROVE  TypeInv'
<1>1. CASE UNCHANGED vars
  BY <1>1 DEF vars, TypeInv, TypeOK, InRange
<1>2. CASE Next
  BY <1>2, RenameBeginsTyped, CleanTyped, RenameUnlinkTyped, DoRenameTyped,
     UnlinkLeftTyped, CopyupCreateTyped, CopyupDataTyped, OpaqueTyped,
     WhiteoutTyped, RevertTyped, LinkBeginsTyped, LinkUnlinkTyped, LinkTyped,
     CrashTyped DEF Next
<1> QED BY <1>1, <1>2

\* The branches stay branches and a call's locals in their ranges, whatever
\* fails in unionfs_rename or unionfs_link and wherever the machine stops: no
\* branch index leaves the table, and a copy goes to a writable branch only.
THEOREM RenameTypes == Spec => []TypeOK
<1>1. Init => TypeInv
  BY InitTyped
<1>2. TypeInv /\ [Next]_vars => TypeInv'
  BY StepTyped
<1>3. TypeInv => TypeOK
  BY DEF TypeInv
<1> QED BY <1>1, <1>2, <1>3, PTL DEF Spec

-----------------------------------------------------------------------------
(* Trees.                                                                  *)

\* What is below a name is in it or in something below it.
LEMMA BelowName ==
    ASSUME NEW t \in Names, NEW q \in Paths
    PROVE  /\ q \in Below(t) <=> Parent[q] \in Subtree(t)
           /\ q \in Below(t) => q \notin Names /\ Parent[q] \in Paths
           /\ t \notin Below(t) /\ t \in Paths /\ Parent[t] = Root
<1>1. t \in Paths /\ Parent[t] = Root /\ Above[t] = {} /\ t # Root
  BY PathsAssumption DEF Names
<1>2. CASE Parent[q] = Root
  BY <1>1, <1>2, PathsAssumption DEF Below, Subtree, Names
<1>3. CASE Parent[q] # Root
  <2>1. Parent[q] \in Paths /\ Above[q] = {Parent[q]} \cup Above[Parent[q]]
    BY <1>3, PathsAssumption
  <2> QED BY <1>1, <1>3, <2>1 DEF Below, Subtree, Names
<1> QED BY <1>2, <1>3

\* Two names share nothing.
LEMMA Apart ==
    ASSUME NEW s \in Names, NEW t \in Names, s # t
    PROVE  Subtree(s) \cap Subtree(t) = {}
<1> DEFINE Q == Below(s) \cap Below(t)
<1>1. s \notin Below(t) /\ t \notin Below(s)
  BY BelowName DEF Names
<1>2. Q \in SUBSET Paths
  BY DEF Below
<1>3. ASSUME NEW q \in Q PROVE Parent[q] \in Q
  BY <1>1, <1>2, BelowName DEF Subtree
<1> HIDE DEF Q
<1>4. Q = {}
  BY <1>2, <1>3, NoEndlessClimb
<1> QED BY <1>1, <1>4 DEF Q, Subtree

\* Below what is no directory there is nothing, not even a whiteout.
LEMMA NothingUnder ==
    ASSUME NEW br \in SoundBranches, NEW t \in Names, br.node[t] # Dir
    PROVE  \A q \in Below(t) : br.node[q] = None /\ q \notin br.wh
<1> DEFINE Q == {q \in Below(t) : br.node[q] # None \/ q \in br.wh}
<1>1. Q \in SUBSET Paths
  BY DEF Below
<1>2. ASSUME NEW q \in Q PROVE Parent[q] \in Q
  <2>1. Parent[q] \in Paths /\ Parent[q] \in Subtree(t)
    BY <1>1, BelowName
  <2>2. br.node[Parent[q]] = Dir
    BY <1>1, <2>1, PathsAssumption DEF SoundBranches, LowerTree
  <2> QED BY <2>1, <2>2, ValuesAssumption DEF Subtree
<1> HIDE DEF Q
<1>3. Q = {}
  BY <1>1, <1>2, NoEndlessClimb
<1> QED BY <1>3 DEF Q

-----------------------------------------------------------------------------
(* Writes keep a branch sound, where they do.                              *)

\* A name's node may change where no directory stood, beside no whiteout.
LEMMA NodeSound ==
    ASSUME NEW br \in SoundBranches, NEW p \in Names, NEW n \in Nodes,
           br.node[p] # Dir, n # None => p \notin br.wh
    PROVE  [br EXCEPT !.node[p] = n] \in SoundBranches
<1> DEFINE node == [br.node EXCEPT ![p] = n]
<1>1. p \in Paths /\ Parent[p] = Root
  BY DEF Names
<1>2. node \in [Paths -> Nodes]
  BY SoundType
<1>3. ASSUME NEW q \in Paths, node[q] # None \/ q \in br.wh
      PROVE  Parent[q] = Root \/ node[Parent[q]] = Dir
  <2>1. CASE q = p
    BY <1>1, <2>1
  <2>2. CASE q # p
    <3>1. Parent[q] = Root \/ br.node[Parent[q]] = Dir
      BY <1>3, <2>2, SoundType DEF LowerTree
    <3> QED BY <3>1, SoundType, PathsAssumption
  <2> QED BY <2>1, <2>2
<1>4. \A q \in br.opq : node[q] = Dir
  BY SoundType DEF LowerTree
<1>5. \A q \in br.wh : node[q] = None
  BY SoundType DEF Unambiguous
<1> HIDE DEF node
<1>6. [node |-> node, wh |-> br.wh, opq |-> br.opq] \in SoundBranches
  BY <1>2, <1>3, <1>4, <1>5, SoundType, SoundIf
<1>7. [br EXCEPT !.node[p] = n] = [node |-> node, wh |-> br.wh, opq |-> br.opq]
  BY SoundType DEF node, BranchStates
<1> QED BY <1>6, <1>7

\* A whiteout may come where nothing stands, an opaque mark in a directory, and
\* both may go.
LEMMA MarksSound ==
    ASSUME NEW br \in SoundBranches, NEW p \in Names
    PROVE  /\ br.node[p] = None => [br EXCEPT !.wh = @ \cup {p}] \in SoundBranches
           /\ br.node[p] = Dir => [br EXCEPT !.opq = @ \cup {p}] \in SoundBranches
           /\ \A W, O : [br EXCEPT !.wh = @ \ W, !.opq = @ \ O] \in SoundBranches
           /\ \A W : [br EXCEPT !.wh = @ \ W] \in SoundBranches
BY SoundType DEF SoundBranches, BranchStates, LowerTree, Unambiguous, Names

\* The lower rename takes a sound branch to a sound one, if the new name has no
\* whiteout.
LEMMA RenamedSound ==
    ASSUME NEW br \in SoundBranches, NEW s \in Names, Twin[s] \notin br.wh
    PROVE  Renamed(br, s, Twin[s]) \in SoundBranches
<1> DEFINE t == Twin[s]
           node == [q \in Paths |-> IF q \in Subtree(s) THEN None
                                    ELSE IF q \in Subtree(t) THEN br.node[Twin[q]]
                                    ELSE br.node[q]]
           wh == (br.wh \ (Below(s) \cup Below(t)))
                    \cup {q \in Below(t) : Twin[q] \in br.wh}
           opq == (br.opq \ (Subtree(s) \cup Subtree(t)))
                    \cup {q \in Subtree(t) : Twin[q] \in br.opq}
<1>1. t \in Names /\ t # s /\ Twin[t] = s
  BY NamesTwin, TwinAssumption
<1>2. Subtree(s) \cap Subtree(t) = {} /\ Subtree(t) \in SUBSET Paths
  <2>1. Subtree(s) \cap Subtree(t) = {}
    <3> HIDE DEF t
    <3> QED BY <1>1, Apart
  <2>2. t \in Paths
    BY <1>1 DEF Names
  <2> QED BY <2>1, <2>2 DEF Subtree, Below
<1>3. \A q \in Paths : node[q] = IF q \in Subtree(s) THEN None
                                 ELSE IF q \in Subtree(t) THEN br.node[Twin[q]]
                                 ELSE br.node[q]
  OBVIOUS
<1>4. node \in [Paths -> Nodes] /\ wh \in SUBSET Paths /\ opq \in SUBSET Paths
  <2>1. node \in [Paths -> Nodes]
    BY TwinAssumption, SoundType DEF Nodes
  <2>2. wh \in SUBSET Paths
    BY SoundType DEF Below
  <2>3. opq \in SUBSET Paths
    BY <1>2, SoundType
  <2> QED BY <2>1, <2>2, <2>3
<1>5. Renamed(br, s, t) = [node |-> node, wh |-> wh, opq |-> opq]
  BY DEF Renamed
<1> HIDE DEF node, t
<1>6. ASSUME NEW q \in Paths, node[q] # None \/ q \in wh, Parent[q] # Root
      PROVE  node[Parent[q]] = Dir
  <2>1. Parent[q] \in Paths /\ q \notin Names
    BY <1>6, PathsAssumption DEF Names
  <2>2. CASE q \in Below(t)
    <3>1. Parent[q] \in Subtree(t) /\ q \notin Subtree(s) /\ Parent[q] \notin Subtree(s)
      BY <1>1, <1>2, <2>2, BelowName DEF Subtree
    <3>2. node[q] = br.node[Twin[q]] /\ node[Parent[q]] = br.node[Twin[Parent[q]]]
      BY <1>3, <2>1, <2>2, <3>1 DEF Subtree
    <3>3. Twin[q] \in Paths /\ Parent[Twin[q]] = Twin[Parent[q]]
          /\ Twin[Parent[q]] \in Paths
      BY <2>1, TwinAssumption
    <3>4. br.node[Twin[q]] # None \/ Twin[q] \in br.wh
      BY <1>6, <2>2, <3>2
    <3> QED BY <3>2, <3>3, <3>4, SoundType, PathsAssumption DEF LowerTree
  <2>3. CASE q \notin Below(t)
    <3>1. q \notin Subtree(t)
      BY <1>1, <2>1, <2>3 DEF Subtree
    <3>2. q \notin Below(s)
      BY <1>3, <1>6, <2>3 DEF Subtree
    <3>3. q \notin Subtree(s)
      BY <2>1, <3>2 DEF Subtree
    <3>4. Parent[q] \notin Subtree(s) /\ Parent[q] \notin Subtree(t)
      BY <1>1, <2>3, <3>2, BelowName
    <3>5. node[q] = br.node[q] /\ node[Parent[q]] = br.node[Parent[q]]
      BY <1>3, <2>1, <3>1, <3>3, <3>4
    <3>6. br.node[q] # None \/ q \in br.wh
      BY <1>6, <2>3, <3>5
    <3> QED BY <1>6, <3>5, <3>6, SoundType DEF LowerTree
  <2> QED BY <2>2, <2>3
<1>7. ASSUME NEW q \in opq PROVE node[q] = Dir
  BY <1>2, <1>3, <1>4, SoundType, TwinAssumption DEF LowerTree
<1>8. ASSUME NEW q \in wh PROVE node[q] = None
  <2>1. CASE q \in Below(t)
    BY <1>2, <1>3, <1>4, <2>1, SoundType DEF Unambiguous, Subtree
  <2>2. CASE q \notin Below(t)
    <3>1. q \in br.wh /\ q # t
      BY <2>2 DEF t
    <3> QED BY <1>3, <1>4, <2>2, <3>1, SoundType DEF Unambiguous, Subtree
  <2> QED BY <2>1, <2>2
<1> HIDE DEF wh, opq
<1> QED BY <1>4, <1>5, <1>6, <1>7, <1>8, SoundIf DEF t

-----------------------------------------------------------------------------
(* What the lookups of a call tell about the branches.                     *)

\* Zero is the least branch.
LEMMA ZeroFirst ==
    /\ 0 \in Branches /\ \A b \in Branches : b \in Nat /\ (b # 0 <=> b > 0)
BY BranchAssumption DEF Branches

LEMMA FirstOfSome ==
    ASSUME NEW S \in SUBSET Branches, 0 \in S
    PROVE  Leftmost(S) = 0
<1>1. Leftmost(S) \in S /\ Leftmost(S) =< 0
  BY LeftmostIsLeast
<1> QED BY <1>1, ZeroFirst

\* A name found in the root directory is in the dentry's first branch, and no
\* branch to the left of it has the name or its whiteout.
LEMMA FoundInRoot ==
    ASSUME NEW f, NEW p \in Names, NEW d, d = Lookup(f, RootDentry, p),
           ~IsNegative(f, d, p)
    PROVE  /\ d \in GoodDentries /\ d.bstart \in Branches /\ d.hid[d.bstart] = "live"
           /\ f[d.bstart].node[p] # None /\ p \notin f[d.bstart].wh
           /\ \A b \in Branches : b < d.bstart => f[b].node[p] = None /\ p \notin f[b].wh
<1> DEFINE S     == Searched(f, RootDentry, p, RootDentry.bstart, RootDentry.bend)
           marks == WhiteoutIn(f, p, S) \cup OpaqueIn(f, p, S)
           seen  == UpTo(S, marks \cup FirstFileIn(f, p, S))
           found == FoundIn(f, p, seen)
           hit   == marks \cap seen
           plain == {b \in seen : p \notin f[b].wh}
           first == IF plain = {} THEN Leftmost(hit) ELSE Leftmost(plain)
<1>1. p \in Paths /\ Parent[p] = Root
  BY DEF Names
<1>2. S = Branches /\ d \in GoodDentries
  BY <1>1, RootSearched
<1>3. seen \in SUBSET Branches /\ hit \in SUBSET Branches /\ found \in SUBSET Branches
  BY <1>2 DEF UpTo, FoundIn
<1>4. found # {}
  <2> SUFFICES ASSUME found = {} PROVE FALSE
    OBVIOUS
  <2>1. d.bstart = first /\ d.hid = LiveIn({first})
    BY DEF Lookup
  <2>2. PICK b \in Branches : d.hid[b] = "live" /\ f[b].node[p] # None /\ p \notin f[b].wh
    BY DEF IsNegative
  <2>3. b = first
    <3> HIDE DEF first
    <3> QED BY <2>1, <2>2, LiveInType
  <2>4. plain \in SUBSET Branches
    BY <1>3
  <2>5. first \in Branches
    BY <2>2, <2>3
  <2>6. plain = {} => hit = Branches \cap seen
    BY <1>2, <1>3 DEF WhiteoutIn
  <2>7. seen # {}
    <3>1. marks \cup FirstFileIn(f, p, S) \in SUBSET S
      BY DEF WhiteoutIn, OpaqueIn, FirstFileIn, FoundIn
    <3>2. S # {}
      BY <1>2, ZeroFirst
    <3> HIDE DEF S, marks
    <3> QED BY <1>2, <3>1, <3>2, UpToSome
  <2>8. first \in seen
    <3>1. CASE plain = {}
      <4>1. hit = seen
        BY <1>3, <2>6, <3>1
      <4> HIDE DEF hit, plain, seen
      <4> QED BY <1>3, <2>7, <3>1, <4>1, LeftmostIsLeast
    <3>2. CASE plain # {}
      <4>1. Leftmost(plain) \in plain
        <5> HIDE DEF plain
        <5> QED BY <2>4, <3>2, LeftmostIsLeast
      <4> QED BY <3>2, <4>1
    <3> QED BY <3>1, <3>2
  <2> HIDE DEF first, seen
  <2> QED BY <2>2, <2>3, <2>8 DEF FoundIn
<1>5. d.bstart = Leftmost(found) /\ d.hid = LiveIn(found)
  BY <1>4 DEF Lookup
<1>6. /\ d.bstart \in found /\ d.hid[d.bstart] = "live"
      /\ \A b \in found : d.bstart =< b
  <2> HIDE DEF found
  <2> QED BY <1>3, <1>4, <1>5, LeftmostIsLeast, LiveInType
<1>7. ASSUME NEW b \in Branches, b < d.bstart
      PROVE  f[b].node[p] = None /\ p \notin f[b].wh
  <2>1. d.bstart \in seen /\ d.bstart \in Branches
    BY <1>3, <1>6 DEF FoundIn
  <2>2. \A e \in marks \cup FirstFileIn(f, p, S) : d.bstart =< e /\ e \in Nat
    BY <1>2, <2>1, ZeroFirst DEF UpTo, WhiteoutIn, OpaqueIn, FirstFileIn, FoundIn
  <2>3. p \notin f[b].wh
    BY <1>2, <1>7, <2>1, <2>2, ZeroFirst DEF WhiteoutIn
  <2>4. b \in seen
    <3> HIDE DEF marks
    <3> QED BY <1>2, <1>7, <2>1, <2>2, ZeroFirst DEF UpTo
  <2>5. b \notin found
    <3> HIDE DEF found
    <3> QED BY <1>6, <1>7, <2>1, ZeroFirst
  <2> QED BY <2>3, <2>4, <2>5 DEF FoundIn
<1>8. f[d.bstart].node[p] # None /\ p \notin f[d.bstart].wh
  <2> HIDE DEF seen
  <2> QED BY <1>6 DEF FoundIn
<1> QED BY <1>2, <1>3, <1>6, <1>7, <1>8

\* What the first branch has, or hides, is what the lookup returns.
LEMMA FirstFound ==
    ASSUME NEW f, NEW p \in Names, NEW d, d = Lookup(f, RootDentry, p)
    PROVE  /\ f[0].node[p] # None /\ p \notin f[0].wh =>
                ~IsNegative(f, d, p) /\ d.bstart = 0
           /\ p \in f[0].wh => d.bstart = 0
<1> DEFINE S     == Searched(f, RootDentry, p, RootDentry.bstart, RootDentry.bend)
           marks == WhiteoutIn(f, p, S) \cup OpaqueIn(f, p, S)
           ends  == marks \cup FirstFileIn(f, p, S)
           seen  == UpTo(S, ends)
           found == FoundIn(f, p, seen)
           hit   == marks \cap seen
           plain == {b \in seen : p \notin f[b].wh}
<1>1. S = Branches
  BY RootSearched DEF Names
<1>2. ends \in SUBSET Branches
  BY <1>1 DEF WhiteoutIn, OpaqueIn, FirstFileIn, FoundIn
<1>3. 0 \in seen /\ seen \in SUBSET Branches
  <2> HIDE DEF ends
  <2> QED BY <1>1, <1>2, ZeroFirst DEF UpTo
<1>4. CASE f[0].node[p] # None /\ p \notin f[0].wh
  <2>1. 0 \in found /\ found \in SUBSET Branches
    <3> HIDE DEF seen
    <3> QED BY <1>3, <1>4 DEF FoundIn
  <2>2. d.bstart = Leftmost(found) /\ d.hid = LiveIn(found)
    BY <2>1 DEF Lookup
  <2> HIDE DEF found
  <2>3. d.bstart = 0 /\ d.hid[0] = "live"
    BY <2>1, <2>2, FirstOfSome, LiveInType
  <2> QED BY <1>4, <2>3, ZeroFirst DEF IsNegative
<1>5. CASE p \in f[0].wh
  <2>1. 0 \in marks /\ 0 \in ends
    BY <1>1, <1>5, ZeroFirst DEF WhiteoutIn
  <2>2. seen = {0}
    <3> HIDE DEF marks, ends
    <3> QED BY <1>1, <1>3, <2>1, ZeroFirst DEF UpTo
  <2> HIDE DEF seen, marks
  <2>3. found = {} /\ plain = {} /\ hit = {0}
    BY <1>5, <2>1, <2>2 DEF FoundIn
  <2>4. Leftmost(hit) = 0
    BY <2>3, ZeroFirst, FirstOfSome
  <2> QED BY <1>5, <2>3, <2>4 DEF Lookup, seen, marks
<1> QED BY <1>4, <1>5

\* A dentry found in the root directory still begins where it did when the
\* lookup is completed.
LEMMA CompletedFound ==
    ASSUME NEW p \in Names, NEW d, d = Lookup(fs, RootDentry, p), ~IsNegative(fs, d, p)
    PROVE  /\ Completed(d, p) \in GoodDentries
           /\ Completed(d, p).bstart = d.bstart
           /\ Completed(d, p).hid[d.bstart] = "live"
<1> DEFINE e   == PartialLookup(fs, RootDentry, d, p)
           pos == {b \in Branches : e.hid[b] = "live" /\ fs[b].node[p] # None}
           h   == [b \in Branches |-> IF b < Leftmost(pos) THEN "null" ELSE e.hid[b]]
           c   == Completed(d, p)
<1>1. p \in Paths
  BY DEF Names
<1>2. /\ d \in GoodDentries /\ d.bstart \in Branches /\ d.hid[d.bstart] = "live"
      /\ fs[d.bstart].node[p] # None
      /\ \A b \in Branches : b < d.bstart => fs[b].node[p] = None
  BY FoundInRoot
<1>3. c \in GoodDentries
  BY <1>1, <1>2, CompletedGood
<1>4. e \in GoodDentries /\ e.hid[d.bstart] = "live"
  <2>1. e.hid[d.bstart] = "live"
    BY <1>2 DEF PartialLookup
  <2> QED BY <1>1, <1>2, <2>1, PartialLookupGood
<1> HIDE DEF e
<1>5. d.bstart \in pos /\ \A b \in pos : d.bstart =< b
  BY <1>2, <1>4, ZeroFirst
<1>6. pos \in SUBSET Branches
  OBVIOUS
<1> HIDE DEF pos
<1>7. Leftmost(pos) = d.bstart
  <2>1. Leftmost(pos) \in pos /\ Leftmost(pos) =< d.bstart
    BY <1>5, <1>6, LeftmostIsLeast
  <2> QED BY <1>2, <1>5, <1>6, <2>1, ZeroFirst
<1>8. c = [e EXCEPT !.bstart = d.bstart, !.hid = h]
  BY <1>5, <1>7 DEF Completed, e, pos
<1>9. h[d.bstart] = "live"
  BY <1>2, <1>4, <1>7, ZeroFirst
<1> HIDE DEF h, c
<1>10. c.bstart = d.bstart /\ c.hid = h
  BY <1>4, <1>8 DEF GoodDentries, Dentries
<1> QED BY <1>3, <1>9, <1>10 DEF c

-----------------------------------------------------------------------------
(***************************************************************************)
(* The inductive invariant.  BranchesSound depends on what a call still    *)
(* means to do: a copy of the source must not come beside a whiteout, the  *)
(* opaque mark must come in a directory, and the source's whiteout where   *)
(* the source no longer is.                                                *)
(***************************************************************************)

\* A union as the live CD mounts it, on lower file systems whose rename does
\* what it is asked to.
Setting == Writable = {0} /\ "rename" \notin Faults

\* No whiteouts in the branches that are not writable.
Pristine == \A b \in Branches \ {0} : fs[b].wh = {}

\* No lower call fails but those after which the code gives up at once.
Reliable == Faults \subseteq {"link", "whiteout"}

\* What stands in the writable branch.
Top(q) == fs[0].node[q]

\* What the writable branch has under the new name is of the source's kind, and
\* a directory has no entries there,
Replaceable ==
    Top(New) # None => /\ (Top(New) = Dir) = call.dir
                       /\ \A c \in Children(New) : Top(c) = None

\* nor any mark of unionfs.
Cleaned == Top(New) # None => Whiteouts(0, New) = {}

\* The source is where the call has found it.
Source ==
    /\ call.moved = {}
    /\ fs[call.old_bstart].node[Old] # None
    /\ (fs[call.old_bstart].node[Old] = Dir) = call.dir

Begun ==
    /\ Source /\ Replaceable
    /\ call.do_copyup = -1 /\ ~call.revert /\ call.wh_old = "null"
    /\ call.o.bstart = call.old_bstart
    /\ call.old_bstart # 0 => Top(Old) = None

\* It is in a branch that is not writable, and is to be copied up.
StillBelow ==
    /\ Source /\ Replaceable /\ Cleaned
    /\ call.old_bstart # 0 /\ call.do_copyup \in Branches /\ ~call.revert
    /\ call.wh_old # "whiteout"

Copied ==
    call.o.bstart = 0 /\ Top(Old) # None /\ (Top(Old) = Dir) = call.dir

\* It has the new name in the writable branch.
HasMoved ==
    /\ Top(Old) = None /\ (call.dir => Top(New) = Dir)
    /\ call.moved = {0} /\ call.o.bstart = 0 /\ call.wh_old = "whiteout"

\* It has not got there: then no whiteout is created.
Abandoned ==
    /\ ~Reliable /\ call.moved = {} /\ call.wh_old # "whiteout"
    /\ call.dir /\ call.o.bstart = 0 => Top(Old) = Dir

RenameInv ==
    /\ Old \notin fs[0].wh
    /\ pc \in Steps \ {"idle", "link"}
    /\ call.stage = "back" => pc = "rename" /\ ~Reliable
    /\ pc = "clean" => call.stage = "first" /\ Begun
    /\ pc = "rename" /\ call.stage = "first" => Begun /\ Cleaned
    /\ pc = "rename" /\ call.stage = "second" => StillBelow /\ Copied
    /\ pc = "unlink" => \/ call.old_bstart = 0 /\ call.do_copyup = -1 /\ HasMoved
                        \/ StillBelow /\ Top(Old) = None /\ call.o.bstart # 0
    /\ pc = "copyup" => /\ StillBelow /\ Top(Old) = None
                        /\ call.dir => call.o.bstart # 0
                        /\ Reliable => call.bindex # -1
    /\ pc = "copydata" => StillBelow /\ Top(Old) = Empty /\ ~call.dir /\ call.o.bstart = 0
    /\ pc = "opaque" => HasMoved \/ Abandoned
    /\ pc = "whiteout" => \/ Top(Old) = None /\ call.wh_old = "whiteout"
                          \/ ~Reliable /\ call.wh_old # "whiteout"
    /\ pc = "revert" => ~Reliable

LinkInv ==
    /\ Old \notin fs[0].wh
    /\ pc \in {"link", "copyup", "copydata"}
    /\ pc = "copydata" => Top(Old) # Dir
    /\ New \in fs[0].wh => pc = "link" /\ call.stage = "first" /\ call.n.bstart = 0

AllSound == fs \in [Branches -> SoundBranches] /\ Pristine

SoundInv ==
    /\ Setting /\ AllSound
    /\ pc # "idle" /\ call.op = "rename" /\ ~oops => RenameInv
    /\ pc # "idle" /\ call.op = "link" /\ ~oops => LinkInv
    /\ Reliable => ~oops

Inv == TypeInv /\ RInv /\ SoundInv

\* Only the first branch is written to.
LEMMA OnlyFirst ==
    ASSUME Setting, NEW b \in Branches
    PROVE  ~IsRobranch(b) <=> b = 0
BY DEF Setting, IsRobranch

LEMMA WriteFirst ==
    ASSUME AllSound, NEW e \in SoundBranches, fs' = [fs EXCEPT ![0] = e]
    PROVE  /\ AllSound' /\ fs'[0] = e
           /\ \A b \in Branches : b # 0 => fs'[b] = fs[b]
BY ZeroFirst DEF AllSound, Pristine

\* Which calls make which steps.
LEMMA WhoseStep ==
    ASSUME Inv, pc # "idle", ~oops
    PROVE  /\ call \in Calls /\ fs \in [Branches -> SoundBranches] /\ Pristine /\ Setting
           /\ fs[0] \in SoundBranches
           /\ Old \in Names /\ New \in Names /\ Old # New /\ Twin[New] = Old
           /\ call.op = "rename" => RenameInv /\ pc # "link"
           /\ call.op = "link" => LinkInv
           /\ pc \notin {"link", "copyup", "copydata"} => call.op = "rename"
           /\ pc = "link" => call.op = "link"
<1>1. call \in Calls
  BY InCall DEF Inv
<1>2. call.op \in {"rename", "link"} /\ Old \in Names
  BY <1>1, CallFields DEF Old
<1>3. New \in Names /\ Old # New /\ Twin[New] = Old
  BY <1>2, NamesTwin, TwinAssumption DEF New, Old
<1>4. /\ call.op = "rename" => RenameInv
      /\ call.op = "link" => LinkInv
      /\ AllSound /\ Setting
  BY DEF Inv, SoundInv
<1> QED BY <1>1, <1>2, <1>3, <1>4, ZeroFirst DEF AllSound, RenameInv, LinkInv

-----------------------------------------------------------------------------
(* How a step goes on.                                                     *)

LEMMA EndsSound ==
    ASSUME SoundInv, NEW op, NEW p, NEW end, Ends(op, p, end), AllSound'
    PROVE  SoundInv'
BY DEF SoundInv, Ends, Setting, Reliable

LEMMA ReturnsSound ==
    ASSUME SoundInv, NEW err, Returns(err), AllSound'
    PROVE  SoundInv'
BY EndsSound DEF Returns

LEMMA BugSound ==
    ASSUME SoundInv, Bug, ~Reliable
    PROVE  SoundInv'
BY DEF SoundInv, Bug, Setting, Reliable, AllSound, Pristine

LEMMA RenameGoesOn ==
    ASSUME SoundInv, AllSound', UNCHANGED oops, call'.op = "rename", RenameInv'
    PROVE  SoundInv'
BY DEF SoundInv, Setting, Reliable

LEMMA LinkGoesOn ==
    ASSUME SoundInv, AllSound', UNCHANGED oops, call'.op = "link", LinkInv'
    PROVE  SoundInv'
BY DEF SoundInv, Setting, Reliable

\* Where no node changes, and of the locals none that matters, what is known
\* of the source and the destination stays.
LEMMA NodesStay ==
    ASSUME \A b \in Branches : fs'[b].node = fs[b].node, call'.old = call.old,
           call'.dir = call.dir, call'.moved = call.moved,
           call'.old_bstart = call.old_bstart, call.old_bstart \in Branches
    PROVE  /\ Old' = Old /\ New' = New
           /\ \A q : fs'[0].node[q] = fs[0].node[q]
           /\ Source' = Source /\ Replaceable' = Replaceable
BY ZeroFirst DEF Old, New, Source, Replaceable, Top

-----------------------------------------------------------------------------
(* A call begins.                                                          *)

\* What the first branch has under the new name, the VFS and check_empty have
\* been asked about.
LEMMA DestinationAsked ==
    ASSUME Inv, ~oops, NEW p \in Names, NEW t, t = Twin[p], NEW dir \in BOOLEAN,
           NEW n0, n0 = Lookup(fs, RootDentry, t), NEW n, n = Completed(n0, t),
           ~IsNegative(fs, n0, t) => (Object(fs, n0, t) = Dir) = dir,
           dir /\ ~IsNegative(fs, n, t) /\ (\A b \in Branches : t \notin fs[b].wh) =>
                CheckEmpty(n, t),
           Top(t) # None
    PROVE  /\ (Top(t) = Dir) = dir
           /\ dir => /\ \A c \in Children(t) : Top(c) = None
                     /\ ~IsNegative(fs, n, t) /\ n.bstart = 0
                     /\ \A b \in Branches : t \notin fs[b].wh
           /\ ~dir => Whiteouts(0, t) = {} /\ \A c \in Children(t) : Top(c) = None
<1>1. t \in Names /\ t \in Paths
  BY NamesTwin
<1>2. AllSound /\ fs[0] \in SoundBranches
  BY ZeroFirst DEF Inv, SoundInv, AllSound
<1>3. t \notin fs[0].wh
  BY <1>2, SoundType DEF Unambiguous, Top
<1>4. ~IsNegative(fs, n0, t) /\ n0.bstart = 0
  BY <1>1, <1>3, FirstFound DEF Top
<1>5. n0.hid[0] = "live" /\ n \in GoodDentries /\ n.bstart = 0 /\ n.hid[0] = "live"
  BY <1>1, <1>4, FoundInRoot, CompletedFound
<1>6. (Top(t) = Dir) = dir
  BY <1>4, <1>5 DEF Object, Top
<1>7. ASSUME dir
      PROVE  /\ \A c \in Children(t) : Top(c) = None
             /\ ~IsNegative(fs, n, t) /\ n.bstart = 0
             /\ \A b \in Branches : t \notin fs[b].wh
  <2>1. ~IsNegative(fs, n, t)
    BY <1>3, <1>5, ZeroFirst DEF IsNegative, Top
  <2>2. \A b \in Branches : t \notin fs[b].wh
    BY <1>2, <1>3 DEF AllSound, Pristine
  <2>3. CheckEmpty(n, t)
    BY <1>7, <2>1, <2>2
  <2> DEFINE read == {b \in Branches : /\ n.bstart =< b /\ b =< n.bend
                                       /\ n.bopaque = -1 \/ b =< n.bopaque
                                       /\ n.hid[b] = "live" /\ fs[b].node[t] = Dir}
  <2>4. \A b \in read, c \in Children(t) :
            fs[b].node[c] # None => \E a \in read : a < b /\ c \in fs[a].wh
    BY <2>3 DEF CheckEmpty
  <2>5. n.bend \in Branches /\ n.bopaque \in -1 .. NB - 1
    BY <1>5, GoodFields
  <2>6. n.bopaque = -1 \/ n.bopaque \in Nat
    BY <2>5, BranchAssumption
  <2>7. n.bend \in Nat
    BY <2>5, ZeroFirst
  <2>10. fs[0].node[t] = Dir
    BY <1>6, <1>7 DEF Top
  <2>11. n.bstart =< 0 /\ 0 =< n.bend /\ (n.bopaque = -1 \/ 0 =< n.bopaque)
    BY <1>5, <2>6, <2>7
  <2>8. 0 \in read
    BY <1>5, <2>10, <2>11, ZeroFirst
  <2>9. \A a \in read : ~ (a < 0)
    BY ZeroFirst
  <2> HIDE DEF read
  <2> QED BY <1>5, <2>1, <2>2, <2>4, <2>8, <2>9 DEF Top
<1>8. ASSUME ~dir
      PROVE  Whiteouts(0, t) = {} /\ \A c \in Children(t) : Top(c) = None
  <2>1. fs[0].node[t] # Dir
    BY <1>6, <1>8 DEF Top
  <2>2. \A q \in Below(t) : q \notin fs[0].wh
    BY <1>1, <1>2, <2>1, NothingUnder
  <2>3. t \notin fs[0].opq
    BY <1>2, <2>1, SoundType DEF LowerTree
  <2>4. \A c \in Children(t) : Top(c) = None
    BY <1>1, <1>2, <2>1, SoundType, PathsAssumption DEF LowerTree, Children, Top
  <2> QED BY <2>2, <2>3, <2>4 DEF Whiteouts
<1> QED BY <1>6, <1>7, <1>8

LEMMA RenameBeginsSound ==
    ASSUME Inv, NEW p \in Names, unionfs_rename(p)
    PROVE  SoundInv'
<1> DEFINE t   == Twin[p]
           o0  == Lookup(fs, RootDentry, p)
           n0  == Lookup(fs, RootDentry, t)
           dir == Object(fs, o0, p) = Dir
           o   == Completed(o0, p)
           n   == Completed(n0, t)
           positive == ~IsNegative(fs, n, t)
           emptied  == dir /\ positive /\ \A b \in Branches : t \notin fs[b].wh
           cleaned  == emptied /\ ~IsRobranch(n.bstart)
           started  == [op |-> "rename", old |-> p, dir |-> dir, o |-> o, n |-> n,
                        positive |-> positive, old_bstart |-> o.bstart,
                        old_bend |-> o.bend, new_bstart |-> n.bstart,
                        bindex |-> o.bstart, do_copyup |-> -1,
                        bwh_old |-> o.bstart, wh_old |-> "null",
                        stage |-> "first", revert |-> FALSE, moved |-> {}, err |-> "none"]
<1>1. /\ At("idle") /\ UNCHANGED fs
      /\ ~IsNegative(fs, o0, p)
      /\ ~IsNegative(fs, n0, t) => (Object(fs, n0, t) = Dir) = dir
      /\ \/ Ends("rename", p, "error")
         \/ /\ emptied => CheckEmpty(n, t)
            /\ pc' = IF cleaned THEN "clean" ELSE "rename"
            /\ call' = started
            /\ UNCHANGED <<oops, last>>
  BY DEF unionfs_rename
<1>2. SoundInv /\ AllSound /\ Setting /\ AllSound' /\ ~oops
  BY <1>1 DEF Inv, SoundInv, AllSound, Pristine, At
<1>3. CASE Ends("rename", p, "error")
  BY <1>2, <1>3, EndsSound
<1>4. CASE ~Ends("rename", p, "error")
  <2>1. /\ pc' = (IF cleaned THEN "clean" ELSE "rename") /\ call' = started
        /\ UNCHANGED oops /\ (emptied => CheckEmpty(n, t))
    BY <1>1, <1>4
  <2>2. /\ o0.bstart \in Branches /\ o0.hid[o0.bstart] = "live"
        /\ fs[o0.bstart].node[p] # None /\ p \notin fs[o0.bstart].wh
        /\ \A b \in Branches : b < o0.bstart => fs[b].node[p] = None /\ p \notin fs[b].wh
    BY <1>1, FoundInRoot
  <2>3. o.bstart = o0.bstart
    BY <1>1, CompletedFound
  <2>4. dir = (fs[o0.bstart].node[p] = Dir)
    BY <2>2 DEF Object
  <2>5. p \notin fs[0].wh /\ (o0.bstart # 0 => Top(p) = None)
    BY <2>2, ZeroFirst DEF Top
  <2>6. ASSUME Top(t) # None
        PROVE  /\ (Top(t) = Dir) = dir
               /\ dir => /\ \A c \in Children(t) : Top(c) = None
                         /\ emptied /\ n.bstart = 0
               /\ ~dir => Whiteouts(0, t) = {} /\ \A c \in Children(t) : Top(c) = None
    <3>1. dir \in BOOLEAN
      OBVIOUS
    <3>2. dir /\ ~IsNegative(fs, n, t) /\ (\A b \in Branches : t \notin fs[b].wh) =>
              CheckEmpty(n, t)
      BY <2>1
    <3> HIDE DEF n0, n, dir, emptied
    <3>3. /\ (Top(t) = Dir) = dir
          /\ dir => /\ \A c \in Children(t) : Top(c) = None
                    /\ ~IsNegative(fs, n, t) /\ n.bstart = 0
                    /\ \A b \in Branches : t \notin fs[b].wh
          /\ ~dir => Whiteouts(0, t) = {} /\ \A c \in Children(t) : Top(c) = None
      BY <1>1, <1>2, <2>6, <3>1, <3>2, DestinationAsked DEF n0, n
    <3> QED BY <3>3 DEF emptied
  <2>7. Top(t) = Dir => cleaned
    BY <1>2, <2>6, OnlyFirst, ZeroFirst, ValuesAssumption
  <2> HIDE DEF o, n, o0, n0, dir, positive, emptied, cleaned
  <2>8. /\ call'.op = "rename" /\ call'.old = p /\ call'.dir = dir
        /\ call'.o.bstart = o0.bstart /\ call'.old_bstart = o0.bstart
        /\ call'.do_copyup = -1 /\ call'.wh_old = "null" /\ call'.stage = "first"
        /\ call'.revert = FALSE /\ call'.moved = {}
    BY <2>1, <2>3
  <2> HIDE DEF started
  <2>9. Old' = p /\ New' = t /\ fs' = fs
    BY <1>1, <2>8 DEF Old, New
  <2> HIDE DEF t
  <2>10. Source'
    BY <2>2, <2>4, <2>8, <2>9 DEF Source
  <2>11. Replaceable'
    <3>1. Top(t) # None => (Top(t) = Dir) = dir /\ \A c \in Children(t) : Top(c) = None
      BY <2>6
    <3> QED BY <2>8, <2>9, <3>1 DEF Replaceable, Top
  <2>12. Begun'
    BY <2>5, <2>8, <2>9, <2>10, <2>11 DEF Begun, Top
  <2>13. pc' = "rename" => Cleaned'
    BY <2>1, <2>6, <2>7, <2>9, ValuesAssumption DEF Cleaned, Top, Whiteouts
  <2>14. pc' \in {"clean", "rename"}
    BY <2>1
  <2>15. RenameInv'
    BY <2>5, <2>8, <2>9, <2>12, <2>13, <2>14 DEF RenameInv, Steps
  <2> QED BY <1>2, <2>1, <2>8, <2>15, RenameGoesOn
<1> QED BY <1>3, <1>4

LEMMA LinkBeginsSound ==
    ASSUME Inv, NEW p \in Names, unionfs_link(p)
    PROVE  SoundInv'
<1> DEFINE t == Twin[p]
           o == Lookup(fs, RootDentry, p)
           n == Lookup(fs, RootDentry, t)
<1>1. /\ At("idle") /\ UNCHANGED fs /\ ~IsNegative(fs, o, p)
      /\ pc' = "link" /\ UNCHANGED oops
      /\ call'.op = "link" /\ call'.old = p /\ call'.n = n /\ call'.stage = "first"
  BY DEF unionfs_link
<1>2. SoundInv /\ AllSound'
  BY <1>1 DEF Inv, SoundInv, AllSound, Pristine
<1>3. p \notin fs[0].wh
  BY <1>1, FoundInRoot, ZeroFirst
<1>4. t \in fs[0].wh => n.bstart = 0
  BY NamesTwin, FirstFound
<1>5. Old' = p /\ New' = t
  BY <1>1 DEF Old, New
<1> HIDE DEF t, o, n
<1>6. LinkInv'
  BY <1>1, <1>3, <1>4, <1>5 DEF LinkInv
<1> QED BY <1>1, <1>2, <1>6, LinkGoesOn

-----------------------------------------------------------------------------
(* delete_whiteouts and do_rename.                                         *)

LEMMA CleanSound ==
    ASSUME Inv, delete_whiteouts
    PROVE  SoundInv'
<1> DEFINE b == call.n.bstart
           W == Whiteouts(b, New)
           Erased(q) == [fs[0] EXCEPT !.wh = @ \ {q},
                                      !.opq = @ \ IF q = New THEN {q} ELSE {}]
<1>1. pc = "clean" /\ ~oops
  BY DEF delete_whiteouts, At
<1>2. /\ call \in Calls /\ fs \in [Branches -> SoundBranches] /\ Setting /\ AllSound
      /\ fs[0] \in SoundBranches /\ SoundInv /\ New \in Names
      /\ call.op = "rename" /\ RenameInv
  BY <1>1, WhoseStep DEF Inv, AllSound
<1>3. Begun /\ call.stage = "first" /\ Old \notin fs[0].wh
  BY <1>1, <1>2 DEF RenameInv
<1>4. b = 0 /\ call.old_bstart \in Branches
  <2>1. ~IsRobranch(b)
    BY <1>1 DEF Inv, RInv, CallInv
  <2>2. b \in Branches /\ call.old_bstart \in Branches
    BY <1>2, CallFields, DentryFields
  <2> QED BY <1>2, <2>1, <2>2, OnlyFirst
<1>5. CASE W = {} /\ Goto("rename", call) /\ UNCHANGED fs
  <2>1. pc' = "rename" /\ call' = call /\ fs' = fs /\ UNCHANGED oops
    BY <1>5 DEF Goto
  <2>2. AllSound' /\ Begun' /\ Cleaned' /\ Old' = Old
    BY <1>2, <1>3, <1>4, <1>5, <2>1
       DEF AllSound, Pristine, Begun, Source, Replaceable, Cleaned, Top, Old, New,
           Whiteouts
  <2>3. RenameInv'
    BY <1>3, <2>1, <2>2 DEF RenameInv, Steps
  <2> QED BY <1>2, <2>1, <2>2, <2>3, RenameGoesOn
<1>6. CASE \E q \in W : /\ fs' = [fs EXCEPT ![b].wh = @ \ {q},
                                            ![b].opq = IF q = New THEN @ \ {q} ELSE @]
                        /\ Goto("clean", call)
  <2>1. PICK q \in W : /\ fs' = [fs EXCEPT ![b].wh = @ \ {q},
                                           ![b].opq = IF q = New THEN @ \ {q} ELSE @]
                       /\ Goto("clean", call)
    BY <1>6
  <2>2. fs' = [fs EXCEPT ![0] = Erased(q)]
    <3> DEFINE wh  == fs[0].wh \ {q}
               opq == IF q = New THEN fs[0].opq \ {q} ELSE fs[0].opq
    <3>1. opq = fs[0].opq \ IF q = New THEN {q} ELSE {}
      BY <1>2, SoundType
    <3>2. fs' = [fs EXCEPT ![0].wh = wh, ![0].opq = opq]
      BY <1>2, <1>4, <2>1, ZeroFirst DEF SoundBranches, BranchStates
    <3>3. Erased(q) = [fs[0] EXCEPT !.wh = wh, !.opq = opq]
      BY <1>2, <3>1 DEF SoundBranches, BranchStates
    <3> HIDE DEF wh, opq, Erased
    <3> QED BY <1>2, <3>2, <3>3, ZeroFirst DEF SoundBranches, BranchStates
  <2>3. Erased(q) \in SoundBranches
    BY <1>2, MarksSound
  <2>4. Erased(q).node = fs[0].node /\ Erased(q).wh \subseteq fs[0].wh
    BY <1>2, SoundType DEF BranchStates
  <2> HIDE DEF Erased
  <2>5. /\ AllSound' /\ fs'[0] = Erased(q)
        /\ \A x \in Branches : fs'[x].node = fs[x].node
    BY <1>2, <2>2, <2>3, <2>4, WriteFirst
  <2>6. pc' = "clean" /\ call' = call /\ UNCHANGED oops
    BY <2>1 DEF Goto
  <2>7. Old' = Old /\ Source' = Source /\ Replaceable' = Replaceable
        /\ \A x : fs'[0].node[x] = fs[0].node[x]
    BY <1>4, <2>5, <2>6, NodesStay
  <2>8. Begun'
    BY <1>3, <2>6, <2>7 DEF Begun, Top
  <2>9. RenameInv'
    BY <1>3, <2>4, <2>5, <2>6, <2>7, <2>8 DEF RenameInv, Steps
  <2> QED BY <1>2, <2>5, <2>6, <2>9, RenameGoesOn
<1>7. CASE Returns("error") /\ UNCHANGED fs
  <2>1. AllSound'
    BY <1>2, <1>7 DEF AllSound, Pristine
  <2> QED BY <1>2, <1>7, <2>1, ReturnsSound
<1> QED BY <1>5, <1>6, <1>7 DEF delete_whiteouts

\* What aiming the destination's dentry leaves alone.
LEMMA AimedSame ==
    ASSUME TypeInv, pc = "rename"
    PROVE  /\ Aimed \in Calls
           /\ Aimed.op = call.op /\ Aimed.old = call.old /\ Aimed.dir = call.dir
           /\ Aimed.old_bstart = call.old_bstart /\ Aimed.stage = call.stage
           /\ Aimed.moved = call.moved /\ Aimed.wh_old = call.wh_old
           /\ Aimed.do_copyup = call.do_copyup /\ Aimed.revert = call.revert
           /\ call.stage # "back" => Aimed.o = call.o
<1>1. Aimed \in Calls /\ call \in Calls
  BY AimedTyped, InCall
<1> DEFINE d == Pointed(fs, Target, To, Branch)
<1> HIDE DEF d
<1>2. CASE call.stage = "back"
  <2>1. Aimed \in {call, [call EXCEPT !.o = d]}
    BY <1>2 DEF Aimed, d
  <2> QED BY <1>1, <1>2, <2>1 DEF Calls
<1>3. CASE call.stage # "back"
  <2>1. Aimed \in {call, [call EXCEPT !.n = d]}
    BY <1>3 DEF Aimed, d
  <2> QED BY <1>1, <1>3, <2>1 DEF Calls
<1> QED BY <1>2, <1>3

\* In what state do_rename works.
LEMMA RenameAt ==
    ASSUME Inv, pc = "rename", ~oops
    PROVE  /\ Branch \in Branches /\ From \in Names /\ To \in Names /\ To = Twin[From]
           /\ From # To
           /\ ~ReadOnly <=> Branch = 0
           /\ call.stage \in {"first", "second", "back"}
           /\ call.stage = "first" =>
                Begun /\ Cleaned /\ Branch = call.old_bstart /\ From = Old /\ To = New
           /\ call.stage = "second" =>
                StillBelow /\ Copied /\ ~ReadOnly /\ From = Old /\ To = New
           /\ call.stage = "back" => ~Reliable
           /\ Old \notin fs[0].wh /\ call.op = "rename" /\ call.old_bstart \in Branches
           /\ SoundInv /\ AllSound /\ Setting /\ fs \in [Branches -> SoundBranches]
           /\ Pristine
<1>1. /\ call \in Calls /\ fs \in [Branches -> SoundBranches] /\ Pristine /\ Setting
      /\ call.op = "rename" /\ RenameInv /\ SoundInv /\ AllSound /\ Old # New
  BY WhoseStep DEF Inv, AllSound
<1>2. /\ Branch \in Branches /\ From \in Names /\ To \in Names
      /\ call.stage = "second" => ~ReadOnly
  BY AimedTyped DEF Inv
<1>3. ~ReadOnly <=> Branch = 0
  BY <1>1, <1>2, OnlyFirst DEF ReadOnly
<1>4. /\ call.stage \in {"first", "second", "back"}
      /\ call.stage = "first" => Branch = call.old_bstart
      /\ call.stage # "back" => From = Old /\ To = New
      /\ From # To /\ To = Twin[From] /\ call.old_bstart \in Branches
  <2>1. call.stage \in {"first", "second", "back"} /\ call.old_bstart \in Branches
    BY <1>1, CallFields
  <2>2. call.stage = "first" => Branch = call.old_bstart
    BY DEF Branch
  <2>3. call.stage # "back" => From = Old /\ To = New
    BY DEF From, To, New, Old
  <2>4. From # To /\ To = Twin[From]
    BY <1>2, NamesTwin, TwinAssumption DEF To
  <2> QED BY <2>1, <2>2, <2>3, <2>4
<1>5. /\ call.stage = "first" => Begun /\ Cleaned
      /\ call.stage = "second" => StillBelow /\ Copied
      /\ call.stage = "back" => ~Reliable
      /\ Old \notin fs[0].wh
  BY <1>1 DEF RenameInv
<1> QED BY <1>1, <1>2, <1>3, <1>4, <1>5

\* After the second rename the call goes on to the opaque mark.
LEMMA ToOpaque ==
    ASSUME SoundInv, AllSound', NEW c \in Calls, c.op = "rename", c.stage # "back",
           c.old \notin fs'[0].wh, Goto("opaque", c),
           \/ /\ fs'[0].node[c.old] = None
              /\ c.dir => fs'[0].node[Twin[c.old]] = Dir
              /\ c.moved = {0} /\ c.o.bstart = 0 /\ c.wh_old = "whiteout"
           \/ /\ ~Reliable /\ c.moved = {} /\ c.wh_old # "whiteout"
              /\ c.dir /\ c.o.bstart = 0 => fs'[0].node[c.old] = Dir
    PROVE  SoundInv'
<1>1. pc' = "opaque" /\ call' = c /\ UNCHANGED oops
  BY DEF Goto
<1>2. Old' = c.old /\ New' = Twin[c.old]
  BY <1>1 DEF Old, New
<1>3. Reliable' = Reliable
  BY DEF Reliable
<1>4. HasMoved' \/ Abandoned'
  BY <1>1, <1>2, <1>3 DEF HasMoved, Abandoned, Top
<1>5. RenameInv'
  BY <1>1, <1>2, <1>4 DEF RenameInv, Steps
<1> QED BY <1>1, <1>5, RenameGoesOn

LEMMA RenameUnlinkSound ==
    ASSUME Inv, do_rename_unlink
    PROVE  SoundInv'
<1>1. pc = "rename" /\ ~oops /\ To \in fs[Branch].wh /\ TypeInv
  BY DEF do_rename_unlink, At, Inv
<1>2. /\ Branch \in Branches /\ (~ReadOnly <=> Branch = 0) /\ SoundInv /\ AllSound
      /\ fs \in [Branches -> SoundBranches] /\ Pristine
      /\ Old \notin fs[0].wh /\ call.op = "rename" /\ call.old_bstart \in Branches
      /\ call.stage \in {"first", "second", "back"} /\ To \in Names
  BY <1>1, RenameAt
<1>3. fs[Branch].node[To] = None
  BY <1>1, <1>2, SoundType DEF Unambiguous
<1>4. Branch = 0
  BY <1>1, <1>2 DEF Pristine
<1>5. fs[0] \in SoundBranches
  BY <1>2, <1>4
<1>6. CASE fs' = DelWhiteout(fs, Branch, To) /\ Goto("rename", Aimed)
  <2> DEFINE e == [fs[0] EXCEPT !.wh = @ \ {To}]
  <2>1. e \in SoundBranches /\ fs' = [fs EXCEPT ![0] = e]
    <3>1. e \in SoundBranches
      BY <1>2, <1>5, MarksSound
    <3>2. fs' = [fs EXCEPT ![0] = e]
      BY <1>4, <1>6 DEF DelWhiteout
    <3> QED BY <3>1, <3>2
  <2>2. e.node = fs[0].node /\ e.wh \subseteq fs[0].wh /\ e.opq = fs[0].opq
    BY <1>5, SoundType
  <2> HIDE DEF e
  <2>3. AllSound' /\ \A x \in Branches : fs'[x].node = fs[x].node
    BY <1>2, <2>1, <2>2, WriteFirst
  <2>4. fs'[0].wh \subseteq fs[0].wh /\ fs'[0].opq = fs[0].opq
    BY <1>2, <2>1, <2>2, WriteFirst
  <2>5. pc' = "rename" /\ call' = Aimed /\ UNCHANGED oops
    BY <1>6 DEF Goto
  <2>6. /\ call'.op = "rename" /\ call'.old = call.old /\ call'.dir = call.dir
        /\ call'.old_bstart = call.old_bstart /\ call'.stage = call.stage
        /\ call'.moved = call.moved /\ call'.wh_old = call.wh_old
        /\ call'.do_copyup = call.do_copyup /\ call'.revert = call.revert
        /\ call.stage # "back" => call'.o = call.o
    BY <1>1, <1>2, <2>5, AimedSame
  <2>7. /\ Old' = Old /\ New' = New /\ \A q : fs'[0].node[q] = fs[0].node[q]
        /\ Source' = Source /\ Replaceable' = Replaceable
    BY <1>2, <2>3, <2>6, NodesStay
  <2>8. Cleaned => Cleaned'
    BY <2>4, <2>7 DEF Cleaned, Whiteouts, Top
  <2>9. call.stage = "first" => Begun' /\ Cleaned'
    BY <1>1, <2>6, <2>7, <2>8, RenameAt DEF Begun, Top
  <2>10. call.stage = "second" => StillBelow' /\ Copied'
    BY <1>1, <2>6, <2>7, <2>8, RenameAt DEF StillBelow, Copied, Top
  <2>11. call.stage = "back" => ~Reliable'
    BY <1>1, RenameAt DEF Reliable
  <2>12. RenameInv'
    BY <1>2, <2>4, <2>5, <2>6, <2>7, <2>9, <2>10, <2>11 DEF RenameInv, Steps
  <2> QED BY <1>2, <2>3, <2>5, <2>6, <2>12, RenameGoesOn
<1>7. CASE "unlink" \in Faults /\ DoRenameReturns(Aimed, "error") /\ UNCHANGED fs
  <2>1. AllSound' /\ fs' = fs /\ ~Reliable
    BY <1>2, <1>7 DEF AllSound, Pristine, Reliable
  <2>2. CASE Returns("error")
    BY <1>2, <2>1, <2>2, ReturnsSound
  <2>3. CASE Aimed.stage = "second" /\ Goto("opaque", [Aimed EXCEPT !.err = "error"])
    <3> DEFINE c == [Aimed EXCEPT !.err = "error"]
    <3>1. call.stage = "second" /\ StillBelow /\ Copied
      BY <1>1, <2>3, AimedSame, RenameAt
    <3>2. c \in Calls
      BY <1>1, AimedSame, SetLocal
    <3>3. /\ c.op = Aimed.op /\ c.stage = Aimed.stage /\ c.old = Aimed.old
          /\ c.moved = Aimed.moved /\ c.wh_old = Aimed.wh_old /\ c.dir = Aimed.dir
          /\ c.o = Aimed.o
      BY <1>1, AimedSame DEF Calls
    <3>4. /\ c.op = "rename" /\ c.stage = "second" /\ c.old = Old
          /\ c.moved = call.moved /\ c.wh_old = call.wh_old /\ c.dir = call.dir
          /\ c.o = call.o
      BY <1>1, <1>2, <3>1, <3>3, AimedSame DEF Old
    <3>5. Goto("opaque", c)
      BY <2>3
    <3> HIDE DEF c
    <3>6. /\ c.moved = {} /\ c.wh_old # "whiteout"
          /\ c.dir /\ c.o.bstart = 0 => fs'[0].node[c.old] = Dir
      BY <2>1, <3>1, <3>4 DEF StillBelow, Source, Copied, Top
    <3> QED BY <1>2, <2>1, <3>2, <3>4, <3>5, <3>6, ToOpaque
  <2> QED BY <1>7, <2>2, <2>3 DEF DoRenameReturns
<1> QED BY <1>3, <1>4, <1>2, <1>6, <1>7 DEF do_rename_unlink

\* What the lower rename leaves in the writable branch.
LEMMA RenamedThere ==
    ASSUME NEW br, NEW s \in Names, NEW t \in Names, s # t, Twin[t] = s
    PROVE  /\ Renamed(br, s, t).node[s] = None
           /\ Renamed(br, s, t).node[t] = br.node[s]
           /\ s \notin br.wh => s \notin Renamed(br, s, t).wh
<1>1. s \in Subtree(s) /\ t \in Subtree(t) /\ t \notin Subtree(s)
  BY Apart DEF Subtree
<1>2. s \in Paths /\ t \in Paths /\ s \notin Below(t)
  BY BelowName DEF Names
<1> QED BY <1>1, <1>2 DEF Renamed

LEMMA DoRenameSound ==
    ASSUME Inv, do_rename
    PROVE  SoundInv'
<1> DEFINE c     == [Aimed EXCEPT !.wh_old = IF call.stage = "back" THEN @ ELSE "whiteout"]
           there == [c EXCEPT !.moved = IF call.stage = "back" THEN @ \ {Branch}
                                        ELSE @ \cup {Branch}]
<1>1. pc = "rename" /\ ~oops /\ To \notin fs[Branch].wh /\ TypeInv
  BY DEF do_rename, At, Inv
<1>2. /\ Branch \in Branches /\ From \in Names /\ To \in Names /\ To = Twin[From]
      /\ From # To /\ Twin[To] = From /\ (~ReadOnly <=> Branch = 0)
      /\ call.stage \in {"first", "second", "back"}
      /\ Old \notin fs[0].wh /\ call.op = "rename" /\ call.old_bstart \in Branches
      /\ SoundInv /\ AllSound /\ Setting /\ fs[0] \in SoundBranches
      /\ call \in Calls
  BY <1>1, RenameAt, NamesTwin, TwinAssumption, ZeroFirst, InCall DEF Inv
<1>3. /\ call.stage = "first" =>
            Begun /\ Cleaned /\ Branch = call.old_bstart /\ From = Old /\ To = New
      /\ call.stage = "second" =>
            StillBelow /\ Copied /\ ~ReadOnly /\ From = Old /\ To = New
  BY <1>1, RenameAt
<1>4. CASE ReadOnly /\ DoRenameReturns(call, "EROFS") /\ UNCHANGED fs
  <2>1. AllSound' /\ fs' = fs
    BY <1>2, <1>4 DEF AllSound, Pristine
  <2>2. CASE Returns("error")
    BY <1>2, <2>1, <2>2, ReturnsSound
  <2>3. CASE /\ call.stage = "first"
             /\ Goto("unlink", [call EXCEPT !.do_copyup = call.old_bstart - 1])
    <3>1. Begun /\ Cleaned /\ call.old_bstart # 0
      BY <1>2, <1>3, <1>4, <2>3
    <3>2. call.old_bstart - 1 \in Branches
      BY <1>2, <3>1, BranchAssumption DEF Branches
    <3>3. /\ pc' = "unlink" /\ UNCHANGED oops
          /\ call' = [call EXCEPT !.do_copyup = call.old_bstart - 1]
      BY <2>3 DEF Goto
    <3>4. /\ call'.op = "rename" /\ call'.old = call.old /\ call'.dir = call.dir
          /\ call'.old_bstart = call.old_bstart /\ call'.stage = "first"
          /\ call'.moved = call.moved /\ call'.wh_old = call.wh_old
          /\ call'.revert = call.revert /\ call'.o = call.o
          /\ call'.do_copyup = call.old_bstart - 1
      BY <1>2, <2>3, <3>3 DEF Calls
    <3>5. /\ Old' = Old /\ New' = New /\ \A q : fs'[0].node[q] = fs[0].node[q]
          /\ Source' = Source /\ Replaceable' = Replaceable
      BY <1>2, <2>1, <3>4, NodesStay
    <3>6. Cleaned'
      BY <2>1, <3>1, <3>5 DEF Cleaned, Whiteouts, Top
    <3>7. StillBelow' /\ Top(Old)' = None /\ call'.o.bstart # 0
      BY <3>1, <3>2, <3>4, <3>5, <3>6 DEF StillBelow, Begun, Top
    <3>8. RenameInv'
      BY <1>2, <2>1, <3>3, <3>4, <3>5, <3>7 DEF RenameInv, Steps
    <3> QED BY <1>2, <2>1, <3>3, <3>4, <3>8, RenameGoesOn
  <2> QED BY <1>3, <1>4, <2>2, <2>3 DEF DoRenameReturns
<1>5. CASE /\ ~ReadOnly
           /\ fs' = [fs EXCEPT ![Branch] = Renamed(@, From, To)]
           /\ DoRenameReturns(there, "none")
  <2> DEFINE e == Renamed(fs[0], From, To)
  <2>1. Branch = 0 /\ e \in SoundBranches /\ fs' = [fs EXCEPT ![0] = e]
    BY <1>1, <1>2, <1>5, RenamedSound
  <2>2. /\ call.stage # "back" => /\ e.node[Old] = None /\ e.node[New] = fs[0].node[Old]
                                  /\ Old \notin e.wh
    BY <1>2, <1>3, RenamedThere
  <2> HIDE DEF e
  <2>3. AllSound' /\ fs'[0] = e
    BY <1>2, <2>1, WriteFirst
  <2>4. /\ there.op = "rename" /\ there.old = Old /\ there.dir = call.dir
        /\ there.stage = call.stage /\ there.do_copyup = call.do_copyup
        /\ call.stage # "back" => /\ there.wh_old = "whiteout"
                                  /\ there.moved = call.moved \cup {0}
                                  /\ there.o = call.o
        /\ there.old_bstart = call.old_bstart
    BY <1>1, <1>2, <2>1, AimedSame DEF Calls, Old
  <2>5. there \in Calls
    <3>1. /\ (IF call.stage = "back" THEN Aimed.wh_old ELSE "whiteout")
                \in {"null", "whiteout", "put"}
          /\ Aimed.moved \in SUBSET Branches /\ Aimed \in Calls
      BY <1>1, AimedSame, CallFields
    <3>2. there = [[Aimed EXCEPT !.wh_old = IF call.stage = "back" THEN Aimed.wh_old
                                            ELSE "whiteout"]
                     EXCEPT !.moved = IF call.stage = "back" THEN Aimed.moved \ {Branch}
                                      ELSE Aimed.moved \cup {Branch}]
      BY <3>1 DEF Calls
    <3> QED BY <1>2, <3>1, <3>2 DEF Calls
  <2> HIDE DEF there, c
  <2>6. CASE Returns("error")
    BY <1>2, <2>3, <2>6, ReturnsSound
  <2>7. CASE there.stage = "first" /\ Goto("unlink", [there EXCEPT !.revert = TRUE])
    <3>1. /\ pc' = "unlink" /\ UNCHANGED oops /\ call' = [there EXCEPT !.revert = TRUE]
      BY <2>7 DEF Goto
    <3>2. /\ call'.op = there.op /\ call'.old = there.old /\ call'.dir = there.dir
          /\ call'.stage = there.stage /\ call'.do_copyup = there.do_copyup
          /\ call'.wh_old = there.wh_old /\ call'.moved = there.moved
          /\ call'.o = there.o /\ call'.old_bstart = there.old_bstart
      BY <2>5, <3>1 DEF Calls
    <3>3. Begun /\ call.old_bstart = 0 /\ call.stage = "first"
      BY <1>3, <2>1, <2>4, <2>7
    <3>4. Old' = Old /\ New' = New
      BY <2>4, <3>2 DEF Old, New
    <3>5. /\ call'.dir = call.dir /\ call'.moved = {0} /\ call'.o = call.o
          /\ call'.wh_old = "whiteout" /\ call'.do_copyup = -1 /\ call'.old_bstart = 0
          /\ call'.op = "rename" /\ call'.stage = "first"
      BY <2>4, <3>2, <3>3 DEF Begun, Source
    <3>6. HasMoved'
      <4>1. /\ fs'[0].node[Old] = None /\ fs'[0].node[New] = fs[0].node[Old]
            /\ call.dir => fs[0].node[Old] = Dir
            /\ call.o.bstart = 0
        BY <2>2, <2>3, <3>3 DEF Begun, Source
      <4> QED BY ONLY <3>4, <3>5, <4>1 DEF HasMoved, Top
    <3>7. RenameInv'
      BY <2>2, <2>3, <3>1, <3>3, <3>4, <3>5, <3>6 DEF RenameInv, Steps
    <3> QED BY <1>2, <2>3, <3>1, <3>5, <3>7, RenameGoesOn
  <2>8. CASE there.stage = "second" /\ Goto("opaque", [there EXCEPT !.err = "none"])
    <3> DEFINE d == [there EXCEPT !.err = "none"]
    <3>1. /\ d \in Calls /\ Goto("opaque", d)
          /\ d.op = there.op /\ d.old = there.old /\ d.dir = there.dir
          /\ d.stage = there.stage /\ d.wh_old = there.wh_old
          /\ d.moved = there.moved /\ d.o = there.o
      <4>1. d \in Calls
        BY <2>5, SetLocal
      <4>2. /\ d.op = there.op /\ d.old = there.old /\ d.dir = there.dir
            /\ d.stage = there.stage /\ d.wh_old = there.wh_old
            /\ d.moved = there.moved /\ d.o = there.o
        BY <2>5 DEF Calls
      <4> QED BY <2>8, <4>1, <4>2
    <3> HIDE DEF d
    <3>2. StillBelow /\ Copied /\ call.stage = "second"
      BY <1>3, <2>4, <2>8
    <3>3. /\ d.op = "rename" /\ d.stage # "back" /\ d.old = Old /\ Twin[d.old] = New
          /\ d.dir = call.dir /\ d.moved = {0} /\ d.o.bstart = 0
          /\ d.wh_old = "whiteout"
      BY <2>4, <3>1, <3>2 DEF StillBelow, Source, Copied, Old, New
    <3>4. /\ fs'[0].node[d.old] = None /\ d.old \notin fs'[0].wh
          /\ d.dir => fs'[0].node[Twin[d.old]] = Dir
      BY <2>2, <2>3, <3>2, <3>3 DEF Copied, Top
    <3> QED BY <1>2, <2>3, <3>1, <3>3, <3>4, ToOpaque
  <2> QED BY <1>5, <2>6, <2>7, <2>8 DEF DoRenameReturns
<1>6. CASE /\ ~ReadOnly
           /\ "rename" \in Faults \/ ~Replaces(Branch, From, To)
           /\ DoRenameReturns(c, "error") /\ UNCHANGED fs
  <2>1. AllSound' /\ Branch = 0 /\ ~Replaces(Branch, From, To)
    BY <1>2, <1>6 DEF AllSound, Pristine, Setting
  <2>2. CASE Returns("error")
    BY <1>2, <2>1, <2>2, ReturnsSound
  <2>3. c.stage = call.stage
    BY <1>1, AimedSame DEF Calls
  <2>4. ASSUME call.stage = "second" PROVE FALSE
    <3>1. StillBelow /\ Copied /\ From = Old /\ To = New
      BY <1>3, <2>4
    <3>2. Replaces(0, Old, New)
      BY <3>1 DEF Replaces, StillBelow, Copied, Replaceable, Cleaned, Top
    <3> QED BY <2>1, <3>1, <3>2
  <2> HIDE DEF c
  <2> QED BY <1>6, <2>2, <2>3, <2>4 DEF DoRenameReturns
<1> QED BY <1>4, <1>5, <1>6 DEF do_rename

-----------------------------------------------------------------------------
(* The rest of unionfs_rename_whiteout.                                    *)

\* The branch of the loop over older destinations.
LEMMA LeftThere ==
    ASSUME call \in Calls, Left # {}
    PROVE  /\ Rightmost(Left) \in Branches
           /\ Rightmost(Left) - 1 \in -1 .. NB - 1
           /\ call.old_bstart # 0
<1>1. Left \in SUBSET Branches
  BY DEF Left
<1>2. Rightmost(Left) \in Left
  BY <1>1, RightmostIsGreatest
<1>3. Rightmost(Left) \in Branches /\ Rightmost(Left) < call.old_bstart
  BY <1>2 DEF Left
<1> QED BY <1>3, BranchBefore, ZeroFirst

LEMMA UnlinkLeftSound ==
    ASSUME Inv, unlink_left
    PROVE  SoundInv'
<1> DEFINE i      == Rightmost(Left)
           passed == [call EXCEPT !.bindex = i - 1]
           begin  == [call EXCEPT !.bindex = call.do_copyup]
           over   == [call EXCEPT !.bindex = LoopEnd]
           later  == [passed EXCEPT !.do_copyup = i - 1]
           gone   == [passed EXCEPT !.n.hid[i] = "null"]
<1>1. pc = "unlink" /\ ~oops
  BY DEF unlink_left, At
<1>2. /\ call \in Calls /\ fs \in [Branches -> SoundBranches] /\ Setting /\ AllSound
      /\ fs[0] \in SoundBranches /\ SoundInv /\ New \in Names /\ Old \in Names /\ Old # New
      /\ call.op = "rename" /\ RenameInv /\ call.old_bstart \in Branches
      /\ call.stage # "back" /\ Old \notin fs[0].wh
  <2>1. /\ call \in Calls /\ fs \in [Branches -> SoundBranches] /\ Setting /\ AllSound
        /\ fs[0] \in SoundBranches /\ SoundInv /\ New \in Names /\ Old \in Names /\ Old # New
        /\ call.op = "rename" /\ RenameInv
    BY <1>1, WhoseStep DEF Inv, AllSound
  <2> QED BY <1>1, <2>1, CallFields DEF RenameInv
<1>3. \/ call.old_bstart = 0 /\ call.do_copyup = -1 /\ HasMoved
      \/ StillBelow /\ Top(Old) = None /\ call.o.bstart # 0
  BY <1>1, <1>2 DEF RenameInv
<1>4. ASSUME Left # {}
      PROVE  /\ i \in Branches /\ StillBelow /\ Top(Old) = None /\ call.o.bstart # 0
             /\ (~IsRobranch(i) <=> i = 0)
  BY <1>2, <1>3, <1>4, LeftThere, OnlyFirst
<1>5. CASE Left = {} /\ call.do_copyup = -1 /\ Goto("opaque", over) /\ UNCHANGED fs
  <2>1. HasMoved
    BY <1>3, <1>5, ZeroFirst DEF StillBelow
  <2>2. AllSound' /\ fs' = fs
    BY <1>2, <1>5 DEF AllSound, Pristine
  <2>3. over \in Calls
    <3>1. LoopEnd \in -1 .. NB - 1
      BY <1>2, CallFields, BranchBefore DEF LoopEnd
    <3> QED BY <1>2, <3>1, SetLocal
  <2>4. /\ over.op = "rename" /\ over.stage = call.stage /\ over.old = Old
        /\ over.dir = call.dir /\ over.moved = call.moved /\ over.o = call.o
        /\ over.wh_old = call.wh_old
    BY <1>2 DEF Calls, Old
  <2> HIDE DEF over
  <2>5. /\ fs'[0].node[over.old] = None /\ over.old \notin fs'[0].wh
        /\ over.dir => fs'[0].node[Twin[over.old]] = Dir
        /\ over.moved = {0} /\ over.o.bstart = 0 /\ over.wh_old = "whiteout"
    BY <1>2, <2>1, <2>2, <2>4 DEF HasMoved, Top, New, Old
  <2> QED BY <1>2, <1>5, <2>2, <2>3, <2>4, <2>5, ToOpaque
\* What is known of a source below stays where the writable branch loses at most
\* the new name.
<1>6. ASSUME StillBelow, Top(Old) = None, call.o.bstart # 0,
             \/ fs' = fs
             \/ fs[0].node[New] # Dir /\ fs' = SetNode(fs, 0, New, None),
             UNCHANGED oops,
             call'.op = call.op, call'.old = call.old, call'.dir = call.dir,
             call'.stage = call.stage, call'.moved = call.moved,
             call'.old_bstart = call.old_bstart, call'.wh_old = call.wh_old,
             call'.revert = call.revert, call'.o = call.o,
             call'.do_copyup \in Branches,
             \/ pc' = "unlink"
             \/ pc' = "copyup" /\ call'.bindex # -1
      PROVE  SoundInv'
  <2>1. Old' = Old /\ New' = New
    BY <1>6 DEF Old, New
  <2>2. /\ AllSound' /\ Source' /\ Replaceable' /\ Cleaned' /\ Top(Old)' = None
        /\ fs'[0].wh = fs[0].wh
    <3>1. CASE fs' = fs
      <4>1. AllSound'
        BY <1>2, <3>1 DEF AllSound, Pristine
      <4>2. Source' /\ Replaceable' /\ Cleaned' /\ Top(Old)' = None
        BY <1>6, <2>1, <3>1 DEF StillBelow, Source, Replaceable, Cleaned, Top, Whiteouts
      <4> QED BY <3>1, <4>1, <4>2
    <3>2. CASE fs[0].node[New] # Dir /\ fs' = SetNode(fs, 0, New, None)
      <4> DEFINE e == [fs[0] EXCEPT !.node[New] = None]
      <4>1. e \in SoundBranches /\ fs' = [fs EXCEPT ![0] = e]
        <5>1. e \in SoundBranches
          BY <1>2, <3>2, NodeSound DEF Nodes
        <5>2. fs' = [fs EXCEPT ![0] = e]
          BY <3>2 DEF SetNode
        <5> QED BY <5>1, <5>2
      <4>2. e.node = [fs[0].node EXCEPT ![New] = None] /\ e.wh = fs[0].wh
        BY <1>2, SoundType DEF BranchStates
      <4>3. e.node[New] = None /\ e.node[Old] = fs[0].node[Old]
        BY <1>2, <4>2, SoundType DEF Names
      <4> HIDE DEF e
      <4>4. AllSound' /\ fs'[0] = e /\ \A b \in Branches : b # 0 => fs'[b] = fs[b]
        BY <1>2, <4>1, WriteFirst
      <4>5. Source' /\ Replaceable' /\ Cleaned' /\ Top(Old)' = None
        BY <1>2, <1>6, <2>1, <4>3, <4>4
           DEF StillBelow, Source, Replaceable, Cleaned, Top
      <4> QED BY <4>2, <4>4, <4>5
    <3> QED BY <1>6, <3>1, <3>2
  <2>3. StillBelow' /\ call'.o.bstart # 0
    BY <1>6, <2>2 DEF StillBelow
  <2>4. RenameInv'
    BY <1>2, <1>6, <2>1, <2>2, <2>3 DEF RenameInv, Steps
  <2> QED BY <1>2, <1>6, <2>2, <2>4, RenameGoesOn
<1>7. CASE /\ Left = {} /\ call.do_copyup # -1 /\ Goto("copyup", begin) /\ UNCHANGED fs
  <2>1. StillBelow /\ Top(Old) = None /\ call.o.bstart # 0
    BY <1>3, <1>7
  <2>2. pc' = "copyup" /\ call' = begin /\ UNCHANGED oops
    BY <1>7 DEF Goto
  <2>3. /\ call'.op = call.op /\ call'.old = call.old /\ call'.dir = call.dir
        /\ call'.stage = call.stage /\ call'.moved = call.moved
        /\ call'.old_bstart = call.old_bstart /\ call'.wh_old = call.wh_old
        /\ call'.revert = call.revert /\ call'.o = call.o
        /\ call'.do_copyup = call.do_copyup /\ call'.bindex = call.do_copyup
    BY <1>2, <2>2 DEF Calls
  <2>4. call'.do_copyup \in Branches /\ call'.bindex # -1
    BY <1>7, <2>1, <2>3 DEF StillBelow
  <2> QED BY <1>6, <1>7, <2>1, <2>2, <2>3, <2>4
<1>8. CASE Left # {} /\ IsRobranch(i) /\ UNCHANGED fs /\ Goto("unlink", later)
  <2>1. i - 1 \in Branches
    BY <1>4, <1>8, BranchAssumption DEF Branches
  <2>2. pc' = "unlink" /\ call' = later /\ UNCHANGED oops
    BY <1>8 DEF Goto
  <2>3. /\ call'.op = call.op /\ call'.old = call.old /\ call'.dir = call.dir
        /\ call'.stage = call.stage /\ call'.moved = call.moved
        /\ call'.old_bstart = call.old_bstart /\ call'.wh_old = call.wh_old
        /\ call'.revert = call.revert /\ call'.o = call.o
        /\ call'.do_copyup = i - 1
    BY <1>2, <2>2 DEF Calls
  <2> QED BY <1>4, <1>6, <1>8, <2>1, <2>2, <2>3
<1>9. CASE /\ Left # {} /\ ~IsRobranch(i) /\ fs[i].node[New] \in Values
           /\ fs' = SetNode(fs, i, New, None)
           /\ Goto("unlink", IF i = call.new_bstart THEN passed ELSE gone)
  <2>1. i = 0 /\ fs[0].node[New] # Dir /\ fs' = SetNode(fs, 0, New, None)
    BY <1>4, <1>9, ValuesAssumption
  <2>2. pc' = "unlink" /\ call' \in {passed, gone} /\ UNCHANGED oops
    BY <1>9 DEF Goto
  <2>3. /\ call'.op = call.op /\ call'.old = call.old /\ call'.dir = call.dir
        /\ call'.stage = call.stage /\ call'.moved = call.moved
        /\ call'.old_bstart = call.old_bstart /\ call'.wh_old = call.wh_old
        /\ call'.revert = call.revert /\ call'.o = call.o
        /\ call'.do_copyup = call.do_copyup
    BY <1>2, <2>2 DEF Calls
  <2>4. call'.do_copyup \in Branches
    BY <1>4, <1>9, <2>3 DEF StillBelow
  <2> QED BY <1>4, <1>6, <1>9, <2>1, <2>2, <2>3, <2>4
<1>10. CASE /\ Left # {} /\ UNCHANGED fs
            /\ IF call.revert THEN Goto("revert", [call EXCEPT !.bindex = i])
               ELSE Goto("unlink", passed)
  <2>1. Goto("unlink", passed)
    BY <1>4, <1>10 DEF StillBelow
  <2>2. pc' = "unlink" /\ call' = passed /\ UNCHANGED oops
    BY <2>1 DEF Goto
  <2>3. /\ call'.op = call.op /\ call'.old = call.old /\ call'.dir = call.dir
        /\ call'.stage = call.stage /\ call'.moved = call.moved
        /\ call'.old_bstart = call.old_bstart /\ call'.wh_old = call.wh_old
        /\ call'.revert = call.revert /\ call'.o = call.o
        /\ call'.do_copyup = call.do_copyup
    BY <1>2, <2>2 DEF Calls
  <2>4. call'.do_copyup \in Branches
    BY <1>4, <1>10, <2>3 DEF StillBelow
  <2> QED BY <1>4, <1>6, <1>10, <2>2, <2>3, <2>4
<1> HIDE DEF i, passed, begin, over, later, gone
<1> QED BY <1>5, <1>7, <1>8, <1>9, <1>10
    DEF unlink_left, i, passed, begin, over, later, gone

-----------------------------------------------------------------------------
(* The copyup of the source.                                               *)

\* A pointer in the first branch is where the dentry begins.
LEMMA PointedFirst ==
    ASSUME NEW f, NEW d, NEW p
    PROVE  Pointed(f, d, p, 0).bstart = 0
<1> DEFINE range == {c \in Branches : /\ Leftmost({d.bstart, 0}) =< c
                                      /\ c =< Rightmost({d.bend, 0})}
           kept == {0} \cup {c \in range :
                                \/ d.hid[c] = "dead"
                                \/ d.hid[c] = "live" /\ f[c].node[p] # None}
<1>1. Pointed(f, d, p, 0).bstart = Leftmost(kept)
  BY DEF Pointed
<1>2. kept \in SUBSET Branches /\ 0 \in kept
  BY ZeroFirst
<1> HIDE DEF kept
<1> QED BY <1>1, <1>2, FirstOfSome

\* A write of the old name in the writable branch leaves the rest as it was.
LEMMA OldWritten ==
    ASSUME Inv, pc # "idle", ~oops, Old \notin fs[0].wh, Top(Old) # Dir, NEW x \in Nodes,
           fs' = SetNode(fs, 0, Old, x), call'.old = call.old
    PROVE  /\ AllSound' /\ Old' = Old /\ New' = New /\ Top(Old)' = x
           /\ fs'[0].wh = fs[0].wh /\ fs'[0].opq = fs[0].opq
           /\ \A q : q # Old => fs'[0].node[q] = fs[0].node[q]
           /\ \A b \in Branches : b # 0 => fs'[b] = fs[b]
<1> DEFINE e == [fs[0] EXCEPT !.node[Old] = x]
<1>1. /\ fs[0] \in SoundBranches /\ AllSound /\ Old \in Names /\ New \in Names
  BY WhoseStep DEF AllSound
<1>2. e \in SoundBranches
  BY <1>1, NodeSound DEF Top
<1>3. fs' = [fs EXCEPT ![0] = e]
  BY DEF SetNode
<1>4. e.node = [fs[0].node EXCEPT ![Old] = x] /\ e.wh = fs[0].wh /\ e.opq = fs[0].opq
  BY <1>1, SoundType DEF BranchStates
<1>5. e.node[Old] = x /\ \A q : q # Old => e.node[q] = fs[0].node[q]
  BY <1>1, <1>4, SoundType DEF Names
<1> HIDE DEF e
<1>6. AllSound' /\ fs'[0] = e /\ \A b \in Branches : b # 0 => fs'[b] = fs[b]
  BY <1>1, <1>2, <1>3, WriteFirst
<1>7. Old' = Old /\ New' = New
  BY DEF Old, New
<1> QED BY <1>4, <1>5, <1>6, <1>7 DEF Top

\* So what is known of a source in another branch stays.
LEMMA SourceStays ==
    ASSUME Inv, pc # "idle", ~oops, Old \notin fs[0].wh, Top(Old) # Dir, NEW x \in Nodes,
           fs' = SetNode(fs, 0, Old, x), StillBelow,
           call'.old = call.old, call'.dir = call.dir, call'.moved = call.moved,
           call'.old_bstart = call.old_bstart, call'.do_copyup = call.do_copyup,
           call'.revert = call.revert, call'.wh_old # "whiteout"
    PROVE  StillBelow'
<1>1. /\ Old' = Old /\ New' = New
      /\ fs'[0].wh = fs[0].wh /\ fs'[0].opq = fs[0].opq
      /\ \A q : q # Old => fs'[0].node[q] = fs[0].node[q]
      /\ \A b \in Branches : b # 0 => fs'[b] = fs[b]
  BY OldWritten
<1>2. Old # New /\ Old \in Names /\ New \in Names /\ call.old_bstart \in Branches
  BY WhoseStep, CallFields
<1>3. Old \notin Children(New)
  BY <1>2, PathsAssumption DEF Children, Names
<1>4. Source'
  BY <1>1, <1>2 DEF StillBelow, Source
<1>5. Replaceable'
  BY <1>1, <1>2, <1>3 DEF StillBelow, Replaceable, Top
<1>6. Cleaned'
  BY <1>1, <1>2 DEF StillBelow, Cleaned, Whiteouts, Top
<1> QED BY <1>4, <1>5, <1>6 DEF StillBelow

\* A finished copy.
LEMMA CopyupDoneSound ==
    ASSUME Inv, pc \in {"copyup", "copydata"}, ~oops, Top(Old) # Dir,
           NEW x \in Nodes, fs' = SetNode(fs, 0, Old, x),
           call.op = "rename" => x # None /\ (x = Dir) = call.dir,
           NEW c \in Calls, CopyupDone(c), c.o.bstart = 0,
           c.op = call.op, c.old = call.old, c.dir = call.dir, c.moved = call.moved,
           c.old_bstart = call.old_bstart, c.do_copyup = call.do_copyup,
           c.revert = call.revert, c.wh_old = call.wh_old
    PROVE  SoundInv'
<1> DEFINE l == [c EXCEPT !.stage = "second"]
           r == [c EXCEPT !.stage = "second", !.bwh_old = c.bindex,
                          !.wh_old = IF @ = "null" THEN @ ELSE "put"]
<1>1. /\ call.op = "rename" => RenameInv
      /\ call.op = "link" => LinkInv
      /\ Old \notin fs[0].wh /\ call \in Calls /\ SoundInv
  <2>1. /\ call.op = "rename" => RenameInv
        /\ call.op = "link" => LinkInv
        /\ call \in Calls /\ SoundInv
    BY WhoseStep DEF Inv
  <2> QED BY <2>1, CallFields DEF RenameInv, LinkInv
<1>2. /\ l.op = c.op /\ l.old = c.old /\ l.stage = "second"
  BY DEF Calls
<1>3. /\ r.op = c.op /\ r.old = c.old /\ r.stage = "second" /\ r.dir = c.dir
      /\ r.moved = c.moved /\ r.old_bstart = c.old_bstart /\ r.do_copyup = c.do_copyup
      /\ r.revert = c.revert /\ r.wh_old # "whiteout" /\ r.o = c.o
  BY DEF Calls
<1> HIDE DEF l, r
<1>4. CASE c.op = "link" /\ Goto("link", l)
  <2>1. pc' = "link" /\ call' = l /\ UNCHANGED oops
    BY <1>4 DEF Goto
  <2>2. AllSound' /\ Old' = Old /\ New' = New /\ fs'[0].wh = fs[0].wh
    BY <1>1, <1>2, <2>1, OldWritten
  <2>3. LinkInv'
    BY <1>1, <1>2, <1>4, <2>1, <2>2 DEF LinkInv
  <2> QED BY <1>1, <1>2, <1>4, <2>1, <2>2, <2>3, LinkGoesOn
<1>5. CASE c.op # "link" /\ Goto("rename", r)
  <2>1. pc' = "rename" /\ call' = r /\ UNCHANGED oops
    BY <1>5 DEF Goto
  <2>2. AllSound' /\ Old' = Old /\ fs'[0].wh = fs[0].wh /\ Top(Old)' = x
    BY <1>1, <1>3, <2>1, OldWritten
  <2>3. call.op = "rename" /\ StillBelow
    BY <1>1, <1>5, CallFields DEF RenameInv
  <2>4. StillBelow'
    BY <1>1, <1>3, <2>1, <2>3, SourceStays
  <2>5. Copied'
    BY <1>3, <2>1, <2>2, <2>3 DEF Copied
  <2>6. RenameInv'
    BY <1>1, <1>3, <2>1, <2>2, <2>4, <2>5 DEF RenameInv, Steps
  <2> QED BY <1>1, <1>3, <2>1, <2>2, <2>3, <2>6, RenameGoesOn
<1> QED BY <1>4, <1>5 DEF CopyupDone, l, r

LEMMA CopyupCreateSound ==
    ASSUME Inv, copyup_create
    PROVE  SoundInv'
<1> DEFINE i    == Rightmost(Tried)
           next == [call EXCEPT !.bindex = i - 1]
           fail == [call EXCEPT !.err = "error"]
           n == fs[call.old_bstart].node[IF call.old_bstart \in call.moved
                                         THEN New ELSE Old]
           x == IF n = Dir THEN Dir ELSE Empty
           d == Pointed(fs, call.o, Old, i)
           copy == CopiedTo(i)
<1>1. pc = "copyup" /\ ~oops
  BY DEF copyup_create, At
<1>2. /\ call \in Calls /\ Setting /\ AllSound /\ SoundInv /\ Old \in Names
      /\ call.op = "rename" => RenameInv
      /\ call.op = "link" => LinkInv
      /\ call.op \in {"rename", "link"} /\ call.bindex \in -1 .. NB - 1
      /\ Old \notin fs[0].wh
  <2>1. /\ call \in Calls /\ Setting /\ AllSound /\ SoundInv /\ Old \in Names
        /\ call.op = "rename" => RenameInv
        /\ call.op = "link" => LinkInv
    BY <1>1, WhoseStep DEF Inv, AllSound
  <2> QED BY <2>1, CallFields DEF RenameInv, LinkInv
<1>3. Tried # {} => i = 0
  <2>1. Tried \subseteq {0} /\ Tried \in SUBSET Branches
    BY <1>2, ZeroFirst DEF Setting, Tried
  <2> QED BY <2>1, RightmostIsGreatest
<1>4. call.op = "rename" => /\ StillBelow /\ Top(Old) = None
                            /\ call.dir => call.o.bstart # 0
                            /\ Reliable => call.bindex # -1
                            /\ n # None /\ (n = Dir) = call.dir /\ call.stage # "back"
  BY <1>1, <1>2 DEF RenameInv, StillBelow, Source
<1>5. call.op = "link" => New \notin fs[0].wh
  BY <1>1, <1>2 DEF LinkInv
\* Neither a failed attempt nor the end of the loop changes the branches.
<1>6. CASE Tried = {} /\ CopyupFails /\ UNCHANGED fs
  <2>1. AllSound' /\ fs' = fs
    BY <1>2, <1>6 DEF AllSound, Pristine
  <2>2. CASE Returns("error")
    BY <1>2, <2>1, <2>2, ReturnsSound
  <2>3. CASE call.op # "link" /\ Goto("opaque", fail)
    <3>1. call.op = "rename" /\ ~Reliable
      <4>1. 0 \notin Tried
        BY <1>6
      <4>2. call.bindex = -1
        BY <1>2, <4>1, BranchAssumption DEF Tried
      <4> QED BY <1>2, <1>4, <2>3, <4>2
    <3>2. fail \in Calls
      BY <1>2, SetLocal
    <3>3. /\ fail.op = call.op /\ fail.old = call.old /\ fail.dir = call.dir
          /\ fail.stage = call.stage /\ fail.moved = call.moved
          /\ fail.wh_old = call.wh_old /\ fail.o = call.o
      BY <1>2 DEF Calls
    <3> HIDE DEF fail
    <3>4. /\ fail.old \notin fs'[0].wh /\ fail.moved = {} /\ fail.wh_old # "whiteout"
          /\ ~(fail.dir /\ fail.o.bstart = 0) /\ fail.stage # "back"
      BY <1>2, <1>4, <2>1, <3>1, <3>3 DEF StillBelow, Source, Old
    <3> QED BY <1>2, <2>1, <2>3, <3>1, <3>2, <3>3, <3>4, ToOpaque
  <2> QED BY <1>6, <2>2, <2>3 DEF CopyupFails
<1>7. CASE /\ Tried # {}
           /\ "copyup" \in Faults \/ fs[i].node[Old] # None
           /\ Goto("copyup", next) /\ UNCHANGED fs
  <2>1. AllSound' /\ fs' = fs
    BY <1>2, <1>7 DEF AllSound, Pristine
  <2>2. pc' = "copyup" /\ call' = next /\ UNCHANGED oops
    BY <1>7 DEF Goto
  <2>3. /\ call'.op = call.op /\ call'.old = call.old /\ call'.dir = call.dir
        /\ call'.stage = call.stage /\ call'.moved = call.moved
        /\ call'.old_bstart = call.old_bstart /\ call'.wh_old = call.wh_old
        /\ call'.revert = call.revert /\ call'.o = call.o
        /\ call'.do_copyup = call.do_copyup
    BY <1>2, <2>2 DEF Calls
  <2>4. Old' = Old /\ New' = New
    BY <2>3 DEF Old, New
  <2>5. CASE call.op = "link"
    <3>1. LinkInv'
      BY <1>2, <1>5, <2>1, <2>2, <2>4, <2>5 DEF LinkInv
    <3> QED BY <1>2, <2>1, <2>2, <2>3, <2>5, <3>1, LinkGoesOn
  <2>6. CASE call.op = "rename"
    <3>1. ~Reliable'
      BY <1>3, <1>4, <1>7, <2>6 DEF Reliable, Top
    <3>2. StillBelow' /\ Top(Old)' = None
      BY <1>4, <2>1, <2>3, <2>4, <2>6
         DEF StillBelow, Source, Replaceable, Cleaned, Whiteouts, Top
    <3>3. RenameInv'
      BY <1>2, <1>4, <2>1, <2>2, <2>3, <2>4, <2>6, <3>1, <3>2 DEF RenameInv, Steps
    <3> QED BY <1>2, <2>1, <2>2, <2>3, <2>6, <3>3, RenameGoesOn
  <2> QED BY <1>2, <2>5, <2>6
<1>8. CASE /\ Tried # {} /\ fs[i].node[Old] = None
           /\ fs' = SetNode(fs, i, Old, x)
           /\ IF n = Dir THEN CopyupDone(copy) ELSE Goto("copydata", copy)
  <2>1. i = 0 /\ Top(Old) = None /\ Top(Old) # Dir /\ fs' = SetNode(fs, 0, Old, x)
    BY <1>3, <1>8, ValuesAssumption DEF Top
  <2>2. x \in Nodes /\ (call.op = "rename" => x # None /\ (n = Dir) = call.dir)
        /\ (x = Dir <=> n = Dir)
    BY <1>4, ValuesAssumption DEF Nodes
  <2>3. copy \in Calls
    <3> DEFINE k == [call EXCEPT !.o = d]
    <3>1. d \in Dentries
      BY <1>2, <2>1, CallFields, PointedTyped, ZeroFirst DEF Names
    <3>2. k \in Calls
      <4> HIDE DEF d
      <4> QED BY <1>2, <3>1, SetLocal
    <3>3. copy = [k EXCEPT !.bindex = i]
      BY DEF CopiedTo
    <3> HIDE DEF k, copy
    <3> QED BY <2>1, <3>2, <3>3, BranchBefore, ZeroFirst, SetLocal
  <2>4. /\ copy.op = call.op /\ copy.old = call.old /\ copy.dir = call.dir
        /\ copy.stage = call.stage /\ copy.moved = call.moved
        /\ copy.old_bstart = call.old_bstart /\ copy.wh_old = call.wh_old
        /\ copy.revert = call.revert /\ copy.do_copyup = call.do_copyup
        /\ copy.o = d
    <3> HIDE DEF d
    <3>1. copy = [call EXCEPT !.o = d, !.bindex = i]
      BY DEF CopiedTo, d
    <3> QED BY <1>2, <3>1 DEF Calls
  <2>5. copy.o.bstart = 0
    BY <2>1, <2>4, PointedFirst
  <2> HIDE DEF copy, d, i, x, n
  <2>6. CASE n = Dir /\ CopyupDone(copy)
    BY <1>1, <2>1, <2>2, <2>3, <2>4, <2>5, <2>6, CopyupDoneSound
  <2>7. CASE n # Dir /\ Goto("copydata", copy)
    <3>1. pc' = "copydata" /\ call' = copy /\ UNCHANGED oops
      BY <2>7 DEF Goto
    <3>2. /\ AllSound' /\ Old' = Old /\ New' = New /\ Top(Old)' = Empty
          /\ fs'[0].wh = fs[0].wh
      BY <1>1, <1>2, <2>1, <2>2, <2>4, <2>7, <3>1, OldWritten DEF x
    <3>3. CASE call.op = "link"
      <4>1. LinkInv'
        BY <1>2, <1>5, <3>1, <3>2, <3>3, ValuesAssumption DEF LinkInv
      <4> QED BY <1>2, <2>4, <3>1, <3>2, <3>3, <4>1, LinkGoesOn
    <3>4. CASE call.op = "rename"
      <4>1. call'.wh_old # "whiteout"
        BY <1>4, <2>4, <3>1, <3>4 DEF StillBelow
      <4>2. StillBelow'
        BY <1>1, <1>2, <1>4, <2>1, <2>2, <2>4, <3>1, <3>4, <4>1, SourceStays
      <4>3. RenameInv'
        BY <1>2, <1>4, <2>2, <2>4, <2>5, <2>7, <3>1, <3>2, <3>4, <4>2 DEF RenameInv, Steps
      <4> QED BY <1>2, <2>4, <3>1, <3>2, <3>4, <4>3, RenameGoesOn
    <3> QED BY <1>2, <3>3, <3>4
  <2> QED BY <1>8, <2>6, <2>7
<1> HIDE DEF i, next, fail, n, x, d, copy
<1> QED BY <1>6, <1>7, <1>8 DEF copyup_create, i, next, n, x, copy

LEMMA CopyupDataSound ==
    ASSUME Inv, copyup_data
    PROVE  SoundInv'
<1> DEFINE i    == call.bindex
           next == [call EXCEPT !.bindex = i - 1]
           n == fs[call.old_bstart].node[IF call.old_bstart \in call.moved
                                         THEN New ELSE Old]
<1>1. pc = "copydata" /\ ~oops
  BY DEF copyup_data, At
<1>2. /\ call \in Calls /\ Setting /\ AllSound /\ SoundInv /\ Old \in Names /\ New \in Names
      /\ call.op = "rename" => RenameInv
      /\ call.op = "link" => LinkInv
      /\ call.op \in {"rename", "link"} /\ call.old_bstart \in Branches
      /\ Old \notin fs[0].wh /\ fs \in [Branches -> SoundBranches]
  <2>1. /\ call \in Calls /\ Setting /\ AllSound /\ SoundInv /\ Old \in Names
        /\ New \in Names
        /\ call.op = "rename" => RenameInv
        /\ call.op = "link" => LinkInv
        /\ fs \in [Branches -> SoundBranches]
    BY <1>1, WhoseStep DEF Inv, AllSound
  <2> QED BY <2>1, CallFields DEF RenameInv, LinkInv
<1>3. i = 0
  BY <1>1, <1>2 DEF Inv, TypeInv, InRange, Setting
<1>4. call.op = "rename" => /\ StillBelow /\ Top(Old) = Empty /\ ~call.dir
                            /\ call.o.bstart = 0 /\ n # None /\ (n = Dir) = call.dir
                            /\ call.stage # "back"
  BY <1>1, <1>2 DEF RenameInv, StillBelow, Source
<1>5. call.op = "link" => New \notin fs[0].wh /\ Top(Old) # Dir
  BY <1>1, <1>2 DEF LinkInv
<1>6. Top(Old) # Dir /\ n \in Nodes
  <2>1. Top(Old) # Dir
    BY <1>2, <1>4, <1>5, ValuesAssumption
  <2>2. fs[call.old_bstart].node \in [Paths -> Nodes]
    BY <1>2, SoundType
  <2>3. Old \in Paths /\ New \in Paths
    BY <1>2 DEF Names
  <2> QED BY <2>1, <2>2, <2>3
<1> HIDE DEF n
<1>7. CASE fs' = SetNode(fs, i, Old, n) /\ CopyupDone(call)
  <2>1. CASE call.op = "rename"
    BY <1>1, <1>2, <1>3, <1>4, <1>6, <1>7, <2>1, CopyupDoneSound
  <2>2. CASE call.op = "link"
    <3> DEFINE l == [call EXCEPT !.stage = "second"]
    <3>1. pc' = "link" /\ call' = l /\ UNCHANGED oops
      BY <1>7, <2>2 DEF CopyupDone, Goto
    <3>2. l.op = "link" /\ l.old = call.old /\ l.stage = "second"
      BY <1>2, <2>2 DEF Calls
    <3>3. AllSound' /\ Old' = Old /\ New' = New /\ fs'[0].wh = fs[0].wh
      BY <1>1, <1>2, <1>3, <1>6, <1>7, <3>1, <3>2, OldWritten
    <3>4. LinkInv'
      BY <1>2, <1>5, <2>2, <3>1, <3>3 DEF LinkInv
    <3> QED BY <1>2, <3>1, <3>2, <3>3, <3>4, LinkGoesOn
  <2> QED BY <1>2, <2>1, <2>2
<1>8. CASE /\ "copydata" \in Faults
           /\ fs' = SetNode(fs, i, Old, None) /\ Goto("copyup", next)
  <2>1. pc' = "copyup" /\ call' = next /\ UNCHANGED oops
    BY <1>8 DEF Goto
  <2>2. /\ call'.op = call.op /\ call'.old = call.old /\ call'.dir = call.dir
        /\ call'.stage = call.stage /\ call'.moved = call.moved
        /\ call'.old_bstart = call.old_bstart /\ call'.wh_old = call.wh_old
        /\ call'.revert = call.revert /\ call'.o = call.o
        /\ call'.do_copyup = call.do_copyup
    BY <1>2, <2>1 DEF Calls
  <2>3. None \in Nodes
    BY DEF Nodes
  <2>4. /\ AllSound' /\ Old' = Old /\ New' = New /\ Top(Old)' = None
        /\ fs'[0].wh = fs[0].wh
    BY <1>1, <1>2, <1>3, <1>6, <1>8, <2>2, <2>3, OldWritten
  <2>5. CASE call.op = "link"
    <3>1. LinkInv'
      BY <1>2, <1>5, <2>1, <2>4, <2>5 DEF LinkInv
    <3> QED BY <1>2, <2>1, <2>2, <2>4, <2>5, <3>1, LinkGoesOn
  <2>6. CASE call.op = "rename"
    <3>1. ~Reliable'
      BY <1>8 DEF Reliable
    <3>2. call'.wh_old # "whiteout"
      BY <1>4, <2>2, <2>6 DEF StillBelow
    <3>3. StillBelow'
      BY <1>1, <1>2, <1>3, <1>4, <1>6, <1>8, <2>2, <2>3, <2>6, <3>2, SourceStays
    <3>4. RenameInv'
      BY <1>2, <1>4, <2>1, <2>2, <2>4, <2>6, <3>1, <3>3 DEF RenameInv, Steps
    <3> QED BY <1>2, <2>1, <2>2, <2>4, <2>6, <3>4, RenameGoesOn
  <2> QED BY <1>2, <2>5, <2>6
<1> HIDE DEF i, next
<1> QED BY <1>7, <1>8 DEF copyup_data, i, next, n

-----------------------------------------------------------------------------
(* The end of a rename.                                                    *)

LEMMA OpaqueSound ==
    ASSUME Inv, make_opaque
    PROVE  SoundInv'
<1> DEFINE b    == call.o.bstart
           q    == IF b \in call.moved THEN New ELSE Old
           done == [call EXCEPT !.err = "none"]
           e    == [fs[0] EXCEPT !.opq = @ \cup {q}]
<1>1. pc = "opaque" /\ ~oops
  BY DEF make_opaque, At
<1>2. /\ call \in Calls /\ Setting /\ AllSound /\ SoundInv /\ Old \in Names /\ New \in Names
      /\ call.op = "rename" /\ RenameInv /\ fs[0] \in SoundBranches /\ b \in Branches
  <2>1. /\ call \in Calls /\ Setting /\ AllSound /\ SoundInv /\ Old \in Names
        /\ New \in Names /\ call.op = "rename" /\ RenameInv /\ fs[0] \in SoundBranches
    BY <1>1, WhoseStep DEF Inv, AllSound
  <2> QED BY <2>1, CallFields, DentryFields
<1>3. /\ HasMoved \/ Abandoned
      /\ Old \notin fs[0].wh /\ call.stage # "back"
  BY <1>1, <1>2 DEF RenameInv
<1>4. IsRobranch(b) => b # 0
  BY <1>2, OnlyFirst, ZeroFirst
\* What it goes on with.
<1>5. ASSUME AllSound', UNCHANGED oops, fs'[0].node = fs[0].node, fs'[0].wh = fs[0].wh,
             call'.op = "rename", call'.old = call.old, call'.stage = call.stage,
             call'.wh_old = call.wh_old,
             \/ pc' = "whiteout"
             \/ pc' = "revert" /\ ~Reliable
      PROVE  SoundInv'
  <2>1. Old' = Old /\ Reliable' = Reliable
    BY <1>5 DEF Old, Reliable
  <2>2. RenameInv'
    BY <1>3, <1>5, <2>1 DEF RenameInv, HasMoved, Abandoned, Top, Steps
  <2> QED BY <1>2, <1>5, <2>2, RenameGoesOn
<1>6. CASE ~call.dir /\ Goto("whiteout", call) /\ UNCHANGED fs
  <2>1. AllSound'
    BY <1>2, <1>6 DEF AllSound, Pristine
  <2> QED BY <1>2, <1>5, <1>6, <2>1 DEF Goto
<1>7. CASE /\ call.dir /\ ~IsRobranch(b) /\ fs' = AddOpaque(fs, b, q)
           /\ Goto("whiteout", done)
  <2>1. b = 0
    BY <1>2, <1>7, OnlyFirst
  <2>2. q \in Names /\ fs[0].node[q] = Dir
    BY <1>2, <1>3, <1>7, <2>1 DEF HasMoved, Abandoned, Top
  <2>3. fs' = [fs EXCEPT ![0] = e]
    BY <1>7, <2>1 DEF AddOpaque
  <2> HIDE DEF q
  <2>4. e \in SoundBranches /\ e.node = fs[0].node /\ e.wh = fs[0].wh
    BY <1>2, <2>2, MarksSound, SoundType DEF BranchStates
  <2> HIDE DEF e
  <2>5. AllSound' /\ fs'[0] = e
    BY <1>2, <2>3, <2>4, WriteFirst
  <2>6. pc' = "whiteout" /\ call' = done /\ UNCHANGED oops
    BY <1>7 DEF Goto
  <2>7. /\ call'.op = "rename" /\ call'.old = call.old /\ call'.stage = call.stage
        /\ call'.wh_old = call.wh_old
    BY <1>2, <2>6 DEF Calls
  <2> QED BY <1>5, <2>4, <2>5, <2>6, <2>7
<1>8. CASE /\ "opaque" \in Faults \/ IsRobranch(b)
           /\ Goto("revert", call) /\ UNCHANGED fs
  <2>1. AllSound'
    BY <1>2, <1>8 DEF AllSound, Pristine
  <2>2. ~Reliable
    BY <1>3, <1>4, <1>8 DEF HasMoved, Abandoned, Reliable
  <2> QED BY <1>2, <1>5, <1>8, <2>1, <2>2 DEF Goto
<1> HIDE DEF b, q, done, e
<1> QED BY <1>6, <1>7, <1>8 DEF make_opaque, b, q, done

LEMMA WhiteoutSound ==
    ASSUME Inv, whiteout_source
    PROVE  SoundInv'
<1> DEFINE b == call.bwh_old
           e == [fs[0] EXCEPT !.wh = @ \cup {Old}]
<1>1. pc = "whiteout" /\ ~oops
  BY DEF whiteout_source, At
<1>2. /\ call \in Calls /\ Setting /\ AllSound /\ SoundInv /\ Old \in Names
      /\ RenameInv /\ fs[0] \in SoundBranches /\ Pristine /\ b \in Branches
  <2>1. /\ call \in Calls /\ Setting /\ AllSound /\ SoundInv /\ Old \in Names
        /\ RenameInv /\ fs[0] \in SoundBranches /\ Pristine
    BY <1>1, WhoseStep DEF Inv, AllSound
  <2> QED BY <2>1, CallFields
<1>3. /\ \/ Top(Old) = None /\ call.wh_old = "whiteout"
         \/ ~Reliable /\ call.wh_old # "whiteout"
      /\ Old \notin fs[0].wh
  BY <1>1, <1>2 DEF RenameInv
<1>4. Old \notin fs[b].wh
  BY <1>2, <1>3 DEF Pristine
<1>5. CASE UNCHANGED fs /\ \E err : Returns(err)
  <2>1. AllSound'
    BY <1>2, <1>5 DEF AllSound, Pristine
  <2> QED BY <1>2, <1>5, <2>1, ReturnsSound
<1>6. CASE ~(call.wh_old = "whiteout" /\ Old \notin fs[b].wh) /\ Bug
  BY <1>2, <1>3, <1>4, <1>6, BugSound
<1>7. CASE /\ call.wh_old = "whiteout" /\ fs' = AddWhiteout(fs, b, Old)
           /\ Returns(call.err)
  <2>1. b = 0
    <3>1. ~IsRobranch(b)
      BY <1>1, <1>7 DEF Inv, RInv, CallInv, Locals
    <3> QED BY <1>2, <3>1, OnlyFirst
  <2>2. fs' = [fs EXCEPT ![0] = e]
    BY <1>7, <2>1 DEF AddWhiteout
  <2>3. e \in SoundBranches
    BY <1>2, <1>3, <1>7, MarksSound DEF Top
  <2> HIDE DEF e
  <2>4. AllSound'
    BY <1>2, <2>2, <2>3, WriteFirst
  <2> QED BY <1>2, <1>7, <2>4, ReturnsSound
<1> QED BY <1>5, <1>6, <1>7 DEF whiteout_source

LEMMA RevertSound ==
    ASSUME Inv, revert_rename
    PROVE  SoundInv'
<1> DEFINE o == Refreshed(call.o, Old, call.old_bstart)
           n == Refreshed(call.n, New, call.old_bstart)
           back == [call EXCEPT !.o = o, !.n = n, !.stage = "back"]
<1>1. pc = "revert" /\ ~oops
  BY DEF revert_rename, At
<1>2. /\ call \in Calls /\ AllSound /\ SoundInv /\ RenameInv /\ call.op = "rename"
  BY <1>1, WhoseStep DEF Inv, AllSound
<1>3. ~Reliable /\ Old \notin fs[0].wh
  BY <1>1, <1>2 DEF RenameInv
<1>4. CASE Bug
  BY <1>2, <1>3, <1>4, BugSound
<1>5. CASE Returns("error") /\ UNCHANGED fs
  <2>1. AllSound'
    BY <1>2, <1>5 DEF AllSound, Pristine
  <2> QED BY <1>2, <1>5, <2>1, ReturnsSound
<1>6. CASE Goto("rename", back) /\ UNCHANGED fs
  <2>1. AllSound'
    BY <1>2, <1>6 DEF AllSound, Pristine
  <2> HIDE DEF o, n
  <2>2. pc' = "rename" /\ call' = back /\ UNCHANGED oops
    BY <1>6 DEF Goto
  <2>3. call'.op = "rename" /\ call'.old = call.old /\ call'.stage = "back"
    BY <1>2, <2>2 DEF Calls
  <2>4. Old' = Old /\ Reliable' = Reliable
    BY <2>3 DEF Old, Reliable
  <2>5. RenameInv'
    BY <1>3, <1>6, <2>2, <2>3, <2>4 DEF RenameInv, Steps
  <2> QED BY <1>2, <2>1, <2>2, <2>3, <2>5, RenameGoesOn
<1> HIDE DEF back, o, n
<1> QED BY <1>4, <1>5, <1>6 DEF revert_rename, back, o, n

-----------------------------------------------------------------------------
(* link, and a crash.                                                      *)

LEMMA LinkUnlinkSound ==
    ASSUME Inv, link_unlink
    PROVE  SoundInv'
<1> DEFINE b == call.n.bstart
           e == [fs[0] EXCEPT !.wh = @ \ {New}]
<1>1. pc = "link" /\ ~oops
  BY DEF link_unlink, At
<1>2. /\ call \in Calls /\ Setting /\ AllSound /\ SoundInv /\ New \in Names
      /\ call.op = "link" /\ LinkInv /\ fs[0] \in SoundBranches /\ b \in Branches
  <2>1. /\ call \in Calls /\ Setting /\ AllSound /\ SoundInv /\ New \in Names
        /\ call.op = "link" /\ LinkInv /\ fs[0] \in SoundBranches
    BY <1>1, WhoseStep DEF Inv, AllSound
  <2> QED BY <2>1, CallFields, DentryFields
<1>3. CASE ~IsRobranch(b) /\ fs' = DelWhiteout(fs, b, New) /\ Goto("link", call)
  <2>1. fs' = [fs EXCEPT ![0] = e]
    BY <1>2, <1>3, OnlyFirst DEF DelWhiteout
  <2>2. e \in SoundBranches /\ e.wh = fs[0].wh \ {New}
    BY <1>2, MarksSound, SoundType DEF BranchStates
  <2> HIDE DEF e
  <2>3. AllSound' /\ fs'[0] = e
    BY <1>2, <2>1, <2>2, WriteFirst
  <2>4. pc' = "link" /\ call' = call /\ UNCHANGED oops
    BY <1>3 DEF Goto
  <2>5. Old' = Old /\ New' = New
    BY <2>4 DEF Old, New
  <2>6. LinkInv'
    BY <1>2, <2>2, <2>3, <2>4, <2>5 DEF LinkInv
  <2> QED BY <1>2, <2>3, <2>4, <2>6, LinkGoesOn
<1>4. CASE Returns("error") /\ UNCHANGED fs
  <2>1. AllSound'
    BY <1>2, <1>4 DEF AllSound, Pristine
  <2> QED BY <1>2, <1>4, <2>1, ReturnsSound
<1> QED BY <1>3, <1>4 DEF link_unlink

LEMMA LinkSound ==
    ASSUME Inv, vfs_link
    PROVE  SoundInv'
<1> DEFINE b == IF call.stage = "second" THEN call.bindex ELSE call.old_bstart
           next == [call EXCEPT !.bindex = b - 1]
           x == fs[0].node[Old]
           e == [fs[0] EXCEPT !.node[New] = x]
<1>1. pc = "link" /\ ~oops /\ ~LinkWhiteout
  BY DEF vfs_link, At
<1>2. /\ call \in Calls /\ Setting /\ AllSound /\ SoundInv /\ New \in Names /\ Old \in Names
      /\ call.op = "link" /\ LinkInv /\ fs[0] \in SoundBranches /\ b \in Branches
  <2>1. /\ call \in Calls /\ Setting /\ AllSound /\ SoundInv /\ New \in Names
        /\ Old \in Names /\ call.op = "link" /\ LinkInv /\ fs[0] \in SoundBranches
    BY <1>1, WhoseStep DEF Inv, AllSound
  <2>2. call.stage = "second" => call.bindex \in Branches
    BY <1>1, BranchAssumption DEF Inv, TypeInv, InRange
  <2> QED BY <2>1, <2>2, CallFields
<1>3. New \notin fs[0].wh /\ Old \notin fs[0].wh
  BY <1>1, <1>2 DEF LinkInv, LinkWhiteout
<1>4. CASE UNCHANGED fs /\ Goto("copyup", next)
  <2>1. AllSound'
    BY <1>2, <1>4 DEF AllSound, Pristine
  <2>2. pc' = "copyup" /\ call' = next /\ UNCHANGED oops
    BY <1>4 DEF Goto
  <2>3. call'.op = "link" /\ call'.old = call.old
    BY <1>2, <2>2 DEF Calls
  <2>4. Old' = Old /\ New' = New
    BY <2>3 DEF Old, New
  <2>5. LinkInv'
    BY <1>3, <1>4, <2>2, <2>4 DEF LinkInv
  <2> QED BY <1>2, <2>1, <2>2, <2>3, <2>5, LinkGoesOn
<1>5. CASE /\ ~IsRobranch(b) /\ fs[b].node[New] = None
           /\ fs' = SetNode(fs, b, New, fs[b].node[Old]) /\ Returns("none")
  <2>1. b = 0
    BY <1>2, <1>5, OnlyFirst
  <2>2. fs[0].node[New] # Dir /\ fs' = [fs EXCEPT ![0] = e]
    <3>1. fs' = SetNode(fs, 0, New, x) /\ fs[0].node[New] = None
      BY <1>5, <2>1
    <3> HIDE DEF x
    <3> QED BY <3>1, ValuesAssumption DEF SetNode
  <2>3. x \in Nodes
    BY <1>2, SoundType DEF Names
  <2> HIDE DEF x
  <2>4. e \in SoundBranches
    BY <1>2, <1>3, <2>2, <2>3, NodeSound
  <2> HIDE DEF e
  <2>5. AllSound'
    BY <1>2, <2>2, <2>4, WriteFirst
  <2> QED BY <1>2, <1>5, <2>5, ReturnsSound
<1>6. CASE Returns("error") /\ UNCHANGED fs
  <2>1. AllSound'
    BY <1>2, <1>6 DEF AllSound, Pristine
  <2> QED BY <1>2, <1>6, <2>1, ReturnsSound
<1> HIDE DEF x, e
<1> QED BY <1>4, <1>5, <1>6 DEF vfs_link

LEMMA CrashSound ==
    ASSUME Inv, Crash
    PROVE  SoundInv'
<1>1. AllSound' /\ SoundInv
  BY DEF Inv, SoundInv, AllSound, Pristine, Crash
<1> QED BY <1>1, EndsSound DEF Crash

-----------------------------------------------------------------------------
(* The specification.                                                      *)

LEMMA InitSound ==
    ASSUME Setting, Pristine, Init
    PROVE  SoundInv
BY DEF Init, Start, SoundInv, AllSound

LEMMA StepSound ==
    ASSUME Inv, [Next]_vars
    PROVE  SoundInv'
<1>1. CASE UNCHANGED vars
  <2>1. fs' = fs /\ pc' = pc /\ call' = call /\ oops' = oops /\ Old' = Old /\ New' = New
    BY <1>1 DEF vars, Old, New
  <2>2. /\ \A q : Top(q)' = Top(q)
        /\ Whiteouts(0, New)' = Whiteouts(0, New)
    BY <2>1 DEF Top, Whiteouts
  <2>3. /\ Source' <=> Source
        /\ Replaceable' <=> Replaceable
        /\ Cleaned' <=> Cleaned
    BY <2>1, <2>2 DEF Source, Replaceable, Cleaned
  <2>4. /\ Begun' <=> Begun
        /\ StillBelow' <=> StillBelow
        /\ Copied' <=> Copied
        /\ HasMoved' <=> HasMoved
        /\ Abandoned' <=> Abandoned
    BY <2>1, <2>2, <2>3 DEF Begun, StillBelow, Copied, HasMoved, Abandoned, Reliable
  <2>5. /\ RenameInv' <=> RenameInv
        /\ LinkInv' <=> LinkInv
    BY <2>1, <2>2, <2>3, <2>4 DEF RenameInv, LinkInv, Reliable
  <2> QED BY <2>1, <2>5 DEF Inv, SoundInv, AllSound, Pristine, Setting, Reliable
<1>2. CASE Next
  BY <1>2, RenameBeginsSound, CleanSound, RenameUnlinkSound, DoRenameSound,
     UnlinkLeftSound, CopyupCreateSound, CopyupDataSound, OpaqueSound, WhiteoutSound,
     RevertSound, LinkBeginsSound, LinkUnlinkSound, LinkSound, CrashSound DEF Next
<1> QED BY <1>1, <1>2

LEMMA RenameAlwaysSound ==
    ASSUME Setting
    PROVE  Pristine /\ Spec => []Inv
<1>1. Pristine /\ Init => Inv
  BY InitSound, InitGood, InitTyped DEF Inv
<1>2. Inv /\ [Next]_vars => Inv'
  BY StepSound, StepKeeps, StepTyped DEF Inv
<1> QED BY <1>1, <1>2, PTL DEF Spec

\* On a union with one writable branch over branches without whiteouts, no
\* rename and no link ever leaves a branch with a name beside its whiteout or
\* an entry without its directory: not when a copyup, an unlink, an opaque mark
\* or a whiteout fails, nor where the machine stops between two writes.
THEOREM RenameSound ==
    ASSUME Setting
    PROVE  Pristine /\ Spec => []BranchesSound
<1>1. Inv => BranchesSound
  BY DEF Inv, SoundInv, AllSound, BranchesSound
<1>2. Pristine /\ Spec => []Inv
  BY RenameAlwaysSound
<1> QED BY <1>1, <1>2, PTL

\* There the BUG_ONs of unionfs_rename_whiteout hold as well, if of the lower
\* calls only a link and the whiteout of the source may fail: after any other
\* failure the code goes on with a whiteout it has put or has never looked up.
THEOREM RenameNoBug ==
    ASSUME Setting, Reliable
    PROVE  Pristine /\ Spec => []NoBug
<1>1. Inv => NoBug
  BY DEF Inv, SoundInv, NoBug
<1>2. Pristine /\ Spec => []Inv
  BY RenameAlwaysSound
<1> QED BY <1>1, <1>2, PTL

-----------------------------------------------------------------------------
(***************************************************************************)
(* SourceKept needs no such setting.  What a call was given stays in the   *)
(* branch where the call has found it, under the old name or the new one:  *)
(* copies are made, and older destinations unlinked, in branches to the    *)
(* left of it only.                                                        *)
(***************************************************************************)

\* The name under which the branch of the source has it.
Held == IF call.old_bstart \in call.moved THEN New ELSE Old

\* Where the locals c say that the call works, before it goes on with step.
ElsewhereIs(step, c) ==
    /\ c.do_copyup < c.old_bstart
    /\ step \in {"copyup", "copydata"} => c.bindex < c.old_bstart
    /\ step \in {"rename", "link"} /\ c.stage = "second" => c.bindex < c.old_bstart
    /\ step = "clean" => c.stage = "first"
    /\ step \in {"clean", "rename"} /\ c.stage = "first" => c.moved = {}
    /\ c.op = "link" => c.moved = {} /\ step \in {"link", "copyup", "copydata"}
    /\ step = "link" => c.op = "link"
    /\ c.op = "rename" /\ step # "clean" /\ (step = "rename" => c.stage # "first") =>
            c.old_bstart \in c.moved \/ IsRobranch(c.old_bstart)

SourceInv ==
    pc # "idle" => /\ fs[call.old_bstart].node[Held] = before[Old]
                   /\ ElsewhereIs(pc, call)

KInv == TypeInv /\ SourceInv

\* What SourceKept says of a step.
Keeps ==
    call # NoCall => \E b \in Branches, q \in {Old, New} : fs'[b].node[q] = before[Old]

LEMMA CallTyped ==
    ASSUME KInv, pc # "idle"
    PROVE  /\ call \in Calls /\ fs \in Unions /\ call.old_bstart \in Branches
           /\ Old \in Names /\ New \in Names /\ Old # New /\ Twin[New] = Old
           /\ Held \in {Old, New}
           /\ fs[call.old_bstart].node[Held] = before[Old] /\ ElsewhereIs(pc, call)
<1>1. call \in Calls /\ fs \in Unions
  BY InCall DEF KInv, TypeInv, TypeOK
<1>2. call.old_bstart \in Branches /\ Old \in Names
  BY <1>1, CallFields DEF Old
<1>3. New \in Names /\ Old # New /\ Twin[New] = Old
  BY <1>2, NamesTwin, TwinAssumption DEF New, Old
<1> QED BY <1>1, <1>2, <1>3 DEF KInv, SourceInv, Held

\* Which writes leave the nodes alone, or a node.
LEMMA NodesKept ==
    ASSUME fs \in Unions, NEW b \in Branches, NEW i, NEW p
    PROVE  /\ AddWhiteout(fs, i, p)[b].node = fs[b].node
           /\ DelWhiteout(fs, i, p)[b].node = fs[b].node
           /\ AddOpaque(fs, i, p)[b].node = fs[b].node
<1>1. fs[b] \in BranchStates /\ b \in DOMAIN fs
  BY DEF Unions
<1>2. AddWhiteout(fs, i, p)[b].node = fs[b].node
  BY <1>1 DEF AddWhiteout, BranchStates
<1>3. DelWhiteout(fs, i, p)[b].node = fs[b].node
  BY <1>1 DEF DelWhiteout, BranchStates
<1>4. AddOpaque(fs, i, p)[b].node = fs[b].node
  BY <1>1 DEF AddOpaque, BranchStates
<1> QED BY <1>2, <1>3, <1>4

LEMMA SetElsewhere ==
    ASSUME fs \in Unions, NEW b \in Branches, NEW i, NEW p, NEW q, i # b \/ p # q,
           UNCHANGED fs \/ \E x : fs' = SetNode(fs, i, p, x)
    PROVE  fs'[b].node[q] = fs[b].node[q]
<1>1. CASE UNCHANGED fs
  BY <1>1
<1>2. CASE \E x : fs' = SetNode(fs, i, p, x)
  <2>1. PICK x : fs' = SetNode(fs, i, p, x)
    BY <1>2
  <2>2. fs[b] \in BranchStates /\ b \in DOMAIN fs
    BY DEF Unions
  <2> QED BY <2>1, <2>2 DEF SetNode, BranchStates
<1> QED BY <1>1, <1>2

\* How a call goes on and ends.
LEMMA SourceGoesOn ==
    ASSUME KInv, pc # "idle", NEW step, NEW c, Goto(step, c),
           c.old = call.old, c.old_bstart = call.old_bstart,
           (c.old_bstart \in c.moved) <=> (call.old_bstart \in call.moved),
           fs'[call.old_bstart].node[Held] = fs[call.old_bstart].node[Held],
           ElsewhereIs(step, c)
    PROVE  SourceInv' /\ Keeps
<1>1. pc' = step /\ call' = c /\ before' = before
  BY DEF Goto
<1>2. Old' = Old /\ New' = New /\ Held' = Held
  BY <1>1 DEF Old, New, Held
<1>3. ElsewhereIs(pc, call)'
  BY <1>1 DEF ElsewhereIs, IsRobranch
<1>4. SourceInv'
  BY <1>1, <1>2, <1>3, CallTyped DEF SourceInv
<1>5. Keeps
  BY CallTyped DEF Keeps
<1> QED BY <1>4, <1>5

LEMMA SourceAtEnd ==
    ASSUME KInv, pc # "idle", NEW op, NEW p, NEW end, Ends(op, p, end),
           NEW q \in {Old, New}, fs'[call.old_bstart].node[q] = before[Old]
    PROVE  SourceInv' /\ Keeps
<1>1. SourceInv'
  BY DEF Ends, SourceInv
<1>2. Keeps
  BY CallTyped DEF Keeps
<1> QED BY <1>1, <1>2

LEMMA SourceReturns ==
    ASSUME KInv, pc # "idle", NEW err, Returns(err),
           fs'[call.old_bstart].node[Held] = fs[call.old_bstart].node[Held]
    PROVE  SourceInv' /\ Keeps
BY SourceAtEnd, CallTyped DEF Returns

LEMMA SourceBug ==
    ASSUME KInv, pc # "idle", Bug
    PROVE  SourceInv' /\ Keeps
<1>1. /\ fs' = fs /\ pc' = pc /\ call' = call /\ before' = before
  BY DEF Bug
<1>2. Old' = Old /\ New' = New /\ Held' = Held
  BY <1>1 DEF Old, New, Held
<1>3. ElsewhereIs(pc, call)' = ElsewhereIs(pc, call)
  BY <1>1 DEF ElsewhereIs, IsRobranch
<1> QED BY <1>1, <1>2, <1>3, CallTyped DEF SourceInv, Keeps

\* What the lookup of a name in the root directory has found is what the users
\* see there.
LEMMA FoundIsView ==
    ASSUME NEW f, NEW p \in Names, NEW d, d = Lookup(f, RootDentry, p),
           ~IsNegative(f, d, p)
    PROVE  View(f)[p] = f[d.bstart].node[p]
<1> DEFINE L == Layers(f)
           U == Unhidden(f, p, Branches)
<1>1. /\ d.bstart \in Branches /\ f[d.bstart].node[p] # None /\ p \notin f[d.bstart].wh
      /\ \A b \in Branches : b < d.bstart => f[b].node[p] = None /\ p \notin f[b].wh
  BY FoundInRoot
<1>2. L[Root] = Branches
  BY LayersDef DEF AreLayers, AllPaths
<1>3. d.bstart \in U
  <2>1. \A c \in Branches : c =< d.bstart => c < d.bstart \/ c = d.bstart
    BY <1>1, ZeroFirst
  <2> QED BY <1>1, <2>1 DEF Unhidden
<1>4. U \in SUBSET Branches /\ \A b \in U : ~ (b < d.bstart)
  BY <1>1 DEF Unhidden
<1> HIDE DEF U
<1>5. Leftmost(U) = d.bstart
  <2>1. Leftmost(U) \in U /\ Leftmost(U) =< d.bstart
    BY <1>3, <1>4, LeftmostIsLeast
  <2> QED BY <1>1, <1>4, <2>1, ZeroFirst
<1>6. p \in Paths /\ Parent[p] = Root
  BY DEF Names
<1>7. View(f)[p] = IF U = {} THEN None ELSE f[Leftmost(U)].node[p]
  BY <1>2, <1>6 DEF View, U
<1> QED BY <1>3, <1>5, <1>7

\* A call begins where that is.
LEMMA CallBeginsKept ==
    ASSUME KInv, pc = "idle", NEW p \in Names, NEW d, d = Lookup(fs, RootDentry, p),
           ~IsNegative(fs, d, p), UNCHANGED fs, before' = View(fs),
           pc' \in {"clean", "rename", "link"},
           call'.op \in {"rename", "link"}, (pc' = "link") <=> (call'.op = "link"),
           call'.old = p, call'.old_bstart = d.bstart, call'.do_copyup = -1,
           call'.stage = "first", call'.moved = {}
    PROVE  SourceInv' /\ Keeps
<1>1. View(fs)[p] = fs[d.bstart].node[p] /\ d.bstart \in Branches
  BY FoundIsView, FoundInRoot
<1>2. Old' = p /\ Held' = p
  BY DEF Old, Held
<1>3. ElsewhereIs(pc, call)'
  BY <1>1, ZeroFirst DEF ElsewhereIs
<1>4. SourceInv'
  BY <1>1, <1>2, <1>3 DEF SourceInv
<1>5. Keeps
  BY DEF Keeps, KInv, TypeInv, TypeOK
<1> QED BY <1>4, <1>5

LEMMA RenameBeginsKept ==
    ASSUME KInv, NEW p \in Names, unionfs_rename(p)
    PROVE  SourceInv' /\ Keeps
<1> DEFINE o0 == Lookup(fs, RootDentry, p)
           o  == Completed(o0, p)
<1>1. pc = "idle" /\ ~IsNegative(fs, o0, p) /\ UNCHANGED fs
  BY DEF unionfs_rename, At
<1>2. CASE Ends("rename", p, "error")
  BY <1>1, <1>2 DEF Ends, SourceInv, Keeps, KInv, TypeInv, TypeOK
<1>3. CASE ~Ends("rename", p, "error")
  <2>1. /\ pc' \in {"clean", "rename"} /\ before' = View(fs)
        /\ call'.op = "rename" /\ call'.old = p /\ call'.old_bstart = o.bstart
        /\ call'.do_copyup = -1 /\ call'.stage = "first" /\ call'.moved = {}
    BY <1>3 DEF unionfs_rename
  <2>2. o.bstart = o0.bstart
    BY <1>1, CompletedFound
  <2> HIDE DEF o, o0
  <2> QED BY <1>1, <2>1, <2>2, CallBeginsKept DEF o0
<1> QED BY <1>2, <1>3

LEMMA LinkBeginsKept ==
    ASSUME KInv, NEW p \in Names, unionfs_link(p)
    PROVE  SourceInv' /\ Keeps
<1> DEFINE o == Lookup(fs, RootDentry, p)
<1>1. /\ pc = "idle" /\ ~IsNegative(fs, o, p) /\ UNCHANGED fs
      /\ pc' = "link" /\ before' = View(fs)
      /\ call'.op = "link" /\ call'.old = p /\ call'.old_bstart = o.bstart
      /\ call'.do_copyup = -1 /\ call'.stage = "first" /\ call'.moved = {}
  BY DEF unionfs_link, At
<1> HIDE DEF o
<1> QED BY <1>1, CallBeginsKept DEF o

LEMMA CleanKept ==
    ASSUME KInv, delete_whiteouts
    PROVE  SourceInv' /\ Keeps
<1> DEFINE b == call.n.bstart
           W == Whiteouts(b, New)
<1>1. pc = "clean"
  BY DEF delete_whiteouts, At
<1>2. /\ call \in Calls /\ fs \in Unions /\ call.old_bstart \in Branches
      /\ ElsewhereIs("clean", call)
  BY <1>1, CallTyped
<1>3. ElsewhereIs("rename", call)
  BY <1>2, CallFields DEF ElsewhereIs
<1>4. CASE Goto("rename", call) /\ UNCHANGED fs
  BY <1>1, <1>3, <1>4, SourceGoesOn
<1>5. CASE \E q \in W : /\ fs' = [fs EXCEPT ![b].wh = @ \ {q},
                                            ![b].opq = IF q = New THEN @ \ {q} ELSE @]
                        /\ Goto("clean", call)
  <2>1. \A x \in Branches : fs'[x].node = fs[x].node
    BY <1>2, <1>5 DEF Unions, BranchStates
  <2> QED BY <1>1, <1>2, <1>5, <2>1, SourceGoesOn
<1>6. CASE Returns("error") /\ UNCHANGED fs
  BY <1>1, <1>6, SourceReturns
<1> QED BY <1>4, <1>5, <1>6 DEF delete_whiteouts

\* do_rename leaves the source where it is, unless it has just moved it.
LEMMA DoRenameReturnsKept ==
    ASSUME KInv, pc = "rename", NEW c \in Calls, NEW err, DoRenameReturns(c, err),
           c.op = call.op, c.old = call.old, c.old_bstart = call.old_bstart,
           c.stage = call.stage, c.do_copyup = call.do_copyup,
           (c.old_bstart \in c.moved) <=> (call.old_bstart \in call.moved),
           fs'[call.old_bstart].node[Held] = fs[call.old_bstart].node[Held],
           c.stage = "first" => err # "none",
           c.stage = "first" /\ err = "EROFS" => IsRobranch(call.old_bstart)
    PROVE  SourceInv' /\ Keeps
<1> DEFINE left   == [c EXCEPT !.do_copyup = c.old_bstart - 1]
           failed == [c EXCEPT !.err = err]
<1>1. /\ call \in Calls /\ ElsewhereIs("rename", call) /\ call.op = "rename"
      /\ call.old_bstart \in Branches
  <2>1. call \in Calls /\ ElsewhereIs("rename", call) /\ call.old_bstart \in Branches
    BY CallTyped
  <2> QED BY <2>1, CallFields DEF ElsewhereIs
<1>2. /\ left.op = c.op /\ left.old = c.old /\ left.old_bstart = c.old_bstart
      /\ left.moved = c.moved /\ left.do_copyup = c.old_bstart - 1
  BY DEF Calls
<1>3. /\ failed.op = c.op /\ failed.old = c.old /\ failed.old_bstart = c.old_bstart
      /\ failed.moved = c.moved /\ failed.do_copyup = c.do_copyup
  BY DEF Calls
<1> HIDE DEF left, failed
<1>4. CASE Returns("error")
  BY <1>4, SourceReturns
<1>5. CASE c.stage = "first" /\ err = "EROFS" /\ Goto("unlink", left)
  <2>1. left.do_copyup < left.old_bstart
    BY <1>1, <1>2, ZeroFirst
  <2>2. ElsewhereIs("unlink", left)
    BY <1>1, <1>2, <1>5, <2>1 DEF ElsewhereIs
  <2> QED BY <1>2, <1>5, <2>2, SourceGoesOn
<1>6. CASE c.stage = "second" /\ Goto("opaque", failed)
  <2>1. ElsewhereIs("opaque", failed)
    BY <1>1, <1>3, <1>6 DEF ElsewhereIs
  <2> QED BY <1>3, <1>6, <2>1, SourceGoesOn
<1> QED BY <1>4, <1>5, <1>6 DEF DoRenameReturns, left, failed

LEMMA RenameUnlinkKept ==
    ASSUME KInv, do_rename_unlink
    PROVE  SourceInv' /\ Keeps
<1>1. pc = "rename" /\ TypeInv
  BY DEF do_rename_unlink, At, KInv
<1>2. /\ call \in Calls /\ fs \in Unions /\ call.old_bstart \in Branches
      /\ ElsewhereIs("rename", call)
  BY <1>1, CallTyped
<1>3. /\ Aimed \in Calls /\ Aimed.op = call.op /\ Aimed.old = call.old
      /\ Aimed.old_bstart = call.old_bstart /\ Aimed.stage = call.stage
      /\ Aimed.moved = call.moved /\ Aimed.do_copyup = call.do_copyup
      /\ Aimed.bindex = call.bindex
  BY <1>1, AimedSame, AimedTyped
<1>4. CASE DoRenameReturns(Aimed, "error") /\ UNCHANGED fs
  BY <1>1, <1>3, <1>4, DoRenameReturnsKept
<1>5. CASE ReadOnly /\ DoRenameReturns(Aimed, "EROFS") /\ UNCHANGED fs
  <2>1. call.stage = "first" => IsRobranch(call.old_bstart)
    BY <1>5 DEF ReadOnly, Branch
  <2> QED BY <1>1, <1>3, <1>5, <2>1, DoRenameReturnsKept
<1>6. CASE fs' = DelWhiteout(fs, Branch, To) /\ Goto("rename", Aimed)
  <2>1. fs'[call.old_bstart].node = fs[call.old_bstart].node
    BY <1>2, <1>6, NodesKept
  <2>2. ElsewhereIs("rename", Aimed)
    BY <1>2, <1>3 DEF ElsewhereIs
  <2> QED BY <1>1, <1>3, <1>6, <2>1, <2>2, SourceGoesOn
<1> QED BY <1>4, <1>5, <1>6 DEF do_rename_unlink

LEMMA DoRenameKept ==
    ASSUME KInv, do_rename
    PROVE  SourceInv' /\ Keeps
<1> DEFINE c     == [Aimed EXCEPT !.wh_old = IF call.stage = "back" THEN @ ELSE "whiteout"]
           there == [c EXCEPT !.moved = IF call.stage = "back" THEN @ \ {Branch}
                                        ELSE @ \cup {Branch}]
           e     == Renamed(fs[Branch], From, To)
<1>1. pc = "rename" /\ TypeInv
  BY DEF do_rename, At, KInv
<1>2. /\ call \in Calls /\ fs \in Unions /\ call.old_bstart \in Branches
      /\ Old \in Names /\ New \in Names /\ Old # New /\ Twin[New] = Old
      /\ fs[call.old_bstart].node[Held] = before[Old] /\ ElsewhereIs("rename", call)
  BY <1>1, CallTyped
<1>3. /\ Aimed \in Calls /\ Aimed.op = call.op /\ Aimed.old = call.old
      /\ Aimed.old_bstart = call.old_bstart /\ Aimed.stage = call.stage
      /\ Aimed.moved = call.moved /\ Aimed.do_copyup = call.do_copyup
  BY <1>1, AimedSame
<1>4. /\ Branch \in Branches /\ call.op = "rename" /\ Aimed.moved \in SUBSET Branches
      /\ Aimed.wh_old \in {"null", "whiteout", "put"}
      /\ call.stage \in {"first", "second", "back"}
      /\ call.stage = "second" => Branch < call.old_bstart
      /\ call.stage # "second" => Branch = call.old_bstart
      /\ call.stage # "back" => From = Old /\ To = New
      /\ call.stage = "back" => From = New /\ To = Old
      /\ call.stage = "first" => call.moved = {}
  <2>1. Branch \in Branches /\ Aimed.moved \in SUBSET Branches
        /\ Aimed.wh_old \in {"null", "whiteout", "put"}
    BY <1>1, <1>3, AimedTyped, CallFields
  <2>2. call.op = "rename" /\ call.stage \in {"first", "second", "back"}
    BY <1>2, CallFields DEF ElsewhereIs
  <2>3. /\ call.stage = "second" => Branch < call.old_bstart
        /\ call.stage # "second" => Branch = call.old_bstart
        /\ call.stage = "first" => call.moved = {}
    BY <1>2 DEF Branch, ElsewhereIs
  <2>4. /\ call.stage # "back" => From = Old /\ To = New
        /\ call.stage = "back" => From = New /\ To = Old
    BY <1>2 DEF From, To, New, Old
  <2> QED BY <2>1, <2>2, <2>3, <2>4
<1>5. /\ c \in Calls /\ c.op = call.op /\ c.old = call.old
      /\ c.old_bstart = call.old_bstart /\ c.stage = call.stage
      /\ c.moved = call.moved /\ c.do_copyup = call.do_copyup
  <2> DEFINE w == IF call.stage = "back" THEN Aimed.wh_old ELSE "whiteout"
  <2>1. w \in {"null", "whiteout", "put"}
    BY <1>4
  <2>2. c = [Aimed EXCEPT !.wh_old = w]
    BY <1>3 DEF Calls
  <2> HIDE DEF w, c
  <2>3. c \in Calls
    BY <1>3, <2>1, <2>2, SetLocal
  <2>4. /\ c.op = Aimed.op /\ c.old = Aimed.old
        /\ c.old_bstart = Aimed.old_bstart /\ c.stage = Aimed.stage
        /\ c.moved = Aimed.moved /\ c.do_copyup = Aimed.do_copyup
    BY <1>3, <2>2 DEF Calls
  <2> QED BY <1>3, <2>3, <2>4
<1> HIDE DEF c
<1>6. /\ there.op = call.op /\ there.old = call.old
      /\ there.old_bstart = call.old_bstart /\ there.stage = call.stage
      /\ there.do_copyup = call.do_copyup
      /\ call.stage # "back" => there.moved = call.moved \cup {Branch}
  BY <1>5 DEF Calls
<1>7. there \in Calls
  <2> DEFINE m == IF call.stage = "back" THEN c.moved \ {Branch} ELSE c.moved \cup {Branch}
  <2>1. m \in SUBSET Branches
    BY <1>3, <1>4, <1>5
  <2>2. there = [c EXCEPT !.moved = m]
    BY <1>5 DEF Calls
  <2> HIDE DEF m, there
  <2> QED BY <1>5, <2>1, <2>2 DEF Calls
<1> HIDE DEF there
<1>8. CASE ReadOnly /\ DoRenameReturns(call, "EROFS") /\ UNCHANGED fs
  <2>1. call.stage = "first" => IsRobranch(call.old_bstart)
    BY <1>4, <1>8 DEF ReadOnly
  <2> QED BY <1>1, <1>2, <1>8, <2>1, DoRenameReturnsKept
<1>9. CASE DoRenameReturns(c, "error") /\ UNCHANGED fs
  BY <1>1, <1>5, <1>9, DoRenameReturnsKept
<1>10. CASE /\ ~ReadOnly
            /\ fs' = [fs EXCEPT ![Branch] = Renamed(@, From, To)]
            /\ DoRenameReturns(there, "none")
  <2>1. /\ fs'[Branch] = e
        /\ \A b \in Branches : b # Branch => fs'[b] = fs[b]
    BY <1>2, <1>4, <1>10 DEF Unions
  <2>2. e.node[To] = fs[Branch].node[From]
    <3>1. From \in Names /\ To \in Names /\ From # To /\ Twin[To] = From
      BY <1>2, <1>4, NamesTwin, TwinAssumption DEF New, Old, Names
    <3> QED BY <3>1, RenamedThere
  <2> HIDE DEF e
  <2>3. CASE call.stage = "first"
    <3> DEFINE d == [there EXCEPT !.revert = TRUE]
    <3>1. Goto("unlink", d)
      BY <1>6, <1>10, <2>3 DEF DoRenameReturns
    <3>2. /\ d.op = there.op /\ d.old = there.old /\ d.old_bstart = there.old_bstart
          /\ d.moved = there.moved /\ d.do_copyup = there.do_copyup
      BY <1>7 DEF Calls
    <3> HIDE DEF d
    <3>3. pc' = "unlink" /\ call' = d /\ before' = before
      BY <3>1 DEF Goto
    <3>4. /\ call'.op = "rename" /\ call'.old = call.old
          /\ call'.old_bstart = call.old_bstart /\ call'.do_copyup = call.do_copyup
          /\ call.old_bstart \in call'.moved
      BY <1>4, <1>6, <2>3, <3>2, <3>3
    <3>5. Old' = Old /\ New' = New /\ Held' = New
      BY <3>4 DEF Old, New, Held
    <3>6. Held = Old
      BY <1>4, <2>3 DEF Held
    <3>7. fs'[call.old_bstart].node[New] = before[Old]
      BY <1>2, <1>4, <2>1, <2>2, <2>3, <3>6
    <3>8. ElsewhereIs(pc, call)'
      BY <1>2, <3>3, <3>4 DEF ElsewhereIs
    <3>9. SourceInv'
      BY <3>3, <3>4, <3>5, <3>7, <3>8 DEF SourceInv
    <3>10. Keeps
      BY <1>2, <3>7 DEF Keeps
    <3> QED BY <3>9, <3>10
  <2>4. CASE call.stage = "second"
    <3>1. Branch # call.old_bstart
      BY <1>2, <1>4, <2>4, ZeroFirst
    <3>2. fs'[call.old_bstart] = fs[call.old_bstart]
      BY <1>2, <2>1, <3>1
    <3>3. (there.old_bstart \in there.moved) <=> (call.old_bstart \in call.moved)
      BY <1>6, <2>4, <3>1
    <3> QED BY <1>1, <1>6, <1>7, <1>10, <2>4, <3>2, <3>3, DoRenameReturnsKept
  <2>5. CASE call.stage = "back"
    <3>1. call.old_bstart \in call.moved
      BY <1>2, <1>4, <1>10, <2>5 DEF ElsewhereIs, ReadOnly
    <3>2. Held = New
      BY <3>1 DEF Held
    <3>3. fs'[call.old_bstart].node[Old] = before[Old]
      BY <1>2, <1>4, <2>1, <2>2, <2>5, <3>2
    <3>4. Returns("error")
      BY <1>6, <1>10, <2>5 DEF DoRenameReturns
    <3> QED BY <1>1, <3>3, <3>4, SourceAtEnd DEF Returns
  <2> QED BY <1>4, <2>3, <2>4, <2>5
<1> HIDE DEF e
<1> QED BY <1>8, <1>9, <1>10 DEF do_rename, c, there

LEMMA UnlinkLeftKept ==
    ASSUME KInv, unlink_left
    PROVE  SourceInv' /\ Keeps
<1> DEFINE i      == Rightmost(Left)
           passed == [call EXCEPT !.bindex = i - 1]
           begin  == [call EXCEPT !.bindex = call.do_copyup]
           over   == [call EXCEPT !.bindex = LoopEnd]
           here   == [call EXCEPT !.bindex = i]
           later  == [passed EXCEPT !.do_copyup = i - 1]
           gone   == [passed EXCEPT !.n.hid[i] = "null"]
           Same(c) == /\ c.op = call.op /\ c.old = call.old /\ c.old_bstart = call.old_bstart
                      /\ c.moved = call.moved
<1>1. pc = "unlink"
  BY DEF unlink_left, At
<1>2. /\ call \in Calls /\ fs \in Unions /\ call.old_bstart \in Branches
      /\ ElsewhereIs("unlink", call)
  BY <1>1, CallTyped
<1>3. Left # {} => i \in Branches /\ i < call.old_bstart
  <2>1. Left \in SUBSET Branches
    BY DEF Left
  <2> QED BY <2>1, RightmostIsGreatest DEF Left
<1>4. /\ Same(passed) /\ Same(begin) /\ Same(over) /\ Same(here) /\ Same(later) /\ Same(gone)
      /\ passed.do_copyup = call.do_copyup /\ begin.do_copyup = call.do_copyup
      /\ over.do_copyup = call.do_copyup /\ here.do_copyup = call.do_copyup
      /\ gone.do_copyup = call.do_copyup /\ later.do_copyup = i - 1
      /\ begin.bindex = call.do_copyup
  BY <1>2 DEF Calls
<1> HIDE DEF i, passed, begin, over, here, later, gone
<1>5. /\ \/ UNCHANGED fs
         \/ Left # {} /\ fs' = SetNode(fs, i, New, None)
      /\ \/ Goto("opaque", over) \/ Goto("copyup", begin)
         \/ /\ Left # {}
            /\ \/ Goto("unlink", later) \/ Goto("unlink", passed)
               \/ Goto("unlink", gone) \/ Goto("revert", here)
  BY DEF unlink_left, i, passed, begin, over, here, later, gone
<1>6. fs'[call.old_bstart].node[Held] = fs[call.old_bstart].node[Held]
  <2>1. CASE UNCHANGED fs
    BY <2>1
  <2>2. CASE Left # {} /\ fs' = SetNode(fs, i, New, None)
    <3>1. i \in Branches /\ i < call.old_bstart /\ call.old_bstart \in Branches
      BY <1>2, <1>3, <2>2
    <3>2. i # call.old_bstart
      BY <3>1 DEF Branches
    <3> QED BY <1>2, <2>2, <3>1, <3>2, SetElsewhere
  <2> QED BY <1>5, <2>1, <2>2
<1>7. /\ ElsewhereIs("opaque", over) /\ ElsewhereIs("copyup", begin)
      /\ ElsewhereIs("unlink", passed) /\ ElsewhereIs("unlink", gone)
      /\ ElsewhereIs("revert", here)
  BY <1>2, <1>4 DEF ElsewhereIs
<1>8. Left # {} => ElsewhereIs("unlink", later)
  <2>1. Left # {} => i - 1 < call.old_bstart
    BY <1>2, <1>3, ZeroFirst
  <2> QED BY <1>2, <1>4, <2>1 DEF ElsewhereIs
<1> QED BY <1>1, <1>4, <1>5, <1>6, <1>7, <1>8, SourceGoesOn

LEMMA CopyupDoneKept ==
    ASSUME KInv, pc \in {"copyup", "copydata"}, NEW c \in Calls, CopyupDone(c),
           c.op = call.op, c.old = call.old, c.old_bstart = call.old_bstart,
           c.moved = call.moved, c.do_copyup = call.do_copyup, c.bindex < c.old_bstart,
           fs'[call.old_bstart].node[Held] = fs[call.old_bstart].node[Held]
    PROVE  SourceInv' /\ Keeps
<1> DEFINE l == [c EXCEPT !.stage = "second"]
           r == [c EXCEPT !.stage = "second", !.bwh_old = c.bindex,
                          !.wh_old = IF @ = "null" THEN @ ELSE "put"]
<1>1. call \in Calls /\ ElsewhereIs(pc, call)
  BY CallTyped
<1>2. /\ l.op = c.op /\ l.old = c.old /\ l.old_bstart = c.old_bstart /\ l.moved = c.moved
      /\ l.do_copyup = c.do_copyup /\ l.bindex = c.bindex /\ l.stage = "second"
  BY DEF Calls
<1>3. /\ r.op = c.op /\ r.old = c.old /\ r.old_bstart = c.old_bstart /\ r.moved = c.moved
      /\ r.do_copyup = c.do_copyup /\ r.bindex = c.bindex /\ r.stage = "second"
  BY DEF Calls
<1> HIDE DEF l, r
<1>4. c.op = "link" => ElsewhereIs("link", l)
  BY <1>1, <1>2 DEF ElsewhereIs
<1>5. c.op # "link" => ElsewhereIs("rename", r)
  BY <1>1, <1>3 DEF ElsewhereIs
<1>6. CASE c.op = "link" /\ Goto("link", l)
  BY <1>2, <1>4, <1>6, SourceGoesOn
<1>7. CASE c.op # "link" /\ Goto("rename", r)
  BY <1>3, <1>5, <1>7, SourceGoesOn
<1> QED BY <1>6, <1>7 DEF CopyupDone, l, r

LEMMA CopyupCreateKept ==
    ASSUME KInv, copyup_create
    PROVE  SourceInv' /\ Keeps
<1> DEFINE i    == Rightmost(Tried)
           next == [call EXCEPT !.bindex = i - 1]
           fail == [call EXCEPT !.err = "error"]
           d    == Pointed(fs, call.o, Old, i)
           k    == [call EXCEPT !.o = d]
           copy == CopiedTo(i)
<1>1. pc = "copyup"
  BY DEF copyup_create, At
<1>2. /\ call \in Calls /\ fs \in Unions /\ call.old_bstart \in Branches
      /\ Old \in Names /\ ElsewhereIs("copyup", call)
  BY <1>1, CallTyped
<1>3. Tried # {} => i \in Branches /\ i < call.old_bstart /\ i # call.old_bstart
  <2>1. Tried \in SUBSET Branches /\ \A x \in Tried : x =< call.bindex
    BY BranchAssumption DEF Tried
  <2>2. call.bindex \in Int /\ call.bindex < call.old_bstart /\ call.old_bstart \in Nat
    BY <1>2, CallFields, ZeroFirst DEF ElsewhereIs
  <2>3. Tried # {} => i \in Tried
    BY <2>1, RightmostIsGreatest
  <2>4. Tried # {} => i \in Branches /\ i \in Nat /\ i =< call.bindex
    BY <2>1, <2>3, ZeroFirst
  <2> HIDE DEF i
  <2> QED BY <2>2, <2>4
<1>4. Tried # {} => copy \in Calls /\ copy.bindex = i
  <2> SUFFICES ASSUME Tried # {} PROVE copy \in Calls /\ copy.bindex = i
    OBVIOUS
  <2>1. d \in Dentries
    BY <1>2, <1>3, CallFields, PointedTyped DEF Names
  <2>2. k \in Calls
    <3> HIDE DEF d
    <3> QED BY <1>2, <2>1, SetLocal
  <2>3. copy = [k EXCEPT !.bindex = i]
    BY DEF CopiedTo
  <2> HIDE DEF k, copy
  <2>4. copy \in Calls
    BY <1>3, <2>2, <2>3, BranchBefore, SetLocal
  <2>5. copy.bindex = i
    BY <2>2, <2>3 DEF Calls
  <2> QED BY <2>4, <2>5
<1>5. /\ next.op = call.op /\ next.old = call.old /\ next.old_bstart = call.old_bstart
      /\ next.moved = call.moved /\ next.do_copyup = call.do_copyup
      /\ next.bindex = i - 1 /\ next.stage = call.stage
  BY <1>2 DEF Calls
<1>6. /\ fail.op = call.op /\ fail.old = call.old /\ fail.old_bstart = call.old_bstart
      /\ fail.moved = call.moved /\ fail.do_copyup = call.do_copyup
  BY <1>2 DEF Calls
<1>7. /\ copy.op = call.op /\ copy.old = call.old /\ copy.old_bstart = call.old_bstart
      /\ copy.moved = call.moved /\ copy.do_copyup = call.do_copyup
  <2> HIDE DEF d, i
  <2>1. copy = [call EXCEPT !.o = d, !.bindex = i]
    BY DEF CopiedTo, d
  <2> QED BY <1>2, <2>1 DEF Calls
<1> HIDE DEF i, next, fail, d, k, copy
<1>8. /\ \/ UNCHANGED fs
         \/ Tried # {} /\ \E x : fs' = SetNode(fs, i, Old, x)
      /\ \/ CopyupFails
         \/ /\ Tried # {}
            /\ CopyupDone(copy) \/ Goto("copydata", copy) \/ Goto("copyup", next)
  BY DEF copyup_create, i, next, copy
<1>9. fs'[call.old_bstart].node[Held] = fs[call.old_bstart].node[Held]
  BY <1>2, <1>3, <1>8, SetElsewhere
<1>10. CASE Returns("error")
  BY <1>1, <1>9, <1>10, SourceReturns
<1>11. CASE call.op # "link" /\ Goto("opaque", fail)
  <2>1. ElsewhereIs("opaque", fail)
    BY <1>2, <1>6, <1>11 DEF ElsewhereIs
  <2> QED BY <1>1, <1>6, <1>9, <1>11, <2>1, SourceGoesOn
<1>12. CASE Tried # {} /\ CopyupDone(copy)
  BY <1>1, <1>3, <1>4, <1>7, <1>9, <1>12, CopyupDoneKept
<1>13. CASE Tried # {} /\ Goto("copydata", copy)
  <2>1. ElsewhereIs("copydata", copy)
    BY <1>2, <1>3, <1>4, <1>7, <1>13 DEF ElsewhereIs
  <2> QED BY <1>1, <1>7, <1>9, <1>13, <2>1, SourceGoesOn
<1>14. CASE Tried # {} /\ Goto("copyup", next)
  <2>1. i - 1 < call.old_bstart
    BY <1>2, <1>3, <1>14, ZeroFirst
  <2>2. ElsewhereIs("copyup", next)
    BY <1>2, <1>5, <2>1 DEF ElsewhereIs
  <2> QED BY <1>1, <1>5, <1>9, <1>14, <2>2, SourceGoesOn
<1> QED BY <1>8, <1>10, <1>11, <1>12, <1>13, <1>14 DEF CopyupFails, fail

LEMMA CopyupDataKept ==
    ASSUME KInv, copyup_data
    PROVE  SourceInv' /\ Keeps
<1> DEFINE i    == call.bindex
           next == [call EXCEPT !.bindex = i - 1]
<1>1. pc = "copydata"
  BY DEF copyup_data, At
<1>2. /\ call \in Calls /\ fs \in Unions /\ call.old_bstart \in Branches
      /\ ElsewhereIs("copydata", call) /\ i \in Int
  BY <1>1, CallTyped, CallFields
<1>3. /\ next.op = call.op /\ next.old = call.old /\ next.old_bstart = call.old_bstart
      /\ next.moved = call.moved /\ next.do_copyup = call.do_copyup
      /\ next.bindex = i - 1 /\ next.stage = call.stage
  BY <1>2 DEF Calls
<1> HIDE DEF next
<1>4. i < call.old_bstart /\ i # call.old_bstart /\ i - 1 < call.old_bstart
  BY <1>2, ZeroFirst DEF ElsewhereIs
<1>5. /\ \E x : fs' = SetNode(fs, i, Old, x)
      /\ CopyupDone(call) \/ Goto("copyup", next)
  BY DEF copyup_data, next
<1>6. fs'[call.old_bstart].node[Held] = fs[call.old_bstart].node[Held]
  BY <1>2, <1>4, <1>5, SetElsewhere
<1>7. CASE CopyupDone(call)
  BY <1>1, <1>2, <1>4, <1>6, <1>7, CopyupDoneKept
<1>8. CASE Goto("copyup", next)
  <2>1. ElsewhereIs("copyup", next)
    BY <1>2, <1>3, <1>4 DEF ElsewhereIs
  <2> QED BY <1>1, <1>3, <1>6, <1>8, <2>1, SourceGoesOn
<1> QED BY <1>5, <1>7, <1>8

LEMMA OpaqueKept ==
    ASSUME KInv, make_opaque
    PROVE  SourceInv' /\ Keeps
<1> DEFINE done == [call EXCEPT !.err = "none"]
<1>1. pc = "opaque"
  BY DEF make_opaque, At
<1>2. /\ call \in Calls /\ fs \in Unions /\ call.old_bstart \in Branches
      /\ ElsewhereIs("opaque", call)
  BY <1>1, CallTyped
<1>3. /\ done.op = call.op /\ done.old = call.old /\ done.old_bstart = call.old_bstart
      /\ done.moved = call.moved /\ done.do_copyup = call.do_copyup
  BY <1>2 DEF Calls
<1> HIDE DEF done
<1>4. /\ ElsewhereIs("whiteout", call) /\ ElsewhereIs("revert", call)
      /\ ElsewhereIs("whiteout", done)
  BY <1>2, <1>3 DEF ElsewhereIs
<1>5. /\ UNCHANGED fs \/ \E b, q : fs' = AddOpaque(fs, b, q)
      /\ Goto("whiteout", call) \/ Goto("whiteout", done) \/ Goto("revert", call)
  BY DEF make_opaque, done
<1>6. fs'[call.old_bstart].node = fs[call.old_bstart].node
  BY <1>2, <1>5, NodesKept
<1> QED BY <1>1, <1>3, <1>4, <1>5, <1>6, SourceGoesOn

LEMMA WhiteoutKept ==
    ASSUME KInv, whiteout_source
    PROVE  SourceInv' /\ Keeps
<1>1. pc = "whiteout"
  BY DEF whiteout_source, At
<1>2. fs \in Unions /\ call.old_bstart \in Branches
  BY <1>1, CallTyped
<1>3. \/ Bug
      \/ /\ UNCHANGED fs \/ fs' = AddWhiteout(fs, call.bwh_old, Old)
         /\ \E err : Returns(err)
  BY DEF whiteout_source
<1>4. CASE Bug
  BY <1>1, <1>4, SourceBug
<1>5. CASE ~Bug
  <2>1. fs'[call.old_bstart].node = fs[call.old_bstart].node
    BY <1>2, <1>3, <1>5, NodesKept
  <2> QED BY <1>1, <1>3, <1>5, <2>1, SourceReturns
<1> QED BY <1>4, <1>5

LEMMA RevertKept ==
    ASSUME KInv, revert_rename
    PROVE  SourceInv' /\ Keeps
<1> DEFINE o == Refreshed(call.o, Old, call.old_bstart)
           n == Refreshed(call.n, New, call.old_bstart)
           back == [call EXCEPT !.o = o, !.n = n, !.stage = "back"]
<1>1. pc = "revert"
  BY DEF revert_rename, At
<1>2. call \in Calls /\ ElsewhereIs("revert", call)
  BY <1>1, CallTyped
<1>3. CASE Bug
  BY <1>1, <1>3, SourceBug
<1>4. CASE Returns("error") /\ UNCHANGED fs
  BY <1>1, <1>4, SourceReturns
<1>5. CASE Goto("rename", back) /\ UNCHANGED fs
  <2> HIDE DEF o, n
  <2>1. /\ back.op = call.op /\ back.old = call.old /\ back.old_bstart = call.old_bstart
        /\ back.moved = call.moved /\ back.do_copyup = call.do_copyup
        /\ back.stage = "back"
    BY <1>2 DEF Calls
  <2> HIDE DEF back
  <2>2. ElsewhereIs("rename", back)
    BY <1>2, <2>1 DEF ElsewhereIs
  <2> QED BY <1>1, <1>5, <2>1, <2>2, SourceGoesOn
<1> HIDE DEF back, o, n
<1> QED BY <1>3, <1>4, <1>5 DEF revert_rename, back, o, n

LEMMA LinkUnlinkKept ==
    ASSUME KInv, link_unlink
    PROVE  SourceInv' /\ Keeps
<1>1. pc = "link"
  BY DEF link_unlink, At
<1>2. fs \in Unions /\ call.old_bstart \in Branches /\ ElsewhereIs("link", call)
  BY <1>1, CallTyped
<1>3. /\ UNCHANGED fs \/ fs' = DelWhiteout(fs, call.n.bstart, New)
      /\ Goto("link", call) \/ Returns("error")
  BY DEF link_unlink
<1>4. fs'[call.old_bstart].node = fs[call.old_bstart].node
  BY <1>2, <1>3, NodesKept
<1> QED BY <1>1, <1>2, <1>3, <1>4, SourceGoesOn, SourceReturns

LEMMA LinkKept ==
    ASSUME KInv, vfs_link
    PROVE  SourceInv' /\ Keeps
<1> DEFINE b == IF call.stage = "second" THEN call.bindex ELSE call.old_bstart
           next == [call EXCEPT !.bindex = b - 1]
<1>1. pc = "link"
  BY DEF vfs_link, At
<1>2. /\ call \in Calls /\ fs \in Unions /\ call.old_bstart \in Branches /\ Old # New
      /\ ElsewhereIs("link", call) /\ call.bindex \in Int
  BY <1>1, CallTyped, CallFields
<1>3. call.op = "link" /\ call.moved = {} /\ Held = Old
  BY <1>2 DEF ElsewhereIs, Held
<1>4. b - 1 < call.old_bstart
  BY <1>2, ZeroFirst DEF ElsewhereIs
<1>5. /\ next.op = call.op /\ next.old = call.old /\ next.old_bstart = call.old_bstart
      /\ next.moved = call.moved /\ next.do_copyup = call.do_copyup
      /\ next.bindex = b - 1
  BY <1>2 DEF Calls
<1> HIDE DEF b, next
<1>6. ElsewhereIs("copyup", next)
  BY <1>2, <1>3, <1>4, <1>5 DEF ElsewhereIs
<1>7. /\ UNCHANGED fs \/ \E x : fs' = SetNode(fs, b, New, x)
      /\ Goto("copyup", next) \/ \E err : Returns(err)
  BY DEF vfs_link, b, next
<1>8. fs'[call.old_bstart].node[Held] = fs[call.old_bstart].node[Held]
  BY <1>2, <1>3, <1>7, SetElsewhere
<1> QED BY <1>1, <1>5, <1>6, <1>7, <1>8, SourceGoesOn, SourceReturns

LEMMA CrashKept ==
    ASSUME KInv, Crash
    PROVE  SourceInv' /\ Keeps
BY SourceAtEnd, CallTyped DEF Crash

LEMMA StepKept ==
    ASSUME KInv, [Next]_vars
    PROVE  SourceInv' /\ (Keeps \/ UNCHANGED vars)
<1>1. CASE UNCHANGED vars
  BY <1>1 DEF vars, KInv, SourceInv, ElsewhereIs, Held, Old, New, IsRobranch
<1>2. CASE Next
  BY <1>2, RenameBeginsKept, CleanKept, RenameUnlinkKept, DoRenameKept,
     UnlinkLeftKept, CopyupCreateKept, CopyupDataKept, OpaqueKept, WhiteoutKept,
     RevertKept, LinkBeginsKept, LinkUnlinkKept, LinkKept, CrashKept DEF Next
<1> QED BY <1>1, <1>2

\* Whatever fails, with any mix of branches and whatever they hold, and wherever
\* the machine stops, the object that a rename or a link was given is still in
\* some branch under its old name or the new one, also while a rename is taken
\* back.
THEOREM RenameKeepsSource == Spec => SourceKept
<1>1. Init => KInv
  BY InitTyped DEF KInv, SourceInv, Init, Start
<1>2. KInv /\ [Next]_vars => KInv'
  BY StepKept, StepTyped DEF KInv
<1>3. KInv /\ [Next]_vars => [Keeps]_vars
  BY StepKept
<1> QED BY <1>1, <1>2, <1>3, PTL DEF Spec, SourceKept, Keeps

-----------------------------------------------------------------------------
(* The view of sound branches.                                             *)

\* What is seen at q of branches of which l contributes to the directory above.
ViewOf(f, q, l) ==
    LET U == Unhidden(f, q, l)
    IN  IF U = {} THEN None ELSE f[Leftmost(U)].node[q]

LEMMA ViewDef ==
    ASSUME NEW f
    PROVE  /\ Layers(f)[Root] = Branches
           /\ \A q \in Paths :
                /\ Layers(f)[Parent[q]] \in SUBSET Branches
                /\ Layers(f)[q] = LayerOf(f, q, Layers(f)[Parent[q]])
                /\ View(f)[q] = ViewOf(f, q, Layers(f)[Parent[q]])
<1> DEFINE L == Layers(f)
<1>1. L = [q \in AllPaths |-> IF q = Root THEN Branches ELSE LayerOf(f, q, L[Parent[q]])]
  BY LayersDef DEF AreLayers
<1>2. \A q \in AllPaths : L[q] \in SUBSET Branches
  BY LayersAre
<1>3. View(f) = [q \in Paths |-> ViewOf(f, q, L[Parent[q]])]
  BY DEF View, ViewOf
<1> HIDE DEF L
<1>4. L[Root] = Branches
  BY <1>1 DEF AllPaths
<1>5. ASSUME NEW q \in Paths
      PROVE  /\ L[Parent[q]] \in SUBSET Branches
             /\ L[q] = LayerOf(f, q, L[Parent[q]])
             /\ View(f)[q] = ViewOf(f, q, L[Parent[q]])
  BY <1>1, <1>2, <1>3, PathsAssumption DEF AllPaths
<1> QED BY <1>4, <1>5 DEF L

\* What the first of the layers has, or hides, decides.
LEMMA FirstDecides ==
    ASSUME NEW f, NEW q \in Paths, NEW l \in SUBSET Branches, 0 \in l
    PROVE  /\ f[0].node[q] # None /\ q \notin f[0].wh =>
                /\ ViewOf(f, q, l) = f[0].node[q]
                /\ f[0].node[q] = Dir => 0 \in LayerOf(f, q, l)
                /\ f[0].node[q] # Dir => LayerOf(f, q, l) = {}
           /\ q \in f[0].wh => ViewOf(f, q, l) = None /\ LayerOf(f, q, l) = {}
<1> DEFINE U == Unhidden(f, q, l)
           D == {b \in U : f[b].node[q] = Dir}
<1>1. U \in SUBSET Branches
  BY DEF Unhidden
<1>2. CASE f[0].node[q] # None /\ q \notin f[0].wh
  <2>1. 0 \in U
    BY <1>2, ZeroFirst DEF Unhidden
  <2>2. Leftmost(U) = 0 /\ U # {}
    <3> HIDE DEF U
    <3> QED BY <1>1, <2>1, FirstOfSome
  <2>3. ViewOf(f, q, l) = f[0].node[q]
    BY <2>2 DEF ViewOf
  <2>4. LayerOf(f, q, l) = IF 0 \notin D THEN {}
                           ELSE {b \in D : \A c \in D : c < b => q \notin f[c].opq}
    BY <2>2 DEF LayerOf
  <2>5. 0 \in D <=> f[0].node[q] = Dir
    <3> HIDE DEF U
    <3> QED BY <2>1
  <2>6. \A c \in D : ~ (c < 0)
    BY <1>1, ZeroFirst
  <2> HIDE DEF D
  <2> QED BY <1>2, <2>3, <2>4, <2>5, <2>6
<1>3. CASE q \in f[0].wh
  <2>1. U = {}
    BY <1>3, ZeroFirst DEF Unhidden
  <2> QED BY <1>2, <1>3, <2>1, ValuesAssumption DEF ViewOf, LayerOf
<1> QED BY <1>2, <1>3

\* The first branch is sound: then it is seen wherever it has something.
LEMMA TopSeen ==
    ASSUME NEW f, f[0] \in SoundBranches, NEW q \in Paths
    PROVE  /\ f[0].node[q] = Dir => 0 \in Layers(f)[q]
           /\ f[0].node[q] # None => View(f)[q] = f[0].node[q]
           /\ f[0].node[q] \notin {None, Dir} => Layers(f)[q] = {}
           /\ q \in f[0].wh => View(f)[q] = None /\ Layers(f)[q] = {}
<1> DEFINE Q == {p \in Paths : f[0].node[p] = Dir /\ 0 \notin Layers(f)[p]}
<1>1. ASSUME NEW p \in Paths, f[0].node[p] # None \/ p \in f[0].wh, Parent[p] \notin Q
      PROVE  0 \in Layers(f)[Parent[p]]
  <2>1. CASE Parent[p] = Root
    BY <2>1, ViewDef, ZeroFirst
  <2>2. CASE Parent[p] # Root
    BY <1>1, <2>2, SoundType, PathsAssumption DEF LowerTree
  <2> QED BY <2>1, <2>2
<1>2. ASSUME NEW p \in Paths
      PROVE  /\ f[0].node[p] # None => p \notin f[0].wh
             /\ Layers(f)[Parent[p]] \in SUBSET Branches
             /\ Layers(f)[p] = LayerOf(f, p, Layers(f)[Parent[p]])
             /\ View(f)[p] = ViewOf(f, p, Layers(f)[Parent[p]])
  BY ViewDef, SoundType DEF Unambiguous
<1>3. ASSUME NEW p \in Q PROVE Parent[p] \in Q
  <2> SUFFICES ASSUME Parent[p] \notin Q PROVE FALSE
    OBVIOUS
  <2>1. p \in Paths /\ f[0].node[p] # None /\ f[0].node[p] = Dir /\ 0 \notin Layers(f)[p]
    BY ValuesAssumption
  <2>2. 0 \in Layers(f)[Parent[p]]
    BY <1>1, <2>1
  <2> HIDE DEF Q
  <2> QED BY <1>2, <2>1, <2>2, FirstDecides
<1>4. Q \in SUBSET Paths
  OBVIOUS
<1>5. Q = {}
  <2> HIDE DEF Q
  <2> QED BY <1>3, <1>4, NoEndlessClimb
<1>6. f[0].node[q] # None \/ q \in f[0].wh => 0 \in Layers(f)[Parent[q]]
  BY <1>1, <1>5
<1>7. f[0].node[q] = Dir => f[0].node[q] # None
  BY ValuesAssumption
<1> HIDE DEF Q
<1> QED BY <1>2, <1>6, <1>7, FirstDecides

\* Where the children of a name are hidden, nothing is seen below it.
LEMMA HiddenBelow ==
    ASSUME NEW f, NEW t \in Names,
           \A c \in Children(t) : Unhidden(f, c, Layers(f)[t]) = {}
    PROVE  \A q \in Below(t) : View(f)[q] = None
<1> DEFINE Q == {q \in Below(t) : Unhidden(f, q, Layers(f)[Parent[q]]) # {}}
<1>1. Q \in SUBSET Paths
  BY DEF Below
<1>2. ASSUME NEW q \in Q PROVE Parent[q] \in Q
  <2>1. q \in Paths /\ Parent[q] \in Subtree(t) /\ Parent[q] \in Paths
    BY <1>1, BelowName
  <2>2. Parent[q] # t
    BY <2>1 DEF Children
  <2>3. Parent[q] \in Below(t)
    BY <2>1, <2>2 DEF Subtree
  <2>4. Layers(f)[Parent[q]] # {}
    BY DEF Unhidden
  <2>5. Layers(f)[Parent[q]] = LayerOf(f, Parent[q], Layers(f)[Parent[Parent[q]]])
    BY <2>1, ViewDef
  <2>6. Unhidden(f, Parent[q], Layers(f)[Parent[Parent[q]]]) # {}
    BY <2>4, <2>5 DEF LayerOf
  <2> QED BY <2>3, <2>6
<1>3. Q = {}
  <2> HIDE DEF Q
  <2> QED BY <1>1, <1>2, NoEndlessClimb
<1>4. \A q \in Below(t) : View(f)[q] = ViewOf(f, q, Layers(f)[Parent[q]])
  BY ViewDef DEF Below
<1> QED BY <1>3, <1>4 DEF ViewOf

LEMMA NoLayersBelow ==
    ASSUME NEW f, NEW t \in Names, Layers(f)[t] = {}
    PROVE  \A q \in Below(t) : View(f)[q] = None
BY HiddenBelow DEF Unhidden

\* What is no directory in the view has nothing below it.
LEMMA ViewIsTree ==
    ASSUME NEW f, NEW t \in Names, View(f)[t] # Dir
    PROVE  \A q \in Below(t) : View(f)[q] = None
<1> DEFINE l == Layers(f)[Parent[t]]
           U == Unhidden(f, t, l)
<1>1. t \in Paths
  BY DEF Names
<1>2. /\ l \in SUBSET Branches /\ Layers(f)[t] = LayerOf(f, t, l)
      /\ View(f)[t] = ViewOf(f, t, l)
  BY <1>1, ViewDef
<1>3. U \in SUBSET Branches
  BY <1>2 DEF Unhidden
<1>4. U # {} => f[Leftmost(U)].node[t] # Dir
  BY <1>2 DEF ViewOf
<1>5. Layers(f)[t] = {}
  BY <1>2, <1>4 DEF LayerOf
<1> QED BY <1>5, NoLayersBelow

\* Only the first branch contributes entries to a directory.
OnTop(f, t) ==
    \A b \in Layers(f)[t] \ {0}, c \in Children(t) : f[b].node[c] = None

LEMMA OnTopBelow ==
    ASSUME NEW f, f[0] \in SoundBranches, NEW t \in Names, OnTop(f, t)
    PROVE  \A q \in Below(t) : View(f)[q] = f[0].node[q]
<1> DEFINE L == Layers(f)
           Q == {q \in Below(t) : ~ (Unhidden(f, q, L[Parent[q]]) \subseteq {0})}
<1>1. Q \in SUBSET Paths
  BY DEF Below
<1>2. ASSUME NEW q \in Q PROVE Parent[q] \in Q
  <2>1. q \in Paths /\ Parent[q] \in Subtree(t) /\ Parent[q] \in Paths
    BY <1>1, BelowName
  <2>2. Parent[q] # t
    BY <2>1 DEF Children, Unhidden, OnTop
  <2>3. Parent[q] \in Below(t)
    BY <2>1, <2>2 DEF Subtree
  <2>4. ~ (L[Parent[q]] \subseteq {0})
    BY DEF Unhidden
  <2>5. L[Parent[q]] = LayerOf(f, Parent[q], L[Parent[Parent[q]]])
    BY <2>1, ViewDef
  <2>6. L[Parent[q]] \subseteq Unhidden(f, Parent[q], L[Parent[Parent[q]]])
    <3> HIDE DEF L
    <3> QED BY <2>5 DEF LayerOf
  <2> QED BY <2>3, <2>4, <2>6
<1>3. Q = {}
  <2> HIDE DEF Q
  <2> QED BY <1>1, <1>2, NoEndlessClimb
<1>4. ASSUME NEW q \in Below(t) PROVE View(f)[q] = f[0].node[q]
  <2> DEFINE U == Unhidden(f, q, L[Parent[q]])
  <2>1. q \in Paths /\ U \subseteq {0} /\ View(f)[q] = ViewOf(f, q, L[Parent[q]])
    BY <1>3, ViewDef DEF Below
  <2>2. CASE f[0].node[q] # None
    BY <2>1, <2>2, TopSeen
  <2>3. CASE f[0].node[q] = None
    <3>1. 0 \notin U
      BY <2>3 DEF Unhidden
    <3>2. U = {}
      BY <2>1, <3>1
    <3> QED BY <2>1, <2>3, <3>2 DEF ViewOf
  <2> QED BY <2>2, <2>3
<1> QED BY <1>4

\* An opaque directory of the first branch is the only layer.
LEMMA OpaqueOnTop ==
    ASSUME NEW f, f[0] \in SoundBranches, NEW t \in Names, t \in f[0].opq
    PROVE  Layers(f)[t] \subseteq {0}
<1> DEFINE l == Layers(f)[Parent[t]]
           U == Unhidden(f, t, l)
           D == {b \in U : f[b].node[t] = Dir}
<1>1. t \in Paths /\ f[0].node[t] = Dir /\ f[0].node[t] # None /\ t \notin f[0].wh
  BY ValuesAssumption, SoundType DEF LowerTree, Unambiguous
<1>2. l = Branches /\ Layers(f)[t] = LayerOf(f, t, l)
  BY <1>1, ViewDef DEF Names
<1>3. 0 \in D
  BY <1>1, <1>2, ZeroFirst DEF Unhidden
<1>4. Layers(f)[t] \subseteq {b \in D : \A c \in D : c < b => t \notin f[c].opq}
  BY <1>2 DEF LayerOf
<1>5. D \subseteq Branches
  BY <1>2 DEF Unhidden
<1> HIDE DEF D
<1>6. ASSUME NEW b \in Layers(f)[t], b # 0 PROVE FALSE
  <2>1. b \in D /\ \A c \in D : c < b => t \notin f[c].opq
    BY <1>4
  <2>2. b > 0
    BY <1>5, <1>6, <2>1, ZeroFirst
  <2> QED BY <1>3, <2>1, <2>2
<1> QED BY <1>6

\* Two unions look the same on a set of names that is closed upwards if their
\* branches do.
AlikeAt(f, g, q) ==
    \A b \in Branches : /\ f[b].node[q] = g[b].node[q]
                        /\ q \in f[b].wh <=> q \in g[b].wh
                        /\ q \in f[b].opq <=> q \in g[b].opq

LEMMA AlikeView ==
    ASSUME NEW f, NEW g, NEW S \in SUBSET Paths,
           \A q \in S : Parent[q] = Root \/ Parent[q] \in S,
           \A q \in S : AlikeAt(f, g, q)
    PROVE  \A q \in S : View(f)[q] = View(g)[q]
<1>1. ASSUME NEW q \in S, NEW l \in SUBSET Branches
      PROVE  LayerOf(f, q, l) = LayerOf(g, q, l) /\ ViewOf(f, q, l) = ViewOf(g, q, l)
  <2>1. \A b \in Branches : /\ f[b].node[q] = g[b].node[q]
                            /\ q \in f[b].wh <=> q \in g[b].wh
                            /\ q \in f[b].opq <=> q \in g[b].opq
    BY DEF AlikeAt
  <2> DEFINE U == Unhidden(f, q, l)
             D == {b \in U : f[b].node[q] = Dir}
             V == Unhidden(g, q, l)
             E == {b \in V : g[b].node[q] = Dir}
  <2>2. U = V /\ U \in SUBSET Branches
    BY <2>1 DEF Unhidden
  <2>3. D = E
    BY <2>1, <2>2
  <2>4. U # {} => Leftmost(U) \in Branches
    <3> HIDE DEF U
    <3> QED BY <2>2, LeftmostIsLeast
  <2>5. ViewOf(f, q, l) = ViewOf(g, q, l)
    BY <2>1, <2>2, <2>4 DEF ViewOf
  <2>6. {b \in D : \A c \in D : c < b => q \notin f[c].opq}
            = {b \in E : \A c \in E : c < b => q \notin g[c].opq}
    <3>1. D \subseteq Branches
      BY <2>2
    <3> HIDE DEF D, E
    <3> QED BY <2>1, <2>3, <3>1
  <2>7. LayerOf(f, q, l) = LayerOf(g, q, l)
    <3>1. LayerOf(f, q, l) = IF U = {} THEN {} ELSE IF Leftmost(U) \notin D THEN {}
                             ELSE {b \in D : \A c \in D : c < b => q \notin f[c].opq}
      BY DEF LayerOf
    <3>2. LayerOf(g, q, l) = IF V = {} THEN {} ELSE IF Leftmost(V) \notin E THEN {}
                             ELSE {b \in E : \A c \in E : c < b => q \notin g[c].opq}
      BY DEF LayerOf
    <3> HIDE DEF U, V, D, E
    <3> QED BY ONLY <2>2, <2>3, <2>6, <3>1, <3>2
  <2> QED BY <2>5, <2>7
<1> DEFINE Q == {q \in S : Layers(f)[q] # Layers(g)[q]}
<1>2. \A q \in S : Layers(f)[Parent[q]] = Layers(g)[Parent[q]] \/ Parent[q] \in Q
  BY ViewDef
<1>3. ASSUME NEW q \in S, Layers(f)[Parent[q]] = Layers(g)[Parent[q]]
      PROVE  Layers(f)[q] = Layers(g)[q] /\ View(f)[q] = View(g)[q]
  BY <1>1, <1>3, ViewDef
<1>4. \A q \in Q : Parent[q] \in Q
  BY <1>2, <1>3
<1>5. Q = {}
  <2>1. Q \in SUBSET Paths
    OBVIOUS
  <2> HIDE DEF Q
  <2> QED BY <1>4, <2>1, NoEndlessClimb
<1> QED BY <1>2, <1>3, <1>5

-----------------------------------------------------------------------------
(* What the completed lookup of a name has to do with its view.            *)

\* What can be said of a branch that contributes to the directory p.
LEMMA LayerIs ==
    ASSUME NEW f, NEW p \in Names, NEW b \in Layers(f)[p]
    PROVE  /\ b \in Branches /\ f[b].node[p] = Dir
           /\ \A c \in Branches : c =< b => p \notin f[c].wh
           /\ \A c \in Branches : c < b /\ f[c].node[p] = Dir => p \notin f[c].opq
           /\ \E u \in Branches : /\ u =< b /\ f[u].node[p] = Dir
                                  /\ \A y \in Branches : y < u => f[y].node[p] = None
<1> DEFINE U == Unhidden(f, p, Branches)
           D == {x \in U : f[x].node[p] = Dir}
<1>1. p \in Paths /\ Parent[p] = Root
  BY DEF Names
<1>2. Layers(f)[p] = LayerOf(f, p, Branches)
  BY <1>1, ViewDef
<1>3. /\ U # {} /\ Leftmost(U) \in D
      /\ Layers(f)[p] = {x \in D : \A c \in D : c < x => p \notin f[c].opq}
  BY <1>2 DEF LayerOf
<1>4. b \in D /\ \A c \in D : c < b => p \notin f[c].opq
  BY <1>3
<1>5. U \in SUBSET Branches /\ b \in U
  BY <1>4 DEF Unhidden
<1>6. \A c \in Branches : c =< b => p \notin f[c].wh
  BY <1>5 DEF Unhidden
<1>7. ASSUME NEW c \in Branches, c =< b, f[c].node[p] # None
      PROVE  c \in U
  <2>1. \A y \in Branches : y =< c => y =< b
    BY <1>5, <1>7, ZeroFirst
  <2> QED BY <1>6, <1>7, <2>1 DEF Unhidden
<1>8. \A c \in Branches : c < b /\ f[c].node[p] = Dir => p \notin f[c].opq
  BY <1>4, <1>5, <1>7, ZeroFirst, ValuesAssumption
<1> DEFINE u == Leftmost(U)
<1>9. u \in U /\ \A c \in U : u =< c
  <2> HIDE DEF U
  <2> QED BY <1>3, <1>5, LeftmostIsLeast
<1>10. f[u].node[p] = Dir
  BY <1>3
<1>11. ASSUME NEW y \in Branches, y < u PROVE f[y].node[p] = None
  <2>1. u =< b /\ u \in Branches
    BY <1>5, <1>9
  <2>2. ~ (u =< y) /\ y =< b
    BY <1>5, <1>11, <2>1, ZeroFirst
  <2> QED BY <1>7, <1>9, <2>2
<1> HIDE DEF U, u
<1> QED BY <1>4, <1>5, <1>6, <1>8, <1>9, <1>10, <1>11 DEF D

\* A lookup that finds a directory reads every branch of it.
LEMMA LookupReads ==
    ASSUME NEW f, NEW p \in Names, NEW d, d = Lookup(f, RootDentry, p),
           ~IsNegative(f, d, p)
    PROVE  /\ \A x \in Branches : d.hid[x] = "live" => x =< d.bend
           /\ \A b \in Layers(f)[p] :
                /\ d.bstart =< b /\ b =< d.bend /\ (d.bopaque = -1 \/ b =< d.bopaque)
                /\ \A x \in Branches : /\ x =< b /\ f[x].node[p] # None
                                       => d.hid[x] = "live"
<1> DEFINE S     == Searched(f, RootDentry, p, RootDentry.bstart, RootDentry.bend)
           marks == WhiteoutIn(f, p, S) \cup OpaqueIn(f, p, S)
           ends  == marks \cup FirstFileIn(f, p, S)
           seen  == UpTo(S, ends)
           found == FoundIn(f, p, seen)
           hit   == marks \cap seen
<1>1. S = Branches
  BY RootSearched DEF Names
<1>2. /\ d.bstart \in Branches /\ d.hid[d.bstart] = "live"
      /\ f[d.bstart].node[p] # None /\ p \notin f[d.bstart].wh
      /\ \A b \in Branches : b < d.bstart => f[b].node[p] = None
  BY FoundInRoot
<1>3. found # {}
  <2>1. CASE found = {}
    <3> DEFINE plain == {b \in seen : p \notin f[b].wh}
               first == IF plain = {} THEN Leftmost(hit) ELSE Leftmost(plain)
    <3>1. d.hid = LiveIn({first}) /\ d.bstart = first
      BY <2>1 DEF Lookup
    <3>2. first \in seen
      <4>1. plain # {} \/ hit = {}
        <5>1. SUFFICES ASSUME plain = {}, hit # {} PROVE FALSE
          OBVIOUS
        <5>2. hit \in SUBSET Branches
          BY <1>1 DEF UpTo
        <5>3. Leftmost(hit) \in hit
          <6> HIDE DEF hit
          <6> QED BY <5>1, <5>2, LeftmostIsLeast
        <5>4. d.bstart \in seen
          BY <3>1, <5>1, <5>3
        <5> HIDE DEF seen
        <5> QED BY <1>2, <5>1, <5>4
      <4>2. plain # {}
        <5>1. UpTo(S, ends) # {}
          <6>1. ends \in SUBSET S /\ S \in SUBSET Branches /\ S # {}
            BY <1>1, ZeroFirst DEF WhiteoutIn, OpaqueIn, FirstFileIn, FoundIn
          <6> HIDE DEF S, ends
          <6> QED BY <6>1, UpToSome
        <5>2. SUFFICES ASSUME plain = {} PROVE FALSE
          OBVIOUS
        <5>3. PICK s \in seen : TRUE
          BY <5>1
        <5>4. s \in S /\ s \in WhiteoutIn(f, p, S)
          BY <5>2, <5>3 DEF UpTo, WhiteoutIn
        <5>5. s \in hit
          BY <5>3, <5>4
        <5> QED BY <4>1, <5>2, <5>5
      <4>3. plain \in SUBSET Branches /\ plain \subseteq seen
        BY <1>1 DEF UpTo
      <4> HIDE DEF plain
      <4> QED BY <4>2, <4>3, LeftmostIsLeast
    <3> HIDE DEF first, seen
    <3> QED BY <1>2, <2>1, <3>1, <3>2 DEF FoundIn
  <2> QED BY <2>1
<1>4. /\ d.hid = LiveIn(found)
      /\ d.bend = IF hit = {} THEN Rightmost(found) ELSE Leftmost(hit)
      /\ d.bopaque = IF hit = {} THEN -1 ELSE Leftmost(hit)
  BY <1>3 DEF Lookup
<1>5. /\ seen = {x \in Branches : \A e \in ends : x =< e}
      /\ ends \in SUBSET Branches /\ hit \subseteq ends /\ hit \in SUBSET Branches
      /\ found \in SUBSET Branches /\ found \subseteq seen
  BY <1>1 DEF UpTo, WhiteoutIn, OpaqueIn, FirstFileIn, FoundIn
<1>6. /\ hit # {} => Leftmost(hit) \in hit
      /\ \A x \in found : x =< Rightmost(found)
  <2> HIDE DEF hit, found
  <2> QED BY <1>3, <1>5, LeftmostIsLeast, RightmostIsGreatest
<1>7. ASSUME NEW x \in Branches, d.hid[x] = "live" PROVE x =< d.bend
  <2>1. x \in found
    BY <1>4, <1>7, LiveInType
  <2> HIDE DEF found, hit, seen, ends
  <2> QED BY <1>4, <1>5, <1>6, <2>1
<1>8. ASSUME NEW b \in Layers(f)[p]
      PROVE  /\ d.bstart =< b /\ b =< d.bend /\ (d.bopaque = -1 \/ b =< d.bopaque)
             /\ \A x \in Branches : x =< b /\ f[x].node[p] # None => d.hid[x] = "live"
  <2>1. /\ b \in Branches /\ f[b].node[p] = Dir /\ f[b].node[p] # None
        /\ \A c \in Branches : c =< b => p \notin f[c].wh
        /\ \A c \in Branches : c < b /\ f[c].node[p] = Dir => p \notin f[c].opq
    BY LayerIs, ValuesAssumption
  <2>2. PICK u \in Branches : /\ u =< b /\ f[u].node[p] = Dir
                              /\ \A y \in Branches : y < u => f[y].node[p] = None
    BY LayerIs
  <2>3. d.bstart =< b
    BY <1>2, <2>1, ZeroFirst
  <2>4. ASSUME NEW e \in ends PROVE b =< e
    <3>1. e \in Branches
      BY <1>5
    <3>2. SUFFICES ASSUME e < b PROVE FALSE
      BY <2>1, <3>1, ZeroFirst
    <3>3. e =< b
      BY <2>1, <3>1, <3>2, ZeroFirst
    <3>4. e \notin WhiteoutIn(f, p, S)
      BY <2>1, <3>1, <3>3 DEF WhiteoutIn
    <3>5. e \notin OpaqueIn(f, p, S)
      BY <2>1, <3>1, <3>2 DEF OpaqueIn
    <3>6. e \notin FirstFileIn(f, p, S)
      <4>1. SUFFICES ASSUME e \in FirstFileIn(f, p, S) PROVE FALSE
        OBVIOUS
      <4>2. f[e].node[p] # Dir /\ f[e].node[p] # None
            /\ \A c \in FoundIn(f, p, S) : e =< c
        BY <4>1 DEF FirstFileIn, FoundIn
      <4>3. u \in FoundIn(f, p, S)
        BY <1>1, <2>1, <2>2, ValuesAssumption DEF FoundIn
      <4>4. e =< u /\ ~ (e < u)
        BY <2>2, <3>1, <4>2, <4>3
      <4> QED BY <2>2, <3>1, <4>2, <4>4, ZeroFirst
    <3> QED BY <3>4, <3>5, <3>6
  <2>5. ASSUME NEW x \in Branches, x =< b, f[x].node[p] # None
        PROVE  d.hid[x] = "live"
    <3>1. x \in seen
      <4>1. \A e \in ends : e \in Nat /\ b =< e
        BY <1>5, <2>4, ZeroFirst
      <4> HIDE DEF ends, seen
      <4> QED BY <1>5, <2>1, <2>5, <4>1, ZeroFirst
    <3>2. x \in found
      <4> HIDE DEF seen
      <4> QED BY <2>1, <2>5, <3>1 DEF FoundIn
    <3> QED BY <1>4, <3>2, LiveInType
  <2>6. d.hid[b] = "live"
    BY <2>1, <2>5, ZeroFirst
  <2>7. d.bopaque = -1 \/ b =< d.bopaque
    <3> HIDE DEF hit, ends
    <3> QED BY <1>4, <1>5, <1>6, <2>4
  <2> QED BY <1>7, <2>1, <2>3, <2>5, <2>6, <2>7
<1> QED BY <1>7, <1>8

\* The branches that check_empty reads.
ReadBy(d, p) ==
    {b \in Branches : /\ d.bstart =< b /\ b =< d.bend
                      /\ d.bopaque = -1 \/ b =< d.bopaque
                      /\ d.hid[b] = "live" /\ fs[b].node[p] = Dir}

LEMMA CheckEmptyReads ==
    ASSUME NEW d, NEW p, CheckEmpty(d, p), NEW b \in ReadBy(d, p), NEW c \in Children(p),
           fs[b].node[c] # None
    PROVE  \E a \in ReadBy(d, p) : a < b /\ c \in fs[a].wh
BY DEF CheckEmpty, ReadBy

\* So does the completed one, and if it ends where it begins, at the first
\* branch, then no other has the name.
LEMMA CompletedReads ==
    ASSUME NEW p \in Names, NEW d, d = Lookup(fs, RootDentry, p), ~IsNegative(fs, d, p),
           NEW o, o = Completed(d, p)
    PROVE  /\ Layers(fs)[p] \subseteq ReadBy(o, p)
           /\ o.bend = 0 => \A x \in Branches \ {0} :
                                fs[x].node[p] = None \/ p \in fs[x].wh
<1> DEFINE e   == PartialLookup(fs, RootDentry, d, p)
           pos == {b \in Branches : e.hid[b] = "live" /\ fs[b].node[p] # None}
           h   == [b \in Branches |-> IF b < Leftmost(pos) THEN "null" ELSE e.hid[b]]
           l   == IF RootDentry.bopaque # -1 /\ RootDentry.bopaque < RootDentry.bend
                  THEN RootDentry.bopaque ELSE RootDentry.bend
           S   == {b \in Searched(fs, RootDentry, p, RootDentry.bstart + 1, l) :
                        d.hid[b] = "null"}
           marks == WhiteoutIn(fs, p, S) \cup OpaqueIn(fs, p, S)
           found == FoundIn(fs, p, UpTo(S, marks))
<1>1. p \in Paths /\ Parent[p] = Root
  BY DEF Names
<1>2. /\ d \in GoodDentries /\ d.bstart \in Branches /\ d.hid[d.bstart] = "live"
      /\ fs[d.bstart].node[p] # None
      /\ \A b \in Branches : b < d.bstart => fs[b].node[p] = None
  BY FoundInRoot
<1>3. S = {b \in Branches : 1 =< b /\ d.hid[b] = "null"}
  BY <1>1, BranchAssumption DEF Searched, RootDentry, IsDir, Branches
<1>4. /\ S \in SUBSET Branches /\ marks \in SUBSET S /\ found \in SUBSET S
      /\ found = {x \in S : /\ \A y \in marks : x =< y
                            /\ p \notin fs[x].wh /\ fs[x].node[p] # None}
  BY <1>3 DEF WhiteoutIn, OpaqueIn, FoundIn, UpTo
<1>5. /\ e.bstart = d.bstart
      /\ e.bend = IF marks # {} THEN Leftmost(marks)
                  ELSE IF found # {} THEN Rightmost(found) ELSE d.bend
      /\ e.bopaque = IF marks # {} THEN Leftmost(marks) ELSE d.bopaque
      /\ \A b \in Branches : e.hid[b] = IF b \in found THEN "live" ELSE d.hid[b]
  BY DEF PartialLookup
<1>6. /\ marks # {} => Leftmost(marks) \in marks
      /\ found # {} => Rightmost(found) \in found
      /\ \A x \in found : x =< Rightmost(found)
  <2> HIDE DEF marks, found, S
  <2> QED BY <1>4, LeftmostIsLeast, RightmostIsGreatest
<1>7. \A x \in marks : p \in fs[x].wh \/ (fs[x].node[p] = Dir /\ p \in fs[x].opq)
  BY DEF WhiteoutIn, OpaqueIn
<1> HIDE DEF e, marks, found, S
<1>8. /\ pos \in SUBSET Branches /\ d.bstart \in pos
      /\ \A b \in pos : d.bstart =< b
  BY <1>2, <1>5, ZeroFirst
<1>9. Leftmost(pos) = d.bstart
  <2> HIDE DEF pos
  <2>1. Leftmost(pos) \in pos /\ Leftmost(pos) =< d.bstart
    BY <1>8, LeftmostIsLeast
  <2> QED BY <1>2, <1>8, <2>1, ZeroFirst
<1>10. /\ o.bstart = d.bstart /\ o.bend = e.bend /\ o.bopaque = e.bopaque
       /\ \A b \in Branches : ~ (b < d.bstart) => o.hid[b] = e.hid[b]
  <2>1. o = [e EXCEPT !.bstart = Leftmost(pos), !.hid = h]
    BY <1>8 DEF Completed, e
  <2>2. \A b \in Branches : ~ (b < d.bstart) => h[b] = e.hid[b]
    BY <1>9
  <2>3. e \in GoodDentries
    BY <1>1, <1>2, PartialLookupGood DEF e
  <2>4. e = [bstart |-> e.bstart, bend |-> e.bend, bopaque |-> e.bopaque, hid |-> e.hid]
    BY <2>3, GoodFields
  <2> HIDE DEF h, pos
  <2> QED BY <1>9, <2>1, <2>2, <2>4
<1>11. ASSUME NEW b \in Layers(fs)[p] PROVE b \in ReadBy(o, p)
  <2>1. /\ b \in Branches /\ fs[b].node[p] = Dir /\ fs[b].node[p] # None
        /\ \A c \in Branches : c =< b => p \notin fs[c].wh
        /\ \A c \in Branches : c < b /\ fs[c].node[p] = Dir => p \notin fs[c].opq
    BY LayerIs, ValuesAssumption
  <2>2. /\ d.bstart =< b /\ b =< d.bend /\ (d.bopaque = -1 \/ b =< d.bopaque)
        /\ \A x \in Branches : x =< b /\ fs[x].node[p] # None => d.hid[x] = "live"
    BY LookupReads
  <2>3. d.hid[b] = "live" /\ b \in Nat
    BY <2>1, <2>2, ZeroFirst
  <2>4. \A x \in S : x \in Branches /\ x \in Nat /\ x # b /\ d.hid[x] # "live"
    BY <1>3, <2>3, ZeroFirst
  <2>5. \A x \in marks : b =< x
    <3> SUFFICES ASSUME NEW x \in marks, x < b PROVE FALSE
      BY <1>4, <2>3, <2>4
    <3>1. x \in Branches /\ x =< b
      BY <1>4, <2>3, <2>4
    <3> QED BY <1>7, <2>1, <3>1
  <2>6. \A x \in found : b =< x
    <3> SUFFICES ASSUME NEW x \in found, x < b PROVE FALSE
      BY <1>4, <2>3, <2>4
    <3>1. x \in Branches /\ x =< b /\ d.hid[x] # "live" /\ fs[x].node[p] # None
      BY <1>4, <2>3, <2>4
    <3> QED BY <2>2, <3>1
  <2>7. b =< e.bend /\ (e.bopaque = -1 \/ b =< e.bopaque)
    BY <1>5, <1>6, <2>2, <2>5, <2>6
  <2>8. o.hid[b] = "live"
    BY <1>2, <1>5, <1>10, <2>1, <2>2, <2>3, ZeroFirst
  <2> QED BY <1>10, <2>1, <2>2, <2>7, <2>8 DEF ReadBy
<1>12. ASSUME o.bend = 0, NEW x \in Branches \ {0}, fs[x].node[p] # None, p \notin fs[x].wh
       PROVE  FALSE
  <2>1. x \in Nat /\ 1 =< x
    BY <1>12, ZeroFirst
  <2>2. \A y \in S : 1 =< y /\ y # 0
    BY <1>3, ZeroFirst
  <2>3. marks = {} /\ found = {} /\ d.bend = 0
    BY <1>4, <1>5, <1>6, <1>10, <1>12, <2>2
  <2>4. x \notin S
    BY <1>4, <1>12, <2>3
  <2>5. d.hid[x] \in Pointers /\ d.hid[x] # "null"
    BY <1>2, <1>3, <1>12, <2>1, <2>4, GoodFields
  <2>6. d.hid[x] = "live"
    <3>1. \E X : d.hid = LiveIn(X)
      BY DEF Lookup
    <3> QED BY <1>12, <2>5, <3>1, LiveInType
  <2>7. x =< d.bend
    BY <1>12, <2>6, LookupReads
  <2> QED BY <2>1, <2>3, <2>7
<1> QED BY <1>11, <1>12

\* What is seen in the root directory is found there.
LEMMA SeenIsFound ==
    ASSUME NEW f, NEW p \in Names, NEW d, d = Lookup(f, RootDentry, p),
           View(f)[p] # None
    PROVE  ~IsNegative(f, d, p)
<1> DEFINE U     == Unhidden(f, p, Branches)
           S     == Searched(f, RootDentry, p, RootDentry.bstart, RootDentry.bend)
           marks == WhiteoutIn(f, p, S) \cup OpaqueIn(f, p, S)
           ends  == marks \cup FirstFileIn(f, p, S)
           seen  == UpTo(S, ends)
           found == FoundIn(f, p, seen)
           b     == Leftmost(U)
<1>1. p \in Paths /\ Parent[p] = Root /\ S = Branches
  BY RootSearched DEF Names
<1>2. U # {} /\ U \in SUBSET Branches
  <2>1. View(f)[p] = ViewOf(f, p, Branches)
    BY <1>1, ViewDef
  <2> QED BY <2>1 DEF ViewOf, Unhidden
<1>3. b \in U /\ \A c \in U : b =< c
  <2> HIDE DEF U
  <2> QED BY <1>2, LeftmostIsLeast
<1>4. /\ b \in Branches /\ f[b].node[p] # None
      /\ \A c \in Branches : c =< b => p \notin f[c].wh
  BY <1>3 DEF Unhidden
<1>5. ASSUME NEW x \in Branches, x < b PROVE f[x].node[p] = None /\ p \notin f[x].wh
  <2>1. \A c \in Branches : c =< x => c =< b
    BY <1>4, <1>5, ZeroFirst
  <2>2. x =< b /\ ~ (b =< x)
    BY <1>4, <1>5, ZeroFirst
  <2>3. x \notin U
    <3> HIDE DEF U, b
    <3> QED BY <1>3, <2>2
  <2> QED BY <1>4, <2>1, <2>2, <2>3 DEF Unhidden
<1>6. ASSUME NEW e \in ends PROVE b =< e
  <2>1. e \in Branches /\ (f[e].node[p] # None \/ p \in f[e].wh)
    BY <1>1 DEF WhiteoutIn, OpaqueIn, FirstFileIn, FoundIn
  <2> HIDE DEF b, ends
  <2> QED BY <1>4, <1>5, <2>1, ZeroFirst
<1>7. b \in found
  <2>1. p \notin f[b].wh
    BY <1>4, ZeroFirst
  <2>2. b \in seen
    BY <1>1, <1>4, <1>6 DEF UpTo
  <2> HIDE DEF seen, b
  <2> QED BY <1>4, <2>1, <2>2 DEF FoundIn
<1>8. d.hid = LiveIn(found)
  BY <1>7 DEF Lookup
<1>9. d.hid[b] = "live" /\ p \notin f[b].wh
  <2> HIDE DEF b, found
  <2> QED BY <1>4, <1>7, <1>8, LiveInType, ZeroFirst
<1> HIDE DEF b
<1> QED BY <1>4, <1>9 DEF IsNegative
-----------------------------------------------------------------------------
(* What a write to one name leaves alone.                                  *)

\* The twin of what is below a name is below its twin.
LEMMA TwinSubtree ==
    ASSUME NEW t \in Names, NEW q \in Paths
    PROVE  q \in Subtree(t) <=> Twin[q] \in Subtree(Twin[t])
<1>1. ASSUME NEW s \in Names
      PROVE  \A x \in Subtree(s) : Twin[x] \in Subtree(Twin[s])
  <2> DEFINE Q == {x \in Subtree(s) : Twin[x] \notin Subtree(Twin[s])}
  <2>1. s \in Paths /\ Twin[s] \in Names /\ Subtree(s) \in SUBSET Paths
    BY NamesTwin DEF Subtree, Below, Names
  <2>2. ASSUME NEW x \in Q PROVE Parent[x] \in Q
    <3>1. x \in Paths /\ x \in Subtree(s) /\ x # s
      BY <2>1 DEF Subtree
    <3>2. x \in Below(s) /\ x \notin Names /\ Parent[x] \in Subtree(s)
      BY <3>1, BelowName DEF Subtree
    <3>3. Twin[x] \in Paths /\ Parent[Twin[x]] = Twin[Parent[x]]
      BY <3>1, <3>2, TwinAssumption
    <3>4. Twin[x] \notin Below(Twin[s])
      BY DEF Subtree
    <3> QED BY <2>1, <3>2, <3>3, <3>4, BelowName
  <2>3. Q = {}
    <3>1. Q \in SUBSET Paths
      BY <2>1
    <3> HIDE DEF Q
    <3> QED BY <2>2, <3>1, NoEndlessClimb
  <2> QED BY <2>3
<1>2. /\ Twin[t] \in Names /\ Twin[Twin[t]] = t /\ Twin[Twin[q]] = q
  BY NamesTwin, TwinAssumption
<1> QED BY <1>1, <1>2

\* The lower rename takes everything along.
LEMMA RenamedTwin ==
    ASSUME NEW br, NEW s \in Names
    PROVE  /\ \A q \in Subtree(s) : Renamed(br, s, Twin[s]).node[Twin[q]] = br.node[q]
           /\ \A q \in Paths \ (Subtree(s) \cup Subtree(Twin[s])) :
                /\ Renamed(br, s, Twin[s]).node[q] = br.node[q]
                /\ q \in Renamed(br, s, Twin[s]).wh <=> q \in br.wh
                /\ q \in Renamed(br, s, Twin[s]).opq <=> q \in br.opq
<1>1. Twin[s] \in Names /\ s # Twin[s]
  BY NamesTwin, TwinAssumption DEF Names
<1>2. ASSUME NEW q \in Subtree(s)
      PROVE  Renamed(br, s, Twin[s]).node[Twin[q]] = br.node[q]
  <2>1. q \in Paths /\ Twin[q] \in Paths /\ Twin[Twin[q]] = q
    BY TwinAssumption DEF Subtree, Below, Names
  <2>2. Twin[q] \in Subtree(Twin[s]) /\ Twin[q] \notin Subtree(s)
    BY <1>1, <2>1, TwinSubtree, Apart
  <2> QED BY <2>1, <2>2 DEF Renamed
<1>3. ASSUME NEW q \in Paths \ (Subtree(s) \cup Subtree(Twin[s]))
      PROVE  /\ Renamed(br, s, Twin[s]).node[q] = br.node[q]
             /\ q \in Renamed(br, s, Twin[s]).wh <=> q \in br.wh
             /\ q \in Renamed(br, s, Twin[s]).opq <=> q \in br.opq
  BY <1>3 DEF Renamed, Subtree
<1> QED BY <1>2, <1>3

\* The names that a call at p has nothing to do with.
Away(p) == Paths \ (Subtree(p) \cup Subtree(Twin[p]))

LEMMA AwayClosed ==
    ASSUME NEW p \in Names
    PROVE  \A q \in Away(p) : Parent[q] = Root \/ Parent[q] \in Away(p)
<1>1. Twin[p] \in Names
  BY NamesTwin
<1> SUFFICES ASSUME NEW q \in Away(p), Parent[q] # Root PROVE Parent[q] \in Away(p)
  OBVIOUS
<1>2. q \in Paths /\ q \notin Subtree(p) /\ q \notin Subtree(Twin[p]) /\ Parent[q] \in Paths
  BY PathsAssumption DEF Away
<1> QED BY <1>1, <1>2, BelowName DEF Away, Subtree

\* Two unions that differ in the first branch only, and there at the names of a
\* call only.
Touches(f, g, p) ==
    /\ \A b \in Branches \ {0} : g[b] = f[b]
    /\ \A q \in Away(p) : /\ g[0].node[q] = f[0].node[q]
                          /\ q \in g[0].wh <=> q \in f[0].wh
                          /\ q \in g[0].opq <=> q \in f[0].opq

LEMMA AwayStays ==
    ASSUME NEW f, NEW g, NEW p \in Names, Touches(f, g, p)
    PROVE  \A q \in Away(p) : View(g)[q] = View(f)[q]
<1>1. Away(p) \in SUBSET Paths
  BY DEF Away
<1>2. \A q \in Away(p) : AlikeAt(g, f, q)
  BY ZeroFirst DEF AlikeAt, Touches
<1> QED BY <1>1, <1>2, AwayClosed, AlikeView

\* A name of the root directory depends on itself alone.
LEMMA NameStays ==
    ASSUME NEW f, NEW g, NEW p \in Names, \A b \in Branches \ {0} : g[b] = f[b],
           g[0].node[p] = f[0].node[p], p \in g[0].wh <=> p \in f[0].wh,
           p \in g[0].opq <=> p \in f[0].opq
    PROVE  View(g)[p] = View(f)[p]
<1>1. {p} \in SUBSET Paths /\ \A q \in {p} : Parent[q] = Root
  BY DEF Names
<1>2. AlikeAt(g, f, p)
  BY ZeroFirst DEF AlikeAt
<1>3. \A q \in {p} : AlikeAt(g, f, q)
  BY <1>2
<1> HIDE DEF AlikeAt
<1>4. \A q \in {p} : View(g)[q] = View(f)[q]
  BY <1>1, <1>3, AlikeView
<1> QED BY <1>4

-----------------------------------------------------------------------------
(***************************************************************************)
(* What a call has done to the view so far, in terms of the view v that it *)
(* began with: nothing to names that it has nothing to do with, and what   *)
(* it is to move is seen under the old name, until the writable branch has *)
(* all of it under the new one.                                            *)
(***************************************************************************)

\* A destination that is seen is of the source's kind, and empty.
MayReplace(p, v) ==
    v[Twin[p]] # None =>
        /\ (v[Twin[p]] = Dir) = (v[p] = Dir)
        /\ \A q \in Below(Twin[p]) : v[q] = None

RenameView(f, step, c, v) ==
    /\ c.err = "none" /\ c.dir = (v[c.old] = Dir) /\ MayReplace(c.old, v)
    /\ c.old_bend = 0 => \A b \in Branches \ {0} : f[b].node[c.old] = None
    /\ 0 \in c.moved => \A q \in Subtree(c.old) : f[0].node[Twin[q]] = v[q]
    /\ 0 \notin c.moved =>
         /\ step \notin {"opaque", "whiteout"}
         /\ \A q \in Below(c.old) : f[0].node[q] = v[q]
         /\ step # "copydata" => View(f)[c.old] = v[c.old]
    /\ step \in {"opaque", "whiteout"} => c.old_bstart = 0 \/ c.do_copyup # -1
    /\ step = "whiteout" /\ c.dir => Twin[c.old] \in f[0].opq

LinkView(f, step, c, v) ==
    /\ v[c.old] # Dir /\ v[Twin[c.old]] = None
    /\ \A q \in Below(c.old) \cup Below(Twin[c.old]) : v[q] = None
    /\ f[0].node[Twin[c.old]] = None /\ c.stage # "back"
    /\ step # "copydata" => View(f)[c.old] = v[c.old]
    /\ step = "copyup" => c.bindex # -1 /\ f[0].node[c.old] = None
    /\ step = "link" /\ c.stage = "first" /\ c.old_bstart # 0 => f[0].node[c.old] = None
    /\ step = "link" /\ c.stage = "second" => f[0].node[c.old] = v[c.old]

CallView(f, step, c, v) ==
    /\ v[c.old] # None
    /\ \A q \in Away(c.old) : View(f)[q] = v[q]
    /\ c.op = "rename" => RenameView(f, step, c, v)
    /\ c.op = "link" => LinkView(f, step, c, v)

ViewInv == pc # "idle" => CallView(fs, pc, call, before)

-----------------------------------------------------------------------------
(* A call begins.                                                          *)

\* A directory that may be renamed has its entries in the first branch only.
LEMMA MayRenameOnTop ==
    ASSUME AllSound, Setting, NEW p \in Names, NEW d, d = Lookup(fs, RootDentry, p),
           ~IsNegative(fs, d, p), NEW o, o = Completed(d, p), MayRenameDir(o, p)
    PROVE  OnTop(fs, p)
<1>1. Layers(fs)[p] \subseteq ReadBy(o, p)
  BY CompletedReads
<1>2. /\ o \in GoodDentries /\ o.bstart = d.bstart
      /\ \A b \in Branches : b < d.bstart => fs[b].node[p] = None
      /\ d.bstart \in Branches
  BY CompletedFound, FoundInRoot
<1> SUFFICES ASSUME NEW b \in Layers(fs)[p] \ {0}, NEW c \in Children(p),
                    fs[b].node[c] # None
             PROVE  FALSE
  BY DEF OnTop
<1>3. /\ b \in Branches /\ b # 0 /\ b > 0 /\ b \in ReadBy(o, p)
      /\ o.bstart =< b /\ b =< o.bend /\ (o.bopaque = -1 \/ b =< o.bopaque)
      /\ o.hid[b] = "live" /\ fs[b].node[p] = Dir
  BY <1>1, LayerIs, ZeroFirst DEF ReadBy
<1>4. \A a \in Branches : c \in fs[a].wh => a = 0
  BY DEF AllSound, Pristine
<1>5. CASE CheckEmpty(o, p) /\ IsRobranch(o.bstart)
  <2>1. PICK a \in ReadBy(o, p) : a < b /\ c \in fs[a].wh
    BY <1>3, <1>5, CheckEmptyReads
  <2>2. a = 0 /\ o.bstart =< 0
    BY <1>4, <2>1 DEF ReadBy
  <2>3. o.bstart = 0
    BY <1>2, <2>2, ZeroFirst
  <2> QED BY <1>5, <2>3, OnlyFirst, ZeroFirst
<1>6. CASE ~IsRobranch(o.bstart)
  <2>1. o.bstart = 0
    BY <1>2, <1>6, OnlyFirst
  <2>2. o.bend # o.bstart /\ o.bopaque # o.bstart
    BY <1>3, <2>1, ZeroFirst
  <2> DEFINE r == [o EXCEPT !.bstart = @ + 1]
  <2>3. CheckEmpty(r, p)
    BY <2>2 DEF MayRenameDir
  <2>4. r.bstart = 1 /\ r.bend = o.bend /\ r.bopaque = o.bopaque /\ r.hid = o.hid
    BY <1>2, <2>1, GoodFields
  <2> HIDE DEF r
  <2>5. b \in ReadBy(r, p)
    BY <1>3, <2>4, ZeroFirst DEF ReadBy
  <2>6. PICK a \in ReadBy(r, p) : a < b /\ c \in fs[a].wh
    BY <2>3, <2>5, CheckEmptyReads
  <2> QED BY <1>4, <2>4, <2>6 DEF ReadBy
<1> QED BY <1>5, <1>6 DEF MayRenameDir

\* What is found under the new name the call may replace.
LEMMA AskedToReplace ==
    ASSUME AllSound, NEW p \in Names, NEW t, t = Twin[p],
           NEW n0, n0 = Lookup(fs, RootDentry, t), NEW n, n = Completed(n0, t),
           NEW dir \in BOOLEAN, dir = (View(fs)[p] = Dir),
           ~IsNegative(fs, n0, t) => (Object(fs, n0, t) = Dir) = dir,
           dir /\ ~IsNegative(fs, n, t) /\ (\A b \in Branches : t \notin fs[b].wh) =>
                CheckEmpty(n, t)
    PROVE  MayReplace(p, View(fs))
<1> SUFFICES ASSUME View(fs)[t] # None
             PROVE  /\ (View(fs)[t] = Dir) = dir
                    /\ \A q \in Below(t) : View(fs)[q] = None
  BY DEF MayReplace
<1>1. t \in Names /\ fs[0] \in SoundBranches
  BY NamesTwin, ZeroFirst DEF AllSound
<1>2. ~IsNegative(fs, n0, t)
  BY <1>1, SeenIsFound
<1>3. /\ n0.bstart \in Branches /\ n0.hid[n0.bstart] = "live"
      /\ fs[n0.bstart].node[t] # None /\ t \notin fs[n0.bstart].wh
  BY <1>1, <1>2, FoundInRoot
<1>4. View(fs)[t] = fs[n0.bstart].node[t]
  BY <1>1, <1>2, FoundIsView
<1>5. (View(fs)[t] = Dir) = dir
  BY <1>2, <1>3, <1>4 DEF Object
<1>6. CASE ~dir
  <2>1. View(fs)[t] # Dir
    BY <1>5, <1>6
  <2>2. \A q \in Below(t) : View(fs)[q] = None
    BY <1>1, <2>1, ViewIsTree
  <2> QED BY <1>5, <2>2
<1>7. CASE dir
  <2>1. ~IsNegative(fs, n, t)
    <3>1. n.bstart = n0.bstart /\ n.hid[n0.bstart] = "live"
      BY <1>1, <1>2, CompletedFound
    <3> QED BY <1>3, <3>1 DEF IsNegative
  <2>2. t \in Paths /\ t \notin fs[0].wh
    BY <1>1, TopSeen DEF Names
  <2>3. \A b \in Branches : t \notin fs[b].wh
    BY <2>2 DEF AllSound, Pristine
  <2>4. CheckEmpty(n, t)
    BY <1>7, <2>1, <2>3
  <2>5. ASSUME NEW c \in Children(t) PROVE Unhidden(fs, c, Layers(fs)[t]) = {}
    <3> SUFFICES ASSUME NEW b \in Unhidden(fs, c, Layers(fs)[t]) PROVE FALSE
      OBVIOUS
    <3>1. /\ b \in Layers(fs)[t] /\ fs[b].node[c] # None
          /\ \A a \in Layers(fs)[t] : a =< b => c \notin fs[a].wh
      BY DEF Unhidden
    <3>2. b \in ReadBy(n, t)
      BY <1>1, <1>2, <3>1, CompletedReads
    <3>3. PICK a \in ReadBy(n, t) : a < b /\ c \in fs[a].wh
      BY <2>4, <3>1, <3>2, CheckEmptyReads
    <3>4. a \in Branches /\ b \in Branches /\ fs[a].node[t] = Dir
      BY <3>2, <3>3 DEF ReadBy
    <3>5. a = 0
      BY <3>3, <3>4 DEF AllSound, Pristine
    <3>6. 0 \in Layers(fs)[t] /\ 0 =< b
      BY <1>1, <2>2, <3>4, <3>5, TopSeen, ZeroFirst
    <3> QED BY <3>1, <3>3, <3>5, <3>6
  <2>6. \A q \in Below(t) : View(fs)[q] = None
    BY <1>1, <2>5, HiddenBelow
  <2> QED BY <1>5, <2>6
<1> QED BY <1>6, <1>7

\* What every call starts from.
LEMMA ViewAtStart ==
    ASSUME AllSound, NEW p \in Names, NEW d, d = Lookup(fs, RootDentry, p),
           ~IsNegative(fs, d, p)
    PROVE  /\ d.bstart \in Branches /\ d.hid[d.bstart] = "live"
           /\ View(fs)[p] = fs[d.bstart].node[p] /\ View(fs)[p] # None
           /\ Object(fs, d, p) = View(fs)[p]
           /\ d.bstart # 0 => Top(p) = None
           /\ View(fs)[p] # Dir =>
                \A q \in Below(p) : View(fs)[q] = None /\ fs[0].node[q] = None
<1>1. /\ d.bstart \in Branches /\ d.hid[d.bstart] = "live"
      /\ fs[d.bstart].node[p] # None
      /\ \A b \in Branches : b < d.bstart => fs[b].node[p] = None
  BY FoundInRoot
<1>2. View(fs)[p] = fs[d.bstart].node[p]
  BY FoundIsView
<1>3. d.bstart # 0 => Top(p) = None
  BY <1>1, ZeroFirst DEF Top
<1>4. fs[0] \in SoundBranches
  BY ZeroFirst DEF AllSound
<1>5. ASSUME View(fs)[p] # Dir
      PROVE  \A q \in Below(p) : View(fs)[q] = None /\ fs[0].node[q] = None
  <2>1. fs[0].node[p] # Dir
    BY <1>2, <1>3, <1>5, ValuesAssumption DEF Top
  <2> QED BY <1>4, <1>5, <2>1, NothingUnder, ViewIsTree
<1> QED BY <1>1, <1>2, <1>3, <1>5 DEF Object

LEMMA RenameBeginsView ==
    ASSUME Inv, NEW p \in Names, unionfs_rename(p), ~Ends("rename", p, "error")
    PROVE  /\ pc = "idle" /\ pc' # "idle" /\ before' = View(fs)
           /\ UNCHANGED <<fs, last>>
           /\ CallView(fs, pc', call', View(fs))
<1> DEFINE t   == Twin[p]
           o0  == Lookup(fs, RootDentry, p)
           n0  == Lookup(fs, RootDentry, t)
           dir == Object(fs, o0, p) = Dir
           o   == Completed(o0, p)
           n   == Completed(n0, t)
           positive == ~IsNegative(fs, n, t)
           emptied  == dir /\ positive /\ \A b \in Branches : t \notin fs[b].wh
           cleaned  == emptied /\ ~IsRobranch(n.bstart)
           v   == View(fs)
<1>1. /\ At("idle") /\ UNCHANGED fs /\ UNCHANGED last
      /\ ~IsNegative(fs, o0, p)
      /\ ~IsNegative(fs, n0, t) => (Object(fs, n0, t) = Dir) = dir
      /\ dir => MayRenameDir(o, p)
      /\ emptied => CheckEmpty(n, t)
      /\ pc' = IF cleaned THEN "clean" ELSE "rename"
      /\ before' = v
      /\ call'.op = "rename" /\ call'.old = p /\ call'.dir = dir
      /\ call'.old_bend = o.bend /\ call'.moved = {} /\ call'.err = "none"
  BY DEF unionfs_rename
<1>2. pc' \in {"clean", "rename"}
  BY <1>1
<1>3. AllSound /\ Setting /\ fs[0] \in SoundBranches /\ t \in Names
  BY ZeroFirst, NamesTwin DEF Inv, SoundInv, AllSound
<1>4. /\ v[p] # None /\ dir = (v[p] = Dir)
      /\ v[p] # Dir => \A q \in Below(p) : v[q] = None /\ fs[0].node[q] = None
  BY <1>1, <1>3, ViewAtStart
<1>5. dir /\ ~IsNegative(fs, n, t) /\ (\A b \in Branches : t \notin fs[b].wh) =>
          CheckEmpty(n, t)
  BY <1>1
<1>6. dir \in BOOLEAN
  OBVIOUS
<1>7. o.bend = 0 => \A b \in Branches \ {0} : fs[b].node[p] = None
  BY <1>1, <1>3, CompletedReads DEF AllSound, Pristine
<1> HIDE DEF emptied, cleaned, positive, n, n0, o, o0, dir, v
<1>8. MayReplace(p, v)
  BY <1>1, <1>3, <1>4, <1>5, <1>6, AskedToReplace DEF n, n0, v
<1>9. \A q \in Below(p) : fs[0].node[q] = v[q]
  <2>1. CASE dir
    <3>1. OnTop(fs, p)
      BY <1>1, <1>3, <2>1, MayRenameOnTop DEF o, o0
    <3> QED BY <1>3, <3>1, OnTopBelow DEF v
  <2>2. CASE ~dir
    BY <1>4, <2>2
  <2> QED BY <2>1, <2>2
<1>10. RenameView(fs, pc', call', v)
  BY <1>1, <1>2, <1>4, <1>7, <1>8, <1>9 DEF RenameView, v
<1> QED BY <1>1, <1>2, <1>4, <1>10 DEF CallView, At, v

LEMMA LinkBeginsView ==
    ASSUME Inv, NEW p \in Names, unionfs_link(p)
    PROVE  /\ pc = "idle" /\ pc' # "idle" /\ before' = View(fs)
           /\ UNCHANGED <<fs, last>>
           /\ CallView(fs, pc', call', View(fs))
<1> DEFINE t == Twin[p]
           o == Lookup(fs, RootDentry, p)
           n == Lookup(fs, RootDentry, t)
           v == View(fs)
<1>1. /\ At("idle") /\ UNCHANGED fs /\ UNCHANGED last /\ before' = v /\ pc' = "link"
      /\ ~IsNegative(fs, o, p) /\ Object(fs, o, p) # Dir /\ IsNegative(fs, n, t)
      /\ call'.op = "link" /\ call'.old = p /\ call'.old_bstart = o.bstart
      /\ call'.stage = "first"
  BY DEF unionfs_link
<1>2. AllSound /\ fs[0] \in SoundBranches /\ t \in Names /\ t \in Paths
  BY ZeroFirst, NamesTwin DEF Inv, SoundInv, AllSound
<1>3. /\ v[p] # None /\ v[p] # Dir /\ (o.bstart # 0 => fs[0].node[p] = None)
      /\ \A q \in Below(p) : v[q] = None
  BY <1>1, <1>2, ViewAtStart DEF Top
<1>4. v[t] = None
  BY <1>1, <1>2, SeenIsFound
<1>5. fs[0].node[t] = None
  BY <1>2, <1>4, TopSeen
<1>6. \A q \in Below(t) : v[q] = None
  BY <1>2, <1>4, ViewIsTree, ValuesAssumption
<1> HIDE DEF o, n, v
<1>7. LinkView(fs, pc', call', v)
  BY <1>1, <1>3, <1>4, <1>5, <1>6 DEF LinkView, v
<1> QED BY <1>1, <1>3, <1>7 DEF CallView, At, v

-----------------------------------------------------------------------------
(* A call goes on.                                                         *)

\* What is known between calls and in the middle of one.
Known == Inv /\ KInv /\ ViewInv

ViewGoesOn ==
    /\ pc' # "idle" /\ before' = before /\ last' = last
    /\ CallView(fs', pc', call', before)

LEMMA InTheMiddle ==
    ASSUME Known, Faults = {}, pc # "idle", ~oops
    PROVE  /\ call \in Calls /\ Setting /\ Reliable /\ AllSound
           /\ fs \in [Branches -> SoundBranches] /\ fs[0] \in SoundBranches
           /\ call.old \in Names /\ Twin[call.old] \in Names /\ call.old # Twin[call.old]
           /\ Twin[Twin[call.old]] = call.old
           /\ Old = call.old /\ New = Twin[call.old]
           /\ call.old_bstart \in Branches /\ call.moved \in SUBSET Branches
           /\ fs[call.old_bstart].node[Held] = before[call.old]
           /\ ElsewhereIs(pc, call)
           /\ CallView(fs, pc, call, before)
           /\ call.op = "rename" =>
                RenameInv /\ RenameView(fs, pc, call, before) /\ pc # "link"
           /\ call.op = "link" => LinkInv /\ LinkView(fs, pc, call, before)
           /\ pc \notin {"link", "copyup", "copydata"} => call.op = "rename"
           /\ pc = "link" => call.op = "link"
           /\ call.op \in {"rename", "link"}
<1>1. CallView(fs, pc, call, before)
  BY DEF Known, ViewInv
<1>2. Inv /\ KInv /\ Reliable /\ AllSound
  BY DEF Known, Reliable, Inv, SoundInv
<1>3. /\ call \in Calls /\ fs \in [Branches -> SoundBranches] /\ Setting
      /\ fs[0] \in SoundBranches
      /\ Old \in Names /\ New \in Names /\ Old # New /\ Twin[New] = Old
      /\ call.op = "rename" => RenameInv /\ pc # "link"
      /\ call.op = "link" => LinkInv
      /\ pc \notin {"link", "copyup", "copydata"} => call.op = "rename"
      /\ pc = "link" => call.op = "link"
  BY <1>2, WhoseStep
<1>4. /\ call.old_bstart \in Branches /\ ElsewhereIs(pc, call)
      /\ fs[call.old_bstart].node[Held] = before[Old]
  BY <1>2, CallTyped
<1>5. call.moved \in SUBSET Branches /\ call.op \in {"rename", "link"}
  BY <1>3, CallFields
<1> QED BY <1>1, <1>2, <1>3, <1>4, <1>5 DEF CallView, Old, New

LEMMA GoesOn ==
    ASSUME NEW step \in Steps \ {"idle"}, NEW c, Goto(step, c),
           CallView(fs', step, c, before)
    PROVE  ViewGoesOn
BY DEF Goto, ViewGoesOn

\* A write below the new name, if any, disturbs nothing else.
NewNameOnly(f, g, p) ==
    /\ \A b \in Branches \ {0} : g[b] = f[b]
    /\ \A q \in Paths \ Subtree(Twin[p]) :
            /\ g[0].node[q] = f[0].node[q]
            /\ q \in g[0].wh <=> q \in f[0].wh
            /\ q \in g[0].opq <=> q \in f[0].opq

LEMMA OldNameStays ==
    ASSUME NEW f, NEW g, NEW p \in Names, NewNameOnly(f, g, p)
    PROVE  /\ View(g)[p] = View(f)[p]
           /\ \A q \in Away(p) : View(g)[q] = View(f)[q]
           /\ \A q \in Subtree(p) : g[0].node[q] = f[0].node[q]
<1>1. Twin[p] \in Names /\ p # Twin[p] /\ p \in Paths
  BY NamesTwin, TwinAssumption
<1>2. Subtree(p) \cap Subtree(Twin[p]) = {} /\ Subtree(p) \in SUBSET Paths /\ p \in Subtree(p)
  BY <1>1, Apart DEF Subtree, Below
<1>3. \A q \in Subtree(p) : /\ g[0].node[q] = f[0].node[q]
                            /\ q \in g[0].wh <=> q \in f[0].wh
                            /\ q \in g[0].opq <=> q \in f[0].opq
  BY <1>2 DEF NewNameOnly
<1>4. View(g)[p] = View(f)[p]
  <2>1. \A b \in Branches \ {0} : g[b] = f[b]
    BY DEF NewNameOnly
  <2> QED BY <1>2, <1>3, <2>1, NameStays
<1>5. Touches(f, g, p)
  BY DEF Touches, NewNameOnly, Away
<1> QED BY <1>3, <1>4, <1>5, AwayStays

\* The locals that the view of a call depends on.
SameCall(c, d) ==
    /\ d.op = c.op /\ d.old = c.old /\ d.dir = c.dir /\ d.old_bend = c.old_bend
    /\ d.old_bstart = c.old_bstart /\ d.moved = c.moved /\ d.err = c.err

\* A rename that has not moved its source yet.
LEMMA RenameWaits ==
    ASSUME NEW f, NEW g, NEW step, NEW step2, NEW c, NEW d, NEW v,
           CallView(f, step, c, v), c.old \in Names, c.op = "rename", 0 \notin c.moved,
           SameCall(c, d), step2 \notin {"opaque", "whiteout"},
           \A b \in Branches \ {0} : g[b] = f[b],
           \A q \in Below(c.old) : g[0].node[q] = f[0].node[q],
           \A q \in Away(c.old) : View(g)[q] = View(f)[q],
           step2 # "copydata" => View(g)[c.old] = v[c.old]
    PROVE  CallView(g, step2, d, v)
<1>1. RenameView(f, step, c, v) /\ v[c.old] # None /\ \A q \in Away(c.old) : View(f)[q] = v[q]
  BY DEF CallView
<1>2. d.op = "rename" /\ d.old = c.old /\ d.dir = c.dir /\ d.old_bend = c.old_bend
      /\ d.old_bstart = c.old_bstart /\ d.moved = c.moved /\ d.err = c.err
  BY DEF SameCall
<1>3. RenameView(g, step2, d, v)
  BY <1>1, <1>2 DEF RenameView
<1> QED BY <1>1, <1>2, <1>3 DEF CallView

LEMMA RenameWaitsForNew ==
    ASSUME NEW f, NEW g, NEW step, NEW step2, NEW c, NEW d, NEW v,
           CallView(f, step, c, v), c.old \in Names, c.op = "rename", 0 \notin c.moved,
           SameCall(c, d), step # "copydata", step2 \notin {"opaque", "whiteout"},
           g = f \/ NewNameOnly(f, g, c.old)
    PROVE  CallView(g, step2, d, v)
<1>1. NewNameOnly(f, g, c.old)
  BY DEF NewNameOnly
<1>2. /\ View(g)[c.old] = View(f)[c.old]
      /\ \A q \in Away(c.old) : View(g)[q] = View(f)[q]
      /\ \A q \in Subtree(c.old) : g[0].node[q] = f[0].node[q]
  BY <1>1, OldNameStays
<1>3. View(f)[c.old] = v[c.old]
  BY DEF CallView, RenameView
<1>4. /\ \A b \in Branches \ {0} : g[b] = f[b]
      /\ \A q \in Below(c.old) : g[0].node[q] = f[0].node[q]
  BY <1>1, <1>2 DEF NewNameOnly, Subtree
<1> HIDE DEF CallView, SameCall, NewNameOnly
<1> QED BY <1>2, <1>3, <1>4, RenameWaits

\* Writes to the new name.
LEMMA MarksOfNew ==
    ASSUME AllSound, NEW p \in Names, NEW t, t = Twin[p],
           NEW x \in Nodes,
           \/ fs' = DelWhiteout(fs, 0, t)
           \/ fs' = SetNode(fs, 0, t, x)
           \/ fs' = AddOpaque(fs, 0, t)
    PROVE  NewNameOnly(fs, fs', p)
<1>1. fs \in [Branches -> SoundBranches] /\ 0 \in Branches /\ fs[0] \in BranchStates
  BY ZeroFirst DEF AllSound, SoundBranches
<1>2. t \in Subtree(Twin[p])
  BY DEF Subtree
<1>3. CASE fs' = DelWhiteout(fs, 0, t)
  BY <1>1, <1>2, <1>3 DEF DelWhiteout, NewNameOnly, BranchStates
<1>4. CASE fs' = SetNode(fs, 0, t, x)
  BY <1>1, <1>2, <1>4 DEF SetNode, NewNameOnly, BranchStates
<1>5. CASE fs' = AddOpaque(fs, 0, t)
  BY <1>1, <1>2, <1>5 DEF AddOpaque, NewNameOnly, BranchStates
<1> QED BY <1>3, <1>4, <1>5

LEMMA CleanView ==
    ASSUME Known, Faults = {}, delete_whiteouts
    PROVE  ViewGoesOn
<1> DEFINE b == call.n.bstart
           W == Whiteouts(b, New)
<1>1. pc = "clean" /\ ~oops
  BY DEF delete_whiteouts, At
<1>2. /\ call \in Calls /\ Setting /\ fs \in [Branches -> SoundBranches]
      /\ call.old \in Names /\ New = Twin[call.old] /\ call.op = "rename" /\ RenameInv
      /\ CallView(fs, pc, call, before)
  BY <1>1, InTheMiddle
<1>3. 0 \notin call.moved /\ SameCall(call, call)
  BY <1>1, <1>2 DEF RenameInv, Begun, Source, SameCall
<1>4. b = 0
  <2>1. ~IsRobranch(b)
    BY <1>1 DEF Known, Inv, RInv, CallInv
  <2>2. b \in Branches
    BY <1>2, CallFields, DentryFields
  <2> QED BY <1>2, <2>1, <2>2, OnlyFirst
<1>5. CASE Goto("rename", call) /\ UNCHANGED fs
  <2>1. CallView(fs', "rename", call, before)
    BY <1>1, <1>2, <1>3, <1>5, RenameWaitsForNew
  <2> QED BY <1>5, <2>1, GoesOn DEF Steps
<1>6. CASE \E q \in W : /\ fs' = [fs EXCEPT ![b].wh = @ \ {q},
                                            ![b].opq = IF q = New THEN @ \ {q} ELSE @]
                        /\ Goto("clean", call)
  <2>1. PICK q \in W : /\ fs' = [fs EXCEPT ![0].wh = @ \ {q},
                                           ![0].opq = IF q = New THEN @ \ {q} ELSE @]
                       /\ Goto("clean", call)
    BY <1>4, <1>6
  <2>2. q \in Subtree(Twin[call.old])
    BY <1>2, <2>1 DEF Whiteouts, Subtree
  <2>3. /\ \A x \in Branches \ {0} : fs'[x] = fs[x]
        /\ fs'[0].node = fs[0].node /\ fs'[0].wh = fs[0].wh \ {q}
        /\ fs'[0].opq = IF q = New THEN fs[0].opq \ {q} ELSE fs[0].opq
    BY <1>2, <2>1, ZeroFirst DEF SoundBranches, BranchStates
  <2>4. NewNameOnly(fs, fs', call.old)
    BY <2>2, <2>3 DEF NewNameOnly
  <2>5. CallView(fs', "clean", call, before)
    BY <1>1, <1>2, <1>3, <2>4, RenameWaitsForNew
  <2> QED BY <2>1, <2>5, GoesOn DEF Steps
<1> QED BY <1>5, <1>6 DEF delete_whiteouts

-----------------------------------------------------------------------------
(* do_rename.                                                              *)

LEMMA AimedKeeps ==
    ASSUME TypeInv, pc = "rename"
    PROVE  SameCall(call, Aimed) /\ Aimed \in Calls
<1>1. Aimed \in Calls /\ call \in Calls
  BY AimedTyped, InCall
<1> DEFINE d == Pointed(fs, Target, To, Branch)
<1> HIDE DEF d
<1>2. Aimed \in {call, [call EXCEPT !.o = d], [call EXCEPT !.n = d]}
  BY DEF Aimed, d
<1> QED BY <1>1, <1>2 DEF Calls, SameCall

LEMMA RenameUnlinkView ==
    ASSUME Known, Faults = {}, do_rename_unlink
    PROVE  ViewGoesOn
<1>1. pc = "rename" /\ ~oops /\ To \in fs[Branch].wh /\ TypeInv /\ Inv
  BY DEF do_rename_unlink, At, Inv, Known
<1>2. /\ AllSound /\ Reliable /\ call.old \in Names /\ call.op = "rename" /\ RenameInv
      /\ CallView(fs, "rename", call, before) /\ New = Twin[call.old]
  BY <1>1, InTheMiddle
<1>3. /\ Branch \in Branches /\ (~ReadOnly <=> Branch = 0)
      /\ fs \in [Branches -> SoundBranches] /\ Pristine
      /\ call.stage \in {"first", "second"} /\ To = New /\ To \in Names
      /\ 0 \notin call.moved
  BY <1>1, <1>2, RenameAt DEF Begun, StillBelow, Source
<1>4. fs[Branch].node[To] = None
  BY <1>1, <1>3, SoundType DEF Unambiguous
<1>5. Branch = 0 /\ ~ReadOnly
  BY <1>1, <1>3 DEF Pristine
<1>6. fs' = DelWhiteout(fs, 0, To) /\ Goto("rename", Aimed)
  BY <1>4, <1>5 DEF do_rename_unlink
<1>7. NewNameOnly(fs, fs', call.old)
  BY <1>2, <1>3, <1>6, MarksOfNew DEF Nodes
<1>8. SameCall(call, Aimed)
  BY <1>1, AimedKeeps
<1>9. CallView(fs', "rename", Aimed, before)
  BY <1>2, <1>3, <1>7, <1>8, RenameWaitsForNew
<1> QED BY <1>6, <1>9, GoesOn DEF Steps

\* The writable branch renames all that is to be seen under the new name.
LEMMA RenameDone ==
    ASSUME NEW f, NEW g, NEW step, NEW step2, NEW c, NEW d, NEW v,
           CallView(f, step, c, v), c.old \in Names, c.op = "rename", 0 \notin c.moved,
           step # "copydata", f[0] \in SoundBranches, f[0].node[c.old] # None,
           \A b \in Branches \ {0} : g[b] = f[b],
           g[0] = Renamed(f[0], c.old, Twin[c.old]),
           d.op = c.op, d.old = c.old, d.dir = c.dir, d.old_bend = c.old_bend,
           d.err = "none", 0 \in d.moved, step2 # "whiteout",
           step2 = "opaque" => d.old_bstart = 0 \/ d.do_copyup # -1
    PROVE  CallView(g, step2, d, v)
<1> DEFINE p == c.old
<1>1. /\ RenameView(f, step, c, v) /\ v[p] # None
      /\ \A q \in Away(p) : View(f)[q] = v[q]
  BY DEF CallView
<1>2. /\ \A q \in Subtree(p) : g[0].node[Twin[q]] = f[0].node[q]
      /\ \A q \in Away(p) : /\ g[0].node[q] = f[0].node[q]
                            /\ q \in g[0].wh <=> q \in f[0].wh
                            /\ q \in g[0].opq <=> q \in f[0].opq
  <2> DEFINE e == Renamed(f[0], p, Twin[p])
  <2>1. /\ \A q \in Subtree(p) : e.node[Twin[q]] = f[0].node[q]
        /\ \A q \in Paths \ (Subtree(p) \cup Subtree(Twin[p])) :
                /\ e.node[q] = f[0].node[q]
                /\ q \in e.wh <=> q \in f[0].wh
                /\ q \in e.opq <=> q \in f[0].opq
    BY RenamedTwin
  <2>2. g[0] = e
    OBVIOUS
  <2> HIDE DEF e
  <2> QED BY <2>1, <2>2 DEF Away
<1>3. \A q \in Away(p) : View(g)[q] = View(f)[q]
  BY <1>2, AwayStays DEF Touches
<1>4. f[0].node[p] = v[p]
  <2>1. p \in Paths
    BY DEF Names
  <2>2. View(f)[p] = f[0].node[p]
    BY <2>1, TopSeen
  <2> QED BY <1>1, <2>2 DEF RenameView
<1>5. \A q \in Subtree(p) : g[0].node[Twin[q]] = v[q]
  BY <1>1, <1>2, <1>4 DEF RenameView, Subtree
<1>6. RenameView(g, step2, d, v)
  BY <1>1, <1>5 DEF RenameView
<1> QED BY <1>1, <1>3, <1>6 DEF CallView

LEMMA DoRenameView ==
    ASSUME Known, Faults = {}, do_rename
    PROVE  ViewGoesOn
<1> DEFINE c     == [Aimed EXCEPT !.wh_old = IF call.stage = "back" THEN @ ELSE "whiteout"]
           there == [c EXCEPT !.moved = IF call.stage = "back" THEN @ \ {Branch}
                                        ELSE @ \cup {Branch}]
           noted == [call EXCEPT !.do_copyup = call.old_bstart - 1]
<1>1. pc = "rename" /\ ~oops /\ TypeInv /\ Inv
  BY DEF do_rename, At, Inv, Known
<1>2. /\ AllSound /\ Reliable /\ call.old \in Names /\ call.op = "rename"
      /\ CallView(fs, "rename", call, before) /\ New = Twin[call.old] /\ Old = call.old
      /\ call \in Calls /\ fs \in [Branches -> SoundBranches] /\ fs[0] \in SoundBranches
      /\ call.err = "none"
  <2>1. RenameView(fs, pc, call, before)
    BY <1>1, InTheMiddle
  <2> QED BY <1>1, <2>1, InTheMiddle DEF RenameView
<1>3. /\ Branch \in Branches /\ (~ReadOnly <=> Branch = 0)
      /\ call.stage \in {"first", "second"} /\ From = Old /\ To = New
      /\ call.stage = "first" => Begun /\ Cleaned /\ Branch = call.old_bstart
      /\ call.stage = "second" => StillBelow /\ Copied /\ ~ReadOnly
  BY <1>1, <1>2, RenameAt
<1>4. 0 \notin call.moved
  BY <1>3 DEF Begun, StillBelow, Source
<1>5. CASE ReadOnly /\ DoRenameReturns(call, "EROFS") /\ UNCHANGED fs
  <2>1. call.stage = "first" /\ Goto("unlink", noted)
    BY <1>3, <1>5 DEF DoRenameReturns
  <2>2. SameCall(call, noted)
    BY <1>2 DEF SameCall, Calls
  <2> HIDE DEF noted
  <2>3. CallView(fs', "unlink", noted, before)
    BY <1>2, <1>4, <1>5, <2>2, RenameWaitsForNew
  <2> QED BY <2>1, <2>3, GoesOn DEF Steps
<1>6. CASE /\ ~ReadOnly
           /\ fs' = [fs EXCEPT ![Branch] = Renamed(@, From, To)]
           /\ DoRenameReturns(there, "none")
  <2>1. Branch = 0 /\ fs' = [fs EXCEPT ![0] = Renamed(fs[0], call.old, Twin[call.old])]
    BY <1>2, <1>3, <1>6
  <2>2. /\ \A b \in Branches \ {0} : fs'[b] = fs[b]
        /\ fs'[0] = Renamed(fs[0], call.old, Twin[call.old])
    BY <1>2, <2>1, ZeroFirst
  <2>3. fs[0].node[call.old] # None
    BY <1>2, <1>3, <2>1 DEF Begun, Source, Copied, Top
  <2>4. /\ there.op = call.op /\ there.old = call.old /\ there.dir = call.dir
        /\ there.old_bend = call.old_bend /\ there.err = "none" /\ 0 \in there.moved
        /\ there.old_bstart = call.old_bstart /\ there.do_copyup = call.do_copyup
        /\ there.stage = call.stage
    <3>1. SameCall(call, Aimed) /\ Aimed \in Calls /\ Aimed.do_copyup = call.do_copyup
          /\ Aimed.stage = call.stage
      BY <1>1, AimedKeeps, AimedSame
    <3> QED BY <1>2, <1>3, <2>1, <3>1 DEF SameCall, Calls
  <2>5. DOMAIN there = DOMAIN call
    <3>1. Aimed \in Calls
      BY <1>1, AimedKeeps
    <3> QED BY <1>2, <3>1 DEF Calls
  <2> HIDE DEF there, c
  <2>6. CASE call.stage = "first" /\ Goto("unlink", [there EXCEPT !.revert = TRUE])
    <3> DEFINE d == [there EXCEPT !.revert = TRUE]
    <3>1. /\ d.op = call.op /\ d.old = call.old /\ d.dir = call.dir
          /\ d.old_bend = call.old_bend /\ d.err = "none" /\ 0 \in d.moved
      BY <2>4
    <3> HIDE DEF d
    <3>2. CallView(fs', "unlink", d, before)
      BY <1>2, <1>4, <2>2, <2>3, <3>1, RenameDone
    <3> QED BY <2>6, <3>2, GoesOn DEF Steps, d
  <2>7. CASE call.stage = "second" /\ Goto("opaque", [there EXCEPT !.err = "none"])
    <3> DEFINE d == [there EXCEPT !.err = "none"]
    <3>1. /\ d.op = call.op /\ d.old = call.old /\ d.dir = call.dir
          /\ d.old_bend = call.old_bend /\ 0 \in d.moved
          /\ d.do_copyup = call.do_copyup
      BY <2>4
    <3>2. d.err = "none"
      BY <1>2, <2>5 DEF Calls
    <3>3. d.do_copyup # -1
      BY <1>3, <2>7, <3>1, ZeroFirst DEF StillBelow
    <3> HIDE DEF d
    <3>4. CallView(fs', "opaque", d, before)
      BY <1>2, <1>4, <2>2, <2>3, <3>1, <3>2, <3>3, RenameDone
    <3> QED BY <2>7, <3>4, GoesOn DEF Steps, d
  <2> QED BY <1>3, <1>6, <2>4, <2>6, <2>7 DEF DoRenameReturns
<1>7. CASE ~ReadOnly /\ ~Replaces(Branch, From, To)
  <2>1. CASE call.stage = "first"
    <3>1. Branch = 0 /\ Begun /\ Cleaned /\ call.old_bstart = 0
      BY <1>3, <1>7, <2>1
    <3>2. Replaces(0, Old, New)
      BY <3>1 DEF Replaces, Begun, Source, Replaceable, Cleaned, Top
    <3> QED BY <1>3, <1>7, <3>1, <3>2
  <2>2. CASE call.stage = "second"
    <3>1. StillBelow /\ Copied /\ Branch = 0
      BY <1>3, <2>2
    <3>2. Replaces(0, Old, New)
      BY <3>1 DEF Replaces, StillBelow, Copied, Replaceable, Cleaned, Top
    <3> QED BY <1>3, <1>7, <3>1, <3>2
  <2> QED BY <1>3, <2>1, <2>2
<1> QED BY <1>5, <1>6, <1>7 DEF do_rename

-----------------------------------------------------------------------------
(* Older destinations, and the copyup.                                     *)

LEMMA UnlinkLeftView ==
    ASSUME Known, Faults = {}, unlink_left
    PROVE  ViewGoesOn
<1> DEFINE i      == Rightmost(Left)
           passed == [call EXCEPT !.bindex = i - 1]
           begin  == [call EXCEPT !.bindex = call.do_copyup]
           over   == [call EXCEPT !.bindex = LoopEnd]
           later  == [passed EXCEPT !.do_copyup = i - 1]
           gone   == [passed EXCEPT !.n.hid[i] = "null"]
           p      == call.old
<1>1. pc = "unlink" /\ ~oops
  BY DEF unlink_left, At
<1>2. /\ call \in Calls /\ Setting /\ AllSound /\ p \in Names /\ call.op = "rename"
      /\ Twin[p] \in Names /\ New = Twin[p] /\ RenameInv
      /\ fs \in [Branches -> SoundBranches] /\ call.old_bstart \in Branches
      /\ CallView(fs, "unlink", call, before)
  BY <1>1, InTheMiddle
<1>3. \/ call.old_bstart = 0 /\ call.do_copyup = -1 /\ HasMoved
      \/ StillBelow
  BY <1>1, <1>2 DEF RenameInv
<1>4. CASE Left = {} /\ call.do_copyup = -1 /\ Goto("opaque", over) /\ UNCHANGED fs
  <2>1. HasMoved /\ call.old_bstart = 0 /\ 0 \in call.moved
    BY <1>3, <1>4, ZeroFirst DEF StillBelow, HasMoved
  <2>2. /\ SameCall(call, over) /\ over.do_copyup = call.do_copyup
    BY <1>2 DEF SameCall, Calls
  <2> HIDE DEF over
  <2>3. CallView(fs', "opaque", over, before)
    BY <1>2, <1>4, <2>1, <2>2 DEF CallView, RenameView, SameCall
  <2> QED BY <1>4, <2>3, GoesOn DEF Steps
<1>5. CASE ~(Left = {} /\ call.do_copyup = -1)
  <2>1. Left # {} => i \in Branches /\ (~IsRobranch(i) <=> i = 0) /\ call.old_bstart # 0
    BY <1>2, LeftThere, OnlyFirst
  <2>2. StillBelow /\ 0 \notin call.moved /\ ~call.revert
    BY <1>3, <1>5, <2>1 DEF StillBelow, Source
  <2>3. /\ SameCall(call, begin) /\ SameCall(call, passed) /\ SameCall(call, later)
        /\ SameCall(call, gone)
    BY <1>2 DEF SameCall, Calls
  <2>4. \/ fs' = fs
        \/ fs' = SetNode(fs, 0, New, None)
    <3> HIDE DEF i
    <3> QED BY <1>5, <2>1, <2>2 DEF unlink_left, i
  <2>5. fs' = fs \/ NewNameOnly(fs, fs', p)
    BY <1>2, <2>4, MarksOfNew DEF Nodes
  <2>6. \E step \in {"copyup", "unlink"}, c \in {begin, passed, later, gone} : Goto(step, c)
    BY <1>5, <2>1, <2>2 DEF unlink_left
  <2> HIDE DEF begin, passed, later, gone
  <2>7. PICK step \in {"copyup", "unlink"}, c \in {begin, passed, later, gone} : Goto(step, c)
    BY <2>6
  <2>8. SameCall(call, c)
    BY <2>3
  <2>9. CallView(fs', step, c, before)
    BY <1>2, <2>2, <2>5, <2>8, RenameWaitsForNew
  <2> QED BY <2>7, <2>9, GoesOn DEF Steps
<1> QED BY <1>4, <1>5 DEF unlink_left

\* A write under the old name in the writable branch.
LEMMA CopySeen ==
    ASSUME AllSound, NEW p \in Names, NEW x \in Nodes, fs' = SetNode(fs, 0, p, x),
           fs'[0] \in SoundBranches
    PROVE  /\ \A b \in Branches \ {0} : fs'[b] = fs[b]
           /\ \A q \in Away(p) : View(fs')[q] = View(fs)[q]
           /\ \A q \in Paths \ {p} : fs'[0].node[q] = fs[0].node[q]
           /\ fs'[0].node[p] = x
           /\ x # None => View(fs')[p] = x
<1>1. fs \in [Branches -> SoundBranches] /\ 0 \in Branches /\ fs[0] \in BranchStates
      /\ p \in Paths
  BY ZeroFirst DEF AllSound, SoundBranches, Names
<1>2. /\ \A b \in Branches \ {0} : fs'[b] = fs[b]
      /\ \A q \in Paths \ {p} : fs'[0].node[q] = fs[0].node[q]
      /\ fs'[0].node[p] = x
      /\ fs'[0].wh = fs[0].wh /\ fs'[0].opq = fs[0].opq
  BY <1>1 DEF SetNode, BranchStates
<1>3. Touches(fs, fs', p)
  BY <1>2 DEF Touches, Away, Subtree
<1>4. \A q \in Away(p) : View(fs')[q] = View(fs)[q]
  BY <1>3, AwayStays
<1>5. x # None => View(fs')[p] = x
  BY <1>1, <1>2, TopSeen
<1> QED BY <1>2, <1>4, <1>5

\* A link that has not been made yet.
LEMMA LinkWaits ==
    ASSUME NEW f, NEW g, NEW step, NEW step2, NEW c, NEW d, NEW v,
           CallView(f, step, c, v), c.old \in Names, c.op = "link",
           SameCall(c, d), d.stage # "back",
           \A q \in Away(c.old) : View(g)[q] = View(f)[q],
           g[0].node[Twin[c.old]] = f[0].node[Twin[c.old]],
           step2 # "copydata" => View(g)[c.old] = v[c.old],
           step2 = "copyup" => d.bindex # -1 /\ g[0].node[c.old] = None,
           step2 = "link" /\ d.stage = "first" /\ d.old_bstart # 0 =>
                g[0].node[c.old] = None,
           step2 = "link" /\ d.stage = "second" => g[0].node[c.old] = v[c.old]
    PROVE  CallView(g, step2, d, v)
<1>1. LinkView(f, step, c, v) /\ v[c.old] # None /\ \A q \in Away(c.old) : View(f)[q] = v[q]
  BY DEF CallView
<1>2. d.op = "link" /\ d.old = c.old
  BY DEF SameCall
<1>3. LinkView(g, step2, d, v)
  BY <1>1, <1>2 DEF LinkView
<1> QED BY <1>1, <1>2, <1>3 DEF CallView

\* The copy is complete.
LEMMA CopyupDoneView ==
    ASSUME Known, Faults = {}, pc \in {"copyup", "copydata"}, ~oops,
           fs' = SetNode(fs, 0, call.old, before[call.old]),
           fs'[0] \in SoundBranches, before[call.old] \in Nodes,
           NEW c \in Calls, SameCall(call, c), CopyupDone(c)
    PROVE  ViewGoesOn
<1> DEFINE p == call.old
           x == before[p]
           l == [c EXCEPT !.stage = "second"]
           r == [c EXCEPT !.stage = "second", !.bwh_old = c.bindex,
                          !.wh_old = IF @ = "null" THEN @ ELSE "put"]
<1>1. /\ AllSound /\ p \in Names /\ call.op \in {"rename", "link"}
      /\ CallView(fs, pc, call, before)
      /\ call.op = "rename" => RenameInv
      /\ Twin[p] \in Names /\ p # Twin[p]
  BY InTheMiddle
<1>2. x # None
  BY <1>1 DEF CallView
<1>3. /\ \A b \in Branches \ {0} : fs'[b] = fs[b]
      /\ \A q \in Away(p) : View(fs')[q] = View(fs)[q]
      /\ \A q \in Paths \ {p} : fs'[0].node[q] = fs[0].node[q]
      /\ fs'[0].node[p] = x /\ View(fs')[p] = x
  BY <1>1, <1>2, CopySeen
<1>4. /\ SameCall(call, l) /\ l.stage = "second"
      /\ SameCall(call, r) /\ c.op = call.op
  BY DEF SameCall, Calls
<1> HIDE DEF l, r
<1>5. CASE call.op = "link"
  <2>1. Goto("link", l)
    BY <1>4, <1>5 DEF CopyupDone, l
  <2>2. Twin[p] \in Paths \ {p}
    BY <1>1 DEF Names
  <2>3. fs'[0].node[Twin[p]] = fs[0].node[Twin[p]]
    BY <1>3, <2>2
  <2>4. CallView(fs', "link", l, before)
    BY <1>1, <1>3, <1>4, <1>5, <2>3, LinkWaits
  <2> QED BY <2>1, <2>4, GoesOn DEF Steps
<1>6. CASE call.op = "rename"
  <2>1. Goto("rename", r)
    BY <1>4, <1>6 DEF CopyupDone, r
  <2>2. 0 \notin call.moved
    BY <1>1, <1>6 DEF RenameInv, StillBelow, Source
  <2>3. \A q \in Below(p) : fs'[0].node[q] = fs[0].node[q]
    BY <1>1, <1>3, BelowName DEF Below
  <2>4. CallView(fs', "rename", r, before)
    BY <1>1, <1>3, <1>4, <1>6, <2>2, <2>3, RenameWaits
  <2> QED BY <2>1, <2>4, GoesOn DEF Steps
<1> QED BY <1>1, <1>5, <1>6

LEMMA CopyupCreateView ==
    ASSUME Known, Faults = {}, copyup_create
    PROVE  ViewGoesOn
<1> DEFINE i    == Rightmost(Tried)
           p    == call.old
           n    == fs[call.old_bstart].node[IF call.old_bstart \in call.moved
                                            THEN New ELSE Old]
           copy == CopiedTo(i)
<1>1. pc = "copyup" /\ ~oops /\ Inv
  BY DEF copyup_create, At, Known
<1>2. /\ call \in Calls /\ Setting /\ Reliable /\ AllSound /\ p \in Names /\ Old = p
      /\ fs \in [Branches -> SoundBranches]
      /\ Twin[p] \in Names /\ p # Twin[p]
      /\ call.op \in {"rename", "link"} /\ call.old_bstart \in Branches
      /\ fs[call.old_bstart].node[Held] = before[p]
      /\ CallView(fs, "copyup", call, before)
      /\ call.op = "rename" => RenameInv
  BY <1>1, InTheMiddle
<1>3. n = before[p]
  BY <1>2 DEF Held
<1>4. n \in Nodes
  <2>1. Held \in Paths
    BY <1>1, CallTyped DEF Known, Names
  <2>2. fs[call.old_bstart] \in BranchStates
    BY <1>2 DEF SoundBranches
  <2>3. fs[call.old_bstart].node[Held] \in Nodes
    BY <2>1, <2>2 DEF BranchStates
  <2> QED BY <1>2, <1>3, <2>3
<1>5. fs[0].node[p] = None /\ call.bindex # -1 /\ call.stage # "back"
  <2>1. CASE call.op = "rename"
    BY <1>1, <1>2, <2>1 DEF RenameInv, Top
  <2>2. CASE call.op = "link"
    BY <1>2, <2>2 DEF CallView, LinkView
  <2> QED BY <1>2, <2>1, <2>2
<1>6. Tried # {} /\ i = 0
  <2>1. Tried = {0}
    BY <1>2, <1>5, CallFields, BranchAssumption DEF Tried, Setting
  <2>2. {0} \in SUBSET Branches
    BY ZeroFirst
  <2> QED BY <2>1, <2>2, RightmostIsGreatest
<1>7. SoundInv'
  BY <1>1, CopyupCreateSound
<1>8. fs'[0] \in SoundBranches
  BY <1>7, ZeroFirst DEF SoundInv, AllSound
<1>9. SameCall(call, copy) /\ copy \in Calls /\ copy.stage = call.stage
  <2>1. Pointed(fs, call.o, Old, i) \in Dentries /\ i \in -1 .. NB - 1
    <3>1. fs \in Unions /\ 0 \in Branches /\ call.o \in Dentries /\ Old \in Paths
      BY <1>1, <1>2, CallFields, ZeroFirst DEF Inv, TypeInv, TypeOK, Names
    <3> HIDE DEF i
    <3> QED BY <1>6, <3>1, PointedTyped, BranchBefore
  <2> HIDE DEF i
  <2> QED BY <1>2, <2>1 DEF CopiedTo, SameCall, Calls
<1> HIDE DEF i, n, copy
<1>10. /\ fs' = SetNode(fs, 0, p, IF n = Dir THEN Dir ELSE Empty)
       /\ IF n = Dir THEN CopyupDone(copy) ELSE Goto("copydata", copy)
  BY <1>2, <1>5, <1>6 DEF copyup_create, i, n, copy
<1>11. CASE n = Dir
  <2>1. fs' = SetNode(fs, 0, call.old, before[call.old]) /\ CopyupDone(copy)
    BY <1>3, <1>10, <1>11
  <2> QED BY <1>1, <1>3, <1>4, <1>8, <1>9, <2>1, CopyupDoneView
<1>12. CASE n # Dir
  <2>1. fs' = SetNode(fs, 0, p, Empty) /\ Empty \in Nodes
    BY <1>10, <1>12, ValuesAssumption DEF Nodes
  <2>2. /\ \A b \in Branches \ {0} : fs'[b] = fs[b]
        /\ \A q \in Away(p) : View(fs')[q] = View(fs)[q]
        /\ \A q \in Paths \ {p} : fs'[0].node[q] = fs[0].node[q]
    BY <1>2, <1>8, <2>1, CopySeen
  <2>3. CASE call.op = "rename"
    <3>1. 0 \notin call.moved
      BY <1>1, <1>2, <2>3 DEF RenameInv, StillBelow, Source
    <3>2. \A q \in Below(p) : fs'[0].node[q] = fs[0].node[q]
      BY <1>2, <2>2, BelowName DEF Below
    <3>3. CallView(fs', "copydata", copy, before)
      BY <1>2, <1>9, <2>2, <2>3, <3>1, <3>2, RenameWaits
    <3> QED BY <1>10, <1>12, <3>3, GoesOn DEF Steps
  <2>4. CASE call.op = "link"
    <3>1. Twin[p] \in Paths \ {p}
      BY <1>2 DEF Names
    <3>2. fs'[0].node[Twin[p]] = fs[0].node[Twin[p]]
      BY <2>2, <3>1
    <3>3. CallView(fs', "copydata", copy, before)
      BY <1>2, <1>5, <1>9, <2>2, <2>4, <3>2, LinkWaits
    <3> QED BY <1>10, <1>12, <3>3, GoesOn DEF Steps
  <2> QED BY <1>2, <2>3, <2>4
<1> QED BY <1>11, <1>12

LEMMA CopyupDataView ==
    ASSUME Known, Faults = {}, copyup_data
    PROVE  ViewGoesOn
<1> DEFINE p == call.old
           n == fs[call.old_bstart].node[IF call.old_bstart \in call.moved
                                         THEN New ELSE Old]
<1>1. pc = "copydata" /\ ~oops /\ Inv
  BY DEF copyup_data, At, Known
<1>2. /\ call \in Calls /\ Setting /\ Old = p /\ fs \in [Branches -> SoundBranches]
      /\ call.old_bstart \in Branches
      /\ fs[call.old_bstart].node[Held] = before[p]
  BY <1>1, InTheMiddle
<1>3. n = before[p]
  BY <1>2 DEF Held
<1>4. n \in Nodes
  <2>1. Held \in Paths
    BY <1>1, CallTyped DEF Known, Names
  <2>2. fs[call.old_bstart] \in BranchStates
    BY <1>2 DEF SoundBranches
  <2>3. fs[call.old_bstart].node[Held] \in Nodes
    BY <2>1, <2>2 DEF BranchStates
  <2> QED BY <1>2, <1>3, <2>3
<1>5. call.bindex = 0
  BY <1>1, <1>2 DEF Inv, TypeInv, InRange, Setting
<1>6. fs' = SetNode(fs, 0, p, before[p]) /\ CopyupDone(call)
  <2>1. fs' = SetNode(fs, call.bindex, Old, n) /\ CopyupDone(call)
    BY DEF copyup_data
  <2> HIDE DEF n
  <2> QED BY <1>2, <1>3, <1>5, <2>1
<1>7. SoundInv'
  BY <1>1, CopyupDataSound
<1>8. fs'[0] \in SoundBranches
  BY <1>7, ZeroFirst DEF SoundInv, AllSound
<1>9. SameCall(call, call)
  BY DEF SameCall
<1> HIDE DEF n
<1> QED BY <1>1, <1>2, <1>3, <1>4, <1>6, <1>8, <1>9, CopyupDoneView

-----------------------------------------------------------------------------
(* The opaque mark, and what the settings rule out.                        *)

LEMMA OpaqueView ==
    ASSUME Known, Faults = {}, make_opaque
    PROVE  ViewGoesOn
<1> DEFINE b == call.o.bstart
           q == IF b \in call.moved THEN New ELSE Old
           p == call.old
           cleared == [call EXCEPT !.err = "none"]
<1>1. pc = "opaque" /\ ~oops
  BY DEF make_opaque, At
<1>2. /\ call \in Calls /\ Setting /\ Reliable /\ AllSound /\ p \in Names
      /\ call.op = "rename" /\ RenameInv /\ New = Twin[p]
      /\ fs \in [Branches -> SoundBranches] /\ fs[0] \in BranchStates
      /\ CallView(fs, "opaque", call, before)
  BY <1>1, InTheMiddle DEF SoundBranches
<1>3. HasMoved
  BY <1>1, <1>2 DEF RenameInv, Abandoned
<1>4. b = 0 /\ ~IsRobranch(b) /\ q = New /\ 0 \in call.moved
  BY <1>2, <1>3, OnlyFirst, ZeroFirst DEF HasMoved
<1>5. CASE ~call.dir /\ Goto("whiteout", call) /\ UNCHANGED fs
  <2>1. CallView(fs', "whiteout", call, before)
    BY <1>2, <1>4, <1>5 DEF CallView, RenameView
  <2> QED BY <1>5, <2>1, GoesOn DEF Steps
<1>6. CASE fs' = AddOpaque(fs, b, q) /\ Goto("whiteout", cleared)
  <2>1. fs' = AddOpaque(fs, 0, Twin[p])
    BY <1>2, <1>4, <1>6
  <2>2. NewNameOnly(fs, fs', p)
    BY <1>2, <2>1, MarksOfNew DEF Nodes
  <2>3. /\ \A x \in Branches \ {0} : fs'[x] = fs[x]
        /\ \A x \in Away(p) : View(fs')[x] = View(fs)[x]
    BY <1>2, <2>2, OldNameStays DEF NewNameOnly
  <2>4. fs'[0].node = fs[0].node /\ Twin[p] \in fs'[0].opq
    BY <1>2, <2>1, ZeroFirst DEF AddOpaque, BranchStates
  <2>5. SameCall(call, cleared) /\ cleared.do_copyup = call.do_copyup
    BY <1>2 DEF SameCall, Calls, CallView, RenameView
  <2> HIDE DEF cleared
  <2>6. CallView(fs', "whiteout", cleared, before)
    BY <1>2, <1>4, <2>3, <2>4, <2>5 DEF CallView, RenameView, SameCall
  <2> QED BY <1>6, <2>6, GoesOn DEF Steps
<1> QED BY <1>4, <1>5, <1>6 DEF make_opaque

LEMMA NothingTakenBack ==
    ASSUME Known, Faults = {}, revert_rename
    PROVE  FALSE
<1>1. pc = "revert" /\ ~oops
  BY DEF revert_rename, At
<1> QED BY <1>1, InTheMiddle DEF RenameInv

-----------------------------------------------------------------------------
(* A call ends.                                                            *)

\* What a rename of p has made of the view v.
Exchanged(v, p) ==
    [q \in Paths |-> IF q \in Subtree(p) THEN None
                     ELSE IF q \in Subtree(Twin[p]) THEN v[Twin[q]]
                     ELSE v[q]]

LEMMA WhiteoutView ==
    ASSUME Known, Faults = {}, whiteout_source
    PROVE  /\ Ends("rename", call.old, "ok") /\ call.old \in Names
           /\ pc # "idle" /\ before[call.old] # None /\ MayReplace(call.old, before)
           /\ View(fs') = Exchanged(before, call.old)
<1> DEFINE p == call.old
           t == Twin[p]
           b == call.bwh_old
<1>1. pc = "whiteout" /\ ~oops /\ Inv
  BY DEF whiteout_source, At, Known
<1>2. /\ call \in Calls /\ Setting /\ Reliable /\ AllSound /\ p \in Names /\ Old = p
      /\ t \in Names /\ p # t /\ Twin[t] = p /\ New = t
      /\ call.op = "rename" /\ RenameInv /\ call.old_bstart \in Branches
      /\ fs \in [Branches -> SoundBranches] /\ fs[0] \in SoundBranches
      /\ CallView(fs, "whiteout", call, before)
  BY <1>1, InTheMiddle
<1>3. /\ RenameView(fs, "whiteout", call, before) /\ before[p] # None
      /\ \A q \in Away(p) : View(fs)[q] = before[q]
  BY <1>2 DEF CallView
<1>4. /\ MayReplace(p, before) /\ call.err = "none" /\ 0 \in call.moved
      /\ \A q \in Subtree(p) : fs[0].node[Twin[q]] = before[q]
      /\ call.dir = (before[p] = Dir) /\ (call.dir => t \in fs[0].opq)
  BY <1>3 DEF RenameView
<1>5. Top(p) = None /\ call.wh_old = "whiteout" /\ p \notin fs[0].wh
  BY <1>1, <1>2 DEF RenameInv
<1>6. b = 0
  <2>1. Locals(call)
    BY <1>1 DEF Inv, RInv, CallInv
  <2>2. b \in Branches /\ ~IsRobranch(b)
    BY <1>2, <1>5, <2>1, CallFields DEF Locals
  <2> QED BY <1>2, <2>2, OnlyFirst
<1>7. Returns(call.err) /\ \/ ~WhiteoutDue /\ UNCHANGED fs
                           \/ fs' = AddWhiteout(fs, 0, p)
  BY <1>2, <1>5, <1>6 DEF whiteout_source
<1>8. Ends("rename", p, "ok")
  BY <1>2, <1>4, <1>7 DEF Returns
<1>9. fs'[0] \in SoundBranches
  <2>1. SoundInv'
    BY <1>1, WhiteoutSound
  <2> QED BY <2>1, ZeroFirst DEF SoundInv, AllSound
<1>10. /\ \A x \in Branches \ {0} : fs'[x] = fs[x]
       /\ fs'[0].node = fs[0].node /\ fs'[0].opq = fs[0].opq
       /\ \A q \in Away(p) : q \in fs'[0].wh <=> q \in fs[0].wh
  <2>1. fs[0] \in BranchStates /\ p \notin Away(p)
    BY <1>2 DEF SoundBranches, Away, Subtree
  <2> QED BY <1>2, <1>7, <2>1, ZeroFirst DEF AddWhiteout, BranchStates
<1>11. \A q \in Away(p) : View(fs')[q] = before[q]
  <2>1. Touches(fs, fs', p)
    BY <1>10 DEF Touches
  <2> QED BY <1>2, <1>3, <2>1, AwayStays
<1>12. View(fs')[p] = None
  <2>1. p \in Paths /\ Parent[p] = Root
    BY <1>2 DEF Names
  <2>2. CASE fs' = AddWhiteout(fs, 0, p)
    <3>1. p \in fs'[0].wh
      BY <1>2, <2>2, ZeroFirst DEF AddWhiteout, SoundBranches, BranchStates
    <3> QED BY <1>9, <2>1, <3>1, TopSeen
  <2>3. CASE ~WhiteoutDue /\ UNCHANGED fs
    <3>1. call.old_bend = 0
      BY <1>3, <2>3 DEF WhiteoutDue, RenameView
    <3>2. \A x \in Branches : fs[x].node[p] = None
      BY <1>3, <1>5, <3>1 DEF RenameView, Top
    <3>3. Unhidden(fs, p, Branches) = {}
      BY <3>2 DEF Unhidden
    <3>4. View(fs)[p] = ViewOf(fs, p, Branches)
      BY <2>1, ViewDef
    <3> QED BY <2>3, <3>3, <3>4 DEF ViewOf
  <2> QED BY <1>7, <2>2, <2>3
<1>13. \A q \in Subtree(p) : View(fs')[q] = None
  <2>1. \A q \in Below(p) : View(fs')[q] = None
    BY <1>2, <1>12, ViewIsTree, ValuesAssumption
  <2> QED BY <1>12, <2>1 DEF Subtree
<1>14. ASSUME NEW q \in Subtree(t) PROVE fs'[0].node[q] = before[Twin[q]]
  <2>1. q \in Paths /\ Twin[q] \in Paths /\ Twin[Twin[q]] = q
    BY <1>2, TwinAssumption DEF Subtree, Below, Names
  <2>2. Twin[q] \in Subtree(p)
    BY <1>2, <2>1, TwinSubtree
  <2> QED BY <1>4, <1>10, <2>1, <2>2
<1>15. fs'[0].node[t] = before[p] /\ View(fs')[t] = before[p]
  <2>1. t \in Subtree(t) /\ t \in Paths
    BY <1>2 DEF Subtree, Names
  <2>2. fs'[0].node[t] = before[p]
    BY <1>2, <1>14, <2>1
  <2> QED BY <1>3, <1>9, <2>1, <2>2, TopSeen
<1>16. \A q \in Below(t) : View(fs')[q] = fs'[0].node[q]
  <2>1. CASE call.dir
    <3>1. Layers(fs')[t] \subseteq {0}
      BY <1>2, <1>4, <1>9, <1>10, <2>1, OpaqueOnTop
    <3>2. OnTop(fs', t)
      BY <3>1 DEF OnTop
    <3> QED BY <1>2, <1>9, <3>2, OnTopBelow
  <2>2. CASE ~call.dir
    <3>1. before[p] # Dir
      BY <1>4, <2>2
    <3>2. \A q \in Below(t) : View(fs')[q] = None
      BY <1>2, <1>15, <3>1, ViewIsTree
    <3>3. \A q \in Below(t) : fs'[0].node[q] = None
      BY <1>2, <1>9, <1>15, <3>1, NothingUnder
    <3> QED BY <3>2, <3>3
  <2> QED BY <2>1, <2>2
<1>17. \A q \in Subtree(t) : View(fs')[q] = before[Twin[q]]
  BY <1>14, <1>15, <1>16 DEF Subtree
<1>18. View(fs') = [q \in Paths |-> View(fs')[q]]
  BY DEF View
<1>19. \A q \in Paths : View(fs')[q] = Exchanged(before, p)[q]
  BY <1>11, <1>13, <1>17 DEF Exchanged, Away
<1>20. View(fs') = Exchanged(before, p)
  BY <1>18, <1>19 DEF Exchanged
<1> QED BY <1>1, <1>2, <1>3, <1>4, <1>8, <1>20

LEMMA LinkUnlinkView ==
    ASSUME Known, Faults = {}, link_unlink
    PROVE  ViewGoesOn
<1> DEFINE b == call.n.bstart
           p == call.old
<1>1. pc = "link" /\ ~oops /\ LinkWhiteout
  BY DEF link_unlink, At
<1>2. /\ call \in Calls /\ Setting /\ AllSound /\ p \in Names /\ call.op = "link"
      /\ New = Twin[p] /\ Twin[p] \in Names
      /\ CallView(fs, "link", call, before) /\ LinkView(fs, "link", call, before)
  BY <1>1, InTheMiddle
<1>3. b = 0 /\ ~IsRobranch(b)
  <2>1. b \in Branches
    BY <1>2, CallFields, DentryFields
  <2> QED BY <1>1, <1>2, <2>1, OnlyFirst DEF LinkWhiteout, AllSound, Pristine
<1>4. fs' = DelWhiteout(fs, 0, Twin[p]) /\ Goto("link", call)
  BY <1>2, <1>3 DEF link_unlink
<1>5. NewNameOnly(fs, fs', p)
  BY <1>2, <1>4, MarksOfNew DEF Nodes
<1>6. /\ View(fs')[p] = View(fs)[p] /\ \A q \in Away(p) : View(fs')[q] = View(fs)[q]
      /\ fs'[0].node = fs[0].node
  <2>1. fs \in [Branches -> SoundBranches] /\ 0 \in Branches
    BY <1>2, ZeroFirst DEF AllSound
  <2>2. fs[0] \in BranchStates
    BY <2>1 DEF SoundBranches
  <2>3. fs'[0].node = fs[0].node
    BY <1>4, <2>1, <2>2 DEF DelWhiteout, BranchStates
  <2> QED BY <1>2, <1>5, <2>3, OldNameStays
<1>7. CallView(fs', "link", call, before)
  BY <1>2, <1>6 DEF CallView, LinkView
<1> QED BY <1>4, <1>7, GoesOn DEF Steps

LEMMA LinkViewStep ==
    ASSUME Known, Faults = {}, vfs_link
    PROVE  \/ ViewGoesOn
           \/ /\ Ends("link", call.old, "ok") /\ call.old \in Names /\ pc # "idle"
              /\ before[call.old] \notin {None, Dir} /\ before[Twin[call.old]] = None
              /\ View(fs') = [q \in Paths |-> IF q = Twin[call.old] THEN before[call.old]
                                              ELSE before[q]]
<1> DEFINE b == IF call.stage = "second" THEN call.bindex ELSE call.old_bstart
           next == [call EXCEPT !.bindex = b - 1]
           p == call.old
           t == Twin[p]
           x == before[p]
<1>1. pc = "link" /\ ~oops /\ Inv
  BY DEF vfs_link, At, Known
<1>2. /\ call \in Calls /\ Setting /\ AllSound /\ p \in Names /\ call.op = "link"
      /\ New = t /\ t \in Names /\ Old = p /\ p # t /\ Twin[t] = p
      /\ call.old_bstart \in Branches /\ call.stage \in {"first", "second", "back"}
      /\ fs \in [Branches -> SoundBranches] /\ fs[0] \in SoundBranches
      /\ fs[call.old_bstart].node[Held] = x /\ ElsewhereIs("link", call)
      /\ CallView(fs, "link", call, before) /\ LinkView(fs, "link", call, before)
  BY <1>1, InTheMiddle, CallFields
<1>3. /\ x \notin {None, Dir} /\ before[t] = None
      /\ \A q \in Below(p) \cup Below(t) : before[q] = None
      /\ fs[0].node[t] = None /\ call.stage \in {"first", "second"}
      /\ View(fs)[p] = x
      /\ \A q \in Away(p) : View(fs)[q] = before[q]
      /\ call.stage = "first" /\ call.old_bstart # 0 => fs[0].node[p] = None
      /\ call.stage = "second" => fs[0].node[p] = x
  BY <1>2 DEF CallView, LinkView
<1>4. call.stage = "second" => b = 0
  BY <1>1, <1>2 DEF Inv, TypeInv, InRange, Setting
<1>5. b \in Branches /\ (~IsRobranch(b) <=> b = 0)
  BY <1>2, <1>4, OnlyFirst, ZeroFirst
<1>6. CASE IsRobranch(b)
  <2>1. UNCHANGED fs /\ Goto("copyup", next)
    BY <1>6 DEF vfs_link
  <2>2. call.stage = "first" /\ call.old_bstart # 0 /\ b = call.old_bstart /\ b # 0
    BY <1>3, <1>4, <1>5, <1>6
  <2>3. b - 1 # -1
    BY <2>2
  <2>4. SameCall(call, next) /\ next.bindex = b - 1 /\ next.stage = call.stage
    BY <1>2 DEF SameCall, Calls
  <2> HIDE DEF next, b
  <2>5. CallView(fs', "copyup", next, before)
    BY <1>2, <1>3, <2>1, <2>2, <2>3, <2>4, LinkWaits
  <2> QED BY <2>1, <2>5, GoesOn DEF Steps
<1>7. CASE ~IsRobranch(b)
  <2>1. b = 0
    BY <1>5, <1>7
  <2>2. fs[0].node[p] = x
    <3>1. CASE call.stage = "first"
      <4>1. call.old_bstart = 0 /\ call.moved = {}
        BY <1>2, <2>1, <3>1 DEF ElsewhereIs
      <4> QED BY <1>2, <4>1 DEF Held
    <3> QED BY <1>3, <3>1
  <2>3. fs' = SetNode(fs, 0, t, x) /\ Returns("none")
    <3>1. /\ fs[b].node[New] = None
      BY <1>2, <1>3, <2>1
    <3>2. fs' = SetNode(fs, b, New, fs[b].node[Old]) /\ Returns("none")
      <4> HIDE DEF b
      <4> QED BY <1>7, <3>1 DEF vfs_link, b
    <3> QED BY <1>2, <2>1, <2>2, <3>2
  <2>4. Ends("link", p, "ok")
    BY <1>2, <2>3 DEF Returns
  <2>5. fs'[0] \in SoundBranches
    <3>1. SoundInv'
      BY <1>1, LinkSound
    <3> QED BY <3>1, ZeroFirst DEF SoundInv, AllSound
  <2>6. x \in Nodes
    <3>1. p \in Paths /\ fs[0] \in BranchStates
      BY <1>2 DEF SoundBranches, Names
    <3>2. fs[0].node[p] \in Nodes
      BY <3>1 DEF BranchStates
    <3> QED BY <2>2, <3>2
  <2>7. NewNameOnly(fs, fs', p) /\ fs'[0].node[t] = x
    <3>1. NewNameOnly(fs, fs', p)
      <4> HIDE DEF x
      <4> QED BY <1>2, <2>3, <2>6, MarksOfNew
    <3>2. fs'[0].node[t] = x
      <4> HIDE DEF x
      <4> QED BY <1>2, <2>3, <2>6, ZeroFirst DEF SetNode, SoundBranches, BranchStates, Names
    <3> QED BY <3>1, <3>2
  <2>8. /\ View(fs')[p] = x
        /\ \A q \in Away(p) : View(fs')[q] = before[q]
    BY <1>2, <1>3, <2>7, OldNameStays
  <2>9. View(fs')[t] = x
    BY <1>2, <1>3, <2>5, <2>7, TopSeen DEF Names
  <2>10. \A q \in Below(p) \cup Below(t) : View(fs')[q] = None
    BY <1>2, <1>3, <2>8, <2>9, ViewIsTree
  <2>11. \A q \in Paths : View(fs')[q] = IF q = t THEN x ELSE before[q]
    <3> SUFFICES ASSUME NEW q \in Paths
                 PROVE  View(fs')[q] = IF q = t THEN x ELSE before[q]
      OBVIOUS
    <3>1. q \in Away(p) \/ q \in {p, t} \/ q \in Below(p) \cup Below(t)
      BY DEF Away, Subtree
    <3>2. CASE q \in Away(p)
      BY <2>8, <3>2 DEF Away, Subtree
    <3>3. CASE q \in {p, t}
      BY <1>2, <2>8, <2>9, <3>3
    <3>4. CASE q \in Below(p) \cup Below(t)
      <4>1. q # t
        BY <1>2, <3>4, BelowName
      <4> QED BY <1>3, <2>10, <3>4, <4>1
    <3> QED BY <3>1, <3>2, <3>3, <3>4
  <2>12. View(fs') = [q \in Paths |-> View(fs')[q]]
    BY DEF View
  <2> QED BY <1>1, <1>2, <1>3, <2>4, <2>11, <2>12
<1> QED BY <1>6, <1>7

\* After a crash, all of the source is under one of its names.
LEMMA CrashView ==
    ASSUME Known, Faults = {}, Crash
    PROVE  /\ pc # "idle" /\ call.old \in Names /\ call.op \in {"rename", "link"}
           /\ Ends(call.op, call.old, IF pc = "copydata" THEN "torn" ELSE "crash")
           /\ UNCHANGED fs
           /\ \A q \in Away(call.old) : View(fs)[q] = before[q]
           /\ pc # "copydata" =>
                \A q \in Subtree(call.old) :
                    before[q] # None => before[q] \in {View(fs)[q], View(fs)[Twin[q]]}
<1> DEFINE p == call.old
<1>1. /\ pc # "idle" /\ ~oops /\ UNCHANGED fs
      /\ Ends(call.op, Old, IF pc = "copydata" THEN "torn" ELSE "crash")
  BY DEF Crash
<1>2. /\ p \in Names /\ call.op \in {"rename", "link"} /\ Old = p
      /\ CallView(fs, pc, call, before) /\ fs[0] \in SoundBranches
  BY <1>1, InTheMiddle
<1>3. ASSUME pc # "copydata", NEW q \in Subtree(p), before[q] # None
      PROVE  before[q] \in {View(fs)[q], View(fs)[Twin[q]]}
  <2>1. q \in Paths /\ Twin[q] \in Paths
    BY <1>2, TwinAssumption DEF Subtree, Below, Names
  <2>2. CASE call.op = "link"
    BY <1>2, <1>3, <2>2 DEF CallView, LinkView, Subtree
  <2>3. CASE call.op = "rename"
    <3>1. RenameView(fs, pc, call, before)
      BY <1>2, <2>3 DEF CallView
    <3>2. CASE 0 \in call.moved
      <4>1. fs[0].node[Twin[q]] = before[q]
        BY <1>3, <3>1, <3>2 DEF RenameView
      <4>2. View(fs)[Twin[q]] = fs[0].node[Twin[q]]
        BY <1>2, <1>3, <2>1, <4>1, TopSeen
      <4> QED BY <4>1, <4>2
    <3>3. CASE 0 \notin call.moved
      <4>1. CASE q = p
        BY <1>3, <3>1, <3>3, <4>1 DEF RenameView
      <4>2. CASE q # p
        <5>1. q \in Below(p)
          BY <4>2 DEF Subtree
        <5>2. fs[0].node[q] = before[q]
          BY <3>1, <3>3, <5>1 DEF RenameView
        <5>3. View(fs)[q] = fs[0].node[q]
          BY <1>2, <1>3, <2>1, <5>2, TopSeen
        <5> QED BY <5>2, <5>3
      <4> QED BY <4>1, <4>2
    <3> QED BY <3>2, <3>3
  <2> QED BY <1>2, <2>2, <2>3
<1> QED BY <1>1, <1>2, <1>3 DEF CallView

-----------------------------------------------------------------------------
(* The refinement.                                                         *)

\* What a user sees of the union while no call is half done.
Shown == IF pc = "idle" THEN View(fs) ELSE before

LEMMA ShownNext == Shown' = IF pc' = "idle" THEN View(fs') ELSE before'
BY DEF Shown

LEMMA CallViewNext == CallView(fs, pc, call, before)' = CallView(fs', pc', call', before')
BY DEF CallView

\* The view is a function.
LEMMA ViewIsFunction ==
    ASSUME NEW f
    PROVE  View(f) = [q \in Paths |-> View(f)[q]]
BY DEF View

LEMMA GoingOnIsHidden ==
    ASSUME ViewGoesOn, pc # "idle"
    PROVE  ViewInv' /\ UNCHANGED <<Shown, last>>
<1>1. ViewInv'
  BY CallViewNext DEF ViewInv, ViewGoesOn
<1>2. Shown' = Shown
  BY ShownNext DEF ViewGoesOn, Shown
<1> QED BY <1>1, <1>2 DEF ViewGoesOn

\* The steps of AtomicRename, said of the union.
LEMMA RenameShown ==
    ASSUME NEW p \in Names, Shown[p] # None, MayReplace(p, Shown),
           last' = [op |-> "rename", path |-> p, end |-> "ok"],
           Shown' = Exchanged(Shown, p)
    PROVE  AR!ARNext
<1>1. p \in Paths /\ Twin[p] \in Names /\ Twin[p] \in Paths /\ Twin[Twin[p]] = p
  BY NamesTwin, TwinAssumption
<1>2. \A q \in Paths : q \in Subtree(Twin[p]) <=> Twin[q] \in Subtree(p)
  BY <1>1, TwinSubtree
<1>3. AR!Subtree(p) = Subtree(p)
  BY <1>1 DEF AR!Subtree, Subtree
<1>4. Exchanged(Shown, p) = AR!Moved(Shown, p)
  BY <1>2, <1>3 DEF Exchanged, AR!Moved
<1>5. Shown = IF pc = "idle" THEN View(fs) ELSE before
  BY DEF Shown
<1>6. AR!Call("rename", p, AR!Moved(Shown, p))
  BY <1>4 DEF AR!Call, Shown
<1>7. AR!Rename(p)
  BY <1>1, <1>6 DEF AR!Rename, MayReplace, Shown
<1> QED BY <1>1, <1>7 DEF AR!ARNext

LEMMA RefusedShown ==
    ASSUME NEW p \in Names, Shown[p] # None,
           last' = [op |-> "rename", path |-> p, end |-> "error"], Shown' = Shown
    PROVE  AR!ARNext
<1>1. p \in Paths
  BY NamesTwin
<1>2. AR!Call("rename", p, AR!Moved(Shown, p))
  BY DEF AR!Call, Shown
<1>3. last'.end # "ok"
  OBVIOUS
<1>4. AR!Rename(p)
  BY <1>2, <1>3 DEF AR!Rename, Shown
<1> QED BY <1>1, <1>4 DEF AR!ARNext

LEMMA LinkShown ==
    ASSUME NEW p \in Names, Shown[p] \notin {None, Dir}, Shown[Twin[p]] = None,
           last' = [op |-> "link", path |-> p, end |-> "ok"],
           Shown' = [Shown EXCEPT ![Twin[p]] = Shown[p]]
    PROVE  AR!ARNext
<1>1. p \in Paths
  BY NamesTwin
<1>2. AR!Link(p)
  BY DEF AR!Link, AR!Call, Shown
<1> QED BY <1>1, <1>2 DEF AR!ARNext

LEMMA CrashShown ==
    ASSUME NEW p \in Names, NEW op \in {"rename", "link"}, NEW how \in {"crash", "torn"},
           last' = [op |-> op, path |-> p, end |-> how],
           \A q \in Away(p) : Shown'[q] = Shown[q],
           how = "crash" => \A q \in Subtree(p) :
                Shown[q] # None => Shown[q] \in {Shown'[q], Shown'[Twin[q]]}
    PROVE  AR!ARNext
<1>1. p \in Paths /\ Twin[p] \in Paths
  BY NamesTwin
<1>2. AR!Subtree(p) = Subtree(p) /\ AR!Subtree(Twin[p]) = Subtree(Twin[p])
  BY <1>1 DEF AR!Subtree, Subtree
<1>3. AR!Crash(op, p)
  BY <1>2 DEF AR!Crash, Away, Shown
<1> QED BY <1>1, <1>3 DEF AR!ARNext

LEMMA ViewStep ==
    ASSUME Known, Faults = {}, [Next]_vars
    PROVE  ViewInv' /\ [AR!ARNext]_<<Shown, last>>
<1>1. CASE UNCHANGED vars
  <2>1. Shown' = Shown /\ last' = last
    BY <1>1, ShownNext DEF Shown, vars
  <2>2. ViewInv'
    BY <1>1, CallViewNext DEF vars, ViewInv, Known
  <2> QED BY <2>1, <2>2
<1>2. ASSUME NEW p \in Names, unionfs_rename(p) \/ unionfs_link(p)
      PROVE  ViewInv' /\ [AR!ARNext]_<<Shown, last>>
  <2>1. Inv /\ AllSound
    BY DEF Known, Inv, SoundInv
  <2>2. CASE unionfs_rename(p) /\ Ends("rename", p, "error")
    <3>1. /\ pc = "idle" /\ UNCHANGED fs /\ ~IsNegative(fs, Lookup(fs, RootDentry, p), p)
          /\ pc' = "idle" /\ last' = [op |-> "rename", path |-> p, end |-> "error"]
      BY <2>2 DEF unionfs_rename, Ends, At
    <3>2. Shown = View(fs) /\ Shown' = Shown
      BY <3>1, ShownNext DEF Shown
    <3>3. View(fs)[p] # None
      BY <2>1, <3>1, ViewAtStart
    <3>4. AR!ARNext
      BY <3>1, <3>2, <3>3, RefusedShown
    <3> QED BY <3>1, <3>4 DEF ViewInv
  <2>3. CASE ~(unionfs_rename(p) /\ Ends("rename", p, "error"))
    <3>1. /\ pc = "idle" /\ pc' # "idle" /\ before' = View(fs)
          /\ UNCHANGED <<fs, last>>
          /\ CallView(fs, pc', call', View(fs))
      BY <1>2, <2>1, <2>3, RenameBeginsView, LinkBeginsView
    <3>2. CallView(fs', pc', call', before')
      BY <3>1
    <3>3. ViewInv'
      BY <3>2, CallViewNext DEF ViewInv
    <3>4. Shown' = Shown
      BY <3>1, ShownNext DEF Shown
    <3> QED BY <3>1, <3>3, <3>4
  <2> QED BY <2>2, <2>3
<1>3. CASE \/ delete_whiteouts \/ do_rename_unlink \/ do_rename \/ unlink_left
           \/ copyup_create \/ copyup_data \/ make_opaque \/ link_unlink
           \/ vfs_link /\ ViewGoesOn
  <2>1. pc # "idle"
    BY <1>3 DEF At, delete_whiteouts, do_rename_unlink, do_rename, unlink_left,
                copyup_create, copyup_data, make_opaque, link_unlink, vfs_link
  <2>2. ViewGoesOn
    BY <1>3, CleanView, RenameUnlinkView, DoRenameView, UnlinkLeftView, CopyupCreateView,
       CopyupDataView, OpaqueView, LinkUnlinkView
  <2> QED BY <2>1, <2>2, GoingOnIsHidden
<1>4. CASE whiteout_source
  <2> DEFINE p == call.old
  <2>1. /\ Ends("rename", p, "ok") /\ p \in Names
        /\ pc # "idle" /\ before[p] # None /\ MayReplace(p, before)
        /\ View(fs') = Exchanged(before, p)
    BY <1>4, WhiteoutView
  <2>2. pc' = "idle" /\ last' = [op |-> "rename", path |-> p, end |-> "ok"]
    BY <2>1 DEF Ends
  <2>3. Shown = before /\ Shown' = Exchanged(before, p)
    BY <2>1, <2>2, ShownNext DEF Shown
  <2>4. AR!ARNext
    BY <2>1, <2>2, <2>3, RenameShown
  <2> QED BY <2>2, <2>4 DEF ViewInv
<1>5. CASE vfs_link /\ ~ViewGoesOn
  <2> DEFINE p == call.old
  <2>1. /\ Ends("link", p, "ok") /\ p \in Names /\ pc # "idle"
        /\ before[p] \notin {None, Dir} /\ before[Twin[p]] = None
        /\ View(fs') = [q \in Paths |-> IF q = Twin[p] THEN before[p] ELSE before[q]]
    BY <1>5, LinkViewStep
  <2>2. pc' = "idle" /\ last' = [op |-> "link", path |-> p, end |-> "ok"]
    BY <2>1 DEF Ends
  <2>3. before = [q \in Paths |-> before[q]]
    BY DEF Known, Inv, TypeInv, TypeOK
  <2>4. View(fs') = [before EXCEPT ![Twin[p]] = before[p]]
    BY <2>1, <2>3
  <2>5. Shown = before /\ Shown' = [Shown EXCEPT ![Twin[p]] = Shown[p]]
    BY <2>1, <2>2, <2>4, ShownNext DEF Shown
  <2>6. AR!ARNext
    BY <2>1, <2>2, <2>5, LinkShown
  <2> QED BY <2>2, <2>6 DEF ViewInv
<1>6. CASE Crash
  <2> DEFINE p   == call.old
             how == IF pc = "copydata" THEN "torn" ELSE "crash"
  <2>1. /\ pc # "idle" /\ p \in Names /\ call.op \in {"rename", "link"}
        /\ Ends(call.op, p, how) /\ UNCHANGED fs
        /\ \A q \in Away(p) : View(fs)[q] = before[q]
        /\ pc # "copydata" =>
             \A q \in Subtree(p) :
                before[q] # None => before[q] \in {View(fs)[q], View(fs)[Twin[q]]}
    BY <1>6, CrashView
  <2>2. pc' = "idle" /\ last' = [op |-> call.op, path |-> p, end |-> how]
    BY <2>1 DEF Ends
  <2>3. Shown = before /\ Shown' = View(fs)
    BY <2>1, <2>2, ShownNext DEF Shown
  <2>4. how \in {"crash", "torn"} /\ (how = "crash" => pc # "copydata")
    OBVIOUS
  <2> HIDE DEF how
  <2>5. AR!ARNext
    BY <2>1, <2>2, <2>3, <2>4, CrashShown
  <2> QED BY <2>2, <2>5 DEF ViewInv
<1>7. CASE Next
  BY <1>2, <1>3, <1>4, <1>5, <1>6, <1>7, NothingTakenBack DEF Next
<1> QED BY <1>1, <1>7

\* Where the one writable branch lies over branches without whiteouts, however
\* many there are and whatever else they hold, and no lower file system fails, a
\* rename and a link happen at once for those who look at the union: one that
\* returns success has moved or linked just what it was asked to, one that is
\* refused has changed nothing, and if the machine stops between any two of the
\* writes, all of the source is there afterwards under the old name or the new
\* one, and no other name has changed.  While the data of a file is being copied
\* up, only the latter holds.
THEOREM RenameRefinesAtomic ==
    ASSUME Setting, Faults = {}
    PROVE  Pristine /\ Spec => RenameIsAtomic
<1>1. Pristine /\ Init => Known
  BY InitTyped, InitGood, InitSound DEF Known, Inv, KInv, SourceInv, ViewInv, Init, Start
<1>2. Known /\ [Next]_vars => Known' /\ [AR!ARNext]_<<Shown, last>>
  BY StepTyped, StepKeeps, StepSound, StepKept, ViewStep DEF Known, Inv, KInv
<1>3. Init => AR!ARInit
  BY DEF Init, Start, AR!ARInit
<1>4. [AR!ARNext]_<<Shown, last>> => [AR!ARNext]_AR!arvars
  BY DEF AR!arvars, Shown
<1> QED BY <1>1, <1>2, <1>3, <1>4, PTL DEF Spec, RenameIsAtomic, AR!ARSpec
=============================================================================
