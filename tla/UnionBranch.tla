---------------------------- MODULE UnionBranch ----------------------------
(***************************************************************************)
(* The branches of a union: the lower directory trees that Unionfs 1.3     *)
(* stacks, leftmost (branch 0) first, and what a user of the union should  *)
(* see of them.                                                            *)
(*                                                                         *)
(* A branch is one lower file system.  It maps every path of a finite name *)
(* space to a node (nothing, a directory, or a non-directory object with   *)
(* a value), and holds two kinds of bookkeeping entries that Unionfs puts  *)
(* next to the user's files:                                               *)
(*   wh   the paths  dir/name  for which  dir/.wh.name  exists (whiteout)  *)
(*   opq  the directories that contain  .wh.__dir_opaque                   *)
(***************************************************************************)
EXTENDS Integers, FiniteSets

CONSTANTS
    Paths,      \* every path of the name space except the root
    Root,       \* the root of the union
    Parent,     \* Parent[p]: the directory that holds p
    Above,      \* Above[p]: the proper ancestors of p below Root
    NB,         \* number of branches
    Writable,   \* branches mounted =rw
    Values,     \* what a non-directory object can hold (data and attributes)
    Empty,      \* the value of a file that has just been created
    None,       \* no entry
    Dir         \* a directory

Branches == 0 .. NB - 1

\* The paths form a finite tree under Root.
ASSUME PathsAssumption ==
    /\ IsFiniteSet(Paths) /\ Root \notin Paths
    /\ Parent \in [Paths -> Paths \cup {Root}]
    /\ Above \in [Paths -> SUBSET Paths]
    /\ \A p \in Paths :
        /\ p \notin Above[p]
        /\ Above[p] = IF Parent[p] = Root THEN {}
                      ELSE {Parent[p]} \cup Above[Parent[p]]
        /\ \A a \in Above[p] : Above[a] \subseteq Above[p]

\* parse_dirs_option insists on a writable first branch (main.c).
ASSUME BranchAssumption ==
    /\ NB \in Nat \ {0}
    /\ Writable \subseteq Branches
    /\ 0 \in Writable

ASSUME ValuesAssumption ==
    /\ Empty \in Values
    /\ None \notin Values
    /\ Dir \notin Values
    /\ None # Dir

AllPaths == Paths \cup {Root}
Nodes == Values \cup {None, Dir}
Children(q) == {c \in Paths : Parent[c] = q}
Below(q) == {c \in Paths : q \in Above[c]}

\* One branch; a union is a function from Branches to them.
BranchStates == [node : [Paths -> Nodes], wh : SUBSET Paths, opq : SUBSET Paths]
Unions == [Branches -> BranchStates]

\* "is_robranch_super": may branch b be written through the union?
IsRobranch(b) == b \notin Writable

Leftmost(S) == CHOOSE b \in S : \A c \in S : b =< c
Rightmost(S) == CHOOSE b \in S : \A c \in S : c =< b

-----------------------------------------------------------------------------
(***************************************************************************)
(* The lower file system's own operations, external to Unionfs, on the     *)
(* branches fs.  They are used only where they succeed.                    *)
(***************************************************************************)
IsDir(fs, b, q) == IF q = Root THEN TRUE ELSE fs[b].node[q] = Dir

SetNode(fs, b, p, n) == [fs EXCEPT ![b].node[p] = n]
AddWhiteout(fs, b, p) == [fs EXCEPT ![b].wh = @ \cup {p}]
DelWhiteout(fs, b, p) == [fs EXCEPT ![b].wh = @ \ {p}]
AddOpaque(fs, b, p) == [fs EXCEPT ![b].opq = @ \cup {p}]

-----------------------------------------------------------------------------
(***************************************************************************)
(* What the lower file system itself guarantees: every entry, whiteouts    *)
(* and opaque markers included, lives in a directory of the same branch.   *)
(***************************************************************************)
LowerTree(br) ==
    /\ \A p \in Paths :
        (br.node[p] # None \/ p \in br.wh) =>
            IF Parent[p] = Root THEN TRUE ELSE br.node[Parent[p]] = Dir
    /\ \A p \in br.opq : br.node[p] = Dir

\* A name is never both present and whited out in one branch.
Unambiguous(br) == \A p \in br.wh : br.node[p] = None

SoundBranches == {br \in BranchStates : LowerTree(br) /\ Unambiguous(br)}

-----------------------------------------------------------------------------
(***************************************************************************)
(* The merged view, stated without any of the code's machinery.            *)
(* Layers(fs)[q] is the set of branches whose directory q contributes      *)
(* names to the union's directory q.  A whiteout in a contributing         *)
(* directory hides the name in every branch to its right; an opaque        *)
(* directory is the last one that contributes; where a name is a           *)
(* directory in some branches and a file in others, the leftmost decides   *)
(* and files under a directory are passed over.                            *)
(***************************************************************************)
Unhidden(fs, p, L) ==
    {b \in L : /\ fs[b].node[p] # None
               /\ \A c \in L : c =< b => p \notin fs[c].wh}

Layers(fs) ==
    LET layer[q \in AllPaths] ==
          IF q = Root THEN Branches
          ELSE LET U == Unhidden(fs, q, layer[Parent[q]])
                   D == {b \in U : fs[b].node[q] = Dir}
               IN  IF U = {} THEN {}
                   ELSE IF Leftmost(U) \notin D THEN {}
                   ELSE {b \in D : \A c \in D : c < b => q \notin fs[c].opq}
    IN  layer

View(fs) ==
    LET L == Layers(fs)
    IN  [p \in Paths |->
            LET U == Unhidden(fs, p, L[Parent[p]])
            IN  IF U = {} THEN None ELSE fs[Leftmost(U)].node[p]]
=============================================================================
