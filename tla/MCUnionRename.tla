--------------------------- MODULE MCUnionRename ---------------------------
(***************************************************************************)
(* Two names in the root directory, /old and /new, each of which may be a  *)
(* file or a directory with one entry.                                     *)
(***************************************************************************)
EXTENDS UnionRename

CONSTANTS slash, old, new, old_x, new_x, data

MCPaths == {old, new, old_x, new_x}
MCParent == [p \in Paths |-> IF p = old_x THEN old ELSE IF p = new_x THEN new ELSE slash]
MCAbove == [p \in Paths |-> IF p = old_x THEN {old} ELSE IF p = new_x THEN {new} ELSE {}]
MCTwin ==
    [p \in Paths |-> IF p = old THEN new ELSE IF p = new THEN old
                     ELSE IF p = old_x THEN new_x ELSE old_x]

TwoValues == {Empty, data}

\* The branches in which one file is all a directory may hold, and those of
\* them that no union has written to before.
SmallBranches ==
    {br \in SoundBranches : \A q \in {old_x, new_x} : br.node[q] \in {None, data}}
PlainBranches == {br \in SmallBranches : br.opq = {} /\ br.wh = {}}

SmallInit ==
    /\ fs \in {[b \in Branches |-> IF b = 0 THEN first ELSE rest[b]] :
                first \in SmallBranches, rest \in [Branches \ {0} -> PlainBranches]}
    /\ Start

\* An empty first branch.
FreshInit ==
    /\ fs \in {[b \in Branches |->
                  IF b = 0 THEN [node |-> NoView, wh |-> {}, opq |-> {}] ELSE rest[b]] :
                rest \in [Branches \ {0} -> PlainBranches]}
    /\ Start

FreshSpec == FreshInit /\ [][Next]_vars
SmallSpec == SmallInit /\ [][Next]_vars
=============================================================================
