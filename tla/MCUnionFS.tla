----------------------------- MODULE MCUnionFS -----------------------------
(***************************************************************************)
(* Small unions, cut from the tree                                         *)
(*     /etc  /etc/passwd  /etc/hosts  /etc/rc.d  /etc/rc.d/rc              *)
(***************************************************************************)
EXTENDS UnionFS

CONSTANTS slash, etc, passwd, hosts, rc_d, rc, data

FlatPaths == {etc, passwd}
WidePaths == {etc, passwd, hosts}
DeepPaths == {etc, rc_d, rc}

MCParent ==
    [p \in Paths |-> IF p = etc THEN slash ELSE IF p = rc THEN rc_d ELSE etc]
MCAbove ==
    [p \in Paths |-> IF p = etc THEN {} ELSE IF p = rc THEN {etc, rc_d} ELSE {etc}]

OneValue == {Empty}
TwoValues == {Empty, data}

\* The live CD as it boots: an empty tmpfs above the packed modules.
Fresh == [node |-> [p \in Paths |-> None], wh |-> {}, opq |-> {}]
FreshInit == Init /\ fs[0] = Fresh
FreshSpec == FreshInit /\ [][Next]_vars

\* An empty first branch over ordinary directories, none of which has been a
\* branch before.
PlainInit == FreshInit /\ \A b \in Branches : fs[b].wh = {} /\ fs[b].opq = {}
PlainSpec == PlainInit /\ [][Next]_vars
=============================================================================
