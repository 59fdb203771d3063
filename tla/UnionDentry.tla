---------------------------- MODULE UnionDentry ----------------------------
(***************************************************************************)
(* The private data of a Unionfs dentry and the name lookup that fills it  *)
(* in (lookup.c, unionfs_macros.h).                                        *)
(*                                                                         *)
(* A dentry d keeps  d.bstart, d.bend  the leftmost and the rightmost      *)
(* branch it uses, d.bopaque the branch where a whiteout or an opaque      *)
(* directory ends the name (-1: nowhere), and d.hid[b], its pointer to the *)
(* lower dentry of branch b:                                               *)
(*   "null"  no pointer                                                    *)
(*   "live"  the lower dentry of this name, whose node is the branch's     *)
(*   "dead"  a lower dentry whose object has been unlinked meanwhile       *)
(***************************************************************************)
EXTENDS UnionBranch

CONSTANTS
    NoDentry,   \* the name is not in the dentry cache
    Lost        \* an object that only a stale pointer still reaches

ASSUME NoDentryAssumption ==
    NoDentry \notin [bstart : Int, bend : Int, bopaque : Int,
                     hid : [Branches -> {"null", "live", "dead"}]]

ASSUME LostAssumption == Lost \notin Nodes

Pointers == {"null", "live", "dead"}

Dentries == [bstart : Branches, bend : Branches, bopaque : -1 .. NB - 1,
             hid : [Branches -> Pointers]]

\* Set up at mount: one directory per branch (parse_dirs_option).
RootDentry == [bstart |-> 0, bend |-> NB - 1, bopaque |-> -1,
               hid |-> [b \in Branches |-> "live"]]

\* Pointers to lower dentries in the branches S and nowhere else.
LiveIn(S) == [b \in Branches |-> IF b \in S THEN "live" ELSE "null"]

\* dtohd(d)->d_inode: the lower object that stands for the union's.
Object(fs, d, p) ==
    IF d.hid[d.bstart] = "dead" THEN Lost ELSE fs[d.bstart].node[p]

-----------------------------------------------------------------------------
(***************************************************************************)
(* unionfs_lookup_backend(dentry, INTERPOSE_LOOKUP): look the name p up in *)
(* every branch of the parent dentry pd, left to right.                    *)
(***************************************************************************)

\* The branches lo .. hi in which pd has a directory to look in.
Searched(fs, pd, p, lo, hi) ==
    {b \in Branches : /\ lo =< b /\ b =< hi
                      /\ pd.hid[b] = "live" /\ IsDir(fs, b, Parent[p])}

\* Mutant of UpTo: a later mark overrides an earlier one.
UpToLast(S, Ends) == {b \in S : Ends = {} \/ \E e \in Ends : b =< e}

\* S without what lies to the right of the leftmost branch of Ends.
UpTo(S, Ends) == {b \in S : \A e \in Ends : b =< e}

\* A whiteout of p ends the search, and so does an opaque directory.
WhiteoutIn(fs, p, S) == {b \in S : p \in fs[b].wh}
FoundIn(fs, p, S) == {b \in S : p \notin fs[b].wh /\ fs[b].node[p] # None}
\* Mutant of OpaqueIn: opaque directories do not end the search.
OpaqueIgnored(fs, p, S) == {}

OpaqueIn(fs, p, S) ==
    {b \in FoundIn(fs, p, S) : fs[b].node[p] = Dir /\ p \in fs[b].opq}

\* A file found first ends it too.
FirstFileIn(fs, p, S) ==
    {b \in FoundIn(fs, p, S) : /\ fs[b].node[p] # Dir
                               /\ \A c \in FoundIn(fs, p, S) : b =< c}

\* out_positive: pointers to everything found; dbend is where the search
\* ended, or else the last branch in which the name was found.
Lookup(fs, pd, p) ==
    LET S     == Searched(fs, pd, p, pd.bstart, pd.bend)
        marks == WhiteoutIn(fs, p, S) \cup OpaqueIn(fs, p, S)
        seen  == UpTo(S, marks \cup FirstFileIn(fs, p, S))
        found == FoundIn(fs, p, seen)
        hit   == marks \cap seen
        plain == {b \in seen : p \notin fs[b].wh}
        first == IF plain = {} THEN Leftmost(hit) ELSE Leftmost(plain)
    IN  IF found # {}
        THEN [bstart  |-> Leftmost(found),
              bend    |-> IF hit = {} THEN Rightmost(found) ELSE Leftmost(hit),
              bopaque |-> IF hit = {} THEN -1 ELSE Leftmost(hit),
              hid     |-> LiveIn(found)]
        \* out_negative: a lone pointer, to the leftmost branch searched that
        \* has no whiteout, or to the whiteout's.
        ELSE [bstart  |-> first,
              bend    |-> first,
              bopaque |-> IF hit = {} THEN -1 ELSE Leftmost(hit),
              hid     |-> LiveIn({first})]

IsNegative(fs, d, p) ==
    \A b \in Branches : d.hid[b] = "live" => fs[b].node[p] = None \/ p \in fs[b].wh

(***************************************************************************)
(* unionfs_partial_lookup(dentry): fill in the branches of pd, right of    *)
(* its first and left of where pd is opaque, that the lookup of the        *)
(* positive dentry d left out.  Files do not end this search.              *)
(***************************************************************************)
PartialLookup(fs, pd, d, p) ==
    LET last  == IF pd.bopaque # -1 /\ pd.bopaque < pd.bend
                 THEN pd.bopaque ELSE pd.bend
        S     == {b \in Searched(fs, pd, p, pd.bstart + 1, last) :
                      d.hid[b] = "null"}
        marks == WhiteoutIn(fs, p, S) \cup OpaqueIn(fs, p, S)
        found == FoundIn(fs, p, UpTo(S, marks))
    IN  [bstart  |-> d.bstart,
         bend    |-> IF marks # {} THEN Leftmost(marks)
                     ELSE IF found # {} THEN Rightmost(found) ELSE d.bend,
         bopaque |-> IF marks # {} THEN Leftmost(marks) ELSE d.bopaque,
         hid     |-> [b \in Branches |->
                         IF b \in found THEN "live" ELSE d.hid[b]]]

-----------------------------------------------------------------------------
(* The end of create_parents_named(dir, dentry, name, b).                  *)

\* Mutant of Pointed: the bounds are not set to what is kept.
PointedNowhere(f, d, p, b) ==
    [bstart |-> -1, bend |-> b, bopaque |-> d.bopaque, hid |-> LiveIn({b})]

\* The dentry itself: a pointer in b, the other negative ones dropped.
Pointed(f, d, p, b) ==
    LET range == {c \in Branches : /\ Leftmost({d.bstart, b}) =< c
                                   /\ c =< Rightmost({d.bend, b})}
        kept == {b} \cup {c \in range :
                            \/ d.hid[c] = "dead"
                            \/ d.hid[c] = "live" /\ f[c].node[p] # None}
    IN  [bstart  |-> Leftmost(kept),
         bend    |-> Rightmost(kept),
         bopaque |-> d.bopaque,
         hid     |-> [c \in Branches |-> IF c = b THEN "live"
                                        ELSE IF c \in range \ kept THEN "null"
                                        ELSE d.hid[c]]]
=============================================================================
