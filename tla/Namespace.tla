----------------------------- MODULE Namespace -----------------------------
(***************************************************************************)
(* What a file system promises its users about names, whatever it is made  *)
(* of: one tree of directories and objects, in which an operation that     *)
(* reports success has exactly its effect and one that reports an error    *)
(* has none.  (Which errors are justified is a property of its own.)       *)
(***************************************************************************)
CONSTANTS Paths, Root, Parent, Values, Empty, None, Dir

VARIABLES
    view,   \* view[p]: the object at p, or None
    last    \* the last operation and what it returned

nsvars == <<view, last>>

Exists(p) == view[p] # None
IsDirectory(q) == q = Root \/ view[q] = Dir
IsEmptyDir(p) == \A c \in Paths : Parent[c] = p => view[c] = None

\* A call at p that puts v there when it succeeds; when it fails it changes
\* nothing that a user can see.
Call(op, p, v) ==
    \/ last' = [op |-> op, path |-> p, ok |-> TRUE]
       /\ view' = [view EXCEPT ![p] = v]
    \/ last' = [op |-> op, path |-> p, ok |-> FALSE] /\ UNCHANGED view

\* Any of create, mknod and symlink; v is the new object's value.
NewObject(op, p, v) == Call(op, p, v) /\ ~Exists(p) /\ IsDirectory(Parent[p])

Mkdir(p) == Call("mkdir", p, Dir) /\ ~Exists(p) /\ IsDirectory(Parent[p])

Unlink(p) == Call("unlink", p, None) /\ view[p] \in Values

Rmdir(p) ==
    /\ Call("rmdir", p, None)
    /\ view[p] = Dir
    /\ last'.ok => IsEmptyDir(p)

\* Change an object's attributes or truncate it; v is what it then holds.
\* (The attributes of a directory are not modelled.)
Setattr(p, v) ==
    \/ Call("setattr", p, v) /\ view[p] \in Values
    \/ Call("setattr", p, Dir) /\ view[p] = Dir

NSInit ==
    /\ view \in [Paths -> Values \cup {None, Dir}]
    /\ \A p \in Paths : Exists(p) => IsDirectory(Parent[p])
    /\ last = [op |-> "mount", path |-> Root, ok |-> TRUE]

NSNext ==
    \E p \in Paths :
        \/ NewObject("create", p, Empty)
        \/ \E v \in Values : NewObject("mknod", p, v) \/ NewObject("symlink", p, v)
        \/ Mkdir(p) \/ Unlink(p) \/ Rmdir(p)
        \/ \E v \in Values : Setattr(p, v)

NSSpec == NSInit /\ [][NSNext]_nsvars
=============================================================================
