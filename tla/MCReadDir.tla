----------------------------- MODULE MCReadDir -----------------------------
(***************************************************************************)
(* A directory of a tmpfs over a module that does not have it and one that *)
(* does, and a module that is inserted.                                    *)
(***************************************************************************)
EXTENDS ReadDir, TLC

CONSTANTS tmpfs, bare, module, added, passwd, hosts, u1, u2

MCMounted == <<tmpfs, bare, module>>

\* The inserted branch whites out one name, n, and has the other.
AddedDir(n) ==
    [i \in 1 .. Slots |-> CASE i = 1 -> [name |-> passwd, wh |-> n = passwd]
                            [] i = 2 -> [name |-> hosts, wh |-> n = hosts]
                            [] OTHER -> NoEntry]
\* The CD has just booted, and nothing in /etc has been changed.
ModuleDir == [i \in 1 .. Slots |-> CASE i = 1 -> [name |-> passwd, wh |-> FALSE]
                                     [] i = 2 -> [name |-> hosts, wh |-> FALSE]
                                     [] OTHER -> NoEntry]
MCInit ==
    /\ \E n \in {passwd, hosts} :
        dir = [b \in Branch |-> CASE b = tmpfs -> [i \in 1 .. Slots |-> NoEntry]
                                  [] b = module -> ModuleDir
                                  [] OTHER -> AddedDir(n)]
    /\ Init
MCFairSpec == MCInit /\ [][Next]_vars /\ \A u \in Users : WF_vars(Kernel(u))
=============================================================================
