------------------------------ MODULE BdSeqStore ------------------------------
(***************************************************************************)
(* What the trait BdSeqStore promises the engines that use it: under each  *)
(* path one number, which a store replaces all at once or not at all.      *)
(*                                                                         *)
(* A user is an engine with its store; users of one process have the same  *)
(* pid, and users of one path share the number under it.  A process may    *)
(* die at any time.  A power loss kills all of them and may undo stores    *)
(* that the operating system has not brought to the disk yet: an older     *)
(* number comes back, or nothing that can be read, but never a number that *)
(* was not stored.                                                         *)
(***************************************************************************)
EXTENDS Integers

CONSTANTS
    Users,          \* engines, each with a store of its own
    PathOf,         \* the path of a user's store
    PidOf,          \* the process of a user
    Numbers,        \* the values of a u8
    None,
    Unreadable      \* what stands under a path is not a number

Paths == {PathOf[u] : u \in Users}
Pids == {PidOf[u] : u \in Users}

VARIABLES
    stored,     \* the number under each path, or Unreadable
    doubtful,   \* what a power loss may bring back instead of it
    asked,      \* the number a user's pending store_next_death was called with
    answer      \* what the last load_next_death returned, Unreadable for Err; None
                \* again once a store is called or ends

storeVars == <<stored, doubtful, asked, answer>>

-----------------------------------------------------------------------------

Load(u) ==
    /\ asked[u] = None
    /\ answer' = stored[PathOf[u]]
    /\ UNCHANGED <<stored, doubtful, asked>>

LoadFails(u) ==
    /\ asked[u] = None
    /\ answer' = Unreadable
    /\ UNCHANGED <<stored, doubtful, asked>>

CallStore(u, n) ==
    /\ asked[u] = None
    /\ asked' = [asked EXCEPT ![u] = n]
    /\ answer' = None
    /\ UNCHANGED <<stored, doubtful>>

\* The store returns Ok: the number under the path is the one it was called with.
StoreOk(u) ==
    /\ asked[u] # None
    /\ stored' = [stored EXCEPT ![PathOf[u]] = asked[u]]
    /\ doubtful' = [doubtful EXCEPT ![PathOf[u]] =
                        @ \cup {stored[PathOf[u]], Unreadable}]
    /\ asked' = [asked EXCEPT ![u] = None]
    /\ answer' = None

\* It returns Err: nothing has changed.
StoreFails(u) ==
    /\ asked[u] # None
    /\ asked' = [asked EXCEPT ![u] = None]
    /\ answer' = None
    /\ UNCHANGED <<stored, doubtful>>

ProcessDies(pid) ==
    /\ asked' = [u \in Users |-> IF PidOf[u] = pid THEN None ELSE asked[u]]
    /\ answer' = None
    /\ UNCHANGED <<stored, doubtful>>

\* The operating system writes back what it holds for path p.
WriteBack(p) ==
    /\ doubtful' = [doubtful EXCEPT ![p] = {}]
    /\ UNCHANGED <<stored, asked, answer>>

PowerLoss ==
    /\ stored' \in [Paths -> Numbers \cup {Unreadable}]
    /\ \A p \in Paths : stored'[p] \in doubtful[p] \cup {stored[p]}
    /\ doubtful' = [p \in Paths |-> {}]
    /\ asked' = [u \in Users |-> None]
    /\ answer' = None

-----------------------------------------------------------------------------

StoreInit ==
    /\ stored = [p \in Paths |-> 0]
    /\ doubtful = [p \in Paths |-> {}]
    /\ asked = [u \in Users |-> None]
    /\ answer = None

StoreNext ==
    \/ \E u \in Users :
          \/ Load(u)
          \/ LoadFails(u)
          \/ \E n \in Numbers : CallStore(u, n)
          \/ StoreOk(u)
          \/ StoreFails(u)
    \/ \E pid \in Pids : ProcessDies(pid)
    \/ \E p \in Paths : WriteBack(p)
    \/ PowerLoss

StoreSpec == StoreInit /\ [][StoreNext]_storeVars
=============================================================================
