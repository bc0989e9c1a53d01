---------------------------- MODULE FileBdSeqStore ----------------------------
(***************************************************************************)
(* FileBdSeqStore (sequence.rs): the number as the text of a file that is  *)
(* replaced by renaming a temporary file over it.                          *)
(*                                                                         *)
(* fs::write creates or truncates the temporary file and then writes the   *)
(* text, and the rename is a system call of its own: each of the three may *)
(* fail, and between them other users run and processes die.  A file holds *)
(* a number, text that is none (Unreadable: it was truncated and not       *)
(* written yet), or is missing (None).  Nothing is synced, so a power loss *)
(* may leave the old file, the new one, or the new one without its text.   *)
(*                                                                         *)
(* A pid is used again by the process that follows one that died, with the *)
(* temporary files that one left behind.                                   *)
(***************************************************************************)
EXTENDS Integers

CONSTANTS Users, PathOf, PidOf, Numbers, None, Unreadable

Paths == {PathOf[u] : u \in Users}
Pids == {PidOf[u] : u \in Users}

\* What the trait asks of a number, and no two stores of one process on one path.
ASSUME FileStoreAssumption ==
    /\ 0 \in Numbers
    /\ None \notin Numbers
    /\ Unreadable \notin Numbers
    /\ None # Unreadable
    /\ \A u, w \in Users : PathOf[u] = PathOf[w] /\ PidOf[u] = PidOf[w] => u = w

VARIABLES
    file,       \* the contents of the file under each path
    tmp,        \* the contents of the temporary files
    doubtful,   \* what a power loss may leave under each path instead of file
    progress,   \* how far a user's store_next_death has come
    asked,      \* the number it was called with
    answer      \* what the last load_next_death returned, Unreadable for Err; None
                \* again once a store is called or ends

fileVars == <<file, tmp, doubtful, progress, asked, answer>>

Contents == Numbers \cup {None, Unreadable}

TmpNames == Paths \X Pids

\* Fault: the temporary file is not named after the process.
TmpName_NoPid(u) == <<PathOf[u], CHOOSE pid \in Pids : TRUE>>

TmpName(u) == <<PathOf[u], PidOf[u]>>

\* Fault: a file that is missing is an error.
Parse_MissingFails(text) == IF text = None THEN Unreadable ELSE text

\* What load_next_death makes of a file: a node that never connected starts at 0.
Parse(text) == IF text = None THEN 0 ELSE text

-----------------------------------------------------------------------------
(* load_next_death: one read. *)

Load(u) ==
    /\ progress[u] = "idle"
    /\ answer' \in {Parse(file[PathOf[u]]), Unreadable}
    /\ UNCHANGED <<file, tmp, doubtful, progress, asked>>

-----------------------------------------------------------------------------
(* store_next_death. *)

CallStore(u, n) ==
    /\ progress[u] = "idle"
    /\ progress' = [progress EXCEPT ![u] = "called"]
    /\ asked' = [asked EXCEPT ![u] = n]
    /\ answer' = None
    /\ UNCHANGED <<file, tmp, doubtful>>

\* fs::write opens the temporary file ...
Truncate(u) ==
    /\ progress[u] = "called"
    /\ progress' = [progress EXCEPT ![u] = "truncated"]
    /\ tmp' = [tmp EXCEPT ![TmpName(u)] = Unreadable]
    /\ UNCHANGED <<file, doubtful, asked, answer>>

\* ... and fills it.
Write(u) ==
    /\ progress[u] = "truncated"
    /\ progress' = [progress EXCEPT ![u] = "written"]
    /\ tmp' = [tmp EXCEPT ![TmpName(u)] = asked[u]]
    /\ UNCHANGED <<file, doubtful, asked, answer>>

Rename(u) ==
    /\ progress[u] = "written"
    /\ progress' = [progress EXCEPT ![u] = "idle"]
    /\ file' = [file EXCEPT ![PathOf[u]] = tmp[TmpName(u)]]
    /\ tmp' = [tmp EXCEPT ![TmpName(u)] = None]
    /\ doubtful' = [doubtful EXCEPT ![PathOf[u]] = @ \cup {file[PathOf[u]], Unreadable}]
    /\ asked' = [asked EXCEPT ![u] = None]
    /\ answer' = None

\* Any of the three fails and is returned; the temporary file stays as it is.
StoreFails(u) ==
    /\ progress[u] # "idle"
    /\ progress' = [progress EXCEPT ![u] = "idle"]
    /\ asked' = [asked EXCEPT ![u] = None]
    /\ answer' = None
    /\ UNCHANGED <<file, tmp, doubtful>>

-----------------------------------------------------------------------------
(* The environment. *)

ProcessDies(pid) ==
    LET Gone(u) == PidOf[u] = pid IN
    /\ progress' = [u \in Users |-> IF Gone(u) THEN "idle" ELSE progress[u]]
    /\ asked' = [u \in Users |-> IF Gone(u) THEN None ELSE asked[u]]
    /\ answer' = None
    /\ UNCHANGED <<file, tmp, doubtful>>

WriteBack(p) ==
    /\ doubtful[p] # {}
    /\ doubtful' = [doubtful EXCEPT ![p] = {}]
    /\ UNCHANGED <<file, tmp, progress, asked, answer>>

\* What the temporary files hold afterwards does not matter: a store truncates
\* its own first.
PowerLoss ==
    /\ file' \in [Paths -> Contents]
    /\ \A p \in Paths : file'[p] \in doubtful[p] \cup {file[p]}
    /\ doubtful' = [p \in Paths |-> {}]
    /\ progress' = [u \in Users |-> "idle"]
    /\ asked' = [u \in Users |-> None]
    /\ answer' = None
    /\ UNCHANGED tmp

-----------------------------------------------------------------------------

FileInit ==
    /\ file = [p \in Paths |-> None]
    /\ tmp = [t \in TmpNames |-> None]
    /\ doubtful = [p \in Paths |-> {}]
    /\ progress = [u \in Users |-> "idle"]
    /\ asked = [u \in Users |-> None]
    /\ answer = None

StoreSteps(u) == Truncate(u) \/ Write(u) \/ Rename(u) \/ StoreFails(u)

FileNext ==
    \/ \E u \in Users : Load(u) \/ StoreSteps(u)
    \/ \E u \in Users, n \in Numbers : CallStore(u, n)
    \/ \E pid \in Pids : ProcessDies(pid)
    \/ \E p \in Paths : WriteBack(p)
    \/ PowerLoss

FileSpec == FileInit /\ [][FileNext]_fileVars
-----------------------------------------------------------------------------
(* Properties. *)

\* Every file is missing, a number or unreadable, and a store stands at one of its
\* steps (FileBdSeqStore).
FileTypeOK ==
    /\ file \in [Paths -> Contents]
    /\ tmp \in [TmpNames -> Contents]
    /\ doubtful \in [Paths -> SUBSET Contents]
    /\ progress \in [Users -> {"idle", "called", "truncated", "written"}]
    /\ asked \in [Users -> Numbers \cup {None}]
    /\ answer \in Contents

\* A store that is about to rename finds in its temporary file the number it was
\* called with: no other process, crash or leftover has touched it
\* (store_next_death, "so sibling stores (or processes) never collide").
OwnTmp ==
    \A u \in Users :
        /\ progress[u] = "idle" <=> asked[u] = None
        /\ progress[u] = "written" => tmp[TmpName(u)] = asked[u]

Promised == INSTANCE BdSeqStore WITH
    stored <- [p \in Paths |-> Parse(file[p])],
    doubtful <- [p \in Paths |-> {Parse(text) : text \in doubtful[p]}]

\* The three steps on two files implement a number that is replaced at once or
\* not at all: a load returns the last number stored, and a store installs
\* exactly the number it was called with, whatever other users, crashes and
\* leftovers of earlier processes do in between (FileBdSeqStore, the temporary
\* name made of file name and pid).
StoreImplemented == Promised!StoreSpec
=============================================================================
