------------------------- MODULE FileBdSeqStore_proofs -------------------------
(***************************************************************************)
(* Proofs about FileBdSeqStore, for any users, paths and numbers: it       *)
(* implements BdSeqStore.  The invariant is OwnTmp; a step of the file     *)
(* system either changes nothing under the path or is the rename, which    *)
(* OwnTmp makes the abstract store's StoreOk.                              *)
(***************************************************************************)
EXTENDS FileBdSeqStore, TLAPS

FileInv == FileTypeOK /\ OwnTmp

\* Two users never share a temporary file (tmp, in store_next_death).
LEMMA TmpNamesDiffer ==
    ASSUME NEW u \in Users, NEW w \in Users, TmpName(u) = TmpName(w)
    PROVE  u = w
  BY FileStoreAssumption DEF TmpName

\* A temporary name is one of those that tmp ranges over.
LEMMA TmpNameInRange ==
    ASSUME NEW u \in Users
    PROVE  TmpName(u) \in TmpNames /\ PathOf[u] \in Paths
  BY DEF TmpName, TmpNames, Paths, Pids

\* The inductive invariant holds of a directory without any of the files.
LEMMA FileInitInv == FileInit => FileInv
  BY FileStoreAssumption DEF FileInit, FileInv, FileTypeOK, OwnTmp, Contents

\* Every step of a user, a crash and a power loss keep it.
LEMMA FileStepInv == FileInv /\ [FileNext]_fileVars => FileInv'
  <1> SUFFICES ASSUME FileInv, [FileNext]_fileVars PROVE FileInv'
    OBVIOUS
  <1> USE FileStoreAssumption DEF FileInv, FileTypeOK, OwnTmp, Contents
  <1>1. ASSUME NEW u \in Users, Load(u) PROVE FileInv'
    <2>1. Parse(file[PathOf[u]]) \in Contents
      BY TmpNameInRange DEF Parse
    <2> QED BY <1>1, <2>1 DEF Load
  <1>2. ASSUME NEW u \in Users, NEW n \in Numbers, CallStore(u, n) PROVE FileInv'
    BY <1>2 DEF CallStore
  <1>3. ASSUME NEW u \in Users, Truncate(u) PROVE FileInv'
    BY <1>3, TmpNamesDiffer, TmpNameInRange DEF Truncate
  <1>4. ASSUME NEW u \in Users, Write(u) PROVE FileInv'
    <2>1. asked[u] \in Numbers
      BY <1>4 DEF Write
    <2>2. FileTypeOK'
      BY <1>4, <2>1, TmpNameInRange DEF Write
    <2>3. OwnTmp'
      BY <1>4, TmpNamesDiffer, TmpNameInRange DEF Write
    <2> QED BY <2>2, <2>3
  <1>5. ASSUME NEW u \in Users, Rename(u) PROVE FileInv'
    <2>1. FileTypeOK'
      BY <1>5, TmpNameInRange DEF Rename
    <2>2. OwnTmp'
      BY <1>5, TmpNamesDiffer, TmpNameInRange DEF Rename
    <2> QED BY <2>1, <2>2
  <1>6. ASSUME NEW u \in Users, StoreFails(u) PROVE FileInv'
    BY <1>6 DEF StoreFails
  <1>7. ASSUME NEW pid \in Pids, ProcessDies(pid) PROVE FileInv'
    BY <1>7 DEF ProcessDies
  <1>8. ASSUME NEW p \in Paths, WriteBack(p) PROVE FileInv'
    BY <1>8 DEF WriteBack
  <1>9. ASSUME PowerLoss PROVE FileInv'
    BY <1>9 DEF PowerLoss
  <1>10. ASSUME UNCHANGED fileVars PROVE FileInv'
    BY <1>10 DEF fileVars
  <1> QED
    BY <1>1, <1>2, <1>3, <1>4, <1>5, <1>6, <1>7, <1>8, <1>9, <1>10
    DEF FileNext, StoreSteps

\* Every file, and every store under way, is in a state the code knows
\* (FileBdSeqStore).
THEOREM FileTypeCorrect == FileSpec => []FileTypeOK
  <1>1. FileInv => FileTypeOK
    BY DEF FileInv
  <1> QED
    BY FileInitInv, FileStepInv, <1>1, PTL DEF FileSpec

\* What a store renames is what it wrote itself, for any number of processes and
\* of stores in one process (store_next_death).
THEOREM OwnTmpHolds == FileSpec => []OwnTmp
  <1>1. FileInv => OwnTmp
    BY DEF FileInv
  <1> QED
    BY FileInitInv, FileStepInv, <1>1, PTL DEF FileSpec

-----------------------------------------------------------------------------
(* The refinement. *)

\* No file yet: every load gives 0 (load_next_death, NotFound).
LEMMA InitRefines == FileInit => Promised!StoreInit
  <1> SUFFICES ASSUME FileInit PROVE Promised!StoreInit
    OBVIOUS
  <1>1. [p \in Paths |-> Parse(file[p])] = [p \in Paths |-> 0]
    BY DEF FileInit, Parse
  <1>2. \A p \in Paths : {Parse(text) : text \in doubtful[p]} = {}
    BY DEF FileInit
  <1>3. [p \in Paths |-> {Parse(text) : text \in doubtful[p]}] = [p \in Paths |-> {}]
    BY <1>2
  <1>4. Promised!Paths = Paths
    BY DEF Promised!Paths, Paths
  <1> QED
    BY <1>1, <1>3, <1>4 DEF FileInit, Promised!StoreInit

\* Every step is one of the trait's or changes nothing it speaks of.
LEMMA StepRefines ==
    FileInv /\ [FileNext]_fileVars => [Promised!StoreNext]_(Promised!storeVars)
  <1> SUFFICES ASSUME FileInv, [FileNext]_fileVars
               PROVE  [Promised!StoreNext]_(Promised!storeVars)
    OBVIOUS
  <1>p. Promised!Paths = Paths /\ Promised!Pids = Pids
    BY DEF Promised!Paths, Paths, Promised!Pids, Pids
  <1> DEFINE Shown == [p \in Paths |-> Parse(file[p])]
             Doubts == [p \in Paths |-> {Parse(text) : text \in doubtful[p]}]
  <1>1. ASSUME NEW u \in Users, Load(u) PROVE Promised!Load(u) \/ Promised!LoadFails(u)
    BY <1>1, <1>p, TmpNameInRange
    DEF Load, Promised!Load, Promised!LoadFails, FileInv, OwnTmp
  <1>2. ASSUME NEW u \in Users, NEW n \in Numbers, CallStore(u, n)
        PROVE  Promised!CallStore(u, n)
    BY <1>2 DEF CallStore, Promised!CallStore, FileInv, OwnTmp
  <1>3. ASSUME NEW u \in Users, Truncate(u) \/ Write(u)
        PROVE  UNCHANGED Promised!storeVars
    BY <1>3 DEF Truncate, Write, Promised!storeVars
  <1>4. ASSUME NEW u \in Users, Rename(u) PROVE Promised!StoreOk(u)
    <2> DEFINE path == PathOf[u]
    <2>1. asked[u] \in Numbers /\ asked[u] # None /\ tmp[TmpName(u)] = asked[u]
      BY <1>4, FileStoreAssumption DEF Rename, FileInv, FileTypeOK, OwnTmp
    <2>2. path \in Paths
      BY TmpNameInRange
    <2>3. Shown' = [Shown EXCEPT ![path] = asked[u]]
      BY <1>4, <2>1, <2>2, FileStoreAssumption DEF Rename, Parse, FileInv, FileTypeOK
    <2>4. Doubts' = [Doubts EXCEPT ![path] = @ \cup {Shown[path], Unreadable}]
      <3>1. doubtful' = [doubtful EXCEPT ![path] = @ \cup {file[path], Unreadable}]
        BY <1>4 DEF Rename
      <3>2. Parse(Unreadable) = Unreadable /\ Shown[path] = Parse(file[path])
        BY <2>2, FileStoreAssumption DEF Parse
      <3>3. ASSUME NEW p \in Paths
            PROVE  {Parse(text) : text \in doubtful'[p]}
                     = [Doubts EXCEPT ![path] = @ \cup {Shown[path], Unreadable}][p]
        <4>1. CASE p = path
          BY <4>1, <3>1, <3>2, <2>2 DEF FileInv, FileTypeOK
        <4>2. CASE p # path
          BY <4>2, <3>1, <2>2 DEF FileInv, FileTypeOK
        <4> QED BY <4>1, <4>2
      <3> QED BY <3>3
    <2> QED
      BY <1>4, <2>1, <2>2, <2>3, <2>4, <1>p DEF Rename, Promised!StoreOk
  <1>5. ASSUME NEW u \in Users, StoreFails(u) PROVE Promised!StoreFails(u)
    BY <1>5 DEF StoreFails, Promised!StoreFails, FileInv, OwnTmp
  <1>6. ASSUME NEW pid \in Pids, ProcessDies(pid) PROVE Promised!ProcessDies(pid)
    BY <1>6 DEF ProcessDies, Promised!ProcessDies
  <1>7. ASSUME NEW p \in Paths, WriteBack(p) PROVE Promised!WriteBack(p)
    <2>1. Doubts' = [Doubts EXCEPT ![p] = {}]
      BY <1>7 DEF WriteBack, FileInv, FileTypeOK
    <2> QED BY <1>7, <2>1, <1>p DEF WriteBack, Promised!WriteBack
  <1>8. ASSUME PowerLoss PROVE Promised!PowerLoss
    <2>1. Shown' \in [Paths -> Numbers \cup {Unreadable}]
      BY <1>8, FileStoreAssumption DEF PowerLoss, Parse, Contents
    <2>2. \A p \in Paths : Shown'[p] \in Doubts[p] \cup {Shown[p]}
      BY <1>8 DEF PowerLoss
    <2>3. Doubts' = [p \in Paths |-> {}]
      BY <1>8 DEF PowerLoss
    <2> QED BY <1>8, <2>1, <2>2, <2>3, <1>p DEF PowerLoss, Promised!PowerLoss
  <1>9. ASSUME UNCHANGED fileVars PROVE UNCHANGED Promised!storeVars
    BY <1>9 DEF fileVars, Promised!storeVars
  <1> QED
    BY <1>1, <1>2, <1>3, <1>4, <1>5, <1>6, <1>7, <1>8, <1>9, <1>p
    DEF FileNext, StoreSteps, Promised!StoreNext

\* The file store keeps the trait's promise, for any users, paths and numbers
\* (FileBdSeqStore, BdSeqStore).
THEOREM FileStoreImplementsTrait == FileSpec => StoreImplemented
  <1>1. FileInv /\ FileInv' /\ [FileNext]_fileVars
            => [Promised!StoreNext]_(Promised!storeVars)
    BY StepRefines
  <1> QED
    BY FileInitInv, FileStepInv, InitRefines, <1>1, PTL
    DEF FileSpec, StoreImplemented, Promised!StoreSpec
=============================================================================
